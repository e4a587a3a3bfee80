-------------------------- MODULE MapRenderingProofs --------------------------
(***************************************************************************)
(* Proofs about MapRendering for any layers, extents and bounds: types;    *)
(* the job uses the cache of the canvas; a cancelled job never starts and  *)
(* leaves no trace; while projections are not switched under a cache,      *)
(* images fit the view; and if no layer asks to be drawn again while a job *)
(* with a cache runs, no image in the cache is outdated.                   *)
(***************************************************************************)
EXTENDS MapRendering, SequenceTheorems, FiniteSetTheorems, TLAPS

-----------------------------------------------------------------------------
(* The control state: job, cache and nested event loops.                   *)

IsSeq(s) == \E S : s \in Seq(S)

CacheShape(c) ==
    /\ c = [x \in {"on", "extent", "images"} |-> c[x]]
    /\ c.on \in BOOLEAN

JobShape(j) ==
    \/ j = NoJob
    \/ /\ j = [x \in {"status", "view", "tasks", "caching"} |-> j[x]]
       /\ j.status \in {"Preparing", "RenderingLayers", "RenderingLabels"}

FrameShape(f) ==
    /\ f = [x \in {"live", "view", "layers", "tasks", "next"} |-> f[x]]
    /\ f.live \in BOOLEAN

\* Only the innermost frame can be that of the job of the canvas.
FramesMatch(frames, j) ==
    /\ IsSeq(frames)
    /\ \A k \in 1..Len(frames) :
           /\ FrameShape(frames[k])
           /\ frames[k].live <=> (j.status = "Preparing" /\ k = Len(frames))
    /\ j.status = "Preparing" => frames # <<>>

\* The inductive invariant of the control state.
CInv ==
    /\ CacheShape(cache)
    /\ JobShape(job)
    /\ Active(job) => job.caching = cache.on
    /\ FramesMatch(nested, job)

\* No frame is that of a job of the canvas.
NoneLive(frames) ==
    /\ IsSeq(frames)
    /\ \A k \in 1..Len(frames) : FrameShape(frames[k]) /\ ~frames[k].live

\* A cancelled job leaves no frame that would go on.
LEMMA CancelKillsFrames ==
    ASSUME CInv
    PROVE  NoneLive(FramesAfterCancel)
<1>1. CASE job.status = "Preparing"
  <2> DEFINE n == Len(nested)
             dead == [nested[n] EXCEPT !.live = FALSE]
  <2>1. PICK S : nested \in Seq(S)
    BY DEF CInv, FramesMatch, IsSeq
  <2>2. n \in Nat /\ n > 0
    BY <1>1, <2>1 DEF CInv, FramesMatch
  <2>3. FrameShape(nested[n])
    BY <2>2 DEF CInv, FramesMatch
  <2>4. FrameShape(dead) /\ dead.live = FALSE
    BY <2>3 DEF FrameShape
  <2>5. FramesAfterCancel = [nested EXCEPT ![n] = dead]
    BY <1>1 DEF FramesAfterCancel
  <2> HIDE DEF dead
  <2>6. nested \in Seq(S \cup {dead})
    BY <2>1
  <2>7. FramesAfterCancel \in Seq(S \cup {dead})
    BY <2>2, <2>5, <2>6
  <2>8. Len(FramesAfterCancel) = n
    BY <2>2, <2>5, <2>6
  <2>9. \A k \in 1..n : FramesAfterCancel[k] = IF k = n THEN dead ELSE nested[k]
    BY <2>1, <2>5
  <2> HIDE DEF n
  <2>10. \A k \in 1..n : FrameShape(FramesAfterCancel[k]) /\ ~FramesAfterCancel[k].live
    <3> TAKE k \in 1..n
    <3>1. CASE k = n
      BY <2>4, <2>9, <3>1
    <3>2. CASE k # n
      BY <2>9, <3>2 DEF CInv, FramesMatch, n
    <3> QED BY <3>1, <3>2
  <2> QED BY <2>7, <2>8, <2>10 DEF NoneLive, IsSeq
<1>2. CASE job.status # "Preparing"
  BY <1>2 DEF FramesAfterCancel, CInv, FramesMatch, NoneLive
<1> QED BY <1>1, <1>2

\* Without a job in preparation, frames that are not live match.
LEMMA NoneLiveMatch ==
    ASSUME NEW frames, NoneLive(frames), NEW j, j.status # "Preparing"
    PROVE  FramesMatch(frames, j)
BY DEF NoneLive, FramesMatch

\* A live frame on top of dead ones matches the job it prepares.
LEMMA LiveOnTop ==
    ASSUME NEW below, NoneLive(below), NEW f, FrameShape(f), f.live = TRUE,
           NEW j, j.status = "Preparing"
    PROVE  FramesMatch(Append(below, f), j)
<1>1. PICK S : below \in Seq(S)
  BY DEF NoneLive, IsSeq
<1>2. below \in Seq(S \cup {f}) /\ f \in S \cup {f}
  BY <1>1
<1>3. Append(below, f) \in Seq(S \cup {f})
  BY <1>2
<1>4. /\ Len(below) \in Nat /\ Len(Append(below, f)) = Len(below) + 1
      /\ Append(below, f)[Len(below) + 1] = f
      /\ \A k \in 1..Len(below) : Append(below, f)[k] = below[k]
  BY <1>2
<1>5. Append(below, f) # <<>>
  BY <1>3, <1>4
<1>6. ASSUME NEW k \in 1..(Len(below) + 1)
      PROVE  /\ FrameShape(Append(below, f)[k])
             /\ Append(below, f)[k].live <=> k = Len(below) + 1
  <2>1. CASE k = Len(below) + 1
    BY <1>4, <2>1
  <2>2. CASE k # Len(below) + 1
    BY <1>4, <2>2 DEF NoneLive
  <2> QED BY <2>1, <2>2
<1> QED BY <1>3, <1>4, <1>5, <1>6 DEF FramesMatch, IsSeq

\* The frames below the innermost one are dead.
LEMMA FrontIsDead ==
    ASSUME CInv, nested # <<>>
    PROVE  /\ NoneLive(Front(nested))
           /\ FrameShape(Last(nested))
           /\ Last(nested).live <=> job.status = "Preparing"
<1>1. PICK S : nested \in Seq(S)
  BY DEF CInv, FramesMatch, IsSeq
<1>2. Len(nested) \in Nat /\ Len(nested) > 0
  BY <1>1
<1>3. /\ Front(nested) \in Seq(S)
      /\ Len(Front(nested)) = Len(nested) - 1
      /\ \A k \in 1..(Len(nested) - 1) : Front(nested)[k] = nested[k]
  <2> DEFINE n == Len(nested) - 1
  <2>1. 1 \in Int /\ n \in Int /\ n >= 0 /\ \A i \in 1..n : nested[i] \in S
    BY <1>1, <1>2
  <2> HIDE DEF n
  <2>2. /\ SubSeq(nested, 1, n) \in Seq(S)
        /\ Len(SubSeq(nested, 1, n)) = IF 1 <= n THEN n - 1 + 1 ELSE 0
        /\ \A i \in 1..(n - 1 + 1) : SubSeq(nested, 1, n)[i] = nested[1 + i - 1]
    BY <2>1, SubSeqProperties
  <2>3. n - 1 + 1 = n /\ \A i \in 1..n : 1 + i - 1 = i
    BY <2>1
  <2> QED BY <2>1, <2>2, <2>3 DEF Front, n
<1>4. Last(nested) = nested[Len(nested)]
  BY DEF Last
<1> QED BY <1>2, <1>3, <1>4 DEF CInv, FramesMatch, NoneLive, IsSeq

\* Whatever prepareJobs() does, it ends in a job that uses the cache, drawing
\* or with a frame of its own on top.
LEMMA PrepareControl ==
    ASSUME NEW f, FrameShape(f), f.live = TRUE, NEW below, NoneLive(below),
           NEW c, CacheShape(c), c.on = cache.on, NEW timer,
           Prepare(f, below, c, timer)
    PROVE  CInv'
<1>1. CacheShape(cache') /\ cache'.on = cache.on
  <2>1. PICK S : cache' = WithoutImages(c, S)
    BY DEF Prepare
  <2> QED BY <2>1 DEF WithoutImages, CacheShape
<1>2. CASE \E tasks : /\ job' = NewJob("RenderingLayers", f.view, tasks)
                      /\ nested' = below
  <2>1. /\ JobShape(job') /\ job'.caching = cache.on
        /\ job'.status = "RenderingLayers" /\ nested' = below
    BY <1>2 DEF NewJob, JobShape
  <2>2. FramesMatch(nested', job')
    BY <2>1, NoneLiveMatch
  <2> QED BY <1>1, <2>1, <2>2 DEF CInv
<1>3. CASE \E tasks, k : /\ job' = NewJob("Preparing", f.view, NoImages)
                         /\ nested' = Append(below,
                                [f EXCEPT !.tasks = tasks, !.next = k])
  <2>1. PICK g : FrameShape(g) /\ g.live = TRUE /\ nested' = Append(below, g)
    BY <1>3 DEF FrameShape
  <2>2. /\ JobShape(job') /\ job'.caching = cache.on /\ job'.status = "Preparing"
    BY <1>3 DEF NewJob, JobShape
  <2>3. FramesMatch(nested', job')
    BY <2>1, <2>2, LiveOnTop
  <2> QED BY <1>1, <2>2, <2>3 DEF CInv
<1> QED BY <1>2, <1>3 DEF Prepare

\* The cache keeps its shape in what a start or a cancellation does to it.
LEMMA CacheKept ==
    ASSUME NEW c, CacheShape(c), NEW w, NEW tasks, NEW stopped, NEW S
    PROVE  /\ CacheShape(CacheReady(c, w)) /\ CacheReady(c, w).on = c.on
           /\ CacheShape(WithoutImages(c, S)) /\ WithoutImages(c, S).on = c.on
           /\ CacheShape(CleanedUp(c, tasks, stopped))
           /\ CleanedUp(c, tasks, stopped).on = c.on
BY DEF CacheShape, CacheReady, WithoutImages, CleanedUp

\* A cache that is new has the shape.
LEMMA FreshShape ==
    ASSUME NEW on \in BOOLEAN
    PROVE  CacheShape(FreshCache(on)) /\ FreshCache(on).on = on
BY DEF CacheShape, FreshCache

\* A job of the canvas that is cancelled.
LEMMA NoJobControl ==
    ASSUME CacheShape(cache'), job' = NoJob, NoneLive(nested')
    PROVE  CInv'
<1>1. JobShape(job') /\ job'.status = "None"
  BY DEF JobShape, NoJob
<1>2. FramesMatch(nested', job')
  BY <1>1, NoneLiveMatch
<1> QED BY <1>1, <1>2 DEF CInv, Active

\* Without an event loop that waits there is no frame to go on.
LEMMA NoFrames == NoneLive(<<>>)
<1>1. <<>> \in Seq({})
  OBVIOUS
<1> QED BY <1>1 DEF NoneLive, IsSeq

\* Steps of the job that leave its cache and its frames alone.
LEMMA JobGoesOn ==
    ASSUME CInv, CacheShape(cache'), cache'.on = cache.on, nested' = nested,
           JobShape(job'), Active(job') => Active(job) /\ job'.caching = job.caching,
           job.status = "Preparing" <=> job'.status = "Preparing"
    PROVE  CInv'
BY DEF CInv, FramesMatch

\* A new job cancels the one before.
LEMMA RefreshMapControl ==
    ASSUME CInv, RefreshMap
    PROVE  CInv'
<1> DEFINE f == [live |-> TRUE, view |-> view, layers |-> canvasLayers,
                 tasks |-> NoImages, next |-> 1]
           c == CacheReady(CacheAfterCancel, view)
<1>1. Prepare(f, FramesAfterCancel, c, UpdatingAfterCancel)
  BY DEF RefreshMap
<1>2. FrameShape(f) /\ f.live = TRUE
  BY DEF FrameShape
<1>3. CacheShape(CacheAfterCancel) /\ CacheAfterCancel.on = cache.on
  BY CacheKept DEF CacheAfterCancel, CInv
<1>4. CacheShape(c) /\ c.on = cache.on
  BY <1>3, CacheKept
<1>5. NoneLive(FramesAfterCancel)
  BY CancelKillsFrames
<1> HIDE DEF f, c
<1> QED BY <1>1, <1>2, <1>4, <1>5, PrepareControl

\* After the answer from the network a live frame goes on with its job, and
\* one that was cancelled just ends.
LEMMA ReplyArrivesControl ==
    ASSUME CInv, ReplyArrives
    PROVE  CInv'
<1> DEFINE frame == Last(nested)
           l == BaseFirst[frame.next]
           resumed == [frame EXCEPT
               !.tasks = [k \in DOMAIN @ \cup {l} |->
                             IF k = l THEN TaskOf(l, frame.view, FreshCache(FALSE)) ELSE @[k]],
               !.next = @ + 1]
<1>1. /\ NoneLive(Front(nested)) /\ FrameShape(frame)
      /\ frame.live <=> job.status = "Preparing"
  BY FrontIsDead DEF ReplyArrives
<1>2. CASE frame.live
  <2>1. Prepare(resumed, Front(nested), cache, updating)
    BY <1>2 DEF ReplyArrives
  <2>2. FrameShape(resumed) /\ resumed.live = TRUE
    <3> HIDE DEF frame, l
    <3> QED BY <1>1, <1>2 DEF FrameShape
  <2>3. CacheShape(cache)
    BY DEF CInv
  <2> HIDE DEF resumed
  <2> QED BY <1>1, <2>1, <2>2, <2>3, PrepareControl
<1>3. CASE ~frame.live
  <2>1. nested' = Front(nested) /\ UNCHANGED <<job, cache>>
    BY <1>3 DEF ReplyArrives
  <2>2. job'.status # "Preparing"
    BY <1>1, <1>3, <2>1
  <2>3. FramesMatch(nested', job')
    BY <1>1, <2>1, <2>2, NoneLiveMatch
  <2> QED BY <2>1, <2>3 DEF CInv
<1> QED BY <1>2, <1>3

\* Workers and the end of a job.
LEMMA WorkControl ==
    ASSUME CInv,
           \/ \E l \in Layers : RenderLayer(l)
           \/ RenderLayersFinished
           \/ RenderingFinished
    PROVE  CInv'
<1>0. JobShape(job) /\ CacheShape(cache)
  BY DEF CInv
<1>1. ASSUME NEW l \in Layers, RenderLayer(l) PROVE CInv'
  <2>1. /\ job' = [job EXCEPT !.tasks[l] = Drawn(l)]
        /\ job.status = "RenderingLayers" /\ UNCHANGED <<cache, nested>>
    BY <1>1 DEF RenderLayer
  <2>2. JobShape(job') /\ job'.status = job.status /\ job'.caching = job.caching
    BY <1>0, <2>1 DEF JobShape, NoJob
  <2> QED BY <1>0, <2>1, <2>2, JobGoesOn DEF Active
<1>2. CASE RenderLayersFinished
  <2>1. /\ job' = [job EXCEPT !.status = "RenderingLabels"]
        /\ cache' = CleanedUp(cache, job.tasks, FALSE)
        /\ job.status = "RenderingLayers" /\ nested' = nested
    BY <1>2 DEF RenderLayersFinished
  <2>2. /\ JobShape(job') /\ job'.status = "RenderingLabels"
        /\ job'.caching = job.caching
    BY <1>0, <2>1 DEF JobShape, NoJob
  <2>3. CacheShape(cache') /\ cache'.on = cache.on
    BY <1>0, <2>1, CacheKept
  <2> QED BY <2>1, <2>2, <2>3, JobGoesOn DEF Active
<1>3. CASE RenderingFinished
  <2>1. /\ job' = NoJob /\ job.status = "RenderingLabels"
        /\ UNCHANGED <<cache, nested>>
    BY <1>3 DEF RenderingFinished
  <2>2. JobShape(job') /\ job'.status = "None"
    BY <2>1 DEF JobShape, NoJob
  <2> QED BY <1>0, <2>1, <2>2, JobGoesOn DEF Active
<1> QED BY <1>1, <1>2, <1>3

\* Changes of layers take images from the cache at most.
LEMMA LayerControl ==
    ASSUME CInv, LayerEvent
    PROVE  CInv'
<1>1. UNCHANGED <<job, nested>> /\ \E S : cache' = WithoutImages(cache, S) \/ cache' = cache
  BY DEF LayerEvent, LayerChanges, StartEditing, EditFeatures, StopEditing,
         RemoveMapLayer, LayerRequestedRepaint, jobVars
<1>2. CacheShape(cache') /\ cache'.on = cache.on
  BY <1>1, CacheKept DEF CInv
<1> QED BY <1>1, <1>2 DEF CInv, FramesMatch

\* The user's actions on the canvas: what touches a job or the cache ends the
\* job.
LEMMA CanvasControl ==
    ASSUME CInv, CanvasEvent
    PROVE  CInv'
<1>0. CacheShape(cache)
  BY DEF CInv
<1>1. CASE UNCHANGED jobVars
  BY <1>1 DEF CInv, jobVars
<1>2. CASE StopRendering
  <2>1. /\ cache' = CacheAfterCancel /\ nested' = FramesAfterCancel
        /\ job' = NoJob
    BY <1>2 DEF StopRendering
  <2>2. CacheShape(cache')
    BY <1>0, <2>1, CacheKept DEF CacheAfterCancel
  <2> QED BY <2>1, <2>2, CancelKillsFrames, NoJobControl
<1>3. ASSUME NEW on \in BOOLEAN, cache' = FreshCache(on), job' = NoJob,
             nested = <<>>, nested' = nested
      PROVE  CInv'
  BY <1>3, FreshShape, NoFrames, NoJobControl
<1>4. ASSUME NEW e \in Extents, ZoomTo(e) PROVE CInv'
  BY <1>1, <1>4 DEF ZoomTo
<1>5. CASE SetCrsTransformEnabled
  BY <1>1, <1>5 DEF SetCrsTransformEnabled
<1>6. CASE UserStopsRendering
  BY <1>2, <1>6 DEF UserStopsRendering
<1>7. CASE RefreshMapCanvas
  <2>1. cache.on \in BOOLEAN
    BY <1>0 DEF CacheShape
  <2> QED BY <1>3, <1>7, <2>1 DEF RefreshMapCanvas, UserEvent
<1>8. ASSUME NEW flag \in BOOLEAN, Freeze(flag) PROVE CInv'
  BY <1>1, <1>8 DEF Freeze
<1>9. ASSUME NEW flag \in BOOLEAN, SetRenderFlag(flag) PROVE CInv'
  BY <1>1, <1>2, <1>9 DEF SetRenderFlag
<1>10. ASSUME NEW flag \in BOOLEAN, SetCachingEnabled(flag) PROVE CInv'
  BY <1>3, <1>10 DEF SetCachingEnabled, UserEvent
<1> QED BY <1>4, <1>5, <1>6, <1>7, <1>8, <1>9, <1>10 DEF CanvasEvent

\* The control state is consistent at first and after every step.
LEMMA ControlInvariant == Spec => []CInv
<1>1. Init => CInv
  <2> SUFFICES ASSUME Init PROVE CInv
    OBVIOUS
  <2>1. CacheShape(cache)
    BY FreshShape DEF Init
  <2>2. JobShape(job) /\ job.status = "None"
    BY DEF Init, JobShape, NoJob
  <2>3. FramesMatch(nested, job)
    BY <2>2, NoFrames, NoneLiveMatch DEF Init
  <2> QED BY <2>1, <2>2, <2>3 DEF CInv, Active
<1>2. CInv /\ [Next]_vars => CInv'
  <2> SUFFICES ASSUME CInv, [Next]_vars PROVE CInv'
    OBVIOUS
  <2>1. CASE RefreshMap
    BY <2>1, RefreshMapControl
  <2>2. CASE ReplyArrives
    BY <2>2, ReplyArrivesControl
  <2>3. CASE (\E l \in Layers : RenderLayer(l)) \/ RenderLayersFinished \/ RenderingFinished
    BY <2>3, WorkControl
  <2>4. CASE SetCanvasLayers
    BY <2>4 DEF SetCanvasLayers, jobVars, CInv
  <2>5. CASE MapUpdateTimeout
    BY <2>5 DEF MapUpdateTimeout, CInv
  <2>6. CASE LayerEvent
    BY <2>6, LayerControl
  <2>7. CASE CanvasEvent
    BY <2>7, CanvasControl
  <2>8. CASE UNCHANGED vars
    BY <2>8 DEF vars, CInv
  <2> QED BY <2>1, <2>2, <2>3, <2>4, <2>5, <2>6, <2>7, <2>8 DEF Next, Rendering
<1> QED BY <1>1, <1>2, PTL DEF Spec

\* However jobs, event loops and changes of the cache follow each other, a job
\* never runs with a cache that setCachingEnabled() has deleted.
THEOREM JobsUseTheCanvasCache == Spec => []JobUsesCanvasCache
<1>1. CInv => JobUsesCanvasCache
  BY DEF CInv, JobUsesCanvasCache
<1> QED BY <1>1, ControlInvariant, PTL

\* For any depth of nested event loops: a job begins to draw only from
\* refreshMap(), or out of its own preparation while it is not cancelled.
THEOREM CancelledJobsNeverStart == Spec => CancelledJobNeverStarts
<1> DEFINE Starts == job'.status = "RenderingLayers" /\ job.status # "RenderingLayers"
           Rightly == job.status = "Preparing" \/ (scheduled /\ ~scheduled')
<1>1. ASSUME CInv, [Next]_vars, Starts PROVE Rightly
  <2>0. CASE UNCHANGED job
    BY <1>1, <2>0
  <2>1. CASE job' = NoJob
    BY <1>1, <2>1 DEF NoJob
  <2>2. CASE RefreshMap
    BY <2>2 DEF RefreshMap
  <2>3. CASE ReplyArrives
    <3>1. Last(nested).live <=> job.status = "Preparing"
      BY <1>1, <2>3, FrontIsDead DEF ReplyArrives
    <3> QED BY <2>0, <2>3, <3>1 DEF ReplyArrives
  <2>4. ASSUME NEW l \in Layers, RenderLayer(l) PROVE Rightly
    BY <1>1, <2>4 DEF RenderLayer
  <2>5. CASE RenderLayersFinished
    BY <1>1, <2>5 DEF RenderLayersFinished
  <2>6. CASE RenderingFinished
    BY <2>1, <2>6 DEF RenderingFinished
  <2>7. CASE SetCanvasLayers \/ MapUpdateTimeout
    BY <2>0, <2>7 DEF SetCanvasLayers, MapUpdateTimeout, jobVars
  <2>8. CASE LayerEvent
    BY <2>0, <2>8 DEF LayerEvent, LayerChanges, StartEditing, EditFeatures,
                      StopEditing, RemoveMapLayer, jobVars
  <2>9. CASE CanvasEvent
    BY <2>0, <2>1, <2>9 DEF CanvasEvent, ZoomTo, SetCrsTransformEnabled,
           UserStopsRendering, RefreshMapCanvas, Freeze, SetRenderFlag,
           SetCachingEnabled, StopRendering, jobVars
  <2>10. CASE UNCHANGED vars
    BY <2>0, <2>10 DEF vars
  <2> QED BY <1>1, <2>2, <2>3, <2>4, <2>5, <2>6, <2>7, <2>8, <2>9, <2>10
             DEF Next, Rendering
<1>2. CInv /\ [Next]_vars => [Starts => Rightly]_vars
  BY <1>1
<1>3. []CInv /\ [][Next]_vars => [][Starts => Rightly]_vars
  BY <1>2, PTL
<1> QED BY <1>3, ControlInvariant, PTL DEF Spec, CancelledJobNeverStarts

-----------------------------------------------------------------------------
(* The views of images.                                                    *)

\* The view for which a cache with an extent holds images.
CachedView(c, w) == [extent |-> c.extent, transformed |-> w.transformed]

ImageFits(i, w) == "view" \in DOMAIN i /\ i.view = w

CacheFits(c, w) ==
    /\ \A l \in DOMAIN c.images : ImageFits(c.images[l], CachedView(c, w))
    /\ ~c.on => DOMAIN c.images = {}

TasksFit(tasks, w) == \A l \in DOMAIN tasks : ImageFits(tasks[l].image, w)

JobFits(j, c, w) ==
    Active(j) => TasksFit(j.tasks, j.view) /\ (c.on => j.view = CachedView(c, w))

\* The frame of the job of the canvas works for the view of the job.
FramesFit(frames, j) ==
    \A k \in 1..Len(frames) :
        frames[k].live => /\ frames[k].view = j.view
                          /\ TasksFit(frames[k].tasks, j.view)

\* The inductive invariant of the views.
VInv ==
    /\ view \in Views
    /\ CacheFits(cache, view)
    /\ JobFits(job, cache, view)
    /\ FramesFit(nested, job)
    /\ ImagesFitView

\* A step that changes the view at most in its extent, and takes images from
\* the cache at most, keeps it.
LEMMA LessCached ==
    ASSUME CInv, VInv, view' \in Views,
           view'.transformed = view.transformed \/ ~cache.on,
           NEW S, cache' = WithoutImages(cache, S) \/ cache' = cache,
           UNCHANGED <<job, nested, shown>>
    PROVE  VInv'
<1>1. /\ cache'.on = cache.on /\ cache'.extent = cache.extent
      /\ DOMAIN cache'.images \subseteq DOMAIN cache.images
      /\ \A l \in DOMAIN cache'.images : cache'.images[l] = cache.images[l]
  BY DEF CInv, CacheShape, WithoutImages
<1>2. cache.on => CachedView(cache', view') = CachedView(cache, view)
  BY <1>1 DEF CachedView
<1>3. CacheFits(cache', view')
  BY <1>1, <1>2 DEF VInv, CacheFits
<1>4. JobFits(job', cache', view')
  BY <1>1, <1>2 DEF VInv, JobFits
<1> QED BY <1>3, <1>4 DEF VInv, ImagesFitView

\* What a job has drawn fits its view.
LEMMA ComposedFits ==
    ASSUME NEW j, TasksFit(j.tasks, j.view)
    PROVE  \A l \in DOMAIN Composed(j).images :
               Composed(j).images[l].view = Composed(j).view
<1>1. /\ Composed(j).view = j.view
      /\ DOMAIN Composed(j).images = Visible(j.tasks)
      /\ \A l \in Visible(j.tasks) : Composed(j).images[l] = j.tasks[l].image
  BY DEF Composed
<1>2. Visible(j.tasks) \subseteq DOMAIN j.tasks
  BY DEF Visible
<1> QED BY <1>1, <1>2 DEF TasksFit, ImageFits

\* A job that ends, or is cancelled, leaves a map that fits.
LEMMA NoJobFits ==
    ASSUME VInv, job' = NoJob, view' = view, CacheFits(cache', view'),
           \A k \in 1..Len(nested') : ~nested'[k].live,
           shown' = shown \/ \E j : shown' = Composed(j) /\ TasksFit(j.tasks, j.view)
    PROVE  VInv'
<1>1. JobFits(job', cache', view')
  BY DEF JobFits, Active, NoJob
<1>2. FramesFit(nested', job')
  BY DEF FramesFit
<1>3. ImagesFitView'
  <2>1. CASE shown' = shown
    BY <2>1 DEF VInv, ImagesFitView
  <2>2. ASSUME NEW j, shown' = Composed(j), TasksFit(j.tasks, j.view)
        PROVE  ImagesFitView'
    BY <2>2, ComposedFits DEF ImagesFitView
  <2> QED BY <2>1, <2>2
<1> QED BY <1>1, <1>2, <1>3 DEF VInv

\* Cancelling changes neither the cache's extent nor its images.
LEMMA CancelKeepsCache == CacheAfterCancel = cache
BY DEF CacheAfterCancel, CleanedUp

\* The images a new job finds in the cache were drawn for its view.
LEMMA ReadyFits ==
    ASSUME CInv, VInv
    PROVE  LET c == CacheReady(cache, view)
           IN  /\ CacheShape(c) /\ c.on = cache.on /\ CacheFits(c, view)
               /\ c.on => view = CachedView(c, view)
<1> DEFINE c == CacheReady(cache, view)
<1>1. CacheShape(c) /\ c.on = cache.on
  BY CacheKept DEF CInv
<1>2. CacheFits(c, view) /\ (c.on => c.extent = view.extent)
  <2>1. CASE cache.on /\ cache.extent # view.extent
    <3>1. c = [on |-> TRUE, extent |-> view.extent, images |-> NoImages]
      BY <2>1 DEF CacheReady
    <3>2. DOMAIN c.images = {} /\ c.extent = view.extent
      BY <3>1 DEF NoImages
    <3> HIDE DEF c
    <3> QED BY <3>2 DEF CacheFits
  <2>2. CASE ~(cache.on /\ cache.extent # view.extent)
    BY <2>2 DEF CacheReady, VInv
  <2> QED BY <2>1, <2>2
<1> HIDE DEF c
<1>3. c.on => view = CachedView(c, view)
  BY <1>2 DEF CachedView, VInv, Views
<1> QED BY <1>1, <1>2, <1>3 DEF c

\* A layer contributes a cached image that fits, or one for the view.
LEMMA TaskFits ==
    ASSUME NEW l, NEW w, NEW c, CacheFits(c, w), c.on => w = CachedView(c, w)
    PROVE  ImageFits(TaskOf(l, w, c).image, w)
BY DEF TaskOf, CacheFits, ImageFits

\* prepareJobs() gives its job images that fit the view it has.
LEMMA PrepareFits ==
    ASSUME CInv, VInv, NEW f, FrameShape(f), f.live = TRUE, TasksFit(f.tasks, f.view),
           NEW below, NoneLive(below), NEW c, CacheShape(c), c.on = cache.on,
           CacheFits(c, view),
           c.on => f.view = CachedView(c, view),
           NEW timer, Prepare(f, below, c, timer), UNCHANGED <<view, shown>>
    PROVE  VInv'
<1> DEFINE uncached == WithoutImages(c, LeftToPrepare(f) \cap ForcedLayers)
           waiting  == {l \in LeftToPrepare(f) \cap NetworkLayers :
                           l \notin DOMAIN uncached.images}
           before   == {l \in LeftToPrepare(f) :
                           \A n \in waiting : Position(l) < Position(n)}
           tasks    == [l \in DOMAIN f.tasks \cup before |->
                           IF l \in before THEN TaskOf(l, f.view, uncached)
                           ELSE f.tasks[l]]
<1>1. /\ cache' = WithoutImages(c, before \cap ForcedLayers)
      /\ \/ job' = NewJob("RenderingLayers", f.view, tasks) /\ nested' = below
         \/ /\ job' = NewJob("Preparing", f.view, NoImages)
            /\ \E k : nested' = Append(below, [f EXCEPT !.tasks = tasks, !.next = k])
  BY DEF Prepare
<1>2. ASSUME NEW S
      PROVE  /\ CacheFits(WithoutImages(c, S), view)
             /\ WithoutImages(c, S).on = c.on
             /\ CachedView(WithoutImages(c, S), view) = CachedView(c, view)
  BY DEF WithoutImages, CacheShape, CacheFits, CachedView
<1>3. TasksFit(tasks, f.view)
  <2>1. ASSUME NEW l PROVE ImageFits(TaskOf(l, f.view, uncached).image, f.view)
    <3>1. /\ CacheFits(uncached, view) /\ uncached.on = c.on
          /\ CachedView(uncached, view) = CachedView(c, view)
      BY <1>2
    <3> HIDE DEF uncached
    <3>2. CASE l \in DOMAIN uncached.images
      <4>1. c.on /\ ImageFits(uncached.images[l], CachedView(c, view))
        BY <3>1, <3>2 DEF CacheFits, CacheShape
      <4>2. TaskOf(l, f.view, uncached).image = uncached.images[l]
        BY <3>2 DEF TaskOf
      <4> QED BY <4>1, <4>2
    <3>3. CASE l \notin DOMAIN uncached.images
      BY <3>3 DEF TaskOf, ImageFits
    <3> QED BY <3>2, <3>3
  <2> HIDE DEF uncached, before
  <2> QED BY <2>1 DEF TasksFit
<1> HIDE DEF uncached, waiting, before, tasks
<1>4. CacheFits(cache', view')
  BY <1>1, <1>2
<1>5. /\ cache'.on = c.on /\ CachedView(cache', view) = CachedView(c, view)
      /\ job'.view = f.view
  <2>1. \E status, w : job' = NewJob(status, f.view, w)
    BY <1>1
  <2>2. job'.view = f.view
    BY <2>1 DEF NewJob
  <2> QED BY <1>1, <1>2, <2>2
<1>6. TasksFit(job'.tasks, f.view)
  <2>1. PICK status, w : job' = NewJob(status, f.view, w) /\ (w = tasks \/ w = NoImages)
    BY <1>1
  <2>2. job'.tasks = w
    BY <2>1 DEF NewJob
  <2>3. TasksFit(NoImages, f.view)
    BY DEF TasksFit, NoImages
  <2> QED BY <1>3, <2>1, <2>2, <2>3
<1>7. JobFits(job', cache', view')
  BY <1>5, <1>6 DEF JobFits
<1>8. FramesFit(nested', job')
  <2>1. CASE nested' = below
    BY <2>1 DEF FramesFit, NoneLive
  <2>2. ASSUME NEW k, nested' = Append(below, [f EXCEPT !.tasks = tasks, !.next = k])
        PROVE  FramesFit(nested', job')
    <3> DEFINE g == [f EXCEPT !.tasks = tasks, !.next = k]
    <3>1. g.view = f.view /\ g.tasks = tasks
      BY DEF FrameShape
    <3> HIDE DEF g
    <3>2. PICK S : below \in Seq(S)
      BY DEF NoneLive, IsSeq
    <3>3. below \in Seq(S \cup {g})
      BY <3>2
    <3>4. /\ Len(below) \in Nat /\ Len(nested') = Len(below) + 1
          /\ nested'[Len(below) + 1] = g
          /\ \A n \in 1..Len(below) : nested'[n] = below[n]
      BY <2>2, <3>3 DEF g
    <3>5. ASSUME NEW n \in 1..Len(nested'), nested'[n].live
          PROVE  n = Len(below) + 1
      BY <3>4, <3>5 DEF NoneLive
    <3> QED BY <1>3, <1>5, <3>1, <3>4, <3>5 DEF FramesFit
  <2> QED BY <1>1, <2>1, <2>2
<1> QED BY <1>4, <1>7, <1>8 DEF VInv, ImagesFitView

\* A map refreshed fits, whatever it cancels and finds in the cache.
LEMMA RefreshMapFits ==
    ASSUME CInv, VInv, RefreshMap
    PROVE  VInv'
<1> DEFINE f == [live |-> TRUE, view |-> view, layers |-> canvasLayers,
                 tasks |-> NoImages, next |-> 1]
           c == CacheReady(cache, view)
<1>1. /\ Prepare(f, FramesAfterCancel, c, UpdatingAfterCancel)
      /\ UNCHANGED <<view, shown>>
  BY CancelKeepsCache DEF RefreshMap, settingsVars, ShownAfterCancel, ContentAfter
<1>2. FrameShape(f) /\ f.live = TRUE /\ f.view = view /\ f.tasks = NoImages
  BY DEF FrameShape
<1>3. TasksFit(f.tasks, f.view)
  BY <1>2 DEF TasksFit, NoImages
<1>4. /\ CacheShape(c) /\ c.on = cache.on /\ CacheFits(c, view)
      /\ c.on => f.view = CachedView(c, view)
  BY <1>2, ReadyFits
<1>5. NoneLive(FramesAfterCancel)
  BY CancelKillsFrames
<1> HIDE DEF f, c
<1> QED BY <1>1, <1>2, <1>3, <1>4, <1>5, PrepareFits

\* A preparation that goes on works with the cache for the view of its job.
LEMMA ReplyArrivesFits ==
    ASSUME CInv, VInv, ReplyArrives
    PROVE  VInv'
<1> DEFINE frame == Last(nested)
           l == BaseFirst[frame.next]
           resumed == [frame EXCEPT
               !.tasks = [k \in DOMAIN @ \cup {l} |->
                             IF k = l THEN TaskOf(l, frame.view, FreshCache(FALSE)) ELSE @[k]],
               !.next = @ + 1]
<1>0. Len(nested) \in Nat /\ Len(nested) > 0
  BY DEF ReplyArrives, CInv, FramesMatch, IsSeq
<1>1. /\ NoneLive(Front(nested)) /\ FrameShape(frame)
      /\ frame.live <=> job.status = "Preparing"
  BY FrontIsDead DEF ReplyArrives
<1>2. UNCHANGED <<view, shown>>
  BY DEF ReplyArrives, settingsVars
<1>3. CASE frame.live
  <2>1. Prepare(resumed, Front(nested), cache, updating)
    BY <1>3 DEF ReplyArrives
  <2>2. frame.view = job.view /\ TasksFit(frame.tasks, frame.view)
    BY <1>0, <1>3 DEF VInv, FramesFit, Last
  <2>3. cache.on => frame.view = CachedView(cache, view)
    BY <1>1, <1>3, <2>2 DEF VInv, JobFits, Active
  <2>4. ImageFits(TaskOf(l, frame.view, FreshCache(FALSE)).image, frame.view)
    <3> HIDE DEF frame
    <3> QED BY DEF TaskOf, FreshCache, NoImages, ImageFits
  <2>5. /\ FrameShape(resumed) /\ resumed.live = TRUE /\ resumed.view = frame.view
        /\ resumed.tasks = [k \in DOMAIN frame.tasks \cup {l} |->
               IF k = l THEN TaskOf(l, frame.view, FreshCache(FALSE))
               ELSE frame.tasks[k]]
    <3> HIDE DEF frame, l
    <3> QED BY <1>1, <1>3 DEF FrameShape
  <2> HIDE DEF frame, l, resumed
  <2>6. TasksFit(resumed.tasks, resumed.view)
    BY <2>2, <2>4, <2>5 DEF TasksFit
  <2>7. CacheShape(cache) /\ CacheFits(cache, view)
    BY DEF CInv, VInv
  <2> QED BY <1>1, <1>2, <2>1, <2>3, <2>5, <2>6, <2>7, PrepareFits
<1>4. CASE ~frame.live
  <2>1. nested' = Front(nested) /\ UNCHANGED <<job, cache>>
    BY <1>4 DEF ReplyArrives
  <2>2. FramesFit(nested', job')
    BY <1>1, <2>1 DEF FramesFit, NoneLive
  <2> QED BY <1>2, <2>1, <2>2 DEF VInv, ImagesFitView
<1> QED BY <1>3, <1>4

\* What workers draw fits the view of their job; only images that fit are
\* stored and shown.
LEMMA WorkFits ==
    ASSUME CInv, VInv,
           \/ \E l \in Layers : RenderLayer(l)
           \/ RenderLayersFinished
           \/ RenderingFinished
           \/ MapUpdateTimeout
    PROVE  VInv'
<1>1. ASSUME NEW l \in Layers, RenderLayer(l) PROVE VInv'
  <2>1. /\ job' = [job EXCEPT !.tasks[l] = Drawn(l)]
        /\ job.status = "RenderingLayers" /\ l \in DOMAIN job.tasks
        /\ UNCHANGED <<cache, nested, view, shown>>
    BY <1>1 DEF RenderLayer, settingsVars
  <2>2. TasksFit(job.tasks, job.view)
    BY <2>1 DEF VInv, JobFits, Active
  <2>3. ImageFits(Drawn(l).image, job.view)
    BY <2>1, <2>2 DEF Drawn, TasksFit, ImageFits
  <2>4. job = [x \in {"status", "view", "tasks", "caching"} |-> job[x]]
    BY <2>1 DEF CInv, JobShape, NoJob
  <2>5. /\ job'.view = job.view /\ job'.status = job.status
        /\ job'.tasks = [job.tasks EXCEPT ![l] = Drawn(l)]
    BY <2>1, <2>4
  <2>6. TasksFit(job'.tasks, job'.view)
    BY <2>2, <2>3, <2>5 DEF TasksFit
  <2>7. JobFits(job', cache', view')
    BY <2>1, <2>5, <2>6 DEF VInv, JobFits, Active
  <2>8. FramesFit(nested', job')
    BY <2>1 DEF CInv, FramesMatch, FramesFit
  <2> QED BY <2>1, <2>7, <2>8 DEF VInv, ImagesFitView
<1>2. CASE RenderLayersFinished
  <2>1. /\ job' = [job EXCEPT !.status = "RenderingLabels"]
        /\ cache' = CleanedUp(cache, job.tasks, FALSE)
        /\ job.status = "RenderingLayers"
        /\ UNCHANGED <<nested, view, shown>>
    BY <1>2 DEF RenderLayersFinished, settingsVars
  <2>2. /\ TasksFit(job.tasks, job.view)
        /\ cache.on => job.view = CachedView(cache, view)
    BY <2>1 DEF VInv, JobFits, Active
  <2>3. job = [x \in {"status", "view", "tasks", "caching"} |-> job[x]]
    BY <2>1 DEF CInv, JobShape, NoJob
  <2>4. job'.view = job.view /\ job'.tasks = job.tasks
    BY <2>1, <2>3
  <2>5. /\ cache'.on = cache.on /\ CachedView(cache', view) = CachedView(cache, view)
        /\ CacheFits(cache', view)
    <3>1. CASE ~cache.on
      BY <2>1, <3>1 DEF CleanedUp, VInv
    <3>2. CASE cache.on
      <4>1. /\ cache'.on = cache.on /\ cache'.extent = cache.extent
            /\ cache'.images =
                 [l \in DOMAIN cache.images \cup Drawings(job.tasks) |->
                     IF l \in Drawings(job.tasks) THEN job.tasks[l].image
                     ELSE cache.images[l]]
        BY <2>1, <3>2 DEF CleanedUp, CInv, CacheShape
      <4>2. Drawings(job.tasks) \subseteq DOMAIN job.tasks
        BY DEF Drawings
      <4>3. CachedView(cache', view) = CachedView(cache, view)
        BY <4>1 DEF CachedView
      <4>4. ASSUME NEW l \in DOMAIN cache'.images
            PROVE  ImageFits(cache'.images[l], CachedView(cache, view))
        BY <2>2, <3>2, <4>1, <4>2 DEF TasksFit, VInv, CacheFits
      <4> QED BY <3>2, <4>1, <4>3, <4>4 DEF CacheFits
    <3> QED BY <3>1, <3>2
  <2>6. JobFits(job', cache', view')
    BY <2>1, <2>2, <2>4, <2>5 DEF JobFits
  <2>7. FramesFit(nested', job')
    BY <2>1 DEF CInv, FramesMatch, FramesFit
  <2> QED BY <2>1, <2>5, <2>6, <2>7 DEF VInv, ImagesFitView
<1>3. CASE RenderingFinished
  <2>1. /\ job' = NoJob /\ job.status = "RenderingLabels"
        /\ shown' = Composed(job) /\ UNCHANGED <<cache, nested, view>>
    BY <1>3 DEF RenderingFinished, ContentAfter, settingsVars
  <2>2. TasksFit(job.tasks, job.view)
    BY <2>1 DEF VInv, JobFits, Active
  <2>3. \A k \in 1..Len(nested') : ~nested'[k].live
    BY <2>1 DEF CInv, FramesMatch
  <2>4. CacheFits(cache', view')
    BY <2>1 DEF VInv
  <2> QED BY <2>1, <2>2, <2>3, <2>4, NoJobFits
<1>4. CASE MapUpdateTimeout
  <2>1. /\ Active(job) /\ shown' = Composed(job)
        /\ UNCHANGED <<job, cache, nested, view>>
    BY <1>4 DEF MapUpdateTimeout, settingsVars
  <2>2. ImagesFitView'
    BY <2>1, ComposedFits DEF VInv, JobFits, ImagesFitView
  <2> QED BY <2>1, <2>2 DEF VInv
<1> QED BY <1>1, <1>2, <1>3, <1>4

\* Layers change and the canvas hears of it: images go, none comes.
LEMMA LayerFits ==
    ASSUME CInv, VInv, LayerEvent \/ SetCanvasLayers
    PROVE  VInv'
<1>1. UNCHANGED <<job, nested, shown, view>>
  BY DEF LayerEvent, LayerChanges, StartEditing, EditFeatures, StopEditing,
         RemoveMapLayer, SetCanvasLayers, jobVars, settingsVars
<1>2. PICK S : cache' = WithoutImages(cache, S) \/ cache' = cache
  BY DEF LayerEvent, LayerChanges, StartEditing, EditFeatures, StopEditing,
         RemoveMapLayer, LayerRequestedRepaint, SetCanvasLayers, jobVars
<1> QED BY <1>1, <1>2, LessCached DEF VInv

\* The user's actions on the canvas, if projections are switched without a
\* cache only.
LEMMA CanvasFits ==
    ASSUME CInv, VInv, CanvasEvent, ~TransformsWithCache
    PROVE  VInv'
<1>1. ASSUME UNCHANGED jobVars, view' \in Views,
             view'.transformed = view.transformed \/ ~cache.on
      PROVE  VInv'
  BY <1>1, LessCached DEF jobVars
<1>2. ASSUME StopRendering, view' = view PROVE VInv'
  <2>1. /\ cache' = cache /\ nested' = FramesAfterCancel /\ job' = NoJob
        /\ shown' = shown
    BY <1>2, CancelKeepsCache DEF StopRendering, ShownAfterCancel, ContentAfter
  <2>2. \A k \in 1..Len(nested') : ~nested'[k].live
    BY <2>1, CancelKillsFrames DEF NoneLive
  <2>3. CacheFits(cache', view')
    BY <1>2, <2>1 DEF VInv
  <2> QED BY <1>2, <2>1, <2>2, <2>3, NoJobFits
<1>3. ASSUME NEW on \in BOOLEAN, cache' = FreshCache(on), job' = NoJob,
             nested = <<>>, nested' = nested, view' = view,
             shown' = shown \/ \E j : shown' = Composed(j) /\ TasksFit(j.tasks, j.view)
      PROVE  VInv'
  <2>1. CacheFits(cache', view')
    BY <1>3 DEF FreshCache, NoImages, CacheFits
  <2>2. Len(<<>>) = 0
    OBVIOUS
  <2> QED BY <1>3, <2>1, <2>2, NoJobFits
<1>4. ASSUME NEW e \in Extents, ZoomTo(e) PROVE VInv'
  <2>1. view' = [view EXCEPT !.extent = e] /\ UNCHANGED jobVars
    BY <1>4 DEF ZoomTo
  <2> QED BY <1>1, <2>1 DEF VInv, Views
<1>5. CASE SetCrsTransformEnabled
  <2>1. /\ view' = [view EXCEPT !.transformed = ~@] /\ UNCHANGED jobVars
        /\ ~cache.on
    BY <1>5 DEF SetCrsTransformEnabled
  <2> QED BY <1>1, <2>1 DEF VInv, Views
<1>6. CASE UserStopsRendering
  BY <1>2, <1>6 DEF UserStopsRendering, settingsVars
<1>7. CASE RefreshMapCanvas
  <2>1. cache.on \in BOOLEAN
    BY DEF CInv, CacheShape
  <2> QED BY <1>3, <1>7, <2>1 DEF RefreshMapCanvas, UserEvent, ShownAfterCancel,
                                  ContentAfter, settingsVars
<1>8. ASSUME NEW flag \in BOOLEAN, Freeze(flag) PROVE VInv'
  BY <1>1, <1>8 DEF Freeze, VInv
<1>9. ASSUME NEW flag \in BOOLEAN, SetRenderFlag(flag) PROVE VInv'
  BY <1>1, <1>2, <1>9 DEF SetRenderFlag, VInv
<1>10. ASSUME NEW flag \in BOOLEAN, SetCachingEnabled(flag) PROVE VInv'
  <2>1. /\ cache' = FreshCache(flag) /\ job' = NoJob /\ nested = <<>>
        /\ UNCHANGED <<nested, view>>
        /\ IF Active(job) THEN shown' = Composed(FinishedJob) ELSE shown' = shown
    BY <1>10 DEF SetCachingEnabled, UserEvent, ContentAfter, settingsVars
  <2>2. CASE ~Active(job)
    BY <1>3, <2>1, <2>2
  <2>3. CASE Active(job)
    <3>1. TasksFit(job.tasks, job.view)
      BY <2>3 DEF VInv, JobFits
    <3>2. job = [x \in {"status", "view", "tasks", "caching"} |-> job[x]]
      BY <2>3 DEF CInv, JobShape, NoJob, Active
    <3>3. \A l \in DOMAIN job.tasks : ImageFits(Drawn(l).image, job.view)
      BY <3>1 DEF Drawn, TasksFit, ImageFits
    <3>4. /\ FinishedJob.view = job.view
          /\ FinishedJob.tasks = [l \in DOMAIN job.tasks |->
                 IF job.tasks[l].stage = "prepared" THEN Drawn(l) ELSE job.tasks[l]]
      BY <3>2 DEF FinishedJob
    <3>5. TasksFit(FinishedJob.tasks, FinishedJob.view)
      BY <3>1, <3>3, <3>4 DEF TasksFit
    <3> QED BY <1>3, <2>1, <2>3, <3>5
  <2> QED BY <2>2, <2>3
<1> QED BY <1>4, <1>5, <1>6, <1>7, <1>8, <1>9, <1>10 DEF CanvasEvent

\* Every image on the map was drawn for the view the map shows, for any layers,
\* extents and order of events, as long as on-the-fly projection is not
\* switched while there is a cache: init() does not compare projections.
THEOREM ImagesAlwaysFitView ==
    ASSUME ~TransformsWithCache
    PROVE  Spec => []ImagesFitView
<1>1. Init => VInv
  <2> SUFFICES ASSUME Init PROVE VInv
    OBVIOUS
  <2>1. view \in Views
    <3>1. PICK e \in Extents : view = [extent |-> e, transformed |-> FALSE]
      BY DEF Init
    <3> QED BY <3>1 DEF Views
  <2>2. CacheFits(cache, view)
    BY DEF Init, FreshCache, NoImages, CacheFits
  <2>3. JobFits(job, cache, view)
    BY DEF Init, JobFits, Active, NoJob
  <2>4. FramesFit(nested, job)
    BY DEF Init, FramesFit
  <2>5. ImagesFitView
    BY DEF Init, ImagesFitView, NoImages
  <2> QED BY <2>1, <2>2, <2>3, <2>4, <2>5 DEF VInv
<1>2. CInv /\ VInv /\ [Next]_vars => VInv'
  <2> SUFFICES ASSUME CInv, VInv, [Next]_vars PROVE VInv'
    OBVIOUS
  <2>1. CASE RefreshMap
    BY <2>1, RefreshMapFits
  <2>2. CASE ReplyArrives
    BY <2>2, ReplyArrivesFits
  <2>3. CASE \/ \E l \in Layers : RenderLayer(l)
             \/ RenderLayersFinished \/ RenderingFinished \/ MapUpdateTimeout
    BY <2>3, WorkFits
  <2>4. CASE LayerEvent \/ SetCanvasLayers
    BY <2>4, LayerFits
  <2>5. CASE CanvasEvent
    BY <2>5, CanvasFits
  <2>6. CASE UNCHANGED vars
    BY <2>6 DEF vars, VInv, ImagesFitView
  <2> QED BY <2>1, <2>2, <2>3, <2>4, <2>5, <2>6 DEF Next, Rendering
<1>3. VInv => ImagesFitView
  BY DEF VInv
<1> QED BY <1>1, <1>2, <1>3, ControlInvariant, PTL DEF Spec
-----------------------------------------------------------------------------
(* Jobs that are cancelled.                                                *)

\* What a start prepares is an active job.
LEMMA PrepareActivates ==
    ASSUME NEW f, NEW below, NEW c, NEW timer, Prepare(f, below, c, timer)
    PROVE  Active(job')
<1>1. \E status \in {"Preparing", "RenderingLayers"} : \E tasks :
          job' = NewJob(status, f.view, tasks)
  BY DEF Prepare
<1> QED BY <1>1 DEF NewJob, Active

\* Whether a job is cancelled for a new one, by the user or inside a nested
\* event loop: its content never gets onto the map, its images never into the
\* cache.
THEOREM CancelledJobsAlwaysLeaveNoTrace == Spec => CancelledJobsLeaveNoTrace
<1> DEFINE NoTrace == /\ shown' = shown
                      /\ DOMAIN cache'.images \subseteq DOMAIN cache.images
<1>1. ASSUME CInv, [Next]_vars, Abandons PROVE NoTrace
  <2>0. CacheShape(cache)
    BY <1>1 DEF CInv
  <2>1. ASSUME NEW S, NEW w PROVE /\ DOMAIN WithoutImages(cache, S).images \subseteq DOMAIN cache.images
                                  /\ DOMAIN CacheReady(cache, w).images \subseteq DOMAIN cache.images
                                  /\ DOMAIN WithoutImages(CacheReady(cache, w), S).images \subseteq DOMAIN cache.images
    BY <2>0 DEF WithoutImages, CacheReady, CacheShape, NoImages
  <2>2. CASE RefreshMap
    <3>1. shown' = shown
      BY <2>2 DEF RefreshMap, ShownAfterCancel, ContentAfter
    <3>2. \E S : cache' = WithoutImages(CacheReady(cache, view), S)
      BY <2>2, CancelKeepsCache DEF RefreshMap, Prepare
    <3> QED BY <2>1, <3>1, <3>2
  <2>3. scheduled /\ ~scheduled' => RefreshMap
    BY <1>1 DEF Next, Rendering, ReplyArrives, RenderLayer, RenderLayersFinished,
         RenderingFinished, SetCanvasLayers, MapUpdateTimeout, LayerEvent,
         LayerChanges, StartEditing, EditFeatures, StopEditing, RemoveMapLayer,
         LayerRequestedRepaint, Refresh, CanvasEvent, ZoomTo,
         SetCrsTransformEnabled, UserStopsRendering, StopRendering,
         RefreshMapCanvas, Freeze, SetRenderFlag, SetCachingEnabled, vars
  <2>4. CASE ~Active(job') /\ cache'.on = cache.on
    <3>1. Active(job) /\ job.status # "RenderingLabels"
      BY <1>1 DEF Abandons, Active
    <3>2. CASE UNCHANGED job
      BY <2>4, <3>1, <3>2
    <3>3. CASE StopRendering
      BY <3>3, CancelKeepsCache DEF StopRendering, ShownAfterCancel, ContentAfter
    <3>4. CASE RefreshMapCanvas
      BY <3>4 DEF RefreshMapCanvas, ShownAfterCancel, ContentAfter, FreshCache, NoImages
    <3>5. ASSUME NEW flag \in BOOLEAN, SetCachingEnabled(flag) PROVE FALSE
      BY <2>4, <3>5 DEF SetCachingEnabled, FreshCache
    <3>6. CASE ReplyArrives
      BY <2>4, <3>2, <3>6, PrepareActivates DEF ReplyArrives
    <3>7. ASSUME NEW l \in Layers, RenderLayer(l) PROVE FALSE
      <4>1. /\ job.status = "RenderingLayers"
            /\ job' = [job EXCEPT !.tasks[l] = Drawn(l)]
        BY <3>7 DEF RenderLayer
      <4>2. job'.status = job.status
        BY <1>1, <4>1 DEF CInv, JobShape, NoJob
      <4> QED BY <2>4, <4>1, <4>2 DEF Active
    <3>8. CASE RenderLayersFinished
      <4>1. /\ job.status = "RenderingLayers"
            /\ job' = [job EXCEPT !.status = "RenderingLabels"]
        BY <3>8 DEF RenderLayersFinished
      <4>2. job'.status = "RenderingLabels"
        BY <1>1, <4>1 DEF CInv, JobShape, NoJob
      <4> QED BY <2>4, <4>2 DEF Active
    <3>9. CASE RenderingFinished
      BY <3>1, <3>9 DEF RenderingFinished
    <3>10. CASE SetCanvasLayers \/ MapUpdateTimeout \/ LayerEvent
      BY <3>2, <3>10 DEF SetCanvasLayers, MapUpdateTimeout, LayerEvent, LayerChanges,
           StartEditing, EditFeatures, StopEditing, RemoveMapLayer, jobVars
    <3>11. CASE CanvasEvent
      BY <3>2, <3>3, <3>4, <3>5, <3>11 DEF CanvasEvent, ZoomTo, SetCrsTransformEnabled,
           UserStopsRendering, Freeze, SetRenderFlag, jobVars
    <3>12. CASE UNCHANGED vars
      BY <3>2, <3>12 DEF vars
    <3> QED BY <1>1, <2>2, <3>6, <3>7, <3>8, <3>9, <3>10, <3>11, <3>12
               DEF Next, Rendering
  <2> QED BY <1>1, <2>2, <2>3, <2>4 DEF Abandons
<1>2. CInv /\ [Next]_vars => [Abandons => NoTrace]_vars
  BY <1>1
<1>3. []CInv /\ [][Next]_vars => [][Abandons => NoTrace]_vars
  BY <1>2, PTL
<1> QED BY <1>3, ControlInvariant, PTL DEF Spec, CancelledJobsLeaveNoTrace
-----------------------------------------------------------------------------
(* Types.                                                                  *)

Tasks == [stage : {"cached", "prepared", "drawn"}, image : Images]

FrameTyped(f) ==
    /\ TaskMap(f.tasks)
    /\ f.view \in Views
    /\ f.next \in DOMAIN BaseFirst

CacheTyped(c) ==
    /\ c.on \in BOOLEAN
    /\ c.extent \in Extents \cup {MinimalExtent}
    /\ ImageMap(c.images)
    /\ ~c.on => DOMAIN c.images = {}

JobTyped(j) ==
    Active(j) => /\ j.status \in {"Preparing", "RenderingLayers", "RenderingLabels"}
                 /\ j.view \in Views /\ TaskMap(j.tasks)
                 /\ j.caching \in BOOLEAN

ShownTyped(m) == m.view \in Views /\ ImageMap(m.images)

\* The types of what the user and the layers set.
SettingsTyped ==
    /\ registry \subseteq Layers /\ version \in [Layers -> Nat]
    /\ editable \subseteq registry \cap VectorLayers /\ canvasLayers \subseteq Layers
    /\ view \in Views
    /\ pendingUpdate \in BOOLEAN /\ renderFlag \in BOOLEAN /\ frozen \in BOOLEAN
    /\ events \in 0 .. MaxEvents

\* The types of what a job goes through.
DrawingTyped ==
    /\ scheduled \in BOOLEAN /\ updating \in BOOLEAN /\ missed \in BOOLEAN
    /\ strayRead \in BOOLEAN
    /\ CacheTyped(cache) /\ JobTyped(job) /\ ShownTyped(shown)
    /\ \A k \in 1..Len(nested) : FrameTyped(nested[k])

\* The inductive invariant of the types.
TInv == SettingsTyped /\ DrawingTyped

\* Maps of images, and of tasks, one by one.
LEMMA MapsByItem ==
    /\ \A f : ImageMap(f) <=> DOMAIN f \subseteq Layers /\ \A l \in DOMAIN f : f[l] \in Images
    /\ \A f : TaskMap(f) <=> DOMAIN f \subseteq Layers /\ \A l \in DOMAIN f : f[l] \in Tasks
BY DEF ImageMap, TaskMap, Range, Tasks

\* There are no images where there are no layers.
LEMMA NoImagesTyped == ImageMap(NoImages) /\ TaskMap(NoImages) /\ DOMAIN NoImages = {}
BY MapsByItem DEF NoImages

\* Every layer has its place in the order of drawing.
LEMMA PositionTyped ==
    ASSUME NEW l \in Layers
    PROVE  Position(l) \in DOMAIN BaseFirst /\ BaseFirst[Position(l)] = l
<1>1. \E k \in DOMAIN BaseFirst : BaseFirst[k] = l
  BY RenderingAssumption DEF Range
<1> QED BY <1>1 DEF Position

\* Of some places one is the first.
LEMMA FirstPlace ==
    ASSUME NEW S, S \subseteq DOMAIN BaseFirst, S # {}
    PROVE  (CHOOSE k \in S : \A m \in S : k <= m) \in DOMAIN BaseFirst
<1>1. S \subseteq Nat
  BY RenderingAssumption
<1>2. PICK k \in S : \A m \in S : k <= m
  <2> DEFINE T == {1..k : k \in S}
  <2>1. T \subseteq FiniteSubsetsOf(Nat) /\ T # {}
    <3>1. ASSUME NEW k \in S PROVE 1..k \subseteq Nat /\ IsFiniteSet(1..k)
      BY <1>1, FS_Interval
    <3> QED BY <3>1 DEF FiniteSubsetsOf
  <2> HIDE DEF T
  <2>2. PICK x \in T : \A y \in T : <<y, x>> \notin StrictSubsetOrdering(Nat)
    BY <2>1, FS_StrictSubsetOrderingWellFounded, WFMin
  <2>3. PICK k \in S : x = 1..k
    BY DEF T
  <2>4. ASSUME NEW m \in S, ~(k <= m) PROVE FALSE
    <3>1. k \in Nat /\ m \in Nat
      BY <1>1
    <3>2. 1..m \in T
      BY DEF T
    <3>3. 1..m \subseteq 1..k /\ k \in 1..k /\ k \notin 1..m
      BY <2>4, <3>1
    <3>4. <<1..m, x>> \in StrictSubsetOrdering(Nat)
      BY <2>3, <3>1, <3>3 DEF StrictSubsetOrdering
    <3> QED BY <2>2, <3>2, <3>4
  <2> QED BY <2>4
<1> QED BY <1>2

\* What a layer contributes to a job is a task.
LEMMA TaskTyped ==
    ASSUME SettingsTyped, NEW l \in Layers, NEW w \in Views, NEW c, ImageMap(c.images)
    PROVE  TaskOf(l, w, c) \in Tasks
BY MapsByItem DEF TaskOf, Tasks, Images, SettingsTyped

\* Caches keep their types in whatever is done to them.
LEMMA CachesTyped ==
    ASSUME NEW c, CacheShape(c), CacheTyped(c)
    PROVE  /\ \A S : CacheTyped(WithoutImages(c, S))
           /\ \A w \in Views : CacheTyped(CacheReady(c, w))
           /\ \A tasks, stopped : TaskMap(tasks) => CacheTyped(CleanedUp(c, tasks, stopped))
<1>1. ASSUME NEW S PROVE CacheTyped(WithoutImages(c, S))
  <2> DEFINE d == WithoutImages(c, S)
  <2>1. /\ d.on = c.on /\ d.extent = c.extent
        /\ DOMAIN d.images = DOMAIN c.images \ S
        /\ \A l \in DOMAIN d.images : d.images[l] = c.images[l]
    BY DEF WithoutImages, CacheShape
  <2> HIDE DEF d
  <2>2. CacheTyped(d)
    BY <2>1, MapsByItem DEF CacheTyped
  <2> QED BY <2>2 DEF d
<1>2. ASSUME NEW w \in Views PROVE CacheTyped(CacheReady(c, w))
  BY NoImagesTyped DEF CacheReady, CacheTyped, Views
<1>3. ASSUME NEW tasks, NEW stopped, TaskMap(tasks)
      PROVE  CacheTyped(CleanedUp(c, tasks, stopped))
  <2> DEFINE d == CleanedUp(c, tasks, stopped)
  <2>1. CASE ~c.on \/ stopped
    BY <2>1 DEF CleanedUp
  <2>2. CASE c.on /\ ~stopped
    <3>1. /\ d.on = c.on /\ d.extent = c.extent
          /\ d.images = [l \in DOMAIN c.images \cup Drawings(tasks) |->
                 IF l \in Drawings(tasks) THEN tasks[l].image ELSE c.images[l]]
      BY <2>2 DEF CleanedUp, CacheShape
    <3>2. Drawings(tasks) \subseteq DOMAIN tasks
      BY DEF Drawings
    <3>3. \A l \in DOMAIN tasks : tasks[l].image \in Images
      BY <1>3, MapsByItem DEF Tasks
    <3> HIDE DEF d
    <3>4. ImageMap(d.images)
      BY <1>3, <3>1, <3>2, <3>3, MapsByItem DEF CacheTyped
    <3>5. CacheTyped(d)
      BY <2>2, <3>1, <3>4 DEF CacheTyped
    <3> QED BY <3>5 DEF d
  <2> QED BY <2>1, <2>2
<1> QED BY <1>1, <1>2, <1>3

\* What a job shows of its tasks are images.
LEMMA ComposedTyped ==
    ASSUME NEW j, j.view \in Views, TaskMap(j.tasks)
    PROVE  ShownTyped(Composed(j))
<1>1. \A l \in Visible(j.tasks) : l \in Layers /\ j.tasks[l].image \in Images
  BY MapsByItem DEF Visible, Tasks
<1> QED BY <1>1, MapsByItem DEF Composed, ShownTyped

\* A layer drawn is a task as before, with what the layer shows now.
LEMMA DrawnTyped ==
    ASSUME SettingsTyped, TaskMap(job.tasks), NEW l \in DOMAIN job.tasks
    PROVE  Drawn(l) \in Tasks /\ Drawn(l).image.view = job.tasks[l].image.view
<1>1. job.tasks[l] \in Tasks /\ l \in Layers
  BY MapsByItem
<1> QED BY <1>1 DEF Drawn, Tasks, Images, SettingsTyped

\* A preparation leaves frames, cache and job of their types.
LEMMA PrepareTyped ==
    ASSUME CInv, TInv, NEW f, FrameShape(f), TaskMap(f.tasks), f.view \in Views,
           NEW below, NoneLive(below), \A k \in 1..Len(below) : FrameTyped(below[k]),
           NEW c, CacheShape(c), CacheTyped(c), c.on = cache.on,
           NEW timer \in BOOLEAN, Prepare(f, below, c, timer)
    PROVE  /\ CacheTyped(cache') /\ JobTyped(job') /\ updating' \in BOOLEAN
           /\ \A k \in 1..Len(nested') : FrameTyped(nested'[k])
<1> DEFINE uncached == WithoutImages(c, LeftToPrepare(f) \cap ForcedLayers)
           waiting  == {l \in LeftToPrepare(f) \cap NetworkLayers :
                           l \notin DOMAIN uncached.images}
           before   == {l \in LeftToPrepare(f) :
                           \A n \in waiting : Position(l) < Position(n)}
           tasks    == [l \in DOMAIN f.tasks \cup before |->
                           IF l \in before THEN TaskOf(l, f.view, uncached)
                           ELSE f.tasks[l]]
           first    == CHOOSE k \in {Position(n) : n \in waiting} :
                           \A n \in waiting : k <= Position(n)
<1>1. /\ cache' = WithoutImages(c, before \cap ForcedLayers)
      /\ \/ job' = NewJob("RenderingLayers", f.view, tasks) /\ nested' = below
            /\ updating' = TRUE
         \/ /\ job' = NewJob("Preparing", f.view, NoImages)
            /\ waiting # {}
            /\ nested' = Append(below, [f EXCEPT !.tasks = tasks, !.next = first])
            /\ updating' = timer
  BY DEF Prepare
<1>2. CacheTyped(cache')
  BY <1>1, CachesTyped
<1>3. TaskMap(tasks)
  <2>1. ImageMap(uncached.images)
    BY CachesTyped DEF CacheTyped
  <2>2. before \subseteq Layers
    BY DEF LeftToPrepare, TInv, SettingsTyped
  <2> HIDE DEF uncached, before
  <2>3. \A l \in before : TaskOf(l, f.view, uncached) \in Tasks
    BY <2>1, <2>2, TaskTyped DEF TInv
  <2> QED BY <2>2, <2>3, MapsByItem
<1>4. waiting # {} => first \in DOMAIN BaseFirst
  <2> DEFINE S == {Position(n) : n \in waiting}
  <2>1. waiting \subseteq Layers
    BY DEF LeftToPrepare, TInv, SettingsTyped
  <2> HIDE DEF waiting
  <2>2. S \subseteq DOMAIN BaseFirst /\ (waiting # {} => S # {})
    BY <2>1, PositionTyped
  <2>3. first = CHOOSE k \in S : \A m \in S : k <= m
    <3>1. \A k : (\A n \in waiting : k <= Position(n)) <=> (\A m \in S : k <= m)
      OBVIOUS
    <3> QED BY <3>1
  <2> HIDE DEF S
  <2> QED BY <2>2, <2>3, FirstPlace
<1> HIDE DEF uncached, waiting, before, tasks, first
<1>5. JobTyped(job')
  <2>1. cache.on \in BOOLEAN
    BY DEF CInv, CacheShape
  <2> QED BY <1>1, <1>3, <2>1, NoImagesTyped DEF JobTyped, NewJob
<1>6. ASSUME NEW k \in 1..Len(nested') PROVE FrameTyped(nested'[k])
  <2>1. CASE nested' = below
    BY <2>1
  <2>2. CASE /\ waiting # {}
             /\ nested' = Append(below, [f EXCEPT !.tasks = tasks, !.next = first])
    <3> DEFINE g == [f EXCEPT !.tasks = tasks, !.next = first]
    <3>1. g.view = f.view /\ g.tasks = tasks /\ g.next = first
      BY DEF FrameShape
    <3>2. FrameTyped(g)
      BY <1>3, <1>4, <2>2, <3>1 DEF FrameTyped
    <3> HIDE DEF g
    <3>3. PICK S : below \in Seq(S)
      BY DEF NoneLive, IsSeq
    <3>4. below \in Seq(S \cup {g})
      BY <3>3
    <3>5. /\ Len(below) \in Nat /\ Len(nested') = Len(below) + 1
          /\ nested'[Len(below) + 1] = g
          /\ \A n \in 1..Len(below) : nested'[n] = below[n]
      BY <2>2, <3>4 DEF g
    <3>6. CASE k = Len(below) + 1
      BY <3>2, <3>5, <3>6
    <3>7. CASE k # Len(below) + 1
      BY <3>5, <3>7
    <3> QED BY <3>6, <3>7
  <2> QED BY <1>1, <2>1, <2>2
<1>7. updating' \in BOOLEAN
  BY <1>1
<1> QED BY <1>2, <1>5, <1>6, <1>7
\* Cancelling leaves fewer live frames, and of the same types.
LEMMA CancelledTyped ==
    ASSUME CInv, TInv
    PROVE  \A k \in 1..Len(FramesAfterCancel) : FrameTyped(FramesAfterCancel[k])
<1>1. CASE job.status = "Preparing"
  <2> DEFINE n == Len(nested)
             dead == [nested[n] EXCEPT !.live = FALSE]
  <2>1. PICK S : nested \in Seq(S)
    BY DEF CInv, FramesMatch, IsSeq
  <2>2. n \in Nat /\ n > 0
    BY <1>1, <2>1 DEF CInv, FramesMatch
  <2>3. FrameShape(nested[n]) /\ FrameTyped(nested[n])
    BY <2>2 DEF CInv, FramesMatch, TInv, DrawingTyped
  <2>4. FrameTyped(dead)
    BY <2>3 DEF FrameShape, FrameTyped
  <2>5. FramesAfterCancel = [nested EXCEPT ![n] = dead]
    BY <1>1 DEF FramesAfterCancel
  <2> HIDE DEF dead
  <2>6. nested \in Seq(S \cup {dead})
    BY <2>1
  <2>7. /\ Len(FramesAfterCancel) = n
        /\ \A k \in 1..n : FramesAfterCancel[k] = IF k = n THEN dead ELSE nested[k]
    BY <2>2, <2>5, <2>6
  <2> HIDE DEF n
  <2>8. \A k \in 1..n : FrameTyped(nested[k])
    BY DEF TInv, DrawingTyped, n
  <2> QED BY <2>4, <2>7, <2>8
<1>2. CASE job.status # "Preparing"
  BY <1>2 DEF FramesAfterCancel, TInv, DrawingTyped
<1> QED BY <1>1, <1>2

\* refresh() touches its flags only.
LEMMA RefreshTyped ==
    ASSUME TInv, Refresh \/ UNCHANGED <<scheduled, missed>>
    PROVE  scheduled' \in BOOLEAN /\ missed' \in BOOLEAN
BY DEF Refresh, TInv, DrawingTyped

\* A step of jobs leaves the settings alone.
LEMMA SettingsKept ==
    ASSUME TInv, UNCHANGED <<settingsVars, layerVars, events>>
    PROVE  SettingsTyped'
BY DEF TInv, SettingsTyped, settingsVars, layerVars

\* Types survive a refresh of the map.
LEMMA RefreshMapTyped ==
    ASSUME CInv, TInv, RefreshMap
    PROVE  TInv'
<1> DEFINE f == [live |-> TRUE, view |-> view, layers |-> canvasLayers,
                 tasks |-> NoImages, next |-> 1]
           c == CacheReady(CacheAfterCancel, view)
<1>1. Prepare(f, FramesAfterCancel, c, UpdatingAfterCancel)
  BY DEF RefreshMap
<1>2. FrameShape(f) /\ f.live = TRUE /\ f.tasks = NoImages /\ f.view = view
  BY DEF FrameShape
<1>3. CacheShape(c) /\ c.on = cache.on /\ CacheTyped(c)
  BY CancelKeepsCache, CacheKept, CachesTyped
     DEF CInv, TInv, SettingsTyped, DrawingTyped
<1>4. NoneLive(FramesAfterCancel)
  BY CancelKillsFrames
<1>5. UpdatingAfterCancel \in BOOLEAN
  BY DEF UpdatingAfterCancel
<1> HIDE DEF f, c
<1>6. /\ CacheTyped(cache') /\ JobTyped(job') /\ updating' \in BOOLEAN
      /\ \A k \in 1..Len(nested') : FrameTyped(nested'[k])
  BY <1>1, <1>2, <1>3, <1>4, <1>5, CancelledTyped, NoImagesTyped, PrepareTyped
     DEF TInv, SettingsTyped
<1>7. ShownTyped(shown') /\ scheduled' \in BOOLEAN /\ missed' \in BOOLEAN
      /\ strayRead' \in BOOLEAN
  BY DEF RefreshMap, ShownAfterCancel, ContentAfter, TInv, DrawingTyped
<1> QED BY <1>6, <1>7, SettingsKept DEF RefreshMap, TInv, DrawingTyped

\* Types survive an answer from the network.
LEMMA ReplyArrivesTyped ==
    ASSUME CInv, TInv, ReplyArrives
    PROVE  TInv'
<1> DEFINE frame == Last(nested)
           l == BaseFirst[frame.next]
           resumed == [frame EXCEPT
               !.tasks = [k \in DOMAIN @ \cup {l} |->
                             IF k = l THEN TaskOf(l, frame.view, FreshCache(FALSE)) ELSE @[k]],
               !.next = @ + 1]
<1>0. PICK S : nested \in Seq(S)
  BY DEF CInv, FramesMatch, IsSeq
<1>1. Len(nested) \in Nat /\ Len(nested) > 0 /\ frame = nested[Len(nested)]
  BY <1>0 DEF ReplyArrives, Last
<1>2. /\ NoneLive(Front(nested)) /\ FrameShape(frame)
      /\ frame.live <=> job.status = "Preparing"
  BY FrontIsDead DEF ReplyArrives
<1>3. FrameTyped(frame)
  BY <1>1 DEF TInv, DrawingTyped
<1>4. \A k \in 1..Len(Front(nested)) : FrameTyped(Front(nested)[k])
  <2> DEFINE n == Len(nested) - 1
  <2>1. 1 \in Int /\ n \in Int /\ n >= 0 /\ \A i \in 1..n : nested[i] \in S
    BY <1>0, <1>1
  <2> HIDE DEF n
  <2>2. /\ Len(SubSeq(nested, 1, n)) = IF 1 <= n THEN n - 1 + 1 ELSE 0
        /\ \A i \in 1..(n - 1 + 1) : SubSeq(nested, 1, n)[i] = nested[1 + i - 1]
    BY <2>1, SubSeqProperties
  <2>3. n - 1 + 1 = n /\ \A i \in 1..n : 1 + i - 1 = i
    BY <2>1
  <2>4. Len(Front(nested)) = n /\ \A i \in 1..n : Front(nested)[i] = nested[i]
    BY <2>1, <2>2, <2>3 DEF Front, n
  <2>5. \A i \in 1..n : FrameTyped(nested[i])
    BY <1>1 DEF TInv, DrawingTyped, n
  <2> QED BY <2>4, <2>5
<1>5. UNCHANGED <<settingsVars, layerVars, events>> /\ UNCHANGED <<scheduled, shown, missed, strayRead>>
  BY DEF ReplyArrives
<1>6. CASE frame.live
  <2>1. Prepare(resumed, Front(nested), cache, updating)
    BY <1>6 DEF ReplyArrives
  <2>2. l \in Layers
    BY <1>3, RenderingAssumption DEF FrameTyped, Range
  <2>3. TaskOf(l, frame.view, FreshCache(FALSE)) \in Tasks
    <3> HIDE DEF frame, l
    <3>1. ImageMap(FreshCache(FALSE).images)
      BY NoImagesTyped DEF FreshCache
    <3> QED BY <1>3, <2>2, <3>1, TaskTyped DEF TInv, FrameTyped
  <2>4. /\ FrameShape(resumed) /\ resumed.view = frame.view
        /\ resumed.tasks = [k \in DOMAIN frame.tasks \cup {l} |->
               IF k = l THEN TaskOf(l, frame.view, FreshCache(FALSE))
               ELSE frame.tasks[k]]
    <3> HIDE DEF frame, l
    <3> QED BY <1>2 DEF FrameShape
  <2> HIDE DEF frame, l, resumed
  <2>5. TaskMap(resumed.tasks) /\ resumed.view \in Views
    BY <1>3, <2>2, <2>3, <2>4, MapsByItem DEF FrameTyped
  <2>6. CacheShape(cache) /\ CacheTyped(cache) /\ updating \in BOOLEAN
    BY DEF CInv, TInv, DrawingTyped
  <2>7. /\ CacheTyped(cache') /\ JobTyped(job') /\ updating' \in BOOLEAN
        /\ \A k \in 1..Len(nested') : FrameTyped(nested'[k])
    BY <1>2, <1>4, <2>1, <2>4, <2>5, <2>6, PrepareTyped
  <2> QED BY <1>5, <2>7, SettingsKept DEF TInv, DrawingTyped
<1>7. CASE ~frame.live
  <2>1. nested' = Front(nested) /\ updating' = TRUE /\ UNCHANGED <<job, cache>>
    BY <1>7 DEF ReplyArrives
  <2> HIDE DEF frame, l, resumed
  <2> QED BY <1>4, <1>5, <2>1, SettingsKept DEF TInv, DrawingTyped
<1> QED BY <1>6, <1>7

\* Types survive the work on a job and its end.
LEMMA WorkTyped ==
    ASSUME CInv, TInv,
           \/ \E l \in Layers : RenderLayer(l)
           \/ RenderLayersFinished
           \/ RenderingFinished
           \/ MapUpdateTimeout
    PROVE  TInv'
<1>0. CacheShape(cache) /\ JobShape(job)
  BY DEF CInv
<1>1. ASSUME NEW l \in Layers, RenderLayer(l) PROVE TInv'
  <2>1. /\ job.status = "RenderingLayers" /\ l \in DOMAIN job.tasks
        /\ job' = [job EXCEPT !.tasks[l] = Drawn(l)]
        /\ UNCHANGED <<settingsVars, layerVars, events>>
        /\ UNCHANGED <<scheduled, cache, nested, updating, shown, missed>>
        /\ strayRead' \in BOOLEAN
    BY <1>1 DEF RenderLayer
  <2>2. job.view \in Views /\ TaskMap(job.tasks) /\ job.caching \in BOOLEAN
    BY <2>1 DEF TInv, DrawingTyped, JobTyped, Active
  <2>3. Drawn(l) \in Tasks
    BY <2>1, <2>2, DrawnTyped DEF TInv
  <2>4. job = [x \in {"status", "view", "tasks", "caching"} |-> job[x]]
    BY <1>0, <2>1 DEF JobShape, NoJob
  <2>5. /\ job'.view = job.view /\ job'.status = job.status /\ job'.caching = job.caching
        /\ job'.tasks = [job.tasks EXCEPT ![l] = Drawn(l)]
    BY <2>1, <2>4
  <2>6. TaskMap(job'.tasks)
    BY <2>2, <2>3, <2>5, MapsByItem
  <2>7. JobTyped(job')
    BY <2>1, <2>2, <2>5, <2>6 DEF JobTyped
  <2> QED BY <2>1, <2>7, SettingsKept DEF TInv, DrawingTyped
<1>2. CASE RenderLayersFinished
  <2>1. /\ job' = [job EXCEPT !.status = "RenderingLabels"]
        /\ cache' = CleanedUp(cache, job.tasks, FALSE)
        /\ job.status = "RenderingLayers"
        /\ UNCHANGED <<settingsVars, layerVars, events>>
        /\ UNCHANGED <<scheduled, nested, updating, shown, missed, strayRead>>
    BY <1>2 DEF RenderLayersFinished
  <2>2. job.view \in Views /\ TaskMap(job.tasks) /\ job.caching \in BOOLEAN
    BY <2>1 DEF TInv, DrawingTyped, JobTyped, Active
  <2>3. job = [x \in {"status", "view", "tasks", "caching"} |-> job[x]]
    BY <1>0, <2>1 DEF JobShape, NoJob
  <2>4. /\ job'.view = job.view /\ job'.tasks = job.tasks
        /\ job'.caching = job.caching /\ job'.status = "RenderingLabels"
    BY <2>1, <2>3
  <2>5. JobTyped(job')
    BY <2>2, <2>4 DEF JobTyped
  <2>6. CacheTyped(cache')
    BY <1>0, <2>1, <2>2, CachesTyped DEF TInv, DrawingTyped
  <2> QED BY <2>1, <2>5, <2>6, SettingsKept DEF TInv, DrawingTyped
<1>3. CASE RenderingFinished
  <2>1. /\ job' = NoJob /\ job.status = "RenderingLabels"
        /\ shown' = Composed(job) /\ updating' = FALSE
        /\ UNCHANGED <<settingsVars, layerVars, events>>
        /\ UNCHANGED <<scheduled, cache, nested, missed, strayRead>>
    BY <1>3 DEF RenderingFinished, ContentAfter
  <2>2. ShownTyped(shown')
    BY <2>1, ComposedTyped DEF TInv, DrawingTyped, JobTyped, Active
  <2>3. JobTyped(job')
    BY <2>1 DEF JobTyped, Active, NoJob
  <2> QED BY <2>1, <2>2, <2>3, SettingsKept DEF TInv, DrawingTyped
<1>4. CASE MapUpdateTimeout
  <2>1. /\ Active(job) /\ shown' = Composed(job)
        /\ UNCHANGED <<settingsVars, layerVars, events>>
        /\ UNCHANGED <<scheduled, cache, job, nested, updating, missed, strayRead>>
    BY <1>4 DEF MapUpdateTimeout
  <2>2. ShownTyped(shown')
    BY <2>1, ComposedTyped DEF TInv, DrawingTyped, JobTyped
  <2> QED BY <2>1, <2>2, SettingsKept DEF TInv, DrawingTyped
<1> QED BY <1>1, <1>2, <1>3, <1>4

\* Types survive changes of layers.
LEMMA LayerTyped ==
    ASSUME CInv, TInv, LayerEvent \/ SetCanvasLayers
    PROVE  TInv'
<1>0. CacheShape(cache) /\ CacheTyped(cache)
  BY DEF CInv, TInv, DrawingTyped
<1>1. /\ UNCHANGED <<job, nested, shown, updating, strayRead, view, renderFlag, frozen>>
      /\ \E S : cache' = WithoutImages(cache, S) \/ cache' = cache
      /\ Refresh \/ UNCHANGED <<scheduled, missed>>
  BY DEF LayerEvent, LayerChanges, StartEditing, EditFeatures, StopEditing,
         RemoveMapLayer, LayerRequestedRepaint, SetCanvasLayers, jobVars, settingsVars
<1>2. DrawingTyped'
  BY <1>0, <1>1, CachesTyped, RefreshTyped DEF TInv, DrawingTyped
<1>3. \A l \in Layers : [version EXCEPT ![l] = @ + 1] \in [Layers -> Nat]
  BY DEF TInv, SettingsTyped
<1>4. events > 0 /\ events' = events - 1 => events' \in 0..MaxEvents
  BY RenderingAssumption DEF TInv, SettingsTyped
<1>5. SettingsTyped'
  <2>1. CASE SetCanvasLayers
    BY <2>1 DEF SetCanvasLayers, layerVars, TInv, SettingsTyped
  <2>2. ASSUME NEW l \in Layers, LayerChanges(l) PROVE SettingsTyped'
    BY <1>3, <1>4, <2>2 DEF LayerChanges, Event, settingsVars, TInv, SettingsTyped
  <2>3. ASSUME NEW l \in Layers, StartEditing(l) PROVE SettingsTyped'
    BY <1>4, <2>3 DEF StartEditing, Event, UserEvent, settingsVars, TInv, SettingsTyped
  <2>4. ASSUME NEW l \in Layers, EditFeatures(l) PROVE SettingsTyped'
    BY <1>3, <1>4, <2>4 DEF EditFeatures, Event, UserEvent, settingsVars, TInv, SettingsTyped
  <2>5. ASSUME NEW l \in Layers, StopEditing(l) PROVE SettingsTyped'
    BY <1>3, <1>4, <2>5 DEF StopEditing, Event, UserEvent, settingsVars, TInv, SettingsTyped
  <2>6. ASSUME NEW l \in Layers, RemoveMapLayer(l) PROVE SettingsTyped'
    <3>1. /\ l \notin editable /\ registry' = registry \ {l} /\ pendingUpdate' = TRUE
          /\ UNCHANGED <<version, editable, canvasLayers, view, renderFlag, frozen>>
      BY <2>6 DEF RemoveMapLayer
    <3>2. events' \in 0..MaxEvents
      BY <1>4, <2>6 DEF RemoveMapLayer, Event, UserEvent
    <3> QED BY <3>1, <3>2 DEF TInv, SettingsTyped
  <2> QED BY <2>1, <2>2, <2>3, <2>4, <2>5, <2>6 DEF LayerEvent
<1> QED BY <1>2, <1>5 DEF TInv

\* Types survive what the user does with the canvas.
LEMMA CanvasTyped ==
    ASSUME CInv, TInv, CanvasEvent
    PROVE  TInv'
<1>0. CacheShape(cache) /\ CacheTyped(cache)
  BY DEF CInv, TInv, DrawingTyped
<1>1. events > 0 /\ events' = events - 1 => events' \in 0..MaxEvents
  BY RenderingAssumption DEF TInv, SettingsTyped
<1>2. JobTyped(NoJob)
  BY DEF JobTyped, Active, NoJob
<1>3. \A on \in BOOLEAN : CacheTyped(FreshCache(on))
  BY NoImagesTyped DEF CacheTyped, FreshCache
<1>4. ASSUME StopRendering, UNCHANGED strayRead PROVE DrawingTyped'
  <2>1. /\ cache' = cache /\ nested' = FramesAfterCancel /\ job' = NoJob
        /\ shown' = shown /\ updating' \in BOOLEAN
        /\ missed' \in BOOLEAN /\ scheduled' = scheduled
    BY <1>4, CancelKeepsCache DEF StopRendering, ShownAfterCancel, ContentAfter,
       UpdatingAfterCancel
  <2> QED BY <1>2, <1>4, <2>1, CancelledTyped DEF TInv, DrawingTyped
<1>5. ASSUME NEW e \in Extents, ZoomTo(e) PROVE TInv'
  <2>1. view' \in Views
    BY <1>5 DEF ZoomTo, TInv, SettingsTyped, Views
  <2>2. DrawingTyped'
    BY <1>5, RefreshTyped DEF ZoomTo, jobVars, TInv, DrawingTyped
  <2> QED BY <1>1, <1>5, <2>1, <2>2 DEF ZoomTo, Event, layerVars, TInv, SettingsTyped
<1>6. CASE SetCrsTransformEnabled
  <2>1. view' \in Views
    BY <1>6 DEF SetCrsTransformEnabled, TInv, SettingsTyped, Views
  <2>2. DrawingTyped'
    BY <1>6, RefreshTyped DEF SetCrsTransformEnabled, jobVars, TInv, DrawingTyped
  <2> QED BY <1>1, <1>6, <2>1, <2>2 DEF SetCrsTransformEnabled, Event, UserEvent,
             layerVars, TInv, SettingsTyped
<1>7. CASE UserStopsRendering
  BY <1>1, <1>4, <1>7 DEF UserStopsRendering, Event, UserEvent, layerVars,
     settingsVars, TInv, SettingsTyped
<1>8. CASE RefreshMapCanvas
  <2>1. /\ CacheTyped(cache') /\ job' = NoJob /\ shown' = shown
        /\ updating' \in BOOLEAN /\ scheduled' \in BOOLEAN /\ missed' \in BOOLEAN
        /\ UNCHANGED <<nested, strayRead>>
    BY <1>0, <1>3, <1>8 DEF RefreshMapCanvas, ShownAfterCancel, ContentAfter,
       UpdatingAfterCancel, CacheTyped, TInv, DrawingTyped
  <2>2. DrawingTyped'
    BY <1>2, <2>1 DEF TInv, DrawingTyped
  <2> QED BY <1>1, <1>8, <2>2 DEF RefreshMapCanvas, Event, UserEvent, layerVars,
             settingsVars, TInv, SettingsTyped
<1>9. ASSUME NEW flag \in BOOLEAN, Freeze(flag) PROVE TInv'
  BY <1>1, <1>9 DEF Freeze, Event, UserEvent, layerVars, jobVars, TInv,
     SettingsTyped, DrawingTyped
<1>10. ASSUME NEW flag \in BOOLEAN, SetRenderFlag(flag) PROVE TInv'
  <2>1. CASE flag
    BY <1>1, <1>10, <2>1 DEF SetRenderFlag, Event, UserEvent, layerVars, jobVars, TInv,
       SettingsTyped, DrawingTyped
  <2>2. CASE ~flag
    <3>1. DrawingTyped'
      BY <1>4, <1>10, <2>2 DEF SetRenderFlag
    <3> QED BY <1>1, <1>10, <3>1 DEF SetRenderFlag, Event, UserEvent, layerVars, TInv,
               SettingsTyped
  <2> QED BY <2>1, <2>2
<1>11. ASSUME NEW flag \in BOOLEAN, SetCachingEnabled(flag) PROVE TInv'
  <2>1. ShownTyped(shown') /\ updating' \in BOOLEAN /\ strayRead' \in BOOLEAN
    <3>1. CASE ~Active(job)
      BY <1>11, <3>1 DEF SetCachingEnabled, TInv, DrawingTyped
    <3>2. CASE Active(job)
      <4>1. job.view \in Views /\ TaskMap(job.tasks)
        BY <3>2 DEF TInv, DrawingTyped, JobTyped
      <4>2. job = [x \in {"status", "view", "tasks", "caching"} |-> job[x]]
        BY <3>2 DEF CInv, JobShape, NoJob, Active
      <4>3. /\ FinishedJob.view = job.view
            /\ FinishedJob.tasks = [l \in DOMAIN job.tasks |->
                   IF job.tasks[l].stage = "prepared" THEN Drawn(l) ELSE job.tasks[l]]
        BY <4>2 DEF FinishedJob
      <4>4. \A l \in DOMAIN job.tasks : Drawn(l) \in Tasks
        BY <4>1, DrawnTyped DEF TInv
      <4>5. TaskMap(FinishedJob.tasks)
        BY <4>1, <4>3, <4>4, MapsByItem
      <4>6. shown' = Composed(FinishedJob) /\ updating' = FALSE /\ strayRead' \in BOOLEAN
        BY <1>11, <3>2 DEF SetCachingEnabled, ContentAfter, TInv, DrawingTyped
      <4> QED BY <4>1, <4>3, <4>5, <4>6, ComposedTyped
    <3> QED BY <3>1, <3>2
  <2>2. DrawingTyped'
    BY <1>2, <1>3, <1>11, <2>1 DEF SetCachingEnabled, TInv, DrawingTyped
  <2> QED BY <1>1, <1>11, <2>2 DEF SetCachingEnabled, Event, UserEvent, layerVars,
             settingsVars, TInv, SettingsTyped
<1> QED BY <1>5, <1>6, <1>7, <1>8, <1>9, <1>10, <1>11 DEF CanvasEvent

\* The types hold at first and after every step.
LEMMA TypeInvariant == Spec => []TInv
<1>1. Init => TInv
  <2> SUFFICES ASSUME Init PROVE TInv
    OBVIOUS
  <2>1. view \in Views
    <3>1. PICK e \in Extents : view = [extent |-> e, transformed |-> FALSE]
      BY DEF Init
    <3> QED BY <3>1 DEF Views
  <2>2. CacheTyped(cache) /\ JobTyped(job) /\ ShownTyped(shown)
    BY <2>1, NoImagesTyped DEF Init, CacheTyped, FreshCache, JobTyped, Active, NoJob,
       ShownTyped
  <2>3. version \in [Layers -> Nat] /\ events \in 0..MaxEvents
    BY RenderingAssumption DEF Init
  <2>4. SettingsTyped
    BY <2>1, <2>3 DEF Init, SettingsTyped
  <2>5. Len(<<>>) = 0
    OBVIOUS
  <2>6. \A k \in 1..Len(nested) : FrameTyped(nested[k])
    BY <2>5 DEF Init
  <2>7. DrawingTyped
    BY <2>2, <2>6 DEF Init, DrawingTyped
  <2> QED BY <2>4, <2>7 DEF TInv
<1>2. CInv /\ TInv /\ [Next]_vars => TInv'
  <2> SUFFICES ASSUME CInv, TInv, [Next]_vars PROVE TInv'
    OBVIOUS
  <2>1. CASE RefreshMap
    BY <2>1, RefreshMapTyped
  <2>2. CASE ReplyArrives
    BY <2>2, ReplyArrivesTyped
  <2>3. CASE \/ \E l \in Layers : RenderLayer(l)
             \/ RenderLayersFinished \/ RenderingFinished \/ MapUpdateTimeout
    BY <2>3, WorkTyped
  <2>4. CASE LayerEvent \/ SetCanvasLayers
    BY <2>4, LayerTyped
  <2>5. CASE CanvasEvent
    BY <2>5, CanvasTyped
  <2>6. CASE UNCHANGED vars
    BY <2>6 DEF vars, TInv, SettingsTyped, DrawingTyped
  <2> QED BY <2>1, <2>2, <2>3, <2>4, <2>5, <2>6 DEF Next, Rendering
<1> QED BY <1>1, <1>2, ControlInvariant, PTL DEF Spec

\* Every variable keeps its type, and prepareJobs() runs for the job of the
\* canvas exactly when the innermost nested event loop is that of a job not
\* yet cancelled, however many jobs were cancelled inside it.
THEOREM Typing == Spec => []TypeOK
<1>1. CInv /\ TInv => TypeOK
  <2> SUFFICES ASSUME CInv, TInv PROVE TypeOK
    OBVIOUS
  <2>1. DOMAIN nested = 1..Len(nested)
    BY DEF CInv, FramesMatch, IsSeq
  <2> QED BY <2>1 DEF CInv, FramesMatch, TInv, SettingsTyped, DrawingTyped, CacheTyped,
             JobTyped, ShownTyped, FrameTyped, TypeOK
<1> QED BY <1>1, ControlInvariant, TypeInvariant, PTL
-----------------------------------------------------------------------------
(* The versions images show.                                               *)

\* Layers whose cached images are used.
Watched == registry \ editable

CacheFresh(c, W, v) ==
    \A l \in DOMAIN c.images \cap W : c.images[l].seen = v[l]

\* A renderer that is prepared shows what the layer is when it draws; all else
\* shows what the layer was when it was prepared, cached or drawn.
TasksFresh(tasks, W, v) ==
    \A l \in DOMAIN tasks \cap W :
        tasks[l].stage # "prepared" \/ l \notin VectorLayers
            => tasks[l].image.seen = v[l]

\* The inductive invariant of the versions: jobs that will write to the cache,
\* and the frames that will become such jobs, are as fresh as the cache.
FInv ==
    /\ CacheFresh(cache, Watched, version)
    /\ cache.on /\ Active(job) =>
          /\ TasksFresh(job.tasks, Watched, version)
          /\ \A k \in 1..Len(nested) : nested[k].live => TasksFresh(nested[k].tasks, Watched, version)

\* What is taken from a cache, or found in it for a view, is as fresh.
LEMMA FreshCaches ==
    ASSUME NEW c, CacheShape(c), CacheFresh(c, Watched, version)
    PROVE  /\ \A S : CacheFresh(WithoutImages(c, S), Watched, version)
           /\ \A w : CacheFresh(CacheReady(c, w), Watched, version)
BY DEF CacheShape, CacheFresh, WithoutImages, CacheReady, NoImages

\* A preparation from a fresh cache and a fresh frame gives a fresh job.
LEMMA PrepareFresh ==
    ASSUME CInv, TInv, NEW f, FrameShape(f), cache.on => TasksFresh(f.tasks, Watched, version),
           NEW below, NoneLive(below),
           NEW c, CacheShape(c), CacheFresh(c, Watched, version), c.on = cache.on,
           NEW timer, Prepare(f, below, c, timer),
           UNCHANGED <<registry, editable, version>>
    PROVE  FInv'
<1> DEFINE uncached == WithoutImages(c, LeftToPrepare(f) \cap ForcedLayers)
           waiting  == {l \in LeftToPrepare(f) \cap NetworkLayers :
                           l \notin DOMAIN uncached.images}
           before   == {l \in LeftToPrepare(f) :
                           \A n \in waiting : Position(l) < Position(n)}
           tasks    == [l \in DOMAIN f.tasks \cup before |->
                           IF l \in before THEN TaskOf(l, f.view, uncached)
                           ELSE f.tasks[l]]
<1>1. /\ cache' = WithoutImages(c, before \cap ForcedLayers)
      /\ \/ job' = NewJob("RenderingLayers", f.view, tasks) /\ nested' = below
         \/ /\ job' = NewJob("Preparing", f.view, NoImages)
            /\ \E k : nested' = Append(below, [f EXCEPT !.tasks = tasks, !.next = k])
  BY DEF Prepare
<1>3. cache.on => TasksFresh(tasks, Watched, version)
  <2>1. CacheFresh(uncached, Watched, version)
    BY FreshCaches
  <2>2. before \subseteq Layers
    BY DEF LeftToPrepare, TInv, SettingsTyped
  <2> HIDE DEF uncached, before
  <2>3. ASSUME NEW l \in before \cap Watched,
               TaskOf(l, f.view, uncached).stage # "prepared" \/ l \notin VectorLayers
        PROVE  TaskOf(l, f.view, uncached).image.seen = version[l]
    BY <2>1, <2>3 DEF TaskOf, CacheFresh
  <2> QED BY <2>3 DEF TasksFresh
<1> HIDE DEF uncached, waiting, before, tasks
<1>4. cache'.on = cache.on
  BY <1>1 DEF WithoutImages, CacheShape
<1>5. CacheFresh(cache', Watched, version)
  BY <1>1, FreshCaches
<1>6. TasksFresh(NoImages, Watched, version)
  BY DEF TasksFresh, NoImages
<1>7. cache.on => TasksFresh(job'.tasks, Watched, version)
  <2>1. PICK status, w : job' = NewJob(status, f.view, w) /\ (w = tasks \/ w = NoImages)
    BY <1>1
  <2>2. job'.tasks = w
    BY <2>1 DEF NewJob
  <2> QED BY <1>3, <1>6, <2>1, <2>2
<1>8. ASSUME cache.on, NEW k \in 1..Len(nested'), nested'[k].live
      PROVE  TasksFresh(nested'[k].tasks, Watched, version)
  <2>1. CASE nested' = below
    BY <1>8, <2>1 DEF NoneLive
  <2>2. ASSUME NEW n, nested' = Append(below, [f EXCEPT !.tasks = tasks, !.next = n])
        PROVE  TasksFresh(nested'[k].tasks, Watched, version)
    <3> DEFINE g == [f EXCEPT !.tasks = tasks, !.next = n]
    <3>1. g.tasks = tasks
      BY DEF FrameShape
    <3> HIDE DEF g
    <3>2. PICK S : below \in Seq(S)
      BY DEF NoneLive, IsSeq
    <3>3. below \in Seq(S \cup {g})
      BY <3>2
    <3>4. /\ Len(below) \in Nat /\ Len(nested') = Len(below) + 1
          /\ nested'[Len(below) + 1] = g
          /\ \A m \in 1..Len(below) : nested'[m] = below[m]
      BY <2>2, <3>3 DEF g
    <3>5. k = Len(below) + 1
      BY <1>8, <3>4 DEF NoneLive
    <3> QED BY <1>3, <1>8, <3>1, <3>4, <3>5
  <2> QED BY <1>1, <2>1, <2>2
<1>9. Watched' = Watched /\ version' = version
  BY DEF Watched
<1> QED BY <1>4, <1>5, <1>7, <1>8, <1>9 DEF FInv
\* A step that goes on with the same job: what is still cached and watched, and
\* with a cache all that is watched while a job runs, has not changed.
LEMMA SameJobFresh ==
    ASSUME CInv, FInv, UNCHANGED <<job, nested>>,
           NEW S, cache' = WithoutImages(cache, S) \/ cache' = cache,
           \A l \in DOMAIN cache'.images \cap Watched' :
               l \in Watched /\ version'[l] = version[l],
           cache.on /\ Active(job) =>
               \A l \in Watched' : l \in Watched /\ version'[l] = version[l]
    PROVE  FInv'
<1>1. /\ cache'.on = cache.on
      /\ DOMAIN cache'.images \subseteq DOMAIN cache.images
      /\ \A l \in DOMAIN cache'.images : cache'.images[l] = cache.images[l]
  BY DEF CInv, CacheShape, WithoutImages
<1>2. CacheFresh(cache', Watched', version')
  BY <1>1 DEF FInv, CacheFresh
<1>3. ASSUME NEW tasks, cache.on, Active(job), TasksFresh(tasks, Watched, version)
      PROVE  TasksFresh(tasks, Watched', version')
  BY <1>3 DEF TasksFresh
<1> QED BY <1>1, <1>2, <1>3 DEF FInv

\* A step after which there is no job.
LEMMA NoJobFresh ==
    ASSUME job' = NoJob, CacheFresh(cache', Watched', version')
    PROVE  FInv'
BY DEF FInv, Active, NoJob

\* The versions images show survive a refresh of the map.
LEMMA RefreshMapFresh ==
    ASSUME CInv, TInv, FInv, RefreshMap
    PROVE  FInv'
<1> DEFINE f == [live |-> TRUE, view |-> view, layers |-> canvasLayers,
                 tasks |-> NoImages, next |-> 1]
           c == CacheReady(CacheAfterCancel, view)
<1>1. Prepare(f, FramesAfterCancel, c, UpdatingAfterCancel)
  BY DEF RefreshMap
<1>2. FrameShape(f) /\ TasksFresh(f.tasks, Watched, version)
  BY DEF FrameShape, TasksFresh, NoImages
<1>3. CacheShape(c) /\ c.on = cache.on /\ CacheFresh(c, Watched, version)
  BY CancelKeepsCache, CacheKept, FreshCaches DEF CInv, FInv
<1>4. NoneLive(FramesAfterCancel)
  BY CancelKillsFrames
<1>5. UNCHANGED <<registry, editable, version>>
  BY DEF RefreshMap, layerVars
<1> HIDE DEF f, c
<1> QED BY <1>1, <1>2, <1>3, <1>4, <1>5, PrepareFresh

\* The layer that waited for the network is prepared as it is now.
LEMMA ReplyArrivesFresh ==
    ASSUME CInv, TInv, FInv, ReplyArrives
    PROVE  FInv'
<1> DEFINE frame == Last(nested)
           l == BaseFirst[frame.next]
           resumed == [frame EXCEPT
               !.tasks = [k \in DOMAIN @ \cup {l} |->
                             IF k = l THEN TaskOf(l, frame.view, FreshCache(FALSE)) ELSE @[k]],
               !.next = @ + 1]
<1>0. Len(nested) \in Nat /\ Len(nested) > 0
  BY DEF ReplyArrives, CInv, FramesMatch, IsSeq
<1>1. /\ NoneLive(Front(nested)) /\ FrameShape(frame)
      /\ frame.live <=> job.status = "Preparing"
  BY FrontIsDead DEF ReplyArrives
<1>2. UNCHANGED <<registry, editable, version>>
  BY DEF ReplyArrives, layerVars
<1>3. CASE frame.live
  <2>1. Prepare(resumed, Front(nested), cache, updating)
    BY <1>3 DEF ReplyArrives
  <2>2. cache.on => TasksFresh(frame.tasks, Watched, version)
    BY <1>0, <1>1, <1>3 DEF FInv, Last, Active
  <2>3. ASSUME l \in Watched,
               TaskOf(l, frame.view, FreshCache(FALSE)).stage # "prepared" \/ l \notin VectorLayers
        PROVE  TaskOf(l, frame.view, FreshCache(FALSE)).image.seen = version[l]
    <3> HIDE DEF frame, l
    <3> QED BY <2>3 DEF TaskOf, FreshCache, NoImages
  <2>4. /\ FrameShape(resumed)
        /\ resumed.tasks = [k \in DOMAIN frame.tasks \cup {l} |->
               IF k = l THEN TaskOf(l, frame.view, FreshCache(FALSE))
               ELSE frame.tasks[k]]
    <3> HIDE DEF frame, l
    <3> QED BY <1>1 DEF FrameShape
  <2> HIDE DEF frame, l, resumed
  <2>5. cache.on => TasksFresh(resumed.tasks, Watched, version)
    BY <2>2, <2>3, <2>4, ZenonT(30) DEF TasksFresh
  <2>6. CacheShape(cache) /\ CacheFresh(cache, Watched, version)
    BY DEF CInv, FInv
  <2> QED BY <1>1, <1>2, <2>1, <2>4, <2>5, <2>6, PrepareFresh
<1>4. CASE ~frame.live
  <2>1. nested' = Front(nested) /\ UNCHANGED <<job, cache>>
    BY <1>4 DEF ReplyArrives
  <2>2. \A k \in 1..Len(nested') : ~nested'[k].live
    BY <1>1, <2>1 DEF NoneLive
  <2>3. Watched' = Watched /\ version' = version
    BY <1>2 DEF Watched
  <2> HIDE DEF frame, l, resumed
  <2> QED BY <2>1, <2>2, <2>3 DEF FInv
<1> QED BY <1>3, <1>4

\* What is drawn shows the layer as it is, and only what is drawn is stored.
LEMMA WorkFresh ==
    ASSUME CInv, TInv, FInv,
           \/ \E l \in Layers : RenderLayer(l)
           \/ RenderLayersFinished
           \/ RenderingFinished
           \/ MapUpdateTimeout
    PROVE  FInv'
<1>0. Watched' = Watched /\ version' = version
  BY DEF RenderLayer, RenderLayersFinished, RenderingFinished, MapUpdateTimeout,
         layerVars, Watched
<1>1. ASSUME NEW l \in Layers, RenderLayer(l) PROVE FInv'
  <2>1. /\ job' = [job EXCEPT !.tasks[l] = Drawn(l)]
        /\ job.status = "RenderingLayers" /\ l \in DOMAIN job.tasks
        /\ job.tasks[l].stage = "prepared"
        /\ UNCHANGED <<cache, nested>>
    BY <1>1 DEF RenderLayer
  <2>2. TaskMap(job.tasks)
    BY <2>1 DEF TInv, DrawingTyped, JobTyped, Active
  <2>3. job.tasks[l] \in Tasks
    BY <2>1, <2>2, MapsByItem
  <2>4. /\ l \in VectorLayers => Drawn(l).image.seen = version[l]
        /\ l \notin VectorLayers => Drawn(l).image.seen = job.tasks[l].image.seen
    BY <2>3 DEF Drawn, Tasks, Images
  <2>5. job = [x \in {"status", "view", "tasks", "caching"} |-> job[x]]
    BY <2>1 DEF CInv, JobShape, NoJob
  <2>6. /\ job'.status = job.status
        /\ job'.tasks = [job.tasks EXCEPT ![l] = Drawn(l)]
    BY <2>1, <2>5
  <2>7. TasksFresh(job.tasks, Watched, version) => TasksFresh(job'.tasks, Watched, version)
    BY <2>1, <2>4, <2>6 DEF TasksFresh
  <2>8. \A k \in 1..Len(nested') : ~nested'[k].live
    BY <2>1 DEF CInv, FramesMatch
  <2> QED BY <1>0, <2>1, <2>6, <2>7, <2>8 DEF FInv, Active
<1>2. CASE RenderLayersFinished
  <2>1. /\ job' = [job EXCEPT !.status = "RenderingLabels"]
        /\ cache' = CleanedUp(cache, job.tasks, FALSE)
        /\ job.status = "RenderingLayers" /\ AllDrawn(job.tasks)
        /\ nested' = nested
    BY <1>2 DEF RenderLayersFinished
  <2>2. job = [x \in {"status", "view", "tasks", "caching"} |-> job[x]]
    BY <2>1 DEF CInv, JobShape, NoJob
  <2>3. job'.tasks = job.tasks /\ job'.status = "RenderingLabels"
    BY <2>1, <2>2
  <2>4. cache.on => TasksFresh(job.tasks, Watched, version)
    BY <2>1 DEF FInv, Active
  <2>5. cache'.on = cache.on /\ CacheFresh(cache', Watched, version)
    <3>1. CASE ~cache.on
      BY <2>1, <3>1 DEF CleanedUp, FInv
    <3>2. CASE cache.on
      <4>1. /\ cache'.on = cache.on
            /\ cache'.images =
                 [l \in DOMAIN cache.images \cup Drawings(job.tasks) |->
                     IF l \in Drawings(job.tasks) THEN job.tasks[l].image
                     ELSE cache.images[l]]
        BY <2>1, <3>2 DEF CleanedUp, CInv, CacheShape
      <4>2. \A l \in Drawings(job.tasks) : l \in DOMAIN job.tasks /\ job.tasks[l].stage # "prepared"
        BY <2>1 DEF Drawings, AllDrawn, Visible
      <4>3. ASSUME NEW l \in DOMAIN cache'.images \cap Watched
            PROVE  cache'.images[l].seen = version[l]
        <5>1. CASE l \in Drawings(job.tasks)
          BY <2>4, <3>2, <4>1, <4>2, <4>3, <5>1 DEF TasksFresh
        <5>2. CASE l \notin Drawings(job.tasks)
          BY <4>1, <4>3, <5>2 DEF FInv, CacheFresh
        <5> QED BY <5>1, <5>2
      <4> QED BY <4>1, <4>3 DEF CacheFresh
    <3> QED BY <3>1, <3>2
  <2>6. \A k \in 1..Len(nested') : ~nested'[k].live
    BY <2>1 DEF CInv, FramesMatch
  <2> QED BY <1>0, <2>3, <2>4, <2>5, <2>6 DEF FInv
<1>3. CASE RenderingFinished
  <2>1. job' = NoJob /\ cache' = cache
    BY <1>3 DEF RenderingFinished
  <2> QED BY <1>0, <2>1, NoJobFresh DEF FInv
<1>4. CASE MapUpdateTimeout
  BY <1>0, <1>4 DEF MapUpdateTimeout, FInv
<1> QED BY <1>1, <1>2, <1>3, <1>4

\* A layer that changes is taken from the cache, unless it is in edit mode,
\* and leaves edit mode without an image.
LEMMA LayerFresh ==
    ASSUME CInv, TInv, FInv, LayerEvent \/ SetCanvasLayers, ~RepaintsDuringCachedJob
    PROVE  FInv'
<1>0. CacheShape(cache) /\ CacheTyped(cache) /\ version \in [Layers -> Nat]
      /\ Watched \subseteq Layers
  BY DEF CInv, TInv, SettingsTyped, DrawingTyped, Watched
<1>1. ASSUME NEW l \in Layers, LayerChanges(l) PROVE FInv'
  <2>1. /\ cache' = WithoutImages(cache, {l}) /\ Watched' = Watched
        /\ ~cache.on \/ ~Active(job)
        /\ version' = [version EXCEPT ![l] = @ + 1]
        /\ UNCHANGED <<job, nested>>
    BY <1>1 DEF LayerChanges, LayerRequestedRepaint, Changeable, Watched
  <2>2. l \notin DOMAIN cache'.images
    BY <1>0, <2>1 DEF WithoutImages, CacheShape
  <2>3. \A k \in DOMAIN cache'.images \cap Watched' :
            k \in Watched /\ version'[k] = version[k]
    BY <1>0, <2>1, <2>2
  <2> QED BY <2>1, <2>3, SameJobFresh
<1>2. ASSUME NEW l \in Layers, StartEditing(l) PROVE FInv'
  <2>1. /\ cache' = WithoutImages(cache, {l}) /\ Watched' \subseteq Watched
        /\ UNCHANGED <<job, nested, version>>
    BY <1>2 DEF StartEditing, LayerRequestedRepaint, Watched
  <2> QED BY <2>1, SameJobFresh
<1>3. ASSUME NEW l \in Layers, EditFeatures(l) PROVE FInv'
  <2>1. /\ cache' = cache /\ Watched' = Watched /\ l \notin Watched
        /\ version' = [version EXCEPT ![l] = @ + 1]
        /\ UNCHANGED <<job, nested>>
    BY <1>3 DEF EditFeatures, jobVars, Watched
  <2>2. \A k \in Watched : version'[k] = version[k]
    BY <1>0, <2>1
  <2> QED BY <2>1, <2>2, SameJobFresh
<1>4. ASSUME NEW l \in Layers, StopEditing(l) PROVE FInv'
  <2>1. /\ cache' = WithoutImages(cache, {l}) /\ Watched' \subseteq Watched \cup {l}
        /\ ~cache.on \/ ~Active(job)
        /\ version' = [version EXCEPT ![l] = @ + 1] \/ version' = version
        /\ UNCHANGED <<job, nested>>
    BY <1>4 DEF StopEditing, LayerRequestedRepaint, Changeable, Watched
  <2>2. l \notin DOMAIN cache'.images
    BY <1>0, <2>1 DEF WithoutImages, CacheShape
  <2>3. \A k \in DOMAIN cache'.images \cap Watched' :
            k \in Watched /\ version'[k] = version[k]
    BY <1>0, <2>1, <2>2
  <2> QED BY <2>1, <2>3, SameJobFresh
<1>5. ASSUME NEW l \in Layers, RemoveMapLayer(l) PROVE FInv'
  <2>1. cache' = cache /\ Watched' \subseteq Watched /\ UNCHANGED <<job, nested, version>>
    BY <1>5 DEF RemoveMapLayer, jobVars, Watched
  <2> QED BY <2>1, SameJobFresh
<1>6. CASE SetCanvasLayers
  <2>1. cache' = cache /\ Watched' = Watched /\ UNCHANGED <<job, nested, version>>
    BY <1>6 DEF SetCanvasLayers, jobVars, layerVars, Watched
  <2> QED BY <2>1, SameJobFresh
<1> QED BY <1>1, <1>2, <1>3, <1>4, <1>5, <1>6 DEF LayerEvent

\* What the user does with the canvas changes no layer.
LEMMA CanvasFresh ==
    ASSUME CInv, TInv, FInv, CanvasEvent
    PROVE  FInv'
<1>0. Watched' = Watched /\ version' = version
  BY DEF CanvasEvent, ZoomTo, SetCrsTransformEnabled, UserStopsRendering,
         RefreshMapCanvas, Freeze, SetRenderFlag, SetCachingEnabled, layerVars, Watched
<1>1. CASE UNCHANGED jobVars
  BY <1>0, <1>1 DEF jobVars, FInv
<1>2. CASE StopRendering
  BY <1>0, <1>2, CancelKeepsCache, NoJobFresh DEF StopRendering, FInv
<1>3. ASSUME NEW on, cache' = FreshCache(on), job' = NoJob PROVE FInv'
  <2>1. CacheFresh(cache', Watched', version')
    BY <1>3 DEF FreshCache, NoImages, CacheFresh
  <2> QED BY <1>3, <2>1, NoJobFresh
<1> QED BY <1>1, <1>2, <1>3 DEF CanvasEvent, ZoomTo, SetCrsTransformEnabled,
       UserStopsRendering, RefreshMapCanvas, Freeze, SetRenderFlag, SetCachingEnabled

\* No outdated image is in the cache, however refreshes, cancelled jobs, edit
\* sessions and nested event loops follow each other, as long as no layer
\* changes while a job with a cache runs: cleanupJobs() would store what a
\* renderer drew before the change.
THEOREM CacheNeverStale ==
    ASSUME ~RepaintsDuringCachedJob
    PROVE  Spec => []NoStaleImage
<1>1. Init => FInv
  <2> SUFFICES ASSUME Init PROVE FInv
    OBVIOUS
  <2>1. CacheFresh(cache, Watched, version)
    BY DEF Init, FreshCache, NoImages, CacheFresh
  <2>2. ~Active(job)
    BY DEF Init, Active, NoJob
  <2> QED BY <2>1, <2>2 DEF FInv
<1>2. CInv /\ TInv /\ FInv /\ [Next]_vars => FInv'
  <2> SUFFICES ASSUME CInv, TInv, FInv, [Next]_vars PROVE FInv'
    OBVIOUS
  <2>1. CASE RefreshMap
    BY <2>1, RefreshMapFresh
  <2>2. CASE ReplyArrives
    BY <2>2, ReplyArrivesFresh
  <2>3. CASE \/ \E l \in Layers : RenderLayer(l)
             \/ RenderLayersFinished \/ RenderingFinished \/ MapUpdateTimeout
    BY <2>3, WorkFresh
  <2>4. CASE LayerEvent \/ SetCanvasLayers
    BY <2>4, LayerFresh
  <2>5. CASE CanvasEvent
    BY <2>5, CanvasFresh
  <2>6. CASE UNCHANGED vars
    <3>1. Watched' = Watched /\ UNCHANGED <<version, cache, job, nested>>
      BY <2>6 DEF vars, Watched
    <3> QED BY <3>1 DEF FInv
  <2> QED BY <2>1, <2>2, <2>3, <2>4, <2>5, <2>6 DEF Next, Rendering
<1>3. FInv => NoStaleImage
  BY DEF FInv, CacheFresh, Watched, NoStaleImage
<1> QED BY <1>1, <1>2, <1>3, ControlInvariant, TypeInvariant, PTL DEF Spec
=============================================================================
