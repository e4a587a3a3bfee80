----------------------------- MODULE MapRendering -----------------------------
(***************************************************************************)
(* The map canvas, its rendering job and its cache of layer images.        *)
(*                                                                         *)
(* The canvas lives in the main thread, which handles one event at a time: *)
(* an action is one handler.  Only a network layer breaks this: creating   *)
(* its renderer runs an event loop inside QgsMapRendererJob::prepareJobs,  *)
(* inside start(), inside refreshMap(), and the handlers this loop calls   *)
(* come between.  `nested' is the stack of the starts interrupted so.      *)
(* Layers are drawn by the threads of a pool (QgsMapRendererParallelJob).  *)
(*                                                                         *)
(* Of a layer the model keeps a version, of an image the version it shows  *)
(* and the view it was drawn for.                                          *)
(***************************************************************************)
EXTENDS Naturals, Sequences, FiniteSets, SequencesExt

CONSTANTS
    Layers,
    BaseFirst,          \* the layers in the order they are prepared
    VectorLayers,       \* their renderers read the layer in render()
    NetworkLayers,      \* their renderers wait for the network when created
    Extents,
    MinimalExtent,      \* of a cache that was cleared
    TransformsWithCache, \* whether on-the-fly projection is switched while there
                        \* is a cache
    RemovesLayers,      \* layers the user removes
    RepaintsDuringCachedJob, \* whether layers change while a job with a cache runs
    MaxNested,          \* bound: nested event loops
    MaxEvents           \* bound: events from outside

ASSUME RenderingAssumption ==
    /\ BaseFirst \in Seq(Layers)
    /\ Range(BaseFirst) = Layers /\ Len(BaseFirst) = Cardinality(Layers)
    /\ VectorLayers \subseteq Layers /\ NetworkLayers \subseteq Layers \ VectorLayers
    /\ RemovesLayers \subseteq Layers /\ Extents # {}
    /\ MinimalExtent \notin Extents
    /\ MaxNested \in Nat \ {0} /\ MaxEvents \in Nat
    /\ {TransformsWithCache, RepaintsDuringCachedJob} \subseteq BOOLEAN

VARIABLES
    registry,   \* the layers that exist
    version,    \* of the data and the style of each layer
    editable,   \* the layers in edit mode
    canvasLayers, \* mSettings.layers()
    pendingUpdate, \* QgsLayerTreeMapCanvasBridge::mPendingCanvasUpdate
    view,       \* mSettings: extent and whether projections are transformed
    renderFlag, \* mRenderFlag
    frozen,     \* mFrozen
    scheduled,  \* mRefreshScheduled: mRefreshTimer runs
    cache,      \* mCache: whether there is one, the extent, the images
    job,        \* mJob
    nested,     \* the calls of start() that wait in a nested event loop
    updating,   \* mMapUpdateTimer runs
    shown,      \* the content of mMap: a view, and an image by layer
    missed,     \* history: a refresh was refused or its job stopped since the
                \* last job started
    strayRead,  \* history: a renderer read a layer that was deleted
    events      \* events from outside that may still come

settingsVars == <<canvasLayers, pendingUpdate, view, renderFlag, frozen>>
layerVars == <<registry, version, editable>>
jobVars == <<cache, job, nested, updating, shown>>
vars == <<registry, version, editable, canvasLayers, pendingUpdate, view,
          renderFlag, frozen, scheduled, cache, job, nested, updating, shown,
          missed, strayRead, events>>

-----------------------------------------------------------------------------
(* Images and the cache.                                                   *)

Views == [extent : Extents, transformed : BOOLEAN]
NoImages == [l \in {} |-> {}]

\* The cache as constructed, or no cache.
FreshCache(on) == [on |-> on, extent |-> MinimalExtent, images |-> NoImages]

WithoutImages(c, S) ==
    [c EXCEPT !.images = [l \in DOMAIN @ \ S |-> @[l]]]

CacheReadyUnchecked(c, w) ==
    IF c.on THEN [c EXCEPT !.extent = w.extent] ELSE c

\* init(): the images stay when extent and scale are as before.
CacheReady(c, w) ==
    IF c.on /\ c.extent # w.extent
    THEN [on |-> TRUE, extent |-> w.extent, images |-> NoImages]
    ELSE c

\* What a layer contributes to a job: the cached image, or one to be drawn.
\* Only renderers of vector layers look at the layer again when they draw.
TaskOf(l, w, c) ==
    IF l \in DOMAIN c.images
    THEN [stage |-> "cached", image |-> c.images[l]]
    ELSE [stage |-> "prepared",
          image |-> [seen |-> IF l \in VectorLayers THEN 0 ELSE version[l],
                     view |-> w]]

Visible(tasks) == {l \in DOMAIN tasks : tasks[l].stage # "prepared"}

\* composeImage(), as the renderedImage() of a job.
Composed(j) ==
    [view |-> j.view, images |-> [l \in Visible(j.tasks) |-> j.tasks[l].image]]

Drawings(tasks) == {l \in DOMAIN tasks : tasks[l].stage # "cached"}

CleanedUpAlways(c, tasks, stopped) ==
    IF ~c.on THEN c
    ELSE [c EXCEPT !.images = [l \in DOMAIN @ \cup Drawings(tasks) |->
             IF l \in Drawings(tasks) THEN tasks[l].image ELSE @[l]]]

\* cleanupJobs(): what was drawn goes to the cache, unless the job was stopped.
CleanedUp(c, tasks, stopped) ==
    IF ~c.on \/ stopped THEN c
    ELSE [c EXCEPT !.images = [l \in DOMAIN @ \cup Drawings(tasks) |->
             IF l \in Drawings(tasks) THEN tasks[l].image ELSE @[l]]]

-----------------------------------------------------------------------------
(* Jobs.                                                                   *)

NoJob == [status |-> "None"]
Active(j) == j.status # "None"

\* A job that begins: status Preparing is RenderingLayers while prepareJobs()
\* has not returned and mLayerJobs is still empty.
NewJob(status, w, tasks) ==
    [status |-> status, view |-> w, tasks |-> tasks, caching |-> cache.on]

Position(l) == CHOOSE k \in DOMAIN BaseFirst : BaseFirst[k] = l

\* The layers the job of a frame has still to prepare; a layer that is not in
\* the registry is passed over.
LeftToPrepare(frame) ==
    {l \in frame.layers \cap registry : Position(l) >= frame.next}

NoForcedLayers == {}

\* Layers in edit mode are drawn again whatever the cache holds.
ForcedLayers == editable

\* prepareJobs() from frame.next on, up to the first layer whose renderer must
\* be created and waits for the network.
Prepare(frame, below, c, timer) ==
    LET uncached == WithoutImages(c, LeftToPrepare(frame) \cap ForcedLayers)
        waiting  == {l \in LeftToPrepare(frame) \cap NetworkLayers :
                        l \notin DOMAIN uncached.images}
        before   == {l \in LeftToPrepare(frame) :
                        \A n \in waiting : Position(l) < Position(n)}
        tasks    == [l \in DOMAIN frame.tasks \cup before |->
                        IF l \in before THEN TaskOf(l, frame.view, uncached)
                        ELSE frame.tasks[l]]
    IN  /\ cache' = WithoutImages(c, before \cap ForcedLayers)
        /\ IF waiting = {}
           THEN /\ job' = NewJob("RenderingLayers", frame.view, tasks)
                /\ nested' = below
                /\ updating' = TRUE
           ELSE /\ job' = NewJob("Preparing", frame.view, NoImages)
                /\ nested' = Append(below,
                       [frame EXCEPT !.tasks = tasks,
                                     !.next = CHOOSE k \in {Position(n) : n \in waiting} :
                                         \A n \in waiting : k <= Position(n)])
                /\ updating' = timer

FramesAfterCancelAlive == nested

\* cancel() of the job of the canvas: it waits for the workers, its frame, if
\* prepareJobs() has not returned, stays on the stack.
FramesAfterCancel ==
    IF job.status = "Preparing"
    THEN [nested EXCEPT ![Len(nested)].live = FALSE] ELSE nested

CacheAfterCancel ==
    IF job.status = "RenderingLayers" THEN CleanedUp(cache, job.tasks, TRUE) ELSE cache

\* rendererJobFinished(): the content of a cancelled job is not shown.
ContentAfter(j, cancelled) == IF cancelled THEN shown ELSE Composed(j)

ShownAfterCancel == IF Active(job) THEN ContentAfter(job, TRUE) ELSE shown
UpdatingAfterCancel == updating /\ ~Active(job)

-----------------------------------------------------------------------------
(* Requests to draw the map.                                               *)

\* refresh(): one pending request is enough, and a canvas that is frozen or
\* suppressed takes none.
Refresh ==
    IF renderFlag /\ ~frozen
    THEN scheduled' = TRUE /\ UNCHANGED missed
    ELSE missed' = TRUE /\ UNCHANGED scheduled

\* refreshMap(), called by the timer: the running job is cancelled and a new
\* one started with the settings of now.
RefreshMap ==
    /\ scheduled
    /\ Len(nested) < MaxNested
    /\ scheduled' = FALSE
    /\ missed' = FALSE
    /\ shown' = ShownAfterCancel
    /\ LET frame == [live |-> TRUE, view |-> view, layers |-> canvasLayers,
                     tasks |-> NoImages, next |-> 1]
       IN  Prepare(frame, FramesAfterCancel, CacheReady(CacheAfterCancel, view),
                   UpdatingAfterCancel)
    /\ UNCHANGED <<settingsVars, layerVars, strayRead, events>>

ReplyArrivesUnchecked ==
    /\ nested # <<>>
    /\ LET frame == Last(nested)
           l == BaseFirst[frame.next]
           resumed == [frame EXCEPT
               !.tasks = [k \in DOMAIN @ \cup {l} |->
                             IF k = l THEN TaskOf(l, frame.view, FreshCache(FALSE)) ELSE @[k]],
               !.next = @ + 1]
       IN  Prepare(resumed, Front(nested), cache, updating)
    /\ UNCHANGED <<settingsVars, layerVars, scheduled, shown, missed, strayRead, events>>

\* The answer from the network ends the innermost event loop.  start() goes on
\* with the job, unless it finds it no longer active.
ReplyArrives ==
    /\ nested # <<>>
    /\ LET frame == Last(nested)
           l == BaseFirst[frame.next]
           resumed == [frame EXCEPT
               !.tasks = [k \in DOMAIN @ \cup {l} |->
                             IF k = l THEN TaskOf(l, frame.view, FreshCache(FALSE)) ELSE @[k]],
               !.next = @ + 1]
       IN  IF frame.live
           THEN Prepare(resumed, Front(nested), cache, updating)
           ELSE /\ nested' = Front(nested)
                /\ updating' = TRUE
                /\ UNCHANGED <<job, cache>>
    /\ UNCHANGED <<settingsVars, layerVars, scheduled, shown, missed, strayRead, events>>

-----------------------------------------------------------------------------
(* The workers and the end of a job.                                       *)

Drawn(l) ==
    [stage |-> "drawn",
     image |-> [job.tasks[l].image EXCEPT
                   !.seen = IF l \in VectorLayers THEN version[l] ELSE @]]

\* renderLayerStatic(): QgsVectorLayerRenderer::render() builds the feature
\* source from the layer, in the worker.
RenderLayer(l) ==
    /\ job.status = "RenderingLayers"
    /\ l \in DOMAIN job.tasks
    /\ job.tasks[l].stage = "prepared"
    /\ job' = [job EXCEPT !.tasks[l] = Drawn(l)]
    /\ strayRead' = (strayRead \/ (l \in VectorLayers /\ l \notin registry))
    /\ UNCHANGED <<settingsVars, layerVars, scheduled, cache, nested, updating,
                   shown, missed, events>>

AllDrawn(tasks) == Visible(tasks) = DOMAIN tasks

\* renderLayersFinished(), called for a job that was not stopped.
RenderLayersFinished ==
    /\ job.status = "RenderingLayers"
    /\ AllDrawn(job.tasks)
    /\ cache' = CleanedUp(cache, job.tasks, FALSE)
    /\ job' = [job EXCEPT !.status = "RenderingLabels"]
    /\ UNCHANGED <<settingsVars, layerVars, scheduled, nested, updating, shown,
                   missed, strayRead, events>>

\* The labels are drawn over the final image, and finished() reaches the canvas.
RenderingFinished ==
    /\ job.status = "RenderingLabels"
    /\ shown' = ContentAfter(job, FALSE)
    /\ job' = NoJob
    /\ updating' = FALSE
    /\ UNCHANGED <<settingsVars, layerVars, scheduled, cache, nested, missed,
                   strayRead, events>>

\* mapUpdateTimeout(): the image as far as it is drawn.
MapUpdateTimeout ==
    /\ updating
    /\ Active(job)
    /\ shown' = Composed(job)
    /\ UNCHANGED <<settingsVars, layerVars, scheduled, cache, job, nested,
                   updating, missed, strayRead, events>>

-----------------------------------------------------------------------------
(* Events from outside.                                                    *)

Event == events > 0 /\ events' = events - 1

\* Nested event loops take no input of the user.
UserEvent == Event /\ nested = <<>>

Changeable == RepaintsDuringCachedJob \/ ~cache.on \/ ~Active(job)

LayerRequestedRepaintUncached(l) ==
    /\ cache' = cache
    /\ IF l \in canvasLayers THEN Refresh ELSE UNCHANGED <<scheduled, missed>>

\* repaintRequested(): the cache forgets the image, the canvas refreshes.
LayerRequestedRepaint(l) ==
    /\ cache' = WithoutImages(cache, {l})
    /\ IF l \in canvasLayers THEN Refresh ELSE UNCHANGED <<scheduled, missed>>

\* The style or the data of a layer changes.
LayerChanges(l) ==
    /\ Event
    /\ l \in registry \ editable
    /\ Changeable
    /\ version' = [version EXCEPT ![l] = @ + 1]
    /\ LayerRequestedRepaint(l)
    /\ UNCHANGED <<settingsVars, registry, editable, job, nested, updating, shown, strayRead>>

StartEditing(l) ==
    /\ UserEvent
    /\ l \in (registry \cap VectorLayers) \ editable
    /\ editable' = editable \cup {l}
    /\ LayerRequestedRepaint(l)
    /\ UNCHANGED <<settingsVars, registry, version, job, nested, updating, shown, strayRead>>

\* A map tool changes features and calls refresh(); the layer says nothing.
EditFeatures(l) ==
    /\ UserEvent
    /\ l \in editable
    /\ version' = [version EXCEPT ![l] = @ + 1]
    /\ Refresh
    /\ UNCHANGED <<settingsVars, registry, editable, jobVars, strayRead>>

\* toggleEditing(): what is displayed stays (commit) or changes back (roll back).
StopEditing(l) ==
    /\ UserEvent
    /\ l \in editable
    /\ Changeable
    /\ editable' = editable \ {l}
    /\ \E rolledBack \in BOOLEAN :
           version' = IF rolledBack THEN [version EXCEPT ![l] = @ + 1] ELSE version
    /\ LayerRequestedRepaint(l)
    /\ UNCHANGED <<settingsVars, registry, job, nested, updating, shown, strayRead>>

\* removeMapLayers(): the layer is deleted at once, the canvas hears of it later.
RemoveMapLayer(l) ==
    /\ UserEvent
    /\ l \in (registry \cap RemovesLayers) \ editable
    /\ registry' = registry \ {l}
    /\ pendingUpdate' = TRUE
    /\ UNCHANGED <<version, editable, canvasLayers, view, renderFlag, frozen,
                   scheduled, jobVars, missed, strayRead>>

\* QgsLayerTreeMapCanvasBridge::setCanvasLayers(), a queued call.
SetCanvasLayers ==
    /\ pendingUpdate
    /\ pendingUpdate' = FALSE
    /\ canvasLayers' = registry
    /\ IF canvasLayers # registry THEN Refresh ELSE UNCHANGED <<scheduled, missed>>
    /\ UNCHANGED <<layerVars, view, renderFlag, frozen, jobVars, strayRead, events>>

\* setExtent() and refresh(), by the user or by the GPS.
ZoomTo(e) ==
    /\ Event
    /\ view' = [view EXCEPT !.extent = e]
    /\ Refresh
    /\ UNCHANGED <<layerVars, canvasLayers, pendingUpdate, renderFlag, frozen,
                   jobVars, strayRead>>

SetCrsTransformEnabled ==
    /\ UserEvent
    /\ TransformsWithCache \/ ~cache.on
    /\ view' = [view EXCEPT !.transformed = ~@]
    /\ Refresh
    /\ UNCHANGED <<layerVars, canvasLayers, pendingUpdate, renderFlag, frozen,
                   jobVars, strayRead>>

Freeze(frz) ==
    /\ UserEvent
    /\ frozen' = frz
    /\ UNCHANGED <<layerVars, canvasLayers, pendingUpdate, view, renderFlag,
                   scheduled, jobVars, missed, strayRead>>

StopRendering ==
    /\ cache' = CacheAfterCancel
    /\ nested' = FramesAfterCancel
    /\ job' = NoJob
    /\ shown' = ShownAfterCancel
    /\ updating' = UpdatingAfterCancel
    /\ missed' = (missed \/ Active(job))
    /\ UNCHANGED scheduled

\* The escape key.
UserStopsRendering ==
    /\ UserEvent
    /\ StopRendering
    /\ UNCHANGED <<settingsVars, layerVars, strayRead>>

SetRenderFlag(flag) ==
    /\ UserEvent
    /\ renderFlag' = flag
    /\ IF flag
       THEN /\ IF frozen THEN missed' = TRUE /\ UNCHANGED scheduled
                         ELSE scheduled' = TRUE /\ UNCHANGED missed
            /\ UNCHANGED jobVars
       ELSE StopRendering
    /\ UNCHANGED <<layerVars, canvasLayers, pendingUpdate, view, frozen, strayRead>>

SetCachingEnabledAtOnce(enabled) ==
    /\ UserEvent
    /\ enabled # cache.on
    /\ cache' = FreshCache(enabled)
    /\ UNCHANGED <<settingsVars, layerVars, scheduled, job, nested, updating,
                   shown, missed, strayRead>>

\* setCachingEnabled() waits for the job first, which stores and shows its
\* images; the job keeps the cache it was given.
FinishedJob == [job EXCEPT !.tasks =
    [l \in DOMAIN @ |-> IF @[l].stage = "prepared" THEN Drawn(l) ELSE @[l]]]

SetCachingEnabled(enabled) ==
    /\ UserEvent
    /\ enabled # cache.on
    /\ IF Active(job)
       THEN /\ shown' = ContentAfter(FinishedJob, FALSE)
            /\ updating' = FALSE
            /\ strayRead' = (strayRead \/ \E l \in DOMAIN job.tasks \cap VectorLayers :
                                 job.tasks[l].stage = "prepared" /\ l \notin registry)
       ELSE UNCHANGED <<shown, updating, strayRead>>
    /\ job' = NoJob
    /\ cache' = FreshCache(enabled)
    /\ UNCHANGED <<settingsVars, layerVars, scheduled, nested, missed>>

\* refreshMapCanvas(): stop, forget every image, draw anew.
RefreshMapCanvas ==
    /\ UserEvent
    /\ cache' = FreshCache(cache.on)
    /\ job' = NoJob
    /\ shown' = ShownAfterCancel
    /\ updating' = UpdatingAfterCancel
    /\ IF renderFlag /\ ~frozen
       THEN scheduled' = TRUE /\ missed' = (missed \/ Active(job))
       ELSE missed' = TRUE /\ UNCHANGED scheduled
    /\ UNCHANGED <<settingsVars, layerVars, nested, strayRead>>

-----------------------------------------------------------------------------
(* The constructor of the canvas refreshes; the application sets caching.  *)

Init ==
    /\ registry = Layers /\ version = [l \in Layers |-> 1] /\ editable = {}
    /\ canvasLayers = Layers /\ pendingUpdate = FALSE
    /\ view \in {[extent |-> e, transformed |-> FALSE] : e \in Extents}
    /\ renderFlag = TRUE /\ frozen = FALSE
    /\ scheduled = TRUE
    /\ \E on \in BOOLEAN : cache = FreshCache(on)
    /\ job = NoJob /\ nested = <<>> /\ updating = FALSE
    /\ shown = [view |-> view, images |-> NoImages]
    /\ missed = FALSE /\ strayRead = FALSE
    /\ events = MaxEvents

LayerEvent ==
    \E l \in Layers : \/ LayerChanges(l) \/ StartEditing(l) \/ EditFeatures(l)
                      \/ StopEditing(l) \/ RemoveMapLayer(l)

CanvasEvent ==
    \/ \E e \in Extents : ZoomTo(e)
    \/ SetCrsTransformEnabled
    \/ UserStopsRendering
    \/ RefreshMapCanvas
    \/ \E flag \in BOOLEAN : Freeze(flag) \/ SetRenderFlag(flag) \/ SetCachingEnabled(flag)

Rendering ==
    \/ RefreshMap \/ ReplyArrives
    \/ \E l \in Layers : RenderLayer(l)
    \/ RenderLayersFinished \/ RenderingFinished \/ SetCanvasLayers

Next == Rendering \/ MapUpdateTimeout \/ LayerEvent \/ CanvasEvent

\* Timers fire, the network answers or times out, the threads run and their
\* signals are delivered.
Fairness ==
    /\ WF_vars(RefreshMap) /\ WF_vars(ReplyArrives)
    /\ \A l \in Layers : WF_vars(RenderLayer(l))
    /\ WF_vars(RenderLayersFinished) /\ WF_vars(RenderingFinished)
    /\ WF_vars(SetCanvasLayers)

Spec == Init /\ [][Next]_vars /\ Fairness

-----------------------------------------------------------------------------
(* Properties.                                                             *)

Images == [seen : Nat, view : Views]
ImageMap(f) == DOMAIN f \subseteq Layers /\ Range(f) \subseteq Images
TaskMap(f) ==
    /\ DOMAIN f \subseteq Layers
    /\ Range(f) \subseteq [stage : {"cached", "prepared", "drawn"}, image : Images]

\* Types of the variables; prepareJobs() runs for the job of the canvas exactly
\* when the innermost nested event loop is that of a job not yet cancelled.
TypeOK ==
    /\ registry \subseteq Layers /\ version \in [Layers -> Nat]
    /\ editable \subseteq registry \cap VectorLayers /\ canvasLayers \subseteq Layers
    /\ view \in Views
    /\ {pendingUpdate, renderFlag, frozen, scheduled, updating, missed, strayRead} \subseteq BOOLEAN
    /\ cache.on \in BOOLEAN /\ cache.extent \in Extents \cup {MinimalExtent}
    /\ ImageMap(cache.images) /\ (~cache.on => DOMAIN cache.images = {})
    /\ Active(job) => /\ job.status \in {"Preparing", "RenderingLayers", "RenderingLabels"}
                      /\ job.view \in Views /\ TaskMap(job.tasks)
                      /\ job.caching \in BOOLEAN
    /\ \A k \in DOMAIN nested :
           /\ TaskMap(nested[k].tasks) /\ nested[k].next \in DOMAIN BaseFirst
           /\ nested[k].live <=> (job.status = "Preparing" /\ k = Len(nested))
    /\ job.status = "Preparing" => nested # <<>>
    /\ shown.view \in Views /\ ImageMap(shown.images)
    /\ events \in 0 .. MaxEvents

\* The layers on the map were all drawn for the view the map shows, also those
\* that were not drawn now but taken from the cache
\* (QgsMapRendererCache::init(), prepareJobs(), composeImage()).
ImagesFitView ==
    \A l \in DOMAIN shown.images : shown.images[l].view = shown.view

\* An image in the cache shows the layer as it is.  A layer in edit mode is
\* excepted, its image is never used (QgsMapRendererCache::layerRequestedRepaint(),
\* QgsMapRendererJob::cleanupJobs()).
NoStaleImage ==
    \A l \in DOMAIN cache.images \cap (registry \ editable) :
        cache.images[l].seen = version[l]

\* A running job was given the cache the canvas has now: setCachingEnabled()
\* deletes no cache that a job still writes its images to.
JobUsesCanvasCache ==
    Active(job) => job.caching = cache.on

\* A renderer never reads a layer that was deleted (qgsmaplayerrenderer.h: the
\* renderer needs no calls to the layer once it is created).
NoDeletedLayerRead == ~strayRead

Abandons ==
    /\ job.status \in {"Preparing", "RenderingLayers"}
    /\ \/ scheduled /\ ~scheduled'
       \/ ~Active(job)' /\ cache'.on = cache.on

\* A job cancelled before its layers are drawn leaves no trace: the map keeps
\* its content and the cache gains no image (stopRendering(), cleanupJobs()).
CancelledJobsLeaveNoTrace ==
    [][Abandons => /\ shown' = shown
                   /\ DOMAIN cache'.images \subseteq DOMAIN cache.images]_vars

\* A job cancelled while it prepares its layers does not start when the nested
\* event loop ends (the check of isActive() in start()).
CancelledJobNeverStarts ==
    [][(job'.status = "RenderingLayers" /\ job.status # "RenderingLayers") =>
           job.status = "Preparing" \/ (scheduled /\ ~scheduled')]_vars

Current ==
    /\ shown.view = view
    /\ DOMAIN shown.images = registry
    /\ \A l \in registry : shown.images[l].seen = version[l]

\* The map catches up with its layers and its view, unless a refresh was
\* refused or its job stopped by the user (refresh(), refreshMap()).
EventuallyCurrent == []<>(missed \/ Current)
=============================================================================
