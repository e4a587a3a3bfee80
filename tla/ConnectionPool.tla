---------------------------- MODULE ConnectionPool ----------------------------
(***************************************************************************)
(* QgsConnectionPoolGroup for one data source and the part of              *)
(* QgsConnectionPool that finds, counts and deletes it: feature iterators  *)
(* of several threads acquire and release connections, the main thread     *)
(* runs the expiration timer, and an OGR provider writes to the source.    *)
(*                                                                         *)
(* A group is of one of two kinds.  A group of QgsOrgConnPool ("ogr") is   *)
(* reference counted and its handles go stale when the source is written.  *)
(* One of QgsPostgresConnPool ("server") lives for ever, its connections   *)
(* are always valid, and opening one may fail.                             *)
(*                                                                         *)
(* A connection is what is worth knowing of it: whether it is marked valid *)
(* and whether it was opened after the last write.                         *)
(***************************************************************************)
EXTENDS Integers, Sequences, FiniteSets

CONSTANTS
    Iterators,        \* the feature iterators
    MainIterators,    \* those that run in the main thread
    Outer,            \* the iterator during whose reading each one is opened
    None,             \* no iterator
    MaxConnections,   \* CONN_POOL_MAX_CONCURRENT_CONNS
    Kinds,            \* kinds of group to look at
    ShapeIndex,       \* whether a shapefile has an .sbn index: SUBSET BOOLEAN
    MaxCalls          \* bound: calls queued for the main thread

ASSUME PoolAssumption ==
    /\ IsFiniteSet(Iterators) /\ MainIterators \subseteq Iterators
    /\ None \notin Iterators
    /\ Outer \in [Iterators -> Iterators \cup {None}]
    /\ \A i \in Iterators : Outer[i] # None => Outer[Outer[i]] = None
    /\ MaxConnections \in Nat \ {0} /\ MaxCalls \in Nat
    /\ Kinds \subseteq {"ogr", "server"}
    /\ ShapeIndex \subseteq BOOLEAN

VARIABLES
    kind,         \* the kind of the group
    exists,       \* mGroups has the group
    refs,         \* mRefCount
    permits,      \* sem
    conns,        \* conns, the last one on top
    aged,         \* how many of them, from the bottom, have expired
    timer,        \* expirationTimer->isActive()
    calls,        \* slots queued for the main thread: TRUE starts the timer
    pc,           \* where each iterator is
    held,         \* the connection of each iterator that is opened or reading
    provider,     \* the OGR provider is open
    todo,         \* what the provider's current operation still calls
    sound         \* no assertion failed, no group in use was deleted

vars == <<kind, exists, refs, permits, conns, aged, timer, calls, pc, held,
          provider, todo, sound>>

Connection == [valid : BOOLEAN, fresh : BOOLEAN]
Opened == [valid |-> TRUE, fresh |-> TRUE]

\* closed: no feature source; ready: a source, no open iterator; waiting: in
\* sem.acquire(); lookup: before connMutex; opening: in ConnectionCreate;
\* opened: before acquiredConns.append; reading: acquire() has returned;
\* released: pushed, before sem.release().
Places == {"closed", "ready", "waiting", "lookup", "opening", "opened",
           "reading", "released"}

InGroup == {i \in Iterators : pc[i] \notin {"closed", "ready"}}
Acquiring == {i \in Iterators :
                pc[i] \in {"waiting", "lookup", "opening", "opened"}}
Permitted == {i \in Iterators :
                pc[i] \in {"lookup", "opening", "opened", "reading", "released"}}
Connected == {i \in Iterators : pc[i] \in {"opening", "opened", "reading"}}

Goes(i, place) == pc' = [pc EXCEPT ![i] = place]

Init ==
    /\ kind \in Kinds
    /\ exists = (kind = "ogr") /\ refs = IF kind = "ogr" THEN 1 ELSE 0
    /\ permits = MaxConnections
    /\ conns = <<>> /\ aged = 0
    /\ timer = FALSE /\ calls = <<>>
    /\ pc = [i \in Iterators |-> "closed"]
    /\ held = [i \in Iterators |-> Opened]
    /\ provider = (kind = "ogr") /\ todo = <<>>
    /\ sound = TRUE

-----------------------------------------------------------------------------
(* Reference counts.  A deleted group takes its pooled connections, its    *)
(* timer and the calls queued for it along.                                *)

groupVars == <<exists, refs, permits, conns, aged, timer, calls>>

Emptied ==
    /\ permits' = MaxConnections
    /\ conns' = <<>> /\ aged' = 0 /\ timer' = FALSE /\ calls' = <<>>

NewGroup(count) == exists' = TRUE /\ refs' = count /\ Emptied

Ref ==
    IF exists
    THEN /\ refs' = refs + 1
         /\ UNCHANGED <<exists, permits, conns, aged, timer, calls>>
    ELSE NewGroup(1)

\* The assertion of unref() holds, and no iterator uses a group it deletes.
Unref ==
    /\ sound' = (exists => refs > 0 /\ (refs = 1 => InGroup = {}))
    /\ IF exists /\ refs # 1
       THEN /\ refs' = refs - 1
            /\ UNCHANGED <<exists, permits, conns, aged, timer, calls>>
       ELSE exists' = FALSE /\ refs' = 0 /\ Emptied

\* The main thread is free to go on, or to return to its event loop.
MainIdle == todo = <<>> /\ Acquiring \cap MainIterators = {}

\* Mutant: a feature source holds no reference.
OpenSourceUncounted(i) ==
    /\ sound /\ pc[i] = "closed" /\ Outer[i] = None
    /\ MainIdle /\ (kind = "ogr" => provider)
    /\ Goes(i, "ready")
    /\ UNCHANGED <<kind, held, provider, todo, sound, groupVars>>

\* QgsOgrFeatureSource's constructor, which the provider calls, and destructor.
OpenSource(i) ==
    /\ sound /\ pc[i] = "closed" /\ Outer[i] = None
    /\ MainIdle /\ (kind = "ogr" => provider)
    /\ Goes(i, "ready")
    /\ IF kind = "ogr" THEN Ref ELSE UNCHANGED groupVars
    /\ UNCHANGED <<kind, held, provider, todo, sound>>

CloseSource(i) ==
    /\ sound /\ pc[i] = "ready"
    /\ Goes(i, "closed")
    /\ IF kind = "ogr" THEN Unref ELSE UNCHANGED <<sound, groupVars>>
    /\ UNCHANGED <<kind, held, provider, todo>>

-----------------------------------------------------------------------------
(* Acquiring and releasing.                                                *)

\* Where an iterator is when it is not open; an inner one has the source of
\* its outer one.
Rest(i) == IF Outer[i] = None THEN "ready" ELSE "closed"

\* An iterator is at rest, and its thread is not busy elsewhere.  The bound on
\* calls is met here, where it delays nobody who waits: an iterator queues at
\* most two.
MayOpen(i) ==
    /\ Len(calls) + 2 * (Cardinality(InGroup) + 1) <= MaxCalls
    /\ pc[i] = Rest(i)
    /\ Outer[i] # None => pc[Outer[i]] = "reading"
    /\ i \in MainIterators => MainIdle

\* Mutant: nobody waits for a permit.
StartAcquireUnlimited(i) ==
    /\ sound /\ MayOpen(i)
    /\ Goes(i, "lookup")
    /\ IF exists THEN UNCHANGED groupVars ELSE NewGroup(0)
    /\ UNCHANGED <<kind, held, provider, todo, sound>>

\* QgsConnectionPool::acquireConnection up to the call of acquire().
StartAcquire(i) ==
    /\ sound /\ MayOpen(i)
    /\ Goes(i, "waiting")
    /\ IF exists THEN UNCHANGED groupVars ELSE NewGroup(0)
    /\ UNCHANGED <<kind, held, provider, todo, sound>>

PassSemaphore(i) ==
    /\ sound /\ pc[i] = "waiting" /\ permits > 0
    /\ permits' = permits - 1
    /\ Goes(i, "lookup")
    /\ UNCHANGED <<kind, exists, refs, conns, aged, timer, calls, held,
                   provider, todo, sound>>

\* invokeMethod: at once in the main thread, queued in another one.
SetTimer(i, start) ==
    IF i \in MainIterators
    THEN timer' = start /\ UNCHANGED calls
    ELSE calls' = Append(calls, start) /\ UNCHANGED timer

\* Under connMutex: the topmost pooled connection, reopened if it was marked.
TakePooled(i) ==
    LET n == Len(conns)
    IN  /\ sound /\ pc[i] = "lookup" /\ n > 0
        /\ held' = [held EXCEPT ![i] =
                      IF conns[n].valid THEN conns[n] ELSE Opened]
        /\ conns' = SubSeq(conns, 1, n - 1)
        /\ aged' = IF aged = n THEN n - 1 ELSE aged
        /\ IF n = 1 THEN SetTimer(i, FALSE) ELSE UNCHANGED <<timer, calls>>
        /\ Goes(i, "reading")
        /\ UNCHANGED <<kind, exists, refs, permits, provider, todo, sound>>

FindNonePooled(i) ==
    /\ sound /\ pc[i] = "lookup" /\ conns = <<>>
    /\ Goes(i, "opening")
    /\ UNCHANGED <<kind, held, provider, todo, sound, groupVars>>

Open(i) ==
    /\ sound /\ pc[i] = "opening"
    /\ held' = [held EXCEPT ![i] = Opened]
    /\ Goes(i, "opened")
    /\ UNCHANGED <<kind, provider, todo, sound, groupVars>>

\* Mutant: the permit is not given back.
FailToOpenKeeping(i) ==
    /\ sound /\ pc[i] = "opening" /\ kind = "server"
    /\ Goes(i, Rest(i))
    /\ UNCHANGED <<kind, held, provider, todo, sound, groupVars>>

\* "we didn't get connection for some reason, so release the lock"
FailToOpen(i) ==
    /\ sound /\ pc[i] = "opening" /\ kind = "server"
    /\ permits' = permits + 1
    /\ Goes(i, Rest(i))
    /\ UNCHANGED <<kind, exists, refs, conns, aged, timer, calls, held,
                   provider, todo, sound>>

\* acquiredConns.append; a handle counts as acquired while pc is "reading".
NoteAcquired(i) ==
    /\ sound /\ pc[i] = "opened"
    /\ Goes(i, "reading")
    /\ UNCHANGED <<kind, held, provider, todo, sound, groupVars>>

\* The iterator's close(): releaseConnection up to sem.release().
PutBack(i) ==
    /\ sound /\ pc[i] = "reading"
    /\ \A inner \in Iterators : Outer[inner] = i => pc[inner] = "closed"
    /\ i \in MainIterators => MainIdle
    /\ conns' = Append(conns, held[i])
    /\ IF timer THEN UNCHANGED <<timer, calls>> ELSE SetTimer(i, TRUE)
    /\ held' = [held EXCEPT ![i] = Opened]
    /\ Goes(i, "released")
    /\ UNCHANGED <<kind, exists, refs, permits, aged, provider, todo, sound>>

\* Mutant: the permit is given back twice.
ReleasePermitTwice(i) ==
    /\ sound /\ pc[i] = "released"
    /\ permits' = permits + 2
    /\ Goes(i, Rest(i))
    /\ UNCHANGED <<kind, exists, refs, conns, aged, timer, calls, held,
                   provider, todo, sound>>

ReleasePermit(i) ==
    /\ sound /\ pc[i] = "released"
    /\ permits' = permits + 1
    /\ Goes(i, Rest(i))
    /\ UNCHANGED <<kind, exists, refs, conns, aged, timer, calls, held,
                   provider, todo, sound>>

-----------------------------------------------------------------------------
(* The main thread: queued slots, the expiration timer, the provider.      *)

DeliverCall ==
    /\ sound /\ MainIdle /\ calls # <<>>
    /\ timer' = Head(calls) /\ calls' = Tail(calls)
    /\ UNCHANGED <<kind, exists, refs, permits, conns, aged, pc, held,
                   provider, todo, sound>>

\* CONN_POOL_EXPIRATION_TIME goes by.  The pool is a stack, so connections
\* that have expired are at its bottom.
Age ==
    /\ sound /\ aged < Len(conns)
    /\ aged' = Len(conns)
    /\ UNCHANGED <<kind, exists, refs, permits, conns, timer, calls, pc, held,
                   provider, todo, sound>>

\* onConnectionExpired
Expire ==
    /\ sound /\ MainIdle /\ timer
    /\ conns' = SubSeq(conns, aged + 1, Len(conns))
    /\ aged' = 0
    /\ timer' = (conns' # <<>>)
    /\ UNCHANGED <<kind, exists, refs, permits, calls, pc, held, provider, todo,
                   sound>>

\* Mutant: the reference is not taken again.
SyncToDiscUnbalanced(index) == <<"unref">>

\* What syncToDisc does to the pool; with an .sbn index it closes the data
\* source and opens it again in between.
SyncToDisc(index) ==
    IF index THEN <<"unref", "unref", "invalidate", "ref">>
    ELSE <<"unref", "ref">>

\* changeAttributeValues and attributes; geometries; adding, deleting features
ProviderCalls(index) ==
    {<<"invalidate">>,
     <<"invalidate">> \o SyncToDisc(index),
     SyncToDisc(index) \o <<"invalidate">>}

\* The data are on disk before the first call to the pool.
Write(index) ==
    /\ sound /\ provider /\ MainIdle
    /\ todo' \in ProviderCalls(index)
    /\ conns' = [n \in DOMAIN conns |-> [conns[n] EXCEPT !.fresh = FALSE]]
    /\ held' = [i \in Iterators |->
                  IF pc[i] \in {"opened", "reading"}
                  THEN [held[i] EXCEPT !.fresh = FALSE] ELSE held[i]]
    /\ UNCHANGED <<kind, exists, refs, permits, aged, timer, calls, pc,
                   provider, sound>>

Close ==
    /\ sound /\ provider /\ MainIdle
    /\ provider' = FALSE
    /\ Unref
    /\ UNCHANGED <<kind, pc, held, todo>>

InvalidateConnections ==
    /\ conns' = [n \in DOMAIN conns |-> [conns[n] EXCEPT !.valid = FALSE]]
    /\ held' = [i \in Iterators |->
                  IF pc[i] = "reading"
                  THEN [held[i] EXCEPT !.valid = FALSE] ELSE held[i]]
    /\ UNCHANGED <<exists, refs, permits, aged, timer, calls, sound>>

Call ==
    /\ sound /\ todo # <<>>
    /\ todo' = Tail(todo)
    /\ \/ Head(todo) = "ref" /\ Ref /\ UNCHANGED <<held, sound>>
       \/ Head(todo) = "unref" /\ Unref /\ UNCHANGED held
       \/ Head(todo) = "invalidate" /\ InvalidateConnections
    /\ UNCHANGED <<kind, pc, provider>>

-----------------------------------------------------------------------------
Inside(i) ==
    \/ PassSemaphore(i) \/ TakePooled(i) \/ FindNonePooled(i)
    \/ Open(i) \/ FailToOpen(i) \/ NoteAcquired(i)
    \/ PutBack(i) \/ ReleasePermit(i)

EventLoop == DeliverCall \/ Expire

Next ==
    \/ \E i \in Iterators :
          OpenSource(i) \/ CloseSource(i) \/ StartAcquire(i) \/ Inside(i)
    \/ EventLoop \/ Age \/ Call \/ Close
    \/ \E index \in ShapeIndex : Write(index)

Spec == Init /\ [][Next]_vars

\* A thread inside the pool goes on, an iterator that was opened is closed
\* some time, also one whose thread writes to the source in between, the main
\* thread returns to its event loop, and time passes.
FairSpec ==
    /\ Spec
    /\ \A i \in Iterators : WF_vars(Inside(i))
    /\ \A i \in MainIterators : SF_vars(PutBack(i))
    /\ WF_vars(DeliverCall) /\ WF_vars(Expire) /\ WF_vars(Call) /\ WF_vars(Age)

-----------------------------------------------------------------------------
(* Properties.                                                             *)

\* Every variable has its type; the expired connections are pooled ones.
TypeOK ==
    /\ kind \in {"ogr", "server"}
    /\ exists \in BOOLEAN /\ refs \in Int /\ permits \in 0..MaxConnections
    /\ conns \in Seq(Connection) /\ aged \in 0..Len(conns)
    /\ timer \in BOOLEAN /\ calls \in Seq(BOOLEAN)
    /\ pc \in [Iterators -> Places] /\ held \in [Iterators -> Connection]
    /\ provider \in BOOLEAN /\ sound \in BOOLEAN
    /\ todo \in Seq({"ref", "unref", "invalidate"})

\* The semaphore counts: every permit that is not there is with an iterator
\* that is going to give it back, on whatever way it got its connection.
PermitsBalance == sound => permits + Cardinality(Permitted) = MaxConnections

\* "The connection pool has a limit on maximum number of concurrent connections
\* (per server)": pooled, lent and just being opened, they never exceed it.
ConnectionLimit ==
    sound => Len(conns) + Cardinality(Connected) <= MaxConnections

\* The group outlives whoever is inside it, and the assertions of unref() and
\* releaseConnection() hold.
GroupOutlivesUsers == sound

\* The reference count is the number of feature sources, and one for the
\* provider except while syncToDisc has put it down.
Sources == {i \in Iterators : Outer[i] = None /\ pc[i] # "closed"}

ProviderRefs ==
    IF provider /\ (todo = <<>> \/ Head(todo) # "ref") THEN 1 ELSE 0

RefsCounted ==
    sound /\ kind = "ogr" => refs = Cardinality(Sources) + ProviderRefs

\* "this can unlock a thread waiting in acquire()": who waits for a permit
\* sees one sooner or later.
WaitersFindPermit ==
    \A i \in Iterators : pc[i] = "waiting" ~> (pc[i] # "waiting" \/ permits > 0)

\* "all open handles need to be invalidated when such datasets are changed":
\* after the change no handle opened before it is still marked valid.
StaleHandlesMarked ==
    sound /\ todo = <<>> =>
        /\ \A n \in DOMAIN conns : conns[n].valid => conns[n].fresh
        /\ \A i \in Iterators :
              pc[i] = "reading" /\ held[i].valid => held[i].fresh

\* "When the connections are not used for some time, they will get closed
\* automatically": a pool nobody uses does not keep its connections.
IdleConnectionsClose ==
    (conns # <<>> /\ InGroup = {}) ~> (conns = <<>> \/ InGroup # {})

=============================================================================
