------------------------- MODULE ConnectionPoolProofs -------------------------
(***************************************************************************)
(* Proofs about ConnectionPool for any number of iterators, any nesting of *)
(* depth one and any number of connections: the accounting of permits and  *)
(* the limit on open connections.                                          *)
(***************************************************************************)
EXTENDS ConnectionPool, FiniteSetTheorems, SequenceTheorems, TLAPS

-----------------------------------------------------------------------------
(* Counting iterators.                                                     *)

\* The sets of iterators in a place are finite, so they can be counted.
LEMMA FiniteParts ==
    ASSUME NEW S, S \subseteq Iterators
    PROVE  IsFiniteSet(S) /\ Cardinality(S) \in Nat
BY PoolAssumption, FS_Subset, FS_CardinalityType

\* One more iterator in a set counts one more.
LEMMA CountAdded ==
    ASSUME NEW S, S \subseteq Iterators, NEW i \in Iterators, i \notin S
    PROVE  Cardinality(S \cup {i}) = Cardinality(S) + 1
BY FiniteParts, FS_AddElement

\* One iterator less in a set counts one less.
LEMMA CountRemoved ==
    ASSUME NEW S, S \subseteq Iterators, NEW i \in S
    PROVE  Cardinality(S \ {i}) = Cardinality(S) - 1
BY FiniteParts, FS_RemoveElement

\* Whoever is getting or has a connection has a permit, and is in the group.
LEMMA Inclusions ==
    /\ Connected \subseteq Permitted /\ Permitted \subseteq InGroup
    /\ InGroup \subseteq Iterators
    /\ Cardinality(Connected) \in Nat /\ Cardinality(Permitted) \in Nat
    /\ Cardinality(Connected) <= Cardinality(Permitted)
<1>1. Connected \subseteq Permitted /\ Permitted \subseteq InGroup
      /\ InGroup \subseteq Iterators
  BY DEF Connected, Permitted, InGroup
<1>2. IsFiniteSet(Permitted) /\ Cardinality(Permitted) \in Nat
      /\ Cardinality(Connected) \in Nat
  BY <1>1, FiniteParts
<1> QED BY <1>1, <1>2, FS_Subset

-----------------------------------------------------------------------------
(* The inductive invariant of the accounting.                              *)

\* A group that does not exist is as good as new, and nobody is in it.
GoneIsEmpty ==
    sound /\ ~exists =>
        InGroup = {} /\ permits = MaxConnections /\ conns = <<>>

Accounting == PermitsBalance /\ ConnectionLimit /\ GoneIsEmpty

IInv == TypeOK /\ Accounting

\* The lists of calls an operation of the provider makes are lists of calls.
LEMMA CallsTyped ==
    ASSUME NEW index \in BOOLEAN
    PROVE  ProviderCalls(index) \subseteq Seq({"ref", "unref", "invalidate"})
<1>1. SyncToDisc(index) \in Seq({"ref", "unref", "invalidate"})
  <2>1. <<"unref", "unref", "invalidate", "ref">>
            \in Seq({"ref", "unref", "invalidate"})
    OBVIOUS
  <2>2. <<"unref", "ref">> \in Seq({"ref", "unref", "invalidate"})
    OBVIOUS
  <2> QED BY <2>1, <2>2 DEF SyncToDisc
<1>2. <<"invalidate">> \in Seq({"ref", "unref", "invalidate"})
  OBVIOUS
<1> QED BY <1>1, <1>2 DEF ProviderCalls

\* The accounting holds at first.
LEMMA InitAccounting == Init => IInv
<1> SUFFICES ASSUME Init PROVE IInv
  OBVIOUS
<1>1. TypeOK
  <2>1. /\ exists \in BOOLEAN /\ provider \in BOOLEAN /\ sound \in BOOLEAN
        /\ timer \in BOOLEAN
    BY Zenon DEF Init
  <2>2. kind \in {"ogr", "server"} /\ refs \in Int /\ permits \in 0..MaxConnections
    BY PoolAssumption DEF Init
  <2>3. /\ conns \in Seq(Connection) /\ aged \in 0..Len(conns)
        /\ calls \in Seq(BOOLEAN)
        /\ todo \in Seq({"ref", "unref", "invalidate"})
    BY DEF Init
  <2>4. pc \in [Iterators -> Places] /\ held \in [Iterators -> Connection]
    BY DEF Init, Connection, Opened, Places
  <2> QED BY <2>1, <2>2, <2>3, <2>4 DEF TypeOK
<1>2. InGroup = {} /\ Permitted = {} /\ Connected = {}
  BY DEF Init, InGroup, Permitted, Connected
<1>3. Accounting
  BY <1>2, FS_EmptySet, PoolAssumption
     DEF Init, Accounting, PermitsBalance, ConnectionLimit, GoneIsEmpty
<1> QED BY <1>1, <1>3 DEF IInv

-----------------------------------------------------------------------------
(* Every action keeps it.  The actions change the place of one iterator at *)
(* most; what counts is which of the sets it enters or leaves.             *)

\* Moving an iterator from one place to another changes the sets accordingly.
LEMMA Moved ==
    ASSUME TypeOK, NEW i \in Iterators, NEW place \in Places, Goes(i, place)
    PROVE  /\ pc' \in [Iterators -> Places]
           /\ InGroup' = IF place \in {"closed", "ready"} THEN InGroup \ {i}
                         ELSE InGroup \cup {i}
           /\ Permitted' =
                IF place \in {"lookup", "opening", "opened", "reading", "released"}
                THEN Permitted \cup {i} ELSE Permitted \ {i}
           /\ Connected' = IF place \in {"opening", "opened", "reading"}
                           THEN Connected \cup {i} ELSE Connected \ {i}
BY DEF TypeOK, Goes, InGroup, Permitted, Connected

\* An iterator rests in one of two places, outside the group.
LEMMA RestsOutside ==
    ASSUME NEW i \in Iterators
    PROVE  Rest(i) \in {"ready", "closed"} /\ Rest(i) \in Places
BY DEF Rest, Places

\* A new or an emptied group satisfies the accounting if nobody is in it.
LEMMA EmptiedAccounting ==
    ASSUME Emptied, sound' => Permitted' = {}, sound' => InGroup' = {} \/ exists'
    PROVE  Accounting' /\ permits' \in 0..MaxConnections
           /\ conns' \in Seq(Connection) /\ aged' \in 0..Len(conns')
           /\ calls' \in Seq(BOOLEAN) /\ timer' \in BOOLEAN
<1>1. Connected' \subseteq Permitted'
  BY DEF Connected, Permitted
<1>2. sound' => Cardinality(Permitted') = 0 /\ Cardinality(Connected') = 0
  BY <1>1, FS_EmptySet
<1>3. /\ permits' = MaxConnections /\ conns' = <<>> /\ aged' = 0
      /\ timer' \in BOOLEAN /\ calls' = <<>>
  BY Zenon DEF Emptied
<1> QED
  BY <1>2, <1>3, PoolAssumption
     DEF Accounting, PermitsBalance, ConnectionLimit, GoneIsEmpty

\* Nothing that is counted changes.
LEMMA SameAccounting ==
    ASSUME IInv, sound' = sound, exists' = exists, permits' = permits,
           Len(conns') = Len(conns), conns = <<>> => conns' = <<>>,
           InGroup' = InGroup, Permitted' = Permitted, Connected' = Connected
    PROVE  Accounting'
BY DEF IInv, Accounting, PermitsBalance, ConnectionLimit, GoneIsEmpty

\* Unref keeps the accounting wherever the iterators in the group stay there.
LEMMA UnrefAccounting ==
    ASSUME IInv, sound, Unref, UNCHANGED <<held, kind>>,
           InGroup' = InGroup, Permitted' = Permitted, Connected' = Connected
    PROVE  /\ Accounting' /\ permits' \in 0..MaxConnections
           /\ conns' \in Seq(Connection) /\ aged' \in 0..Len(conns')
           /\ calls' \in Seq(BOOLEAN) /\ timer' \in BOOLEAN
           /\ exists' \in BOOLEAN /\ refs' \in Int /\ sound' \in BOOLEAN
<1>1. CASE exists /\ refs # 1
  <2>1. /\ permits' = permits /\ conns' = conns /\ aged' = aged
        /\ timer' = timer /\ calls' = calls /\ exists' = exists
        /\ refs' = refs - 1
    BY <1>1, Zenon DEF Unref
  <2>2. sound' \in BOOLEAN
    BY Zenon DEF Unref
  <2>3. Accounting'
    BY <2>1 DEF IInv, Accounting, PermitsBalance, ConnectionLimit, GoneIsEmpty
  <2> QED BY <2>1, <2>2, <2>3 DEF IInv, TypeOK
<1>2. CASE ~(exists /\ refs # 1)
  <2>1. exists' = FALSE /\ refs' = 0 /\ Emptied
    BY <1>2, Zenon DEF Unref
  <2>2. sound' = (exists => refs > 0 /\ (refs = 1 => InGroup = {}))
    BY Zenon DEF Unref
  <2>3. sound' => InGroup' = {} /\ Permitted' = {}
    BY <1>2, <2>2, Inclusions DEF IInv, Accounting, GoneIsEmpty, TypeOK
  <2>4. sound' \in BOOLEAN
    BY Zenon DEF Unref
  <2>5. /\ Accounting' /\ permits' \in 0..MaxConnections
        /\ conns' \in Seq(Connection) /\ aged' \in 0..Len(conns')
        /\ calls' \in Seq(BOOLEAN) /\ timer' \in BOOLEAN
    BY <2>1, <2>3, EmptiedAccounting
  <2>6. exists' \in BOOLEAN
    BY <2>1, Zenon
  <2>7. refs' \in Int
    BY <2>1
  <2> QED BY <2>4, <2>5, <2>6, <2>7, Zenon
<1> QED BY <1>1, <1>2

\* Opening and closing a feature source keeps the invariant.
LEMMA SourcesKeepIInv ==
    ASSUME IInv, NEW i \in Iterators, OpenSource(i) \/ CloseSource(i)
    PROVE  IInv'
<1>1. CASE OpenSource(i)
  <2>1. InGroup' = InGroup /\ Permitted' = Permitted /\ Connected' = Connected
        /\ pc' \in [Iterators -> Places]
    <3>1. Goes(i, "ready") /\ pc[i] = "closed"
      BY <1>1 DEF OpenSource
    <3> QED BY <3>1, Moved DEF IInv, Places, InGroup, Permitted, Connected
  <2>2. kind' = kind /\ held' = held /\ provider' = provider /\ todo' = todo
        /\ sound' = sound /\ sound
    BY <1>1, Zenon DEF OpenSource
  <2>3. CASE exists \/ kind # "ogr"
    <3>1. /\ permits' = permits /\ conns' = conns /\ aged' = aged
          /\ timer' = timer /\ calls' = calls /\ exists' = exists
          /\ refs' \in {refs, refs + 1}
      BY <1>1, <2>3 DEF OpenSource, Ref, groupVars
    <3>2. Accounting'
      BY <2>1, <2>2, <3>1, SameAccounting
    <3> QED BY <2>1, <2>2, <3>1, <3>2 DEF IInv, TypeOK
  <2>4. CASE ~exists /\ kind = "ogr"
    <3>1. exists' = TRUE /\ refs' = 1 /\ Emptied
      BY <1>1, <2>4, Zenon DEF OpenSource, Ref, NewGroup
    <3>2. InGroup = {} /\ Permitted = {}
      BY <2>2, <2>4, Inclusions DEF IInv, Accounting, GoneIsEmpty
    <3>3. Accounting' /\ permits' \in 0..MaxConnections
          /\ conns' \in Seq(Connection) /\ aged' \in 0..Len(conns')
          /\ calls' \in Seq(BOOLEAN) /\ timer' \in BOOLEAN
      BY <2>1, <3>1, <3>2, EmptiedAccounting
    <3> QED BY <2>1, <2>2, <3>1, <3>3 DEF IInv, TypeOK
  <2> QED BY <2>3, <2>4 DEF IInv, TypeOK
<1>2. CASE CloseSource(i)
  <2>1. InGroup' = InGroup /\ Permitted' = Permitted /\ Connected' = Connected
        /\ pc' \in [Iterators -> Places]
    <3>1. Goes(i, "closed") /\ pc[i] = "ready"
      BY <1>2 DEF CloseSource
    <3> QED BY <3>1, Moved DEF IInv, Places, InGroup, Permitted, Connected
  <2>2. kind' = kind /\ held' = held /\ provider' = provider /\ todo' = todo
        /\ sound
    BY <1>2, Zenon DEF CloseSource
  <2>3. CASE kind = "ogr"
    <3>1. Unref
      BY <1>2, <2>3 DEF CloseSource
    <3> QED BY <2>1, <2>2, <3>1, UnrefAccounting DEF IInv, TypeOK
  <2>4. CASE kind # "ogr"
    <3>1. UNCHANGED <<sound, exists, refs, permits, conns, aged, timer, calls>>
      BY <1>2, <2>4 DEF CloseSource, groupVars
    <3>2. Accounting'
      BY <2>1, <3>1, SameAccounting
    <3> QED BY <2>1, <2>2, <3>1, <3>2 DEF IInv, TypeOK
  <2> QED BY <2>3, <2>4
<1> QED BY <1>1, <1>2

\* Starting or stopping the timer, at once or later, keeps its variables typed.
LEMMA SetTimerTyped ==
    ASSUME TypeOK, NEW i \in Iterators, NEW start \in BOOLEAN, SetTimer(i, start)
    PROVE  timer' \in BOOLEAN /\ calls' \in Seq(BOOLEAN)
<1>1. CASE i \in MainIterators
  <2>1. timer' = start /\ calls' = calls
    BY <1>1, Zenon DEF SetTimer
  <2> QED BY <2>1 DEF TypeOK
<1>2. CASE i \notin MainIterators
  <2>1. timer' = timer /\ calls' = Append(calls, start)
    BY <1>2, Zenon DEF SetTimer
  <2> QED BY <2>1 DEF TypeOK
<1> QED BY <1>1, <1>2

\* What a step changes that only moves an iterator.
LEMMA OnlyMovedKeepsIInv ==
    ASSUME IInv, NEW i \in Iterators, NEW place \in Places, Goes(i, place),
           held' \in [Iterators -> Connection],
           UNCHANGED <<kind, provider, todo, sound, groupVars>>,
           InGroup' = InGroup, Permitted' = Permitted, Connected' = Connected
    PROVE  IInv'
<1>1. UNCHANGED <<kind, provider, todo, sound, exists, refs, permits, conns,
                  aged, timer, calls>>
  BY Zenon DEF groupVars
<1>2. Accounting'
  BY <1>1, SameAccounting
<1>3. pc' \in [Iterators -> Places]
  BY Moved DEF IInv
<1> QED BY <1>1, <1>2, <1>3 DEF IInv, TypeOK

\* The ways through acquire() that open a connection, or fail to, keep the
\* invariant.
LEMMA AcquireKeepsIInv ==
    ASSUME IInv, NEW i \in Iterators,
           \/ StartAcquire(i) \/ PassSemaphore(i) \/ FindNonePooled(i)
           \/ Open(i) \/ FailToOpen(i) \/ NoteAcquired(i)
    PROVE  IInv'
<1> USE DEF IInv
<1>1. CASE StartAcquire(i)
  <2>1. Goes(i, "waiting") /\ pc[i] = Rest(i) /\ "waiting" \in Places /\ sound
        /\ UNCHANGED <<kind, held, provider, todo, sound>>
    BY <1>1 DEF StartAcquire, MayOpen, Places
  <2>2. i \notin InGroup /\ i \notin Permitted /\ i \notin Connected
    BY <2>1, RestsOutside DEF InGroup, Permitted, Connected
  <2>3. /\ InGroup' = InGroup \cup {i} /\ Permitted' = Permitted
        /\ Connected' = Connected /\ pc' \in [Iterators -> Places]
    BY <2>1, <2>2, Moved
  <2>4. CASE exists
    <3>1. UNCHANGED <<exists, refs, permits, conns, aged, timer, calls>>
      BY <1>1, <2>4, Zenon DEF StartAcquire, groupVars
    <3>2. Accounting'
      BY <2>1, <2>3, <2>4, <3>1
         DEF Accounting, PermitsBalance, ConnectionLimit, GoneIsEmpty
    <3> QED BY <2>1, <2>3, <3>1, <3>2 DEF TypeOK
  <2>5. CASE ~exists
    <3>1. exists' = TRUE /\ refs' = 0 /\ Emptied
      BY <1>1, <2>5, Zenon DEF StartAcquire, NewGroup
    <3>2. Permitted' = {}
      BY <2>1, <2>3, <2>5, Inclusions DEF Accounting, GoneIsEmpty
    <3>3. Accounting' /\ permits' \in 0..MaxConnections
          /\ conns' \in Seq(Connection) /\ aged' \in 0..Len(conns')
          /\ calls' \in Seq(BOOLEAN) /\ timer' \in BOOLEAN
      BY <3>1, <3>2, EmptiedAccounting
    <3> QED BY <2>1, <2>3, <3>1, <3>3 DEF TypeOK
  <2> QED BY <2>4, <2>5 DEF TypeOK
<1>2. CASE PassSemaphore(i)
  <2>1. /\ Goes(i, "lookup") /\ pc[i] = "waiting" /\ "lookup" \in Places /\ sound
        /\ permits > 0 /\ permits' = permits - 1
        /\ UNCHANGED <<kind, exists, refs, conns, aged, timer, calls, held,
                       provider, todo, sound>>
    BY <1>2 DEF PassSemaphore, Places
  <2>2. /\ InGroup' = InGroup /\ Permitted' = Permitted \cup {i}
        /\ Connected' = Connected /\ pc' \in [Iterators -> Places]
        /\ i \notin Permitted /\ i \in InGroup
    BY <2>1, Moved DEF InGroup, Permitted, Connected
  <2>3. Cardinality(Permitted') = Cardinality(Permitted) + 1
    BY <2>2, CountAdded, Inclusions
  <2>4. Accounting'
    BY <2>1, <2>2, <2>3, Inclusions
       DEF TypeOK, Accounting, PermitsBalance, ConnectionLimit, GoneIsEmpty
  <2>5. permits' \in 0..MaxConnections
    BY <2>1, PoolAssumption DEF TypeOK
  <2> QED BY <2>1, <2>2, <2>4, <2>5 DEF TypeOK
<1>3. CASE FindNonePooled(i)
  <2>1. /\ Goes(i, "opening") /\ pc[i] = "lookup" /\ "opening" \in Places /\ sound
        /\ conns = <<>>
        /\ UNCHANGED <<kind, held, provider, todo, sound, groupVars>>
    BY <1>3 DEF FindNonePooled, Places
  <2>2. UNCHANGED <<exists, refs, permits, conns, aged, timer, calls>>
    BY <2>1, Zenon DEF groupVars
  <2>3. /\ InGroup' = InGroup /\ Permitted' = Permitted
        /\ pc' \in [Iterators -> Places]
    BY <2>1, Moved DEF InGroup, Permitted
  <2>4. Cardinality(Connected') <= Cardinality(Permitted')
        /\ Cardinality(Connected') \in Nat
    <3>1. Connected' \subseteq Permitted' /\ Permitted' \subseteq Iterators
      BY DEF Connected, Permitted
    <3> QED BY <3>1, FiniteParts, FS_Subset
  <2>5. Accounting'
    BY <2>1, <2>2, <2>3, <2>4, Inclusions
       DEF TypeOK, Accounting, PermitsBalance, ConnectionLimit, GoneIsEmpty
  <2> QED BY <2>1, <2>2, <2>3, <2>5 DEF TypeOK
<1>4. CASE Open(i)
  <2>1. /\ Goes(i, "opened") /\ pc[i] = "opening" /\ "opened" \in Places
        /\ held' \in [Iterators -> Connection]
        /\ UNCHANGED <<kind, provider, todo, sound, groupVars>>
    BY <1>4 DEF Open, Places, TypeOK, Opened, Connection
  <2>2. InGroup' = InGroup /\ Permitted' = Permitted /\ Connected' = Connected
    BY <2>1, Moved DEF InGroup, Permitted, Connected
  <2> QED BY <2>1, <2>2, OnlyMovedKeepsIInv
<1>5. CASE FailToOpen(i)
  <2>1. /\ Goes(i, Rest(i)) /\ pc[i] = "opening" /\ sound
        /\ permits' = permits + 1
        /\ UNCHANGED <<kind, exists, refs, conns, aged, timer, calls, held,
                       provider, todo, sound>>
    BY <1>5 DEF FailToOpen
  <2>2. /\ InGroup' = InGroup \ {i} /\ Permitted' = Permitted \ {i}
        /\ Connected' = Connected \ {i} /\ pc' \in [Iterators -> Places]
        /\ i \in Permitted /\ i \in Connected /\ i \in InGroup
    BY <2>1, Moved, RestsOutside DEF InGroup, Permitted, Connected
  <2>3. /\ Cardinality(Permitted') = Cardinality(Permitted) - 1
        /\ Cardinality(Connected') = Cardinality(Connected) - 1
        /\ Cardinality(Permitted') \in Nat
    BY <2>2, CountRemoved, FiniteParts, Inclusions
  <2>4. Accounting'
    BY <2>1, <2>2, <2>3, Inclusions
       DEF TypeOK, Accounting, PermitsBalance, ConnectionLimit, GoneIsEmpty
  <2>5. permits' \in 0..MaxConnections
    BY <2>1, <2>3, <2>4, PoolAssumption DEF TypeOK, Accounting, PermitsBalance
  <2> QED BY <2>1, <2>2, <2>4, <2>5 DEF TypeOK
<1>6. CASE NoteAcquired(i)
  <2>1. /\ Goes(i, "reading") /\ pc[i] = "opened" /\ "reading" \in Places
        /\ held' \in [Iterators -> Connection]
        /\ UNCHANGED <<kind, provider, todo, sound, groupVars>>
    BY <1>6 DEF NoteAcquired, Places, TypeOK
  <2>2. InGroup' = InGroup /\ Permitted' = Permitted /\ Connected' = Connected
    BY <2>1, Moved DEF InGroup, Permitted, Connected
  <2> QED BY <2>1, <2>2, OnlyMovedKeepsIInv
<1> QED BY <1>1, <1>2, <1>3, <1>4, <1>5, <1>6

\* A part of a sequence within its bounds.
LEMMA PartOfSequence ==
    ASSUME NEW S, NEW s \in Seq(S), NEW m \in Nat \ {0}, NEW n \in 0..Len(s)
    PROVE  /\ SubSeq(s, m, n) \in Seq(S)
           /\ Len(SubSeq(s, m, n)) = IF m <= n THEN n - m + 1 ELSE 0
BY SubSeqProperties

\* The length PartOfSequence gives for all but the last element.
LEMMA OneShorter ==
    \A n \in Nat \ {0} : \A k :
        k = (IF 1 <= n - 1 THEN (n - 1) - 1 + 1 ELSE 0) => k = n - 1
OBVIOUS

\* A sequence without its last element.
LEMMA WithoutLast ==
    ASSUME NEW S, NEW s \in Seq(S), Len(s) > 0
    PROVE  /\ SubSeq(s, 1, Len(s) - 1) \in Seq(S)
           /\ Len(SubSeq(s, 1, Len(s) - 1)) = Len(s) - 1
<1>1. Len(s) \in Nat
  OBVIOUS
<1>2. Len(s) - 1 \in 0..Len(s)
  BY <1>1
<1>3. /\ SubSeq(s, 1, Len(s) - 1) \in Seq(S)
      /\ Len(SubSeq(s, 1, Len(s) - 1))
            = IF 1 <= Len(s) - 1 THEN (Len(s) - 1) - 1 + 1 ELSE 0
  BY <1>2, PartOfSequence
<1>4. Len(s) \in Nat \ {0}
  BY <1>1
<1> QED BY <1>3, <1>4, OneShorter, Zenon

\* Lending a pooled connection keeps the invariant: one less in the pool is one
\* more with an iterator.
LEMMA TakePooledKeepsIInv ==
    ASSUME IInv, NEW i \in Iterators, TakePooled(i)
    PROVE  IInv'
<1> USE DEF IInv
<1> DEFINE n == Len(conns)
<1>0. n \in Nat /\ n > 0
  BY DEF TakePooled, TypeOK
<1>1. /\ Goes(i, "reading") /\ pc[i] = "lookup" /\ "reading" \in Places /\ sound
      /\ conns' = SubSeq(conns, 1, n - 1)
      /\ aged' = IF aged = n THEN n - 1 ELSE aged
      /\ UNCHANGED <<kind, exists, refs, permits, provider, todo, sound>>
  BY DEF TakePooled, Places, TypeOK
<1>2. conns' \in Seq(Connection) /\ Len(conns') = n - 1 /\ conns # <<>>
      /\ aged' \in 0..Len(conns')
  <2>1. conns \in Seq(Connection) /\ aged \in 0..n
    BY DEF TypeOK
  <2>2. conns' \in Seq(Connection) /\ Len(conns') = n - 1
    BY <1>0, <1>1, <2>1, WithoutLast, Zenon
  <2>3. conns # <<>>
    BY <1>0
  <2> QED BY <1>0, <1>1, <2>1, <2>2, <2>3
<1>3. held' \in [Iterators -> Connection]
  <2>1. conns[n] \in Connection /\ Opened \in Connection
    <3>1. Opened \in Connection
      BY DEF Opened, Connection
    <3>2. conns \in Seq(Connection)
      BY DEF TypeOK
    <3> QED BY <1>0, <3>1, <3>2
  <2> QED BY <2>1 DEF TakePooled, TypeOK
<1>4. timer' \in BOOLEAN /\ calls' \in Seq(BOOLEAN)
  <2>1. SetTimer(i, FALSE) \/ (timer' = timer /\ calls' = calls)
    BY Zenon DEF TakePooled
  <2> QED BY <2>1, SetTimerTyped DEF TypeOK
<1>5. /\ InGroup' = InGroup /\ Permitted' = Permitted
      /\ Connected' = Connected \cup {i} /\ pc' \in [Iterators -> Places]
      /\ i \notin Connected
  BY <1>1, Moved DEF InGroup, Permitted, Connected
<1>6. Cardinality(Connected') = Cardinality(Connected) + 1
  BY <1>5, CountAdded, Inclusions
<1>7. Accounting'
  BY <1>0, <1>1, <1>2, <1>5, <1>6, Inclusions
     DEF TypeOK, Accounting, PermitsBalance, ConnectionLimit, GoneIsEmpty
<1> QED BY <1>1, <1>2, <1>3, <1>4, <1>5, <1>7 DEF TypeOK

\* Putting a connection back keeps the invariant, the permit still being out.
LEMMA PutBackKeepsIInv ==
    ASSUME IInv, NEW i \in Iterators, PutBack(i)
    PROVE  IInv'
<1> USE DEF IInv
<1>1. /\ Goes(i, "released") /\ pc[i] = "reading" /\ "released" \in Places /\ sound
      /\ conns' = Append(conns, held[i])
      /\ held' = [held EXCEPT ![i] = Opened]
      /\ UNCHANGED <<kind, exists, refs, permits, aged, provider, todo, sound>>
  BY DEF PutBack, Places
<1>2. conns' \in Seq(Connection) /\ Len(conns') = Len(conns) + 1
      /\ aged' \in 0..Len(conns') /\ held' \in [Iterators -> Connection]
  BY <1>1 DEF TypeOK, Opened, Connection
<1>3. timer' \in BOOLEAN /\ calls' \in Seq(BOOLEAN)
  <2>1. SetTimer(i, TRUE) \/ (timer' = timer /\ calls' = calls)
    BY Zenon DEF PutBack
  <2> QED BY <2>1, SetTimerTyped DEF TypeOK
<1>4. /\ InGroup' = InGroup /\ Permitted' = Permitted
      /\ Connected' = Connected \ {i} /\ pc' \in [Iterators -> Places]
      /\ i \in Connected /\ i \in InGroup
  BY <1>1, Moved DEF InGroup, Permitted, Connected
<1>5. Cardinality(Connected') = Cardinality(Connected) - 1
  BY <1>4, CountRemoved, Inclusions
<1>6. Accounting'
  BY <1>1, <1>2, <1>4, <1>5, Inclusions
     DEF TypeOK, Accounting, PermitsBalance, ConnectionLimit, GoneIsEmpty
<1> QED BY <1>1, <1>2, <1>3, <1>4, <1>6 DEF TypeOK

\* Giving the permit back keeps the invariant.
LEMMA ReleasePermitKeepsIInv ==
    ASSUME IInv, NEW i \in Iterators, ReleasePermit(i)
    PROVE  IInv'
<1> USE DEF IInv
<1>1. /\ Goes(i, Rest(i)) /\ pc[i] = "released" /\ sound
      /\ permits' = permits + 1
      /\ UNCHANGED <<kind, exists, refs, conns, aged, timer, calls, held,
                     provider, todo, sound>>
  BY DEF ReleasePermit
<1>2. /\ InGroup' = InGroup \ {i} /\ Permitted' = Permitted \ {i}
      /\ Connected' = Connected /\ pc' \in [Iterators -> Places]
      /\ i \in Permitted /\ i \in InGroup
  BY <1>1, Moved, RestsOutside DEF InGroup, Permitted, Connected
<1>3. /\ Cardinality(Permitted') = Cardinality(Permitted) - 1
      /\ Cardinality(Permitted') \in Nat
  BY <1>2, CountRemoved, FiniteParts, Inclusions
<1>4. Accounting'
  BY <1>1, <1>2, <1>3, Inclusions
     DEF TypeOK, Accounting, PermitsBalance, ConnectionLimit, GoneIsEmpty
<1>5. permits' \in 0..MaxConnections
  BY <1>1, <1>3, <1>4, PoolAssumption DEF TypeOK, Accounting, PermitsBalance
<1> QED BY <1>1, <1>2, <1>4, <1>5 DEF TypeOK

\* The steps of the main thread and of the provider: no iterator moves.
LEMMA NobodyMovedKeepsIInv ==
    ASSUME IInv, UNCHANGED <<pc, kind, exists, refs, permits, sound>>,
           conns' \in Seq(Connection), Len(conns') <= Len(conns),
           conns = <<>> => conns' = <<>>, aged' \in 0..Len(conns'),
           timer' \in BOOLEAN, calls' \in Seq(BOOLEAN),
           held' \in [Iterators -> Connection], provider' \in BOOLEAN,
           todo' \in Seq({"ref", "unref", "invalidate"})
    PROVE  IInv'
<1>1. InGroup' = InGroup /\ Permitted' = Permitted /\ Connected' = Connected
  BY DEF InGroup, Permitted, Connected
<1>2. Len(conns) \in Nat /\ Len(conns') \in Nat
  BY DEF IInv, TypeOK
<1>3. /\ pc' = pc /\ kind' = kind /\ exists' = exists /\ refs' = refs
      /\ permits' = permits /\ sound' = sound
  BY Zenon
<1>4. PermitsBalance' /\ GoneIsEmpty'
  BY <1>1, <1>3 DEF IInv, Accounting, PermitsBalance, GoneIsEmpty
<1>5. ConnectionLimit'
  BY <1>1, <1>2, <1>3, Inclusions, PoolAssumption
     DEF IInv, Accounting, ConnectionLimit
<1> QED BY <1>3, <1>4, <1>5 DEF IInv, TypeOK, Accounting

\* Queued slots, the expiration timer and time itself keep the invariant.
LEMMA MainThreadKeepsIInv ==
    ASSUME IInv, DeliverCall \/ Age \/ Expire
    PROVE  IInv'
<1> USE DEF IInv
<1>1. CASE DeliverCall
  <2>1. timer' = Head(calls) /\ calls' = Tail(calls) /\ calls # <<>>
        /\ UNCHANGED <<kind, exists, refs, permits, conns, aged, pc, held,
                       provider, todo, sound>>
    BY <1>1, Zenon DEF DeliverCall
  <2>2. timer' \in BOOLEAN /\ calls' \in Seq(BOOLEAN)
    BY <2>1 DEF TypeOK
  <2> QED BY <2>1, <2>2, NobodyMovedKeepsIInv DEF TypeOK
<1>2. CASE Age
  <2>1. aged' = Len(conns)
        /\ UNCHANGED <<kind, exists, refs, permits, conns, timer, calls, pc,
                       held, provider, todo, sound>>
    BY <1>2, Zenon DEF Age
  <2> QED BY <2>1, NobodyMovedKeepsIInv DEF TypeOK
<1>3. CASE Expire
  <2>1. /\ conns' = SubSeq(conns, aged + 1, Len(conns)) /\ aged' = 0
        /\ UNCHANGED <<kind, exists, refs, permits, calls, pc, held, provider,
                       todo, sound>>
    BY <1>3, Zenon DEF Expire
  <2>2. timer' \in BOOLEAN
    BY <1>3, Zenon DEF Expire
  <2>3. conns \in Seq(Connection) /\ aged \in 0..Len(conns) /\ Len(conns) \in Nat
    BY DEF TypeOK
  <2>4. conns' \in Seq(Connection) /\ Len(conns') <= Len(conns)
    BY <2>1, <2>3, PartOfSequence
  <2>5. conns = <<>> => conns' = <<>>
    BY <2>3, <2>4
  <2>6. aged' \in 0..Len(conns')
    BY <2>1, <2>4
  <2> QED BY <2>1, <2>2, <2>4, <2>5, <2>6, NobodyMovedKeepsIInv DEF TypeOK
<1> QED BY <1>1, <1>2, <1>3

\* Marking every connection in one way keeps the pool as long as it was.
LEMMA MarkedPool ==
    ASSUME TypeOK, NEW marked \in [DOMAIN conns -> Connection]
    PROVE  /\ marked \in Seq(Connection) /\ Len(marked) = Len(conns)
           /\ conns = <<>> => marked = <<>>
<1>1. conns \in Seq(Connection) /\ Len(conns) \in Nat /\ DOMAIN conns = 1..Len(conns)
  BY DEF TypeOK
<1>2. marked \in Seq(Connection) /\ Len(marked) = Len(conns)
  BY <1>1
<1>3. conns = <<>> => marked = <<>>
  BY <1>2, Len(<<>>) = 0
<1> QED BY <1>2, <1>3

\* The pooled connections are connections.
LEMMA PooledTyped == TypeOK => \A n \in DOMAIN conns : conns[n] \in Connection
<1> SUFFICES ASSUME TypeOK, NEW n \in DOMAIN conns PROVE conns[n] \in Connection
  OBVIOUS
<1>1. conns \in Seq(Connection)
  BY DEF TypeOK
<1> QED BY <1>1

\* Writing, closing and the calls of the provider keep the invariant.
LEMMA ProviderKeepsIInv ==
    ASSUME IInv,
           Close \/ Call \/ \E index \in ShapeIndex : Write(index)
    PROVE  IInv'
<1> USE DEF IInv
<1>1. CASE \E index \in ShapeIndex : Write(index)
  <2>1. PICK index \in ShapeIndex : Write(index)
    BY <1>1
  <2>2. /\ conns' = [n \in DOMAIN conns |-> [conns[n] EXCEPT !.fresh = FALSE]]
        /\ UNCHANGED <<kind, exists, refs, permits, aged, timer, calls, pc,
                       provider, sound>>
    BY <2>1, Zenon DEF Write
  <2>3. conns' \in Seq(Connection) /\ Len(conns') = Len(conns)
        /\ (conns = <<>> => conns' = <<>>)
    <3>1. conns' \in [DOMAIN conns -> Connection]
      BY <2>2, PooledTyped DEF Connection
    <3> QED BY <3>1, MarkedPool
  <2>4. held' \in [Iterators -> Connection]
    BY <2>1 DEF Write, TypeOK, Connection
  <2>5. todo' \in Seq({"ref", "unref", "invalidate"})
    BY <2>1, CallsTyped, PoolAssumption DEF Write
  <2> QED BY <2>2, <2>3, <2>4, <2>5, NobodyMovedKeepsIInv DEF TypeOK
<1>2. CASE Close
  <2>1. sound /\ Unref /\ provider' = FALSE /\ UNCHANGED <<kind, pc, held, todo>>
    BY <1>2, Zenon DEF Close
  <2>2. InGroup' = InGroup /\ Permitted' = Permitted /\ Connected' = Connected
    BY <2>1 DEF InGroup, Permitted, Connected
  <2>3. provider' \in BOOLEAN
    BY <2>1, Zenon
  <2> QED BY <2>1, <2>2, <2>3, UnrefAccounting DEF TypeOK
<1>3. CASE Call
  <2>1. sound /\ todo # <<>> /\ todo' = Tail(todo)
        /\ UNCHANGED <<kind, pc, provider>>
    BY <1>3, Zenon DEF Call
  <2>2. todo' \in Seq({"ref", "unref", "invalidate"})
    BY <2>1 DEF TypeOK
  <2>3. InGroup' = InGroup /\ Permitted' = Permitted /\ Connected' = Connected
    BY <2>1 DEF InGroup, Permitted, Connected
  <2>4. CASE Unref /\ UNCHANGED held
    BY <2>1, <2>2, <2>3, <2>4, UnrefAccounting DEF TypeOK
  <2>5. CASE Ref /\ UNCHANGED <<held, sound>>
    <3>1. CASE exists
      <4>1. UNCHANGED <<exists, permits, conns, aged, timer, calls, held, sound>>
            /\ refs' = refs + 1
        BY <2>5, <3>1, Zenon DEF Ref
      <4>2. Accounting'
        BY <2>3, <4>1, SameAccounting
      <4> QED BY <2>1, <2>2, <4>1, <4>2 DEF TypeOK
    <3>2. CASE ~exists
      <4>1. exists' = TRUE /\ refs' = 1 /\ Emptied /\ UNCHANGED <<held, sound>>
        BY <2>5, <3>2, Zenon DEF Ref, NewGroup
      <4>2. Permitted' = {}
        BY <2>1, <2>3, <3>2, Inclusions DEF Accounting, GoneIsEmpty
      <4>3. Accounting' /\ permits' \in 0..MaxConnections
            /\ conns' \in Seq(Connection) /\ aged' \in 0..Len(conns')
            /\ calls' \in Seq(BOOLEAN) /\ timer' \in BOOLEAN
        BY <4>1, <4>2, EmptiedAccounting
      <4> QED BY <2>1, <2>2, <4>1, <4>3 DEF TypeOK
    <3> QED BY <3>1, <3>2
  <2>6. CASE InvalidateConnections
    <3>1. /\ conns' = [n \in DOMAIN conns |-> [conns[n] EXCEPT !.valid = FALSE]]
          /\ UNCHANGED <<exists, refs, permits, aged, timer, calls, sound>>
      BY <2>6, Zenon DEF InvalidateConnections
    <3>2. conns' \in Seq(Connection) /\ Len(conns') = Len(conns)
          /\ (conns = <<>> => conns' = <<>>)
      <4>1. conns' \in [DOMAIN conns -> Connection]
        BY <3>1, PooledTyped DEF Connection
      <4> QED BY <4>1, MarkedPool
    <3>3. held' \in [Iterators -> Connection]
      BY <2>6 DEF InvalidateConnections, TypeOK, Connection
    <3> QED BY <2>1, <2>2, <3>1, <3>2, <3>3, NobodyMovedKeepsIInv DEF TypeOK
  <2> QED BY <1>3, <2>4, <2>5, <2>6, Zenon DEF Call
<1> QED BY <1>1, <1>2, <1>3

\* Every step keeps the invariant.
LEMMA NextKeepsIInv == IInv /\ [Next]_vars => IInv'
<1> SUFFICES ASSUME IInv, [Next]_vars PROVE IInv'
  OBVIOUS
<1>1. ASSUME NEW i \in Iterators, OpenSource(i) \/ CloseSource(i)
      PROVE  IInv'
  BY <1>1, SourcesKeepIInv
<1>2. ASSUME NEW i \in Iterators, StartAcquire(i)
      PROVE  IInv'
  BY <1>2, AcquireKeepsIInv
<1>3. ASSUME NEW i \in Iterators, Inside(i)
      PROVE  IInv'
  BY <1>3, AcquireKeepsIInv, TakePooledKeepsIInv, PutBackKeepsIInv,
     ReleasePermitKeepsIInv DEF Inside
<1>4. ASSUME EventLoop \/ Age
      PROVE  IInv'
  BY <1>4, MainThreadKeepsIInv DEF EventLoop
<1>5. ASSUME Close \/ Call \/ \E index \in ShapeIndex : Write(index)
      PROVE  IInv'
  BY <1>5, ProviderKeepsIInv
<1>6. CASE UNCHANGED vars
  <2>1. /\ pc' = pc /\ kind' = kind /\ exists' = exists /\ refs' = refs
        /\ permits' = permits /\ sound' = sound /\ conns' = conns
        /\ aged' = aged /\ timer' = timer /\ calls' = calls /\ held' = held
        /\ provider' = provider /\ todo' = todo
    BY <1>6, Zenon DEF vars
  <2>2. InGroup' = InGroup /\ Permitted' = Permitted /\ Connected' = Connected
    BY <2>1 DEF InGroup, Permitted, Connected
  <2>3. Accounting'
    BY <2>1, <2>2, SameAccounting
  <2> QED BY <2>1, <2>3 DEF IInv, TypeOK
<1> QED BY <1>1, <1>2, <1>3, <1>4, <1>5, <1>6, Zenon DEF Next

-----------------------------------------------------------------------------
(* What follows for every behaviour.                                       *)

\* The accounting of acquire() and release() holds in every reachable state,
\* whatever the number of iterators, of permits, and of .sbn indexes.
THEOREM AccountingHolds == Spec => []IInv
<1>1. Init => IInv
  BY InitAccounting
<1>2. IInv /\ [Next]_vars => IInv'
  BY NextKeepsIInv
<1> QED BY <1>1, <1>2, PTL DEF Spec

\* Every variable keeps its type; the semaphore never exceeds its initial value.
THEOREM Typing == Spec => []TypeOK
<1>1. IInv => TypeOK
  BY DEF IInv
<1> QED BY <1>1, AccountingHolds, PTL

\* Each permit that the semaphore of acquire() lacks is with an iterator that
\* will release it: no way through acquire() and release() loses one.
THEOREM PermitsNeverLost == Spec => []PermitsBalance
<1>1. IInv => PermitsBalance
  BY DEF IInv, Accounting
<1> QED BY <1>1, AccountingHolds, PTL

\* There are never more than CONN_POOL_MAX_CONCURRENT_CONNS connections, counting
\* the pooled ones, the lent ones and those another thread is opening outside
\* connMutex.
THEOREM LimitHolds == Spec => []ConnectionLimit
<1>1. IInv => ConnectionLimit
  BY DEF IInv, Accounting
<1> QED BY <1>1, AccountingHolds, PTL

=============================================================================
