-------------------------- MODULE ConnectionPoolRefs --------------------------
(***************************************************************************)
(* Proofs about ConnectionPool for data sources without an .sbn index: the *)
(* reference count is the number of users, and so a group outlives whoever *)
(* is inside it.                                                           *)
(***************************************************************************)
EXTENDS ConnectionPoolProofs

NoShapeIndex == ShapeIndex \subseteq {FALSE}

-----------------------------------------------------------------------------
(* What an operation of the provider calls.                                *)

\* A list of one call before a list of two.
LEMMA JoinOneTwo ==
    ASSUME NEW a, NEW b, NEW c
    PROVE  <<a>> \o <<b, c>> = <<a, b, c>>
<1> DEFINE S == {a, b, c}
<1> DEFINE joined == <<a>> \o <<b, c>>
<1>1. <<a>> \in Seq(S) /\ <<b, c>> \in Seq(S) /\ <<a, b, c>> \in Seq(S)
  OBVIOUS
<1>2. Len(<<a>>) = 1 /\ Len(<<b, c>>) = 2 /\ Len(<<a, b, c>>) = 3
  OBVIOUS
<1>3. joined \in Seq(S) /\ Len(joined) = 3
  BY <1>1, <1>2, ConcatProperties
<1>4. joined[1] = a /\ joined[2] = b /\ joined[3] = c
  BY <1>1, <1>2, ConcatProperties
<1> HIDE DEF joined
<1>5. \A i \in 1..3 : joined[i] = <<a, b, c>>[i]
  BY <1>4
<1> QED BY <1>1, <1>2, <1>3, <1>5, SeqEqual DEF joined

\* A list of two calls before a list of one.
LEMMA JoinTwoOne ==
    ASSUME NEW a, NEW b, NEW c
    PROVE  <<a, b>> \o <<c>> = <<a, b, c>>
<1> DEFINE S == {a, b, c}
<1> DEFINE joined == <<a, b>> \o <<c>>
<1>1. <<a, b>> \in Seq(S) /\ <<c>> \in Seq(S) /\ <<a, b, c>> \in Seq(S)
  OBVIOUS
<1>2. Len(<<a, b>>) = 2 /\ Len(<<c>>) = 1 /\ Len(<<a, b, c>>) = 3
  OBVIOUS
<1>3. joined \in Seq(S) /\ Len(joined) = 3
  BY <1>1, <1>2, ConcatProperties
<1>4. joined[1] = a /\ joined[2] = b /\ joined[3] = c
  BY <1>1, <1>2, ConcatProperties
<1> HIDE DEF joined
<1>5. \A i \in 1..3 : joined[i] = <<a, b, c>>[i]
  BY <1>4
<1> QED BY <1>1, <1>2, <1>3, <1>5, SeqEqual DEF joined

\* The first call of a list, and what follows it.
LEMMA OfTwo ==
    \A a, b : <<a, b>> # <<>> /\ Head(<<a, b>>) = a /\ Tail(<<a, b>>) = <<b>>
OBVIOUS

\* The first call of a list of three, and what follows it.
LEMMA OfThree ==
    \A a, b, c : /\ <<a, b, c>> # <<>> /\ Head(<<a, b, c>>) = a
                 /\ Tail(<<a, b, c>>) = <<b, c>>
OBVIOUS

\* The only call of a list.
LEMMA OfOne == \A a : <<a>> # <<>> /\ Head(<<a>>) = a /\ Tail(<<a>>) = <<>>
OBVIOUS

\* What may be left of an operation of the provider.
Pending ==
    {<<>>, <<"invalidate">>, <<"ref">>, <<"unref", "ref">>,
     <<"ref", "invalidate">>, <<"unref", "ref", "invalidate">>,
     <<"invalidate", "unref", "ref">>}

\* A pending operation goes on with a pending one; what it has put down it
\* takes up in the next call.
LEMMA PendingCalls ==
    ASSUME NEW t \in Pending, t # <<>>
    PROVE  /\ Tail(t) \in Pending
           /\ Head(t) = "unref" => Tail(t) # <<>> /\ Head(Tail(t)) = "ref"
           /\ Head(t) # "unref" => Tail(t) = <<>> \/ Head(Tail(t)) # "ref"
<1>1. CASE t = <<"invalidate">>
  BY <1>1, OfOne, OfTwo, OfThree, Zenon DEF Pending
<1>2. CASE t = <<"ref">>
  BY <1>2, OfOne, OfTwo, OfThree, Zenon DEF Pending
<1>3. CASE t = <<"unref", "ref">>
  BY <1>3, OfOne, OfTwo, Zenon DEF Pending
<1>4. CASE t = <<"ref", "invalidate">>
  <2>1. Head(t) = "ref" /\ Tail(t) = <<"invalidate">>
    BY <1>4, OfTwo, Zenon
  <2>2. Head(Tail(t)) = "invalidate"
    BY <2>1, OfOne, Zenon
  <2> QED BY <2>1, <2>2 DEF Pending
<1>5. CASE t = <<"unref", "ref", "invalidate">>
  <2>1. Head(t) = "unref"
    BY <1>5, OfThree, Zenon
  <2>2. Tail(t) = <<"ref", "invalidate">>
    BY <1>5, OfThree, Zenon
  <2>3. Head(Tail(t)) = "ref" /\ Tail(t) # <<>>
    BY <2>2, OfTwo, Zenon
  <2> QED BY <2>1, <2>2, <2>3, Zenon DEF Pending
<1>6. CASE t = <<"invalidate", "unref", "ref">>
  <2>1. Head(t) = "invalidate"
    BY <1>6, OfThree, Zenon
  <2>2. Tail(t) = <<"unref", "ref">>
    BY <1>6, OfThree, Zenon
  <2>3. Head(Tail(t)) = "unref"
    BY <2>2, OfTwo, Zenon
  <2> QED BY <2>1, <2>2, <2>3 DEF Pending
<1> QED BY <1>1, <1>2, <1>3, <1>4, <1>5, <1>6, Zenon DEF Pending

\* An operation is pending at first, and does not start with taking a reference.
LEMMA OperationsPending ==
    ASSUME NEW t \in ProviderCalls(FALSE)
    PROVE  t \in Pending /\ t # <<>> /\ Head(t) # "ref"
<1>1. SyncToDisc(FALSE) = <<"unref", "ref">>
  BY DEF SyncToDisc
<1>2. <<"invalidate">> \o <<"unref", "ref">> = <<"invalidate", "unref", "ref">>
  BY JoinOneTwo, Zenon
<1>3. <<"unref", "ref">> \o <<"invalidate">> = <<"unref", "ref", "invalidate">>
  BY JoinTwoOne, Zenon
<1>4. t \in {<<"invalidate">>, <<"invalidate", "unref", "ref">>,
             <<"unref", "ref", "invalidate">>}
  BY <1>1, <1>2, <1>3, Zenon DEF ProviderCalls
<1>5. CASE t = <<"invalidate">>
  BY <1>5, OfOne DEF Pending
<1>6. CASE t = <<"invalidate", "unref", "ref">>
  <2>1. Head(t) = "invalidate"
    BY <1>6, OfThree, Zenon
  <2>2. t # <<>>
    BY <1>6, OfThree, Zenon
  <2> QED BY <1>6, <2>1, <2>2 DEF Pending
<1>7. CASE t = <<"unref", "ref", "invalidate">>
  <2>1. Head(t) = "unref"
    BY <1>7, OfThree, Zenon
  <2>2. t # <<>>
    BY <1>7, OfThree, Zenon
  <2> QED BY <1>7, <2>1, <2>2 DEF Pending
<1> QED BY <1>4, <1>5, <1>6, <1>7

-----------------------------------------------------------------------------
(* The inductive invariant of the reference counting.                      *)

\* An inner iterator is open only while its outer one reads, and only iterators
\* with a source of their own are ever ready.
Nesting ==
    \A i \in Iterators :
        /\ pc[i] = "ready" => Outer[i] = None
        /\ Outer[i] # None /\ pc[i] # "closed" => pc[Outer[i]] = "reading"

ProviderOrder ==
    /\ todo \in Pending
    /\ todo # <<>> => provider
    /\ kind = "server" => ~provider

Counted ==
    kind = "ogr" => /\ refs = Cardinality(Sources) + ProviderRefs
                    /\ ~exists => refs = 0

RInv == IInv /\ sound /\ Nesting /\ ProviderOrder /\ Counted

\* Whoever is in the group has a source that is being read, or its outer
\* iterator has.
LEMMA UsersHaveSources ==
    ASSUME TypeOK, Nesting, InGroup # {}
    PROVE  \E s \in Sources : pc[s] # "ready"
<1>1. PICK i \in InGroup : TRUE
  OBVIOUS
<1>2. i \in Iterators /\ pc[i] # "closed" /\ pc[i] # "ready"
  BY DEF InGroup
<1>3. CASE Outer[i] = None
  BY <1>2, <1>3 DEF Sources
<1>4. CASE Outer[i] # None
  <2>1. Outer[i] \in Iterators /\ Outer[Outer[i]] = None
    BY <1>2, <1>4, PoolAssumption
  <2>2. pc[Outer[i]] = "reading"
    BY <1>2, <1>4 DEF Nesting
  <2> QED BY <2>1, <2>2 DEF Sources
<1> QED BY <1>3, <1>4

\* The numbers that are added up are numbers.
LEMMA CountsTyped ==
    /\ IsFiniteSet(Sources) /\ Cardinality(Sources) \in Nat
    /\ ProviderRefs \in {0, 1}
    /\ Sources \subseteq Iterators
BY FiniteParts DEF Sources, ProviderRefs

\* Moving one iterator keeps the nesting.
LEMMA MoveKeepsNesting ==
    ASSUME TypeOK, Nesting, NEW i \in Iterators, NEW place \in Places,
           Goes(i, place),
           pc[i] = "reading" =>
               \A inner \in Iterators : Outer[inner] = i => pc[inner] = "closed",
           place = "ready" => Outer[i] = None,
           Outer[i] # None /\ place # "closed" => pc[Outer[i]] = "reading"
    PROVE  Nesting'
<1> SUFFICES ASSUME NEW j \in Iterators
             PROVE  /\ pc'[j] = "ready" => Outer[j] = None
                    /\ Outer[j] # None /\ pc'[j] # "closed" =>
                           pc'[Outer[j]] = "reading"
  BY DEF Nesting
<1>1. pc' = [pc EXCEPT ![i] = place] /\ pc \in [Iterators -> Places]
  BY DEF Goes, TypeOK
<1>2. Outer[j] # None => Outer[j] \in Iterators /\ Outer[j] # j
  BY PoolAssumption
<1>3. CASE j = i
  BY <1>1, <1>2, <1>3
<1>4. CASE j # i
  <2>1. pc'[j] = pc[j]
    BY <1>1, <1>4
  <2>2. CASE Outer[j] = i
    <3>1. pc[j] = "closed"
      BY <2>2, PoolAssumption DEF Nesting
    <3> QED BY <2>1, <3>1
  <2>3. CASE Outer[j] # i
    <3>1. Outer[j] # None => pc'[Outer[j]] = pc[Outer[j]]
      BY <1>1, <1>2, <2>3
    <3> QED BY <2>1, <3>1 DEF Nesting
  <2> QED BY <2>2, <2>3
<1> QED BY <1>3, <1>4

\* Moving one iterator changes the sources only if it opens or closes one.
LEMMA MovedSources ==
    ASSUME TypeOK, NEW i \in Iterators, NEW place \in Places, Goes(i, place)
    PROVE  Sources' = IF Outer[i] # None THEN Sources
                      ELSE IF place = "closed" THEN Sources \ {i}
                      ELSE Sources \cup {i}
BY DEF TypeOK, Goes, Sources

\* A step that neither takes nor puts down a reference keeps the invariant.
LEMMA QuietKeepsRInv ==
    ASSUME RInv, IInv', sound' = sound, Nesting', kind' = kind,
           provider' = provider, todo' = todo, Sources' = Sources,
           kind = "ogr" => refs' = refs /\ (exists => exists')
    PROVE  RInv'
<1>1. ProviderRefs' = ProviderRefs
  BY DEF RInv, ProviderRefs
<1>2. Counted'
  BY <1>1 DEF RInv, Counted
<1>3. ProviderOrder'
  BY DEF RInv, ProviderOrder
<1> QED BY <1>2, <1>3 DEF RInv

\* Putting down a reference that is counted, the last one only if nobody is in
\* the group, is sound.
LEMMA UnrefIsSound ==
    ASSUME RInv, kind = "ogr", Unref, refs > 0, refs = 1 => InGroup = {}
    PROVE  sound' /\ refs' = refs - 1 /\ (~exists' => refs' = 0)
<1>1. exists
  BY DEF RInv, Counted
<1>2. sound'
  <2>1. sound' = (exists => refs > 0 /\ (refs = 1 => InGroup = {}))
    BY Zenon DEF Unref
  <2> QED BY <2>1, Zenon
<1>3. CASE refs = 1
  <2>1. exists' = FALSE /\ refs' = 0
    BY <1>3, Zenon DEF Unref
  <2>2. ~exists' /\ refs' = refs - 1
    BY <1>3, <2>1
  <2> QED BY <1>2, <2>1, <2>2, Zenon
<1>4. CASE refs # 1
  <2>1. refs' = refs - 1 /\ exists' = exists
    BY <1>1, <1>4, Zenon DEF Unref
  <2>2. exists'
    BY <1>1, <2>1, Zenon
  <2> QED BY <1>2, <2>1, <2>2, Zenon
<1> QED BY <1>3, <1>4

\* Taking a reference counts one more, whether or not the group was there.
LEMMA RefCounts ==
    ASSUME RInv, kind = "ogr", Ref
    PROVE  refs' = refs + 1 /\ exists'
<1>1. CASE exists
  <2>1. refs' = refs + 1 /\ exists' = exists
    BY <1>1, Zenon DEF Ref
  <2> QED BY <1>1, <2>1
<1>2. CASE ~exists
  <2>1. refs' = 1 /\ exists' = TRUE
    BY <1>2, Zenon DEF Ref, NewGroup
  <2>2. refs = 0
    BY <1>2 DEF RInv, Counted
  <2> QED BY <2>1, <2>2
<1> QED BY <1>1, <1>2

\* At first the provider holds the only reference.
LEMMA InitRInv == Init => RInv
<1> SUFFICES ASSUME Init PROVE RInv
  OBVIOUS
<1>1. IInv
  BY InitAccounting
<1>2. kind \in {"ogr", "server"} /\ sound /\ todo = <<>>
      /\ provider = (kind = "ogr") /\ exists = (kind = "ogr")
  BY <1>1, Zenon DEF Init, IInv, TypeOK
<1>3. refs = IF kind = "ogr" THEN 1 ELSE 0
  BY DEF Init
<1>4. Sources = {} /\ Nesting
  BY DEF Init, Sources, Nesting
<1>5. ProviderOrder
  BY <1>2 DEF ProviderOrder, Pending
<1>6. Counted
  <2> SUFFICES ASSUME kind = "ogr" PROVE Counted
    BY DEF Counted
  <2>1. provider /\ exists
    BY <1>2, Zenon
  <2>2. ProviderRefs = 1
    BY <1>2, <2>1 DEF ProviderRefs
  <2> QED BY <1>3, <1>4, <2>1, <2>2, FS_EmptySet DEF Counted
<1> QED BY <1>1, <1>2, <1>4, <1>5, <1>6 DEF RInv

-----------------------------------------------------------------------------
(* Every action keeps it.                                                  *)

\* A feature source that is opened is one more source and one more reference.
LEMMA OpenSourceKeepsRInv ==
    ASSUME RInv, NEW i \in Iterators, OpenSource(i)
    PROVE  RInv'
<1>1. IInv'
  BY SourcesKeepIInv DEF RInv
<1>2. pc[i] = "closed" /\ Outer[i] = None /\ Goes(i, "ready")
      /\ UNCHANGED <<kind, held, provider, todo, sound>>
  BY Zenon DEF OpenSource
<1>3. TypeOK /\ "ready" \in Places
  BY DEF RInv, IInv, Places
<1>4. Nesting'
  BY <1>2, <1>3, MoveKeepsNesting DEF RInv
<1>5. Sources' = Sources \cup {i} /\ i \notin Sources
  BY <1>2, <1>3, MovedSources DEF Sources
<1>6. Cardinality(Sources') = Cardinality(Sources) + 1
  BY <1>5, CountsTyped, CountAdded
<1>7. ProviderRefs' = ProviderRefs /\ ProviderOrder'
  BY <1>2 DEF ProviderRefs, ProviderOrder, RInv
<1>8. Counted'
  <2> SUFFICES ASSUME kind = "ogr" PROVE Counted'
    BY <1>2 DEF Counted
  <2>1. Ref
    BY Zenon DEF OpenSource
  <2>2. refs' = refs + 1 /\ exists'
    BY <2>1, RefCounts
  <2> QED BY <1>6, <1>7, <2>2, CountsTyped DEF Counted, RInv
<1> QED BY <1>1, <1>2, <1>4, <1>7, <1>8 DEF RInv

\* A feature source that is closed is one less source and one less reference.
LEMMA CloseSourceKeepsRInv ==
    ASSUME RInv, NEW i \in Iterators, CloseSource(i)
    PROVE  RInv'
<1>1. IInv'
  BY SourcesKeepIInv DEF RInv
<1>2. pc[i] = "ready" /\ Goes(i, "closed") /\ UNCHANGED <<kind, held, provider, todo>>
  BY Zenon DEF CloseSource
<1>3. TypeOK /\ Nesting /\ "closed" \in Places
  BY DEF RInv, IInv, Places
<1>4. Outer[i] = None
  BY <1>2, <1>3 DEF Nesting
<1>5. Nesting'
  BY <1>2, <1>3, MoveKeepsNesting
<1>6. Sources' = Sources \ {i} /\ i \in Sources
  BY <1>2, <1>3, <1>4, MovedSources DEF Sources
<1>7. Cardinality(Sources') = Cardinality(Sources) - 1
  BY <1>6, CountsTyped, CountRemoved
<1>8. ProviderRefs' = ProviderRefs /\ ProviderOrder'
  BY <1>2 DEF ProviderRefs, ProviderOrder, RInv
<1>9. CASE kind = "ogr"
  <2>1. Unref
    BY <1>9, Zenon DEF CloseSource
  <2>2. refs = Cardinality(Sources) + ProviderRefs
    BY <1>9 DEF Counted, RInv
  <2>3. Cardinality(Sources) >= 1
    BY <1>6, CountsTyped, FS_EmptySet
  <2>4. refs > 0
    BY <2>2, <2>3, CountsTyped
  <2>5. ASSUME refs = 1 PROVE InGroup = {}
    <3>1. Cardinality(Sources') = 0
      BY <1>7, <2>2, <2>3, <2>5, CountsTyped
    <3>2. Sources \ {i} = {}
      BY <1>6, <3>1, CountsTyped, FS_EmptySet, FS_Subset
    <3> QED BY <1>2, <1>3, <3>2, UsersHaveSources
  <2>6. sound' /\ refs' = refs - 1 /\ (~exists' => refs' = 0)
    BY <1>9, <2>1, <2>4, <2>5, UnrefIsSound
  <2>7. Counted'
    BY <1>7, <1>8, <2>2, <2>6, CountsTyped DEF Counted
  <2> QED BY <1>1, <1>5, <1>8, <2>6, <2>7 DEF RInv
<1>10. CASE kind # "ogr"
  <2>1. sound' = sound
    BY <1>10, Zenon DEF CloseSource
  <2>2. Counted'
    BY <1>2, <1>10 DEF Counted
  <2> QED BY <1>1, <1>5, <1>8, <2>1, <2>2 DEF RInv
<1> QED BY <1>9, <1>10

\* An iterator on its way through the pool.
LEMMA PassingKeepsRInv ==
    ASSUME RInv, NEW i \in Iterators, StartAcquire(i) \/ Inside(i)
    PROVE  RInv'
<1>1. IInv'
  BY AcquireKeepsIInv, TakePooledKeepsIInv, PutBackKeepsIInv,
     ReleasePermitKeepsIInv DEF RInv, Inside
<1>2. TypeOK /\ Nesting
  BY DEF RInv, IInv
<1>3. UNCHANGED <<kind, provider, todo, sound>>
  BY DEF StartAcquire, Inside, PassSemaphore, TakePooled, FindNonePooled, Open,
         FailToOpen, NoteAcquired, PutBack, ReleasePermit
<1>4. kind = "ogr" => refs' = refs /\ (exists => exists')
  <2>1. CASE StartAcquire(i)
    <3>1. CASE exists
      BY <2>1, <3>1, Zenon DEF StartAcquire, groupVars
    <3>2. CASE ~exists
      <4>1. refs' = 0
        BY <2>1, <3>2, Zenon DEF StartAcquire, NewGroup
      <4> QED BY <3>2, <4>1 DEF RInv, Counted
    <3> QED BY <3>1, <3>2
  <2>2. CASE Inside(i)
    <3>1. refs' = refs /\ exists' = exists
      BY <2>2 DEF Inside, PassSemaphore, TakePooled, FindNonePooled, Open,
         FailToOpen, NoteAcquired, PutBack, ReleasePermit, groupVars
    <3> QED BY <3>1, Zenon
  <2> QED BY <2>1, <2>2
<1>5. Rest(i) = IF Outer[i] = None THEN "ready" ELSE "closed"
  BY DEF Rest
<1>6. ASSUME NEW place \in Places, Goes(i, place), place # "closed",
             place = "ready" => Outer[i] = None, pc[i] # "closed" \/ Outer[i] # None,
             pc[i] # "closed" \/ pc[Outer[i]] = "reading",
             pc[i] = "reading" =>
                 \A inner \in Iterators : Outer[inner] = i => pc[inner] = "closed"
      PROVE  Nesting' /\ Sources' = Sources
  <2>1. Outer[i] # None => pc[Outer[i]] = "reading"
    BY <1>2, <1>6 DEF Nesting
  <2>2. Nesting'
    BY <1>2, <1>6, <2>1, MoveKeepsNesting
  <2>3. Outer[i] = None => i \in Sources
    BY <1>6 DEF Sources
  <2> QED BY <1>2, <1>6, <2>2, <2>3, MovedSources
<1>7. ASSUME Goes(i, Rest(i)), pc[i] \notin {"closed", "ready", "reading"}
      PROVE  Nesting' /\ Sources' = Sources
  <2>1. CASE Outer[i] = None
    BY <1>5, <1>6, <1>7, <2>1 DEF Places
  <2>2. CASE Outer[i] # None
    <3>1. Goes(i, "closed") /\ "closed" \in Places
      BY <1>5, <1>7, <2>2 DEF Places
    <3> QED BY <1>2, <1>7, <2>2, <3>1, MoveKeepsNesting, MovedSources
  <2> QED BY <2>1, <2>2
<1>8. Nesting' /\ Sources' = Sources
  <2>1. CASE StartAcquire(i)
    <3>1. /\ Goes(i, "waiting") /\ pc[i] = Rest(i)
          /\ Outer[i] # None => pc[Outer[i]] = "reading"
      BY <2>1, Zenon DEF StartAcquire, MayOpen
    <3> QED BY <1>5, <1>6, <3>1 DEF Places
  <2>2. CASE PassSemaphore(i)
    BY <1>6, <2>2 DEF PassSemaphore, Places
  <2>3. CASE TakePooled(i)
    <3>1. pc[i] = "lookup" /\ Goes(i, "reading")
      BY <2>3, Zenon DEF TakePooled
    <3> QED BY <1>6, <3>1 DEF Places
  <2>4. CASE FindNonePooled(i) \/ Open(i) \/ NoteAcquired(i)
    <3>1. /\ pc[i] \in {"lookup", "opening", "opened"}
          /\ \E place \in {"opening", "opened", "reading"} : Goes(i, place)
      BY <2>4 DEF FindNonePooled, Open, NoteAcquired
    <3> QED BY <1>6, <3>1 DEF Places
  <2>5. CASE PutBack(i)
    <3>1. /\ pc[i] = "reading" /\ Goes(i, "released")
          /\ \A inner \in Iterators : Outer[inner] = i => pc[inner] = "closed"
      BY <2>5, Zenon DEF PutBack
    <3> QED BY <1>6, <3>1 DEF Places
  <2>6. CASE FailToOpen(i) \/ ReleasePermit(i)
    BY <1>7, <2>6 DEF FailToOpen, ReleasePermit
  <2> QED BY <2>1, <2>2, <2>3, <2>4, <2>5, <2>6, Zenon DEF Inside
<1> QED BY <1>1, <1>3, <1>4, <1>8, QuietKeepsRInv

\* Steps that move no iterator, and neither take nor put down a reference.
LEMMA OtherKeepsRInv ==
    ASSUME RInv, EventLoop \/ Age \/ UNCHANGED vars
    PROVE  RInv'
<1>1. IInv'
  BY NextKeepsIInv DEF RInv, Next
<1>2. UNCHANGED <<kind, exists, refs, pc, provider, todo, sound>>
  BY DEF EventLoop, DeliverCall, Expire, Age, vars
<1>3. Nesting' /\ Sources' = Sources
  BY <1>2 DEF RInv, Nesting, Sources
<1>4. exists => exists'
  BY <1>2, Zenon
<1> QED BY <1>1, <1>2, <1>3, <1>4, QuietKeepsRInv

\* An operation of the provider starts with its reference in hand.
LEMMA WriteKeepsRInv ==
    ASSUME RInv, NoShapeIndex, NEW index \in ShapeIndex, Write(index)
    PROVE  RInv'
<1>1. IInv'
  BY ProviderKeepsIInv DEF RInv
<1>2. /\ provider /\ todo = <<>> /\ todo' \in ProviderCalls(index)
      /\ UNCHANGED <<kind, exists, refs, pc, provider, sound>>
  BY Zenon DEF Write, MainIdle
<1>3. todo' \in Pending /\ todo' # <<>> /\ Head(todo') # "ref"
  <2>1. todo' \in ProviderCalls(FALSE)
    BY <1>2, Zenon DEF NoShapeIndex
  <2> QED BY <2>1, OperationsPending
<1>4. Nesting' /\ Sources' = Sources
  BY <1>2 DEF RInv, Nesting, Sources
<1>5. ProviderRefs' = ProviderRefs
  BY <1>2, <1>3 DEF ProviderRefs
<1>6. ProviderOrder'
  <2>1. kind # "server" /\ kind' = kind
    BY <1>2 DEF RInv, ProviderOrder
  <2>2. provider'
    BY <1>2, Zenon
  <2> QED BY <1>3, <2>1, <2>2 DEF ProviderOrder
<1>7. Counted'
  <2>1. refs' = refs /\ kind' = kind /\ Sources' = Sources
    BY <1>2, <1>4
  <2>2. ~exists' => ~exists
    BY <1>2, Zenon
  <2> QED BY <1>5, <2>1, <2>2 DEF RInv, Counted
<1>8. sound'
  BY <1>2, Zenon DEF RInv
<1> QED BY <1>1, <1>4, <1>6, <1>7, <1>8 DEF RInv

\* Closing the provider, and each call of one of its operations.
LEMMA ProviderKeepsRInv ==
    ASSUME RInv, Close \/ Call
    PROVE  RInv'
<1>1. IInv'
  BY ProviderKeepsIInv DEF RInv
<1>2. UNCHANGED <<kind, pc>>
  BY DEF Close, Call
<1>3. Nesting' /\ Sources' = Sources
  BY <1>2 DEF RInv, Nesting, Sources
<1>4. provider /\ kind = "ogr" /\ refs = Cardinality(Sources) + ProviderRefs
  <2>1. provider
    BY Zenon DEF Close, Call, RInv, ProviderOrder
  <2>2. kind = "ogr"
    BY <2>1 DEF RInv, ProviderOrder, IInv, TypeOK
  <2> QED BY <2>1, <2>2 DEF RInv, Counted
<1>5. ASSUME Unref, ProviderRefs = 1, ProviderRefs' = 0
      PROVE  sound' /\ Counted'
  <2>1. refs > 0
    BY <1>4, <1>5, CountsTyped
  <2>2. ASSUME refs = 1 PROVE InGroup = {}
    <3>1. Sources = {}
      BY <1>4, <1>5, <2>2, CountsTyped, FS_EmptySet
    <3> QED BY <3>1, UsersHaveSources DEF RInv, IInv
  <2>3. sound' /\ refs' = refs - 1 /\ (~exists' => refs' = 0)
    BY <1>4, <1>5, <2>1, <2>2, UnrefIsSound
  <2> QED BY <1>3, <1>4, <1>5, <2>3, CountsTyped DEF Counted
<1>6. CASE Close
  <2>1. todo = <<>> /\ todo' = todo /\ ~provider' /\ Unref
    BY <1>6, Zenon DEF Close, MainIdle
  <2>2. ProviderRefs = 1 /\ ProviderRefs' = 0
    BY <1>4, <2>1 DEF ProviderRefs
  <2>3. ProviderOrder'
    BY <2>1 DEF ProviderOrder, Pending
  <2> QED BY <1>1, <1>3, <1>5, <2>1, <2>2, <2>3 DEF RInv
<1>7. CASE Call
  <2>1. todo # <<>> /\ todo' = Tail(todo) /\ provider' = provider /\ kind' = kind
    BY <1>7, Zenon DEF Call
  <2>2. /\ todo' \in Pending
        /\ Head(todo) = "unref" => todo' # <<>> /\ Head(todo') = "ref"
        /\ Head(todo) # "unref" => todo' = <<>> \/ Head(todo') # "ref"
    BY <2>1, PendingCalls DEF RInv, ProviderOrder
  <2>3. provider'
    BY <1>4, <2>1, Zenon
  <2>4. ProviderOrder'
    BY <1>4, <2>1, <2>2, <2>3 DEF ProviderOrder
  <2>5. CASE Head(todo) = "ref" /\ Ref /\ UNCHANGED <<held, sound>>
    <3>1. ProviderRefs = 0 /\ ProviderRefs' = 1
      BY <2>1, <2>2, <2>3, <2>5 DEF ProviderRefs
    <3>2. refs' = refs + 1 /\ exists'
      BY <1>4, <2>5, RefCounts
    <3>3. Counted'
      BY <1>3, <1>4, <3>1, <3>2, CountsTyped DEF Counted
    <3>4. sound'
      BY <2>5, Zenon DEF RInv
    <3> QED BY <1>1, <1>3, <2>4, <3>3, <3>4 DEF RInv
  <2>6. CASE Head(todo) = "unref" /\ Unref /\ UNCHANGED held
    <3>1. ProviderRefs = 1 /\ ProviderRefs' = 0
      BY <1>4, <2>1, <2>2, <2>3, <2>6 DEF ProviderRefs
    <3> QED BY <1>1, <1>3, <1>5, <2>4, <2>6, <3>1 DEF RInv
  <2>7. CASE Head(todo) = "invalidate" /\ InvalidateConnections
    <3>1. UNCHANGED <<exists, refs, sound>>
      BY <2>7, Zenon DEF InvalidateConnections
    <3>2. ProviderRefs = 1 /\ ProviderRefs' = 1
      BY <1>4, <2>1, <2>2, <2>3, <2>7 DEF ProviderRefs
    <3>3. refs' = refs /\ (~exists' => ~exists) /\ sound'
      BY <3>1, Zenon DEF RInv
    <3>4. Counted'
      BY <1>3, <1>4, <3>2, <3>3 DEF RInv, Counted
    <3> QED BY <1>1, <1>3, <2>4, <3>3, <3>4 DEF RInv
  <2> QED BY <1>7, <2>5, <2>6, <2>7, Zenon DEF Call
<1> QED BY <1>6, <1>7

\* A step of Next keeps the invariant if no shapefile has an .sbn index.
LEMMA NextKeepsRInv ==
    ASSUME NoShapeIndex
    PROVE  RInv /\ [Next]_vars => RInv'
<1> SUFFICES ASSUME RInv, [Next]_vars PROVE RInv'
  OBVIOUS
<1>1. ASSUME NEW i \in Iterators, OpenSource(i) PROVE RInv'
  BY <1>1, OpenSourceKeepsRInv
<1>2. ASSUME NEW i \in Iterators, CloseSource(i) PROVE RInv'
  BY <1>2, CloseSourceKeepsRInv
<1>3. ASSUME NEW i \in Iterators, StartAcquire(i) \/ Inside(i) PROVE RInv'
  BY <1>3, PassingKeepsRInv
<1>4. CASE EventLoop \/ Age \/ UNCHANGED vars
  BY <1>4, OtherKeepsRInv
<1>5. CASE Close \/ Call
  BY <1>5, ProviderKeepsRInv
<1>6. ASSUME NEW index \in ShapeIndex, Write(index) PROVE RInv'
  BY <1>6, WriteKeepsRInv
<1> QED BY <1>1, <1>2, <1>3, <1>4, <1>5, <1>6, Zenon DEF Next

-----------------------------------------------------------------------------
(* What follows for every behaviour.                                       *)

\* The reference counting invariant holds in every reachable state.
THEOREM CountingHolds ==
    ASSUME NoShapeIndex
    PROVE  Spec => []RInv
<1>1. Init => RInv
  BY InitRInv
<1>2. RInv /\ [Next]_vars => RInv'
  BY NextKeepsRInv
<1> QED BY <1>1, <1>2, PTL DEF Spec

\* No group is deleted while an iterator waits for, has or gives back one of its
\* connections, and the assertions of ref counting hold, as long as syncToDisc
\* has no .sbn index to recreate.
THEOREM GroupsOutliveUsers ==
    ASSUME NoShapeIndex
    PROVE  Spec => []GroupOutlivesUsers
<1>1. RInv => GroupOutlivesUsers
  BY DEF RInv, GroupOutlivesUsers
<1> QED BY <1>1, CountingHolds, PTL

\* Under the same condition mRefCount is the number of feature sources and one
\* for the provider.
THEOREM ReferencesCounted ==
    ASSUME NoShapeIndex
    PROVE  Spec => []RefsCounted
<1>1. RInv => RefsCounted
  BY DEF RInv, RefsCounted, Counted
<1> QED BY <1>1, CountingHolds, PTL

=============================================================================
