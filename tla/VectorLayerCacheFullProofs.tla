---------------------- MODULE VectorLayerCacheFullProofs ----------------------
(***************************************************************************)
(* For every layer and any number of open iterators: the types of the      *)
(* layer cache, above all that QCache keeps to its size and has each entry *)
(* in its order once; and that a cache that was loaded to the end holds    *)
(* every feature from then on, because it is never too small for them.     *)
(***************************************************************************)
EXTENDS VectorLayerCacheProofs, FiniteSetTheorems, SequenceTheorems

(***************************************************************************)
(* The order of use.                                                       *)
(***************************************************************************)

\* A sequence that names each of these ids once.
IsOrder(order, fids) ==
    /\ order \in Seq(fids) /\ IsInjective(order) /\ Range(order) = fids

\* Such a sequence is as long as there are ids.
LEMMA OrderLength ==
  ASSUME NEW order, NEW fids, IsOrder(order, fids)
  PROVE  Len(order) \in Nat /\ IsFiniteSet(fids) /\ Cardinality(fids) = Len(order)
<1>1. Len(order) \in Nat /\ order \in [1..Len(order) -> fids]
  BY DEF IsOrder
<1>2. order \in Bijection(1..Len(order), fids)
  BY <1>1 DEF IsOrder, IsInjective, Range, Bijection, Injection, Surjection
<1>3. IsFiniteSet(1..Len(order)) /\ Cardinality(1..Len(order)) = Len(order)
  BY <1>1, FS_Interval
<1> QED
  BY <1>1, <1>2, <1>3, FS_Bijection DEF ExistsBijection

\* An id leaves the order and the others stay.
LEMMA WithoutOrder ==
  ASSUME NEW order, NEW fids, IsOrder(order, fids), NEW fid
  PROVE  IsOrder(Without(order, fid), fids \ {fid})
<1>1. Len(order) \in Nat /\ order \in [1..Len(order) -> fids]
  BY DEF IsOrder
<1>2. CASE fid \notin Range(order)
  BY <1>2 DEF Without, IsOrder
<1>3. CASE fid \in Range(order)
  <2> DEFINE at == CHOOSE i \in DOMAIN order : order[i] = fid
             rest == SubSeq(order, 1, at - 1) \o SubSeq(order, at + 1, Len(order))
  <2>1. at \in 1..Len(order) /\ order[at] = fid
    BY <1>1, <1>3 DEF Range
  <2>2. Without(order, fid) = rest
    BY <1>3 DEF Without
  <2> HIDE DEF at
  <2> DEFINE before == SubSeq(order, 1, at - 1)
             after == SubSeq(order, at + 1, Len(order))
  <2>3. /\ before \in Seq(fids) /\ Len(before) = at - 1
        /\ \A i \in 1..at - 1 : before[i] = order[i]
    <3>1. at - 1 \in Int /\ \A i \in 1..at - 1 : order[i] \in fids
      BY <1>1, <2>1
    <3> QED
      BY <2>1, <3>1, SubSeqProperties
  <2>4. /\ after \in Seq(fids) /\ Len(after) = Len(order) - at
        /\ \A i \in 1..Len(order) - at : after[i] = order[at + i]
    <3>1. at + 1 \in Int /\ \A i \in at + 1..Len(order) : order[i] \in fids
      BY <1>1, <2>1
    <3>2. /\ after \in Seq(fids)
          /\ Len(after) = IF at + 1 <= Len(order) THEN Len(order) - (at + 1) + 1 ELSE 0
          /\ \A i \in 1..Len(order) - (at + 1) + 1 : after[i] = order[at + 1 + i - 1]
      BY <1>1, <3>1, SubSeqProperties
    <3> HIDE DEF after
    <3>3. Len(after) = Len(order) - at
      <4>1. at \in Int /\ Len(order) \in Int /\ at <= Len(order)
        BY <1>1, <2>1
      <4>2. Len(after)
              = IF at + 1 <= Len(order) THEN Len(order) - (at + 1) + 1 ELSE 0
        BY <3>2
      <4> QED
        BY <4>1, <4>2
    <3>4. ASSUME NEW i \in 1..Len(order) - at PROVE after[i] = order[at + i]
      <4>1. i \in 1..Len(order) - (at + 1) + 1 /\ at + 1 + i - 1 = at + i
        BY <1>1, <2>1
      <4> QED
        BY <3>2, <4>1
    <3> QED
      BY <3>2, <3>3, <3>4
  <2> HIDE DEF before, after
  <2>5. /\ rest \in Seq(fids) /\ Len(rest) = Len(order) - 1
        /\ \A i \in 1..Len(rest) : rest[i] = IF i < at THEN order[i] ELSE order[i + 1]
    <3>1. /\ rest \in Seq(fids) /\ Len(rest) = Len(before) + Len(after)
          /\ \A i \in 1..Len(before) + Len(after) :
               rest[i] = IF i <= Len(before) THEN before[i] ELSE after[i - Len(before)]
      BY <2>3, <2>4, ConcatProperties DEF before, after
    <3> HIDE DEF rest
    <3> QED
      BY <1>1, <2>1, <2>3, <2>4, <3>1
  <2> HIDE DEF rest
  <2>6. IsInjective(rest)
    <3>1. DOMAIN rest = 1..Len(rest)
      BY <2>5
    <3>2. \A a, b \in 1..Len(order) : order[a] = order[b] => a = b
      BY <1>1 DEF IsOrder, IsInjective
    <3>3. ASSUME NEW a \in 1..Len(rest), NEW b \in 1..Len(rest), rest[a] = rest[b]
          PROVE  a = b
      BY <1>1, <2>1, <2>5, <3>2, <3>3
    <3> QED
      BY <3>1, <3>3 DEF IsInjective
  <2>7. \A i \in 1..Len(rest) : rest[i] \in fids \ {fid}
    BY <1>1, <2>1, <2>5 DEF IsInjective, IsOrder
  <2>8. ASSUME NEW f \in fids, f # fid PROVE \E i \in 1..Len(rest) : rest[i] = f
    <3>1. PICK i \in 1..Len(order) : order[i] = f
      BY <1>1 DEF IsOrder, Range
    <3>2. CASE i < at
      BY <1>1, <2>1, <2>5, <3>1, <3>2
    <3>3. CASE i > at
      <4>1. i - 1 \in 1..Len(rest) /\ rest[i - 1] = order[i]
        BY <1>1, <2>1, <2>5, <3>1, <3>3
      <4> QED
        BY <3>1, <4>1
    <3> QED
      BY <1>1, <2>1, <2>8, <3>1, <3>2, <3>3
  <2>9. rest \in Seq(fids \ {fid})
    BY <2>5, <2>7
  <2>10. Range(rest) = fids \ {fid}
    BY <2>5, <2>7, <2>8 DEF Range
  <2> QED
    BY <2>2, <2>6, <2>9, <2>10 DEF IsOrder
<1> QED
  BY <1>2, <1>3

\* The newest ids stay, and all of them if there are no more than that.
LEMMA NewestOrder ==
  ASSUME NEW order, NEW fids, IsOrder(order, fids), NEW n \in Nat
  PROVE  \E kept \in SUBSET fids :
           /\ IsOrder(Newest(order, n), kept) /\ Range(Newest(order, n)) = kept
           /\ Len(Newest(order, n)) <= n
           /\ Cardinality(fids) <= n => kept = fids
<1>1. Len(order) \in Nat /\ order \in [1..Len(order) -> fids]
  BY DEF IsOrder
<1>2. Cardinality(fids) = Len(order)
  BY OrderLength
<1>3. CASE Len(order) <= n
  BY <1>3 DEF Newest, IsOrder
<1>4. CASE Len(order) > n
  <2> DEFINE rest == SubSeq(order, Len(order) - n + 1, Len(order))
  <2>1. Newest(order, n) = rest
    BY <1>1, <1>4 DEF Newest
  <2>2. /\ rest \in Seq(fids) /\ Len(rest) = n
        /\ \A i \in 1..n : rest[i] = order[Len(order) - n + i]
    BY <1>1, <1>4, SubSeqProperties DEF IsOrder
  <2> HIDE DEF rest
  <2>3. IsInjective(rest)
    BY <1>1, <1>4, <2>2, SMTT(30) DEF IsInjective, IsOrder
  <2>4. Range(rest) \in SUBSET fids
    BY <2>2 DEF Range
  <2>5. rest \in Seq(Range(rest))
    BY <2>2 DEF Range
  <2>6. IsOrder(rest, Range(rest))
    BY <2>3, <2>5 DEF IsOrder
  <2> QED
    BY <1>1, <1>2, <1>4, <2>1, <2>2, <2>4, <2>6
<1> QED
  BY <1>1, <1>3, <1>4

\* An id that was not there comes last.
LEMMA AppendOrder ==
  ASSUME NEW order, NEW fids, IsOrder(order, fids), NEW fid, fid \notin fids
  PROVE  /\ IsOrder(Append(order, fid), fids \cup {fid})
         /\ Len(Append(order, fid)) = Len(order) + 1
<1> DEFINE more == Append(order, fid)
<1>1. Len(order) \in Nat /\ order \in [1..Len(order) -> fids]
  BY DEF IsOrder
<1>2. /\ more \in Seq(fids \cup {fid}) /\ Len(more) = Len(order) + 1
      /\ \A i \in 1..Len(more) : more[i] = IF i <= Len(order) THEN order[i] ELSE fid
  <2>1. order \in Seq(fids \cup {fid})
    BY <1>1
  <2> QED
    BY <1>1, <2>1, AppendProperties
<1> HIDE DEF more
<1>3. IsInjective(more)
  BY <1>1, <1>2 DEF IsInjective, IsOrder
<1>4. \A f \in fids : \E i \in 1..Len(order) : order[i] = f
  BY <1>1 DEF IsOrder, Range
<1>5. Range(more) = fids \cup {fid}
  <2>1. more[Len(more)] = fid
    BY <1>1, <1>2
  <2> QED
    BY <1>1, <1>2, <1>4, <2>1 DEF Range
<1> QED
  BY <1>2, <1>3, <1>5 DEF IsOrder, more

(***************************************************************************)
(* QCache keeps to its size and names each entry once.                     *)
(***************************************************************************)
IsQueue(c) ==
    /\ IsCache(c) /\ c.size \in Nat
    /\ IsOrder(c.order, DOMAIN c.entries) /\ Len(c.order) <= c.size

\* A cache that is trimmed to an order of some of its ids.
LEMMA KeepingQueue ==
  ASSUME NEW c, IsCache(c), c.size \in Nat,
         NEW kept \in SUBSET DOMAIN c.entries,
         NEW order, IsOrder(order, kept), Len(order) <= c.size
  PROVE  /\ IsQueue(Keeping(c, order)) /\ DOMAIN Keeping(c, order).entries = kept
         /\ Keeping(c, order).size = c.size
<1>1. DOMAIN c.entries \cap Range(order) = kept
  BY DEF IsOrder
<1>2. Keeping(c, order)
        = [entries |-> Restrict(c.entries, kept), order |-> order, size |-> c.size]
  BY <1>1 DEF Keeping
<1>3. DOMAIN Restrict(c.entries, kept) = kept
  BY DEF Restrict
<1>4. IsCache(Keeping(c, order))
  BY KeepingLeaves
<1> QED
  BY <1>2, <1>3, <1>4 DEF IsQueue

\* An entry that is taken out is out of the order, too.
LEMMA RemovedQueue ==
  ASSUME NEW c, IsQueue(c), NEW fid
  PROVE  /\ IsQueue(Removed(c, fid)) /\ Removed(c, fid).size = c.size
         /\ DOMAIN Removed(c, fid).entries = DOMAIN c.entries \ {fid}
         /\ Removed(c, fid).order = Without(c.order, fid)
<1> DEFINE order == Without(c.order, fid)
           rest == DOMAIN c.entries \ {fid}
<1>1. IsOrder(order, rest)
  BY WithoutOrder DEF IsQueue
<1>2. Len(order) <= c.size
  <2>1. /\ IsFiniteSet(DOMAIN c.entries) /\ Cardinality(DOMAIN c.entries) = Len(c.order)
        /\ Cardinality(rest) = Len(order) /\ Len(order) \in Nat /\ Len(c.order) \in Nat
    BY <1>1, OrderLength DEF IsQueue
  <2>2. Cardinality(rest) <= Cardinality(DOMAIN c.entries)
    BY <2>1, FS_Subset
  <2> QED
    BY <2>1, <2>2 DEF IsQueue
<1> HIDE DEF order
<1>3. Removed(c, fid)
        = [entries |-> Restrict(c.entries, rest), order |-> order, size |-> c.size]
  BY DEF Removed, order
<1>4. DOMAIN Restrict(c.entries, rest) = rest
  BY DEF Restrict
<1>5. IsCache(Removed(c, fid))
  BY RemovedLeaves DEF IsQueue
<1> QED
  BY <1>1, <1>2, <1>3, <1>4, <1>5 DEF IsQueue, order

\* A cache that is emptied.
LEMMA ClearedQueue ==
  ASSUME NEW c, IsQueue(c)
  PROVE  IsQueue(Cleared(c))
<1>1. IsOrder(<<>>, {}) /\ Len(<<>>) <= c.size
  BY DEF IsQueue, IsOrder, IsInjective, Range
<1> QED
  BY <1>1, KeepingQueue DEF Cleared, IsQueue

\* A cache that gets another size loses nothing if there is room.
LEMMA ResizedQueue ==
  ASSUME NEW c, IsQueue(c), NEW size \in Nat
  PROVE  /\ IsQueue(Resized(c, size)) /\ Resized(c, size).size = size
         /\ DOMAIN Resized(c, size).entries \subseteq DOMAIN c.entries
         /\ Cardinality(DOMAIN c.entries) <= size
              => DOMAIN Resized(c, size).entries = DOMAIN c.entries
<1> DEFINE d == [entries |-> c.entries, order |-> c.order, size |-> size]
<1>1. [c EXCEPT !.size = size] = d
  BY DEF IsQueue, IsCache
<1>2. IsCache(d) /\ d.size = size /\ d.entries = c.entries
  BY DEF IsQueue, IsCache
<1> HIDE DEF d
<1>3. Resized(c, size) = Keeping(d, Newest(c.order, size))
  BY <1>1 DEF Resized
<1>4. PICK kept \in SUBSET DOMAIN c.entries :
        /\ IsOrder(Newest(c.order, size), kept)
        /\ Len(Newest(c.order, size)) <= size
        /\ Cardinality(DOMAIN c.entries) <= size => kept = DOMAIN c.entries
  BY NewestOrder DEF IsQueue
<1>5. /\ IsQueue(Keeping(d, Newest(c.order, size)))
      /\ DOMAIN Keeping(d, Newest(c.order, size)).entries = kept
      /\ Keeping(d, Newest(c.order, size)).size = size
  BY <1>2, <1>4, KeepingQueue
<1> QED
  BY <1>3, <1>4, <1>5

\* A use moves the id to the end.
LEMMA UsedQueue ==
  ASSUME NEW c, IsQueue(c), NEW fid
  PROVE  IsQueue(Used(c, fid)) /\ Used(c, fid).size = c.size
<1>1. CASE ~Has(c, fid)
  BY <1>1 DEF Used
<1>2. CASE Has(c, fid)
  <2> DEFINE order == Append(Without(c.order, fid), fid)
  <2>1. IsOrder(Without(c.order, fid), DOMAIN c.entries \ {fid})
    BY WithoutOrder DEF IsQueue
  <2>2. (DOMAIN c.entries \ {fid}) \cup {fid} = DOMAIN c.entries
    BY <1>2 DEF Has
  <2>3. IsOrder(order, DOMAIN c.entries)
    <3>1. fid \notin DOMAIN c.entries \ {fid}
      OBVIOUS
    <3> QED
      BY <2>1, <2>2, <3>1, AppendOrder
  <2>4. Len(order) = Len(c.order)
    BY <2>3, OrderLength DEF IsQueue
  <2>5. Used(c, fid) = [entries |-> c.entries, order |-> order, size |-> c.size]
    BY <1>2 DEF Used, IsQueue, IsCache
  <2> HIDE DEF order
  <2>6. IsCache(Used(c, fid))
    BY UsedLeaves DEF IsQueue
  <2> QED
    BY <2>3, <2>4, <2>5, <2>6 DEF IsQueue
<1> QED
  BY <1>1, <1>2

\* An entry that joins others when there is room drives none of them out.
LEMMA InsertedQueue ==
  ASSUME NEW c, IsQueue(c), NEW fid, NEW entry \in Entry
  PROVE  LET d == Inserted(c, fid, entry)
         IN /\ IsQueue(d) /\ d.size = c.size
            /\ DOMAIN d.entries \subseteq DOMAIN c.entries \cup {fid}
            /\ Cardinality(DOMAIN c.entries \cup {fid}) <= c.size
                 => DOMAIN d.entries = DOMAIN c.entries \cup {fid}
<1> DEFINE all == DOMAIN c.entries \cup {fid}
           others == DOMAIN c.entries \ {fid}
<1>0. /\ IsFiniteSet(DOMAIN c.entries) /\ IsFiniteSet(all) /\ IsFiniteSet(others)
      /\ Cardinality(all) = Cardinality(others) + 1 /\ Cardinality(others) \in Nat
  <2>1. IsFiniteSet(DOMAIN c.entries)
    BY OrderLength DEF IsQueue
  <2>2. IsFiniteSet(others) /\ others \cup {fid} = all /\ fid \notin others
    BY <2>1, FS_RemoveElement
  <2> QED
    BY <2>1, <2>2, FS_AddElement, FS_CardinalityType
<1>1. CASE c.size < 1
  <2>1. Inserted(c, fid, entry) = Removed(c, fid)
    BY <1>1 DEF Inserted
  <2>2. ~(Cardinality(all) <= c.size)
    BY <1>0, <1>1 DEF IsQueue
  <2> QED
    BY <2>1, <2>2, RemovedQueue
<1>2. CASE ~(c.size < 1)
  <2> DEFINE taken == Removed(c, fid)
             order == Newest(Without(c.order, fid), c.size - 1)
             rest == Keeping(taken, order)
  <2>0. c.size - 1 \in Nat /\ c.size \in Nat
    BY <1>2 DEF IsQueue
  <2>1. /\ IsQueue(taken) /\ DOMAIN taken.entries = others /\ taken.size = c.size
        /\ taken.order = Without(c.order, fid)
    BY RemovedQueue
  <2>2. PICK kept \in SUBSET others :
          /\ IsOrder(order, kept) /\ Len(order) <= c.size - 1
          /\ Cardinality(others) <= c.size - 1 => kept = others
    BY <2>0, <2>1, NewestOrder DEF IsQueue
  <2> HIDE DEF taken, order
  <2>3. Len(order) \in Nat
    BY <2>2, OrderLength
  <2>4. /\ IsQueue(rest) /\ DOMAIN rest.entries = kept
        /\ rest.order = order
    <3>1. rest.order = order
      BY DEF Keeping
    <3>2. IsCache(taken) /\ taken.size \in Nat /\ Len(order) <= taken.size
      BY <2>0, <2>1, <2>2, <2>3 DEF IsQueue
    <3> QED
      BY <2>1, <2>2, <3>1, <3>2, KeepingQueue
  <2>5. Inserted(c, fid, entry)
          = [entries |-> [f \in DOMAIN rest.entries \cup {fid} |->
                            IF f = fid THEN entry ELSE rest.entries[f]],
             order |-> Append(rest.order, fid), size |-> c.size]
    BY <1>2 DEF Inserted, Joined, taken, order
  <2> HIDE DEF rest
  <2>6. IsOrder(Append(order, fid), kept \cup {fid}) /\ Len(Append(order, fid)) <= c.size
    BY <2>0, <2>2, <2>3, AppendOrder
  <2>7. IsCache(Inserted(c, fid, entry))
    BY InsertedGains DEF IsQueue
  <2> DEFINE d == Inserted(c, fid, entry)
  <2>8. /\ d.order = Append(order, fid) /\ d.size = c.size
        /\ DOMAIN d.entries = kept \cup {fid}
    BY <2>4, <2>5
  <2> HIDE DEF d
  <2>9. IsQueue(d)
    BY <2>0, <2>6, <2>7, <2>8 DEF IsQueue, d
  <2>10. Cardinality(all) <= c.size => kept = others
    BY <1>0, <2>0, <2>2
  <2> QED
    BY <2>8, <2>9, <2>10 DEF d
<1> QED
  BY <1>1, <1>2

\* A feature that is asked for joins the cache, if the layer has it.
LEMMA FeatureAtIdQueue ==
  ASSUME Shape, NEW c, IsQueue(c), NEW layer, NEW fid, NEW skipCache \in BOOLEAN,
         \A f \in DOMAIN layer : layer[f] \in Content
  PROVE  LET d == FeatureAtId(c, layer, fid, skipCache)
         IN /\ IsQueue(d) /\ d.size = c.size
            /\ DOMAIN d.entries \subseteq DOMAIN c.entries \cup {fid}
            /\ fid \in DOMAIN layer /\ Cardinality(DOMAIN c.entries \cup {fid}) <= c.size
                 => DOMAIN d.entries = DOMAIN c.entries \cup {fid}
<1>1. CASE ~skipCache /\ Has(c, fid)
  <2>1. DOMAIN c.entries \cup {fid} = DOMAIN c.entries
    BY <1>1 DEF Has
  <2>2. Used(c, fid).entries = c.entries
    BY UsedLeaves DEF IsQueue
  <2> QED
    BY <1>1, <2>1, <2>2, UsedQueue DEF FeatureAtId
<1>2. CASE ~(~skipCache /\ Has(c, fid)) /\ fid \in DOMAIN layer
  <2>1. Fetched(layer[fid]) \in Entry
    BY <1>2, FetchedIsEntry
  <2> QED
    BY <1>2, <2>1, InsertedQueue DEF FeatureAtId
<1>3. CASE ~(~skipCache /\ Has(c, fid)) /\ fid \notin DOMAIN layer
  BY <1>3 DEF FeatureAtId
<1> QED
  BY <1>1, <1>2, <1>3

\* A feature that is announced joins a full cache, which makes room for one more
\* than the provider counts.
LEMMA OnFeatureAddedQueue ==
  ASSUME Shape, NEW c, IsQueue(c), NEW layer, NEW fid, NEW count \in Nat,
         \A f \in DOMAIN layer : layer[f] \in Content
  PROVE  LET d == OnFeatureAdded(c, layer, fid, count)
         IN /\ IsQueue(d)
            /\ DOMAIN d.entries \subseteq DOMAIN c.entries \cup {fid}
            /\ fullCache => d.size > count /\ d.size >= c.size
            /\ /\ fullCache /\ fid \in DOMAIN layer
               /\ Cardinality(DOMAIN c.entries \cup {fid}) <= count + 1
               => DOMAIN d.entries = DOMAIN c.entries \cup {fid}
<1>1. CASE ~fullCache
  BY <1>1 DEF OnFeatureAdded
<1>2. CASE fullCache
  <2> DEFINE base == IF c.size <= count THEN Resized(c, count + Slack) ELSE c
             d == FeatureAtId(base, layer, fid, FALSE)
  <2>1. count + Slack \in Nat /\ count + Slack > count /\ c.size \in Nat
    BY CacheAssumption DEF IsQueue
  <2>2. /\ Cardinality(DOMAIN c.entries) \in Nat
        /\ Cardinality(DOMAIN c.entries) <= c.size
    BY OrderLength DEF IsQueue
  <2>3. /\ IsQueue(base) /\ base.size > count /\ base.size >= c.size
        /\ DOMAIN base.entries = DOMAIN c.entries
    <3>1. CASE c.size <= count
      <4>1. Cardinality(DOMAIN c.entries) <= count + Slack
        BY <2>1, <2>2, <3>1
      <4>2. base = Resized(c, count + Slack)
        BY <3>1
      <4> HIDE DEF base
      <4>3. /\ IsQueue(base) /\ base.size = count + Slack
            /\ DOMAIN base.entries = DOMAIN c.entries
        BY <2>1, <4>1, <4>2, ResizedQueue
      <4> QED
        BY <2>1, <3>1, <4>3
    <3>2. CASE ~(c.size <= count)
      BY <2>1, <3>2
    <3> QED
      BY <3>1, <3>2
  <2> HIDE DEF base
  <2>4. /\ IsQueue(d) /\ d.size = base.size
        /\ DOMAIN d.entries \subseteq DOMAIN base.entries \cup {fid}
        /\ fid \in DOMAIN layer
             /\ Cardinality(DOMAIN base.entries \cup {fid}) <= base.size
             => DOMAIN d.entries = DOMAIN base.entries \cup {fid}
    <3>1. IsQueue(d) /\ d.size = base.size
      BY <2>3, FeatureAtIdQueue
    <3>2. DOMAIN d.entries \subseteq DOMAIN base.entries \cup {fid}
      BY <2>3, FeatureAtIdQueue
    <3>3. fid \in DOMAIN layer
            /\ Cardinality(DOMAIN base.entries \cup {fid}) <= base.size
            => DOMAIN d.entries = DOMAIN base.entries \cup {fid}
      BY <2>3, FeatureAtIdQueue
    <3> QED
      BY <3>1, <3>2, <3>3
  <2>5. OnFeatureAdded(c, layer, fid, count) = d
    BY <1>2 DEF OnFeatureAdded, base
  <2> HIDE DEF d
  <2>6. /\ IsFiniteSet(DOMAIN c.entries)
        /\ Cardinality(DOMAIN c.entries \cup {fid}) \in Nat
    BY OrderLength, FS_AddElement, FS_CardinalityType DEF IsQueue
  <2>7. base.size \in Nat
    BY <2>3 DEF IsQueue
  <2> QED
    BY <2>1, <2>3, <2>4, <2>5, <2>6, <2>7
<1> QED
  BY <1>1, <1>2

(***************************************************************************)
(* Types.                                                                  *)
(***************************************************************************)

\* There are finitely many ids, and the provider counts some of them.
LEMMA FidsFinite == IsFiniteSet(Fids)
<1> DEFINE negated == [n \in 1..MaxNew |-> -n]
           temps == {-n : n \in 1..MaxNew}
<1>1. IsFiniteSet(1..MaxNew)
  BY CacheAssumption, FS_Interval
<1>2. negated \in Surjection(1..MaxNew, temps)
  BY DEF Surjection
<1>3. IsFiniteSet(temps)
  BY <1>1, <1>2, FS_Surjection
<1> QED
  BY <1>3, CacheAssumption, FS_Union DEF Fids

\* What the provider counts is a number.
LEMMA CountIsNatural ==
  ASSUME NEW layer, NEW deleted, DOMAIN layer \subseteq Fids, DOMAIN deleted \subseteq Fids
  PROVE  FeatureCount(layer, deleted) \in Nat
<1>1. {fid \in DOMAIN layer \cup DOMAIN deleted : IsStored(fid)} \in SUBSET Fids
  OBVIOUS
<1> QED
  BY <1>1, FidsFinite, FS_Subset, FS_CardinalityType DEF FeatureCount

\* Iterators have read what they are to deliver.
HasRead(reader) == reader.kind = "writer" => reader.left \subseteq DOMAIN reader.fetched

TInv ==
    /\ DOMAIN features \subseteq Fids /\ DOMAIN gone \subseteq Fids
    /\ lastTemp >= -MaxNew
    /\ IsQueue(cache) /\ DOMAIN cache.entries \subseteq Fids
    /\ \A r \in Readers \cup {Loader} : HasRead(readers[r])
    /\ DOMAIN committing \subseteq NewFids

\* setFullCache reads the layer, never the cache.
LoaderReads == readers[Loader] = NoReader \/ readers[Loader].kind = "writer"

\* While a commit announces features, nothing is left to undo, and each of those
\* yet to come has a permanent id of its own.
AnnouncedOnce ==
    Committing => /\ DOMAIN gone = {} /\ IsInjective(committing)
                  /\ Range(committing) \subseteq StoredNow

\* What is cached during a commit: the stored features that were announced, and
\* the new ones that were not.
OnesCommitting == (StoredNow \ Range(committing)) \cup DOMAIN committing

\* A cache that has to be complete holds the features the loader has passed, with
\* nothing else in it that could drive them out, and with room for the others.
FInv ==
    fullCache /\ ~excused =>
      /\ Wrong = {}
      /\ ~Committing => /\ Cardinality(DOMAIN features) <= cache.size
                        /\ DOMAIN features \subseteq
                             DOMAIN cache.entries \cup readers[Loader].left
      /\ Committing => DOMAIN cache.entries = OnesCommitting

FullInv == TInv /\ LoaderReads /\ AnnouncedOnce /\ FInv

\* Entries that are right are entries of features.
LEMMA RightOnesExist ==
  ASSUME Wrong = {}
  PROVE  DOMAIN cache.entries \subseteq DOMAIN features
BY DEF Wrong, Right

\* A set of ids is no larger than one it is in.
LEMMA FewerFids ==
  ASSUME NEW T \in SUBSET Fids, NEW S \in SUBSET T
  PROVE  /\ IsFiniteSet(S) /\ IsFiniteSet(T)
         /\ Cardinality(S) \in Nat /\ Cardinality(T) \in Nat
         /\ Cardinality(S) <= Cardinality(T)
BY FidsFinite, FS_Subset, FS_CardinalityType

(***************************************************************************)
(* The steps.                                                              *)
(***************************************************************************)

\* Features that come, or come back, join a full cache and drive out none.
LEMMA AnnouncesStep ==
  ASSUME CInv, FullInv, NEW fid \in Fids, Idle, ~Committing',
         DOMAIN features' = DOMAIN features \cup {fid},
         \A f \in DOMAIN features' : features'[f] \in Content,
         DOMAIN gone' \subseteq Fids, UNCHANGED <<fullCache, readers>>,
         Announces(fid), Excusing(FALSE), Wrong' \subseteq Wrong
  PROVE  IsQueue(cache') /\ DOMAIN cache'.entries \subseteq Fids /\ FInv'
<1> DEFINE count == FeatureCount(features', gone')
<1>1. DOMAIN features' \subseteq Fids
  BY DEF FullInv, TInv
<1>2. count \in Nat
  BY <1>1, CountIsNatural
<1> HIDE DEF count
<1>3. cache' = OnFeatureAdded(cache, features', fid, count)
  BY DEF Announces, count
<1>4. /\ IsQueue(cache')
      /\ DOMAIN cache'.entries \subseteq DOMAIN cache.entries \cup {fid}
      /\ fullCache => cache'.size > count /\ cache'.size >= cache.size
      /\ fullCache /\ Cardinality(DOMAIN cache.entries \cup {fid}) <= count + 1
           => DOMAIN cache'.entries = DOMAIN cache.entries \cup {fid}
  BY <1>2, <1>3, OnFeatureAddedQueue DEF CInv, FullInv, TInv
<1>5. DOMAIN cache'.entries \subseteq Fids
  BY <1>4 DEF FullInv, TInv
<1>6. ASSUME fullCache, ~excused'
      PROVE  /\ Wrong' = {} /\ Cardinality(DOMAIN features') <= cache'.size
             /\ DOMAIN features' \subseteq DOMAIN cache'.entries \cup readers'[Loader].left
  <2>1. ~excused /\ ~Crowded'
    BY <1>6 DEF Excusing
  <2>2. /\ Wrong = {}
        /\ DOMAIN features \subseteq DOMAIN cache.entries \cup readers[Loader].left
    BY <1>6, <2>1 DEF FullInv, FInv, Idle
  <2>3. Cardinality(DOMAIN features') <= count + 1
    <3>1. Held' = DOMAIN features'
      BY DEF Held
    <3>2. ~(Cardinality(DOMAIN features') > count + 1)
      BY <2>1, <3>1 DEF Crowded, count
    <3> QED
      BY <1>1, <1>2, <3>2, FewerFids
  <2>4. DOMAIN cache.entries \cup {fid} \in SUBSET DOMAIN features'
    BY <2>2, RightOnesExist
  <2>5. Cardinality(DOMAIN cache.entries \cup {fid}) <= count + 1
    BY <1>1, <1>2, <2>3, <2>4, FewerFids
  <2>6. Cardinality(DOMAIN features') <= cache'.size
    <3>1. Cardinality(DOMAIN features') \in Nat /\ cache'.size \in Nat
      BY <1>1, <1>4, FewerFids DEF IsQueue
    <3> QED
      BY <1>2, <1>4, <1>6, <2>3, <3>1
  <2> QED
    BY <1>4, <1>6, <2>2, <2>5, <2>6
<1>7. FInv'
  BY <1>6 DEF FInv
<1> QED
  BY <1>4, <1>5, <1>7

\* A new feature has the next temporary id.
LEMMA AddFeatureFull ==
  ASSUME CInv, FullInv, AddFeature
  PROVE  FullInv'
<1> DEFINE fid == lastTemp - 1
<1>1. PICK content \in Content : features' = With(features, fid, content)
  BY CacheAssumption DEF AddFeature, Content
<1>2. /\ lastTemp \in Int /\ lastTemp <= 0 /\ lastTemp > -MaxNew
      /\ lastTemp' = fid /\ MaxNew \in Nat
  BY CacheAssumption DEF CInv, Shape, AddFeature
<1>3. fid \in Fids
  <2>1. -fid \in 1..MaxNew /\ fid = -(-fid)
    BY <1>2
  <2> QED
    BY <2>1 DEF Fids
<1>4. /\ DOMAIN features' = DOMAIN features \cup {fid}
      /\ \A f \in DOMAIN features' : features'[f] \in Content
  BY <1>1 DEF With, CInv, Shape
<1>5. /\ Idle /\ UNCHANGED <<gone, committing, fullCache, readers>>
      /\ Announces(fid) /\ Excusing(FALSE) /\ ~Committing'
  BY DEF AddFeature, Editing, Idle, Committing
<1> HIDE DEF fid
<1>6. Wrong' \subseteq Wrong
  BY AddFeatureStep
<1>7. IsQueue(cache') /\ DOMAIN cache'.entries \subseteq Fids /\ FInv'
  BY <1>3, <1>4, <1>5, <1>6, AnnouncesStep DEF FullInv, TInv
<1>8. TInv'
  <2>1. lastTemp' >= -MaxNew
    BY <1>2 DEF fid
  <2>2. DOMAIN committing' = {}
    BY <1>5 DEF Committing
  <2> QED
    BY <1>3, <1>4, <1>5, <1>7, <2>1, <2>2 DEF FullInv, TInv, HasRead
<1> QED
  BY <1>5, <1>7, <1>8 DEF FullInv, LoaderReads, AnnouncedOnce, NoReader

\* One that comes back was among those that are gone.
LEMMA BringBackFeatureFull ==
  ASSUME CInv, FullInv, NEW fid, BringBackFeature(fid)
  PROVE  FullInv'
<1>1. /\ fid \in DOMAIN gone /\ fid \in Fids
      /\ DOMAIN features' = DOMAIN features \cup {fid}
      /\ DOMAIN gone' \subseteq DOMAIN gone
      /\ \A f \in DOMAIN features' : features'[f] \in Content
  BY DEF BringBackFeature, ButNot, With, Restrict, CInv, Shape, FullInv, TInv
<1>2. /\ Idle /\ UNCHANGED <<lastTemp, committing, fullCache, readers>>
      /\ Announces(fid) /\ Excusing(FALSE) /\ ~Committing'
  BY DEF BringBackFeature, Editing, Idle, Committing
<1>3. Wrong' \subseteq Wrong
  BY BringBackFeatureStep
<1>4. IsQueue(cache') /\ DOMAIN cache'.entries \subseteq Fids /\ FInv'
  BY <1>1, <1>2, <1>3, AnnouncesStep DEF FullInv, TInv
<1>5. TInv'
  <2>1. DOMAIN committing' = {}
    BY <1>2 DEF Committing
  <2> QED
    BY <1>1, <1>2, <1>4, <2>1 DEF FullInv, TInv, HasRead
<1> QED
  BY <1>2, <1>4, <1>5 DEF FullInv, LoaderReads, AnnouncedOnce, NoReader

\* A deleted feature is no longer one that has to be cached.
LEMMA DeleteFeatureFull ==
  ASSUME CInv, FullInv, NEW fid, DeleteFeature(fid)
  PROVE  FullInv'
<1>1. /\ fid \in DOMAIN features /\ DOMAIN features' = DOMAIN features \ {fid}
      /\ DOMAIN gone' = DOMAIN gone \cup {fid}
      /\ cache' = Removed(cache, fid)
      /\ UNCHANGED <<lastTemp, committing, fullCache, readers>>
      /\ ~Committing /\ ~Committing' /\ Excusing(FALSE)
  BY DEF DeleteFeature, ButNot, With, Restrict, FeatureDeleted, Editing, Idle, Committing
<1>2. /\ IsQueue(cache') /\ cache'.size = cache.size
      /\ DOMAIN cache'.entries = DOMAIN cache.entries \ {fid}
  BY <1>1, RemovedQueue DEF FullInv, TInv
<1>3. Wrong' \subseteq Wrong
  BY DeleteFeatureStep
<1>4. FInv'
  <2> SUFFICES ASSUME fullCache, ~excused'
               PROVE  /\ Wrong' = {} /\ Cardinality(DOMAIN features') <= cache'.size
                      /\ DOMAIN features' \subseteq
                           DOMAIN cache'.entries \cup readers'[Loader].left
    BY <1>1 DEF FInv
  <2>1. /\ Wrong = {} /\ Cardinality(DOMAIN features) <= cache.size
        /\ DOMAIN features \subseteq DOMAIN cache.entries \cup readers[Loader].left
    BY <1>1 DEF Excusing, FullInv, FInv
  <2>2. /\ Cardinality(DOMAIN features') <= Cardinality(DOMAIN features)
        /\ Cardinality(DOMAIN features') \in Nat /\ Cardinality(DOMAIN features) \in Nat
    BY <1>1, FewerFids DEF FullInv, TInv
  <2>3. cache.size \in Nat
    BY DEF FullInv, TInv, IsQueue
  <2> QED
    BY <1>1, <1>2, <1>3, <2>1, <2>2, <2>3
<1>5. TInv'
  <2>1. DOMAIN committing' = {}
    BY <1>1 DEF Committing
  <2> QED
    BY <1>1, <1>2, <2>1 DEF FullInv, TInv, HasRead
<1> QED
  BY <1>1, <1>4, <1>5 DEF FullInv, LoaderReads, AnnouncedOnce, NoReader

\* A step that leaves the ids of the layer alone.
LEMMA QuietStep ==
  ASSUME CInv, FullInv, Idle, UNCHANGED <<gone, lastTemp, committing>>,
         DOMAIN features' = DOMAIN features,
         IsQueue(cache'), DOMAIN cache'.entries \subseteq Fids,
         \A r \in Readers \cup {Loader} : HasRead(readers'[r]), LoaderReads',
         fullCache' /\ ~excused' =>
           /\ Wrong' = {} /\ Cardinality(DOMAIN features) <= cache'.size
           /\ DOMAIN features \subseteq DOMAIN cache'.entries \cup readers'[Loader].left
  PROVE  FullInv'
<1>1. ~Committing' /\ DOMAIN committing' = {}
  BY DEF Idle, Committing
<1>2. TInv'
  BY <1>1 DEF FullInv, TInv
<1> QED
  BY <1>1, <1>2 DEF FullInv, FInv, AnnouncedOnce

\* One that also keeps all that is cached.
LEMMA KeepingStep ==
  ASSUME CInv, FullInv, Idle, UNCHANGED <<gone, lastTemp, committing>>,
         DOMAIN features' = DOMAIN features, UNCHANGED <<fullCache, readers>>,
         IsQueue(cache'), DOMAIN cache'.entries \subseteq Fids,
         ~excused' => ~excused, Wrong' \subseteq Wrong,
         fullCache /\ ~excused' =>
           DOMAIN cache.entries \subseteq DOMAIN cache'.entries /\ cache.size <= cache'.size
  PROVE  FullInv'
<1>1. fullCache' /\ ~excused' =>
        /\ Wrong' = {} /\ Cardinality(DOMAIN features) <= cache'.size
        /\ DOMAIN features \subseteq DOMAIN cache'.entries \cup readers'[Loader].left
  <2> SUFFICES ASSUME fullCache, ~excused'
               PROVE  /\ Wrong' = {} /\ Cardinality(DOMAIN features) <= cache'.size
                      /\ DOMAIN features \subseteq
                           DOMAIN cache'.entries \cup readers[Loader].left
    OBVIOUS
  <2>1. /\ Wrong = {} /\ Cardinality(DOMAIN features) <= cache.size
        /\ DOMAIN features \subseteq DOMAIN cache.entries \cup readers[Loader].left
    BY DEF FullInv, FInv, Idle
  <2>2. Cardinality(DOMAIN features) \in Nat /\ cache.size \in Nat /\ cache'.size \in Nat
    BY FewerFids DEF FullInv, TInv, IsQueue
  <2> QED
    BY <2>1, <2>2
<1> QED
  BY <1>1, QuietStep DEF FullInv, TInv, HasRead, LoaderReads, NoReader

\* A change of one member of a cached entry moves the entry to the end.
LEMMA ChangedQueue ==
  ASSUME NEW c, IsQueue(c), NEW fid, NEW d, IsCache(d),
         d.order = Used(c, fid).order, d.size = Used(c, fid).size,
         DOMAIN d.entries = DOMAIN c.entries
  PROVE  IsQueue(d) /\ d.size = c.size
<1>1. /\ IsQueue(Used(c, fid)) /\ Used(c, fid).size = c.size
      /\ Used(c, fid).entries = c.entries
  BY UsedQueue, UsedLeaves DEF IsQueue
<1> QED
  BY <1>1 DEF IsQueue

\* Changing a value keeps every entry.
LEMMA ChangeAttributeValueFull ==
  ASSUME CInv, FullInv, NEW fid, NEW value \in Values, ChangeAttributeValue(fid, value)
  PROVE  FullInv'
<1>1. CInv' /\ Wrong' \subseteq Wrong
  BY ChangeAttributeValueStep
<1>2. /\ IsQueue(cache') /\ cache'.size = cache.size
      /\ DOMAIN cache'.entries = DOMAIN cache.entries
  <2>1. CASE ~Has(cache, fid)
    BY <2>1 DEF ChangeAttributeValue, ValueChanged, FullInv, TInv
  <2>2. CASE Has(cache, fid)
    <3> DEFINE used == Used(cache, fid)
    <3>1. IsCache(used) /\ used.entries = cache.entries
      BY UsedLeaves DEF CInv, Shape
    <3>2. cache' = [used EXCEPT !.entries =
                      [used.entries EXCEPT ![fid] = [used.entries[fid] EXCEPT !.value = value]]]
      BY <2>2 DEF ChangeAttributeValue, ValueChanged
    <3> DEFINE entries == [used.entries EXCEPT
                             ![fid] = [used.entries[fid] EXCEPT !.value = value]]
    <3>3. DOMAIN entries = DOMAIN cache.entries
      BY <3>1
    <3>4. cache' = [used EXCEPT !.entries = entries]
      BY <3>2
    <3>5. IsCache(cache') /\ IsQueue(cache)
      BY <1>1 DEF CInv, Shape, FullInv, TInv
    <3> HIDE DEF entries, used
    <3>6. /\ cache'.order = used.order /\ cache'.size = used.size
          /\ DOMAIN cache'.entries = DOMAIN cache.entries
      BY <3>1, <3>3, <3>4 DEF IsCache
    <3> QED
      BY <3>5, <3>6, ChangedQueue DEF used
  <2> QED
    BY <2>1, <2>2
<1>3. /\ Idle /\ UNCHANGED <<gone, lastTemp, committing, fullCache, readers, excused>>
      /\ DOMAIN features' = DOMAIN features
  BY DEF ChangeAttributeValue, Editing
<1>4. cache.size <= cache'.size /\ DOMAIN cache'.entries \subseteq Fids
  BY <1>2 DEF FullInv, TInv, IsQueue
<1> QED
  BY <1>1, <1>2, <1>3, <1>4, KeepingStep

\* So does changing a geometry.
LEMMA ChangeGeometryFull ==
  ASSUME CInv, FullInv, NEW fid, NEW geometry \in Values, ChangeGeometry(fid, geometry)
  PROVE  FullInv'
<1>1. CInv' /\ Wrong' \subseteq Wrong
  BY ChangeGeometryStep
<1>2. /\ IsQueue(cache') /\ cache'.size = cache.size
      /\ DOMAIN cache'.entries = DOMAIN cache.entries
  <2>1. CASE ~(config.geometry /\ Has(cache, fid))
    BY <2>1 DEF ChangeGeometry, GeometryChanged, FullInv, TInv
  <2>2. CASE config.geometry /\ Has(cache, fid)
    <3> DEFINE used == Used(cache, fid)
    <3>1. IsCache(used) /\ used.entries = cache.entries
      BY UsedLeaves DEF CInv, Shape
    <3>2. cache' = [used EXCEPT !.entries =
                      [used.entries EXCEPT
                         ![fid] = [used.entries[fid] EXCEPT !.geometry = geometry]]]
      BY <2>2 DEF ChangeGeometry, GeometryChanged
    <3> DEFINE entries == [used.entries EXCEPT
                             ![fid] = [used.entries[fid] EXCEPT !.geometry = geometry]]
    <3>3. DOMAIN entries = DOMAIN cache.entries
      BY <3>1
    <3>4. cache' = [used EXCEPT !.entries = entries]
      BY <3>2
    <3>5. IsCache(cache') /\ IsQueue(cache)
      BY <1>1 DEF CInv, Shape, FullInv, TInv
    <3> HIDE DEF entries, used
    <3>6. /\ cache'.order = used.order /\ cache'.size = used.size
          /\ DOMAIN cache'.entries = DOMAIN cache.entries
      BY <3>1, <3>3, <3>4 DEF IsCache
    <3> QED
      BY <3>5, <3>6, ChangedQueue DEF used
  <2> QED
    BY <2>1, <2>2
<1>3. /\ Idle /\ UNCHANGED <<gone, lastTemp, committing, fullCache, readers, excused>>
      /\ DOMAIN features' = DOMAIN features
  BY DEF ChangeGeometry, Editing
<1>4. cache.size <= cache'.size /\ DOMAIN cache'.entries \subseteq Fids
  BY <1>2 DEF FullInv, TInv, IsQueue
<1> QED
  BY <1>1, <1>2, <1>3, <1>4, KeepingStep

\* When the fields change the cache need not be complete any more.
LEMMA FieldFull ==
  ASSUME CInv, FullInv, AddField \/ DeleteField
  PROVE  FullInv'
<1>1. /\ Idle /\ UNCHANGED <<features, gone, lastTemp, committing, fullCache, readers>>
      /\ cache' = Cleared(cache) /\ excused'
  BY DEF AddField, DeleteField, Editing, UpdatedFields, Excusing
<1>2. IsQueue(cache') /\ DOMAIN cache'.entries = {}
  BY <1>1, ClearedQueue, ClearedLeavesNothing DEF FullInv, TInv, IsQueue
<1> QED
  BY <1>1, <1>2, QuietStep DEF FullInv, TInv, HasRead, LoaderReads, NoReader

\* A commit stores the new features under ids of their own; no loader is reading,
\* so that all features are cached, the new ones under their temporary ids.
LEMMA CommitChangesFull ==
  ASSUME CInv, FullInv, CommitChanges
  PROVE  FullInv'
<1>1. PICK permanent \in [NewFids -> StoredFids \ StoredNow] :
        /\ IsInjective(permanent) /\ committing' = permanent
        /\ DOMAIN features' = DOMAIN features \cup Range(permanent)
  BY DEF CommitChanges
<1>2. /\ UNCHANGED <<lastTemp, cache, fullCache, readers>> /\ DOMAIN gone' = {}
      /\ readers[Loader].kind # "writer" /\ Excusing(FALSE) /\ Idle
  <2>1. Loader \in DOMAIN readers
    BY DEF CInv, Shape
  <2>2. DOMAIN <<>> = {}
    OBVIOUS
  <2> QED
    BY <2>1, <2>2 DEF CommitChanges, EmptyMap, Editing
<1>3. \A fid \in Range(permanent) : fid \in StoredFids /\ fid \notin StoredNow
  BY DEF Range
<1>4. \A fid \in Range(permanent) : fid \in Fids /\ IsStored(fid)
  <2>1. \A fid \in StoredFids : fid \in Nat \ {0}
    BY CacheAssumption
  <2>2. \A fid \in StoredFids : fid > 0
    BY <2>1
  <2> QED
    BY <1>3, <2>2 DEF Fids, IsStored
<1>5. /\ NewFids' = NewFids /\ StoredNow' = StoredNow \cup Range(permanent)
      /\ StoredNow \cap Range(permanent) = {}
      /\ DOMAIN features = StoredNow \cup NewFids
  BY <1>1, <1>3, <1>4 DEF NewFids, StoredNow
<1>6. DOMAIN committing' = NewFids
  BY <1>1
<1>7. TInv'
  BY <1>1, <1>2, <1>4, <1>5, <1>6 DEF FullInv, TInv, HasRead
<1>8. AnnouncedOnce'
  BY <1>1, <1>2, <1>5 DEF AnnouncedOnce
<1>9. FInv'
  <2> SUFFICES ASSUME fullCache, ~excused'
               PROVE  /\ Wrong' = {}
                      /\ ~Committing' =>
                           /\ Cardinality(DOMAIN features') <= cache.size
                           /\ DOMAIN features' \subseteq
                                DOMAIN cache.entries \cup readers[Loader].left
                      /\ Committing' => DOMAIN cache.entries = OnesCommitting'
    BY <1>2 DEF FInv
  <2>1. /\ Wrong = {} /\ Cardinality(DOMAIN features) <= cache.size
        /\ DOMAIN features \subseteq DOMAIN cache.entries \cup readers[Loader].left
    BY <1>2 DEF Excusing, Idle, FullInv, FInv
  <2>2. Wrong' = {}
    BY <2>1, CommitChangesStep
  <2>3. CASE ~Committing'
    <3>1. NewFids = {}
      BY <1>6, <2>3 DEF Committing
    <3>2. Range(permanent) = {}
      BY <3>1 DEF Range
    <3> QED
      BY <1>1, <2>1, <2>2, <2>3, <3>2
  <2>4. CASE Committing'
    <3>1. readers[Loader].left = {}
      BY <1>2 DEF FullInv, LoaderReads, NoReader
    <3>2. DOMAIN cache.entries = DOMAIN features
      BY <2>1, <3>1, RightOnesExist
    <3>3. OnesCommitting' = DOMAIN features
      BY <1>1, <1>5, <1>6 DEF OnesCommitting
    <3> QED
      BY <2>2, <2>4, <3>2, <3>3
  <2> QED
    BY <2>3, <2>4
<1> QED
  BY <1>2, <1>7, <1>8, <1>9 DEF FullInv, LoaderReads, NoReader

\* A set with as many ids as another and some more.
LEMMA ExchangedFids ==
  ASSUME NEW S \in SUBSET Fids, NEW R \in SUBSET S, NEW D \in SUBSET Fids,
         NEW f \in [D -> R], IsInjective(f)
  PROVE  Cardinality((S \ R) \cup D) <= Cardinality(S)
<1>1. /\ IsFiniteSet(S) /\ IsFiniteSet(R) /\ IsFiniteSet(D) /\ IsFiniteSet(S \ R)
      /\ Cardinality(S) \in Nat /\ Cardinality(R) \in Nat /\ Cardinality(D) \in Nat
      /\ Cardinality(S \ R) \in Nat
  BY FewerFids
<1>2. f \in Injection(D, R)
  BY DEF Injection
<1>3. Cardinality(D) <= Cardinality(R)
  BY <1>1, <1>2, FS_Injection
<1>4. Cardinality(S \ R) = Cardinality(S) - Cardinality(R)
  <2>1. S \cap R = R
    OBVIOUS
  <2> QED
    BY <1>1, <2>1, FS_Difference
<1>5. /\ Cardinality((S \ R) \cup D)
           = Cardinality(S \ R) + Cardinality(D) - Cardinality((S \ R) \cap D)
      /\ Cardinality((S \ R) \cap D) \in Nat
  <2>1. (S \ R) \cap D \in SUBSET Fids
    OBVIOUS
  <2> QED
    BY <1>1, <2>1, FS_Union, FewerFids
<1> QED
  BY <1>1, <1>3, <1>4, <1>5

\* The announcement exchanges the temporary id for the permanent one.  There is
\* room for it, since those to come are as many as those under temporary ids.
LEMMA AnnounceCommittedFull ==
  ASSUME CInv, FullInv, NEW temp \in Fids, AnnounceCommitted(temp)
  PROVE  FullInv'
<1> DEFINE new == committing[temp]
           count == FeatureCount(features, gone)
           taken == FeatureDeleted(cache, temp)
           all == Range(committing)
<1>1. /\ UNCHANGED <<gone, lastTemp, fullCache, readers>>
      /\ temp \in DOMAIN committing
      /\ cache' = OnFeatureAdded(taken, features, new, count)
      /\ DOMAIN committing' = DOMAIN committing \ {temp}
      /\ \A t \in DOMAIN committing' : committing'[t] = committing[t]
      /\ DOMAIN features' = IF Committing' THEN DOMAIN features ELSE StoredNow
      /\ Excusing(FALSE)
  BY DEF AnnounceCommitted, ButNot, Restrict
<1>2. /\ Committing /\ DOMAIN gone = {} /\ IsInjective(committing)
      /\ all \subseteq StoredNow /\ DOMAIN committing \subseteq NewFids
      /\ new \in all
  BY <1>1 DEF Committing, FullInv, AnnouncedOnce, TInv, Range
<1>3. /\ Range(committing') = all \ {new} /\ IsInjective(committing')
  <2>1. \A s, t \in DOMAIN committing : committing[s] = committing[t] => s = t
    BY <1>2 DEF IsInjective
  <2>2. IsInjective(committing')
    BY <1>1, <2>1 DEF IsInjective
  <2>3. Range(committing') = all \ {new}
    BY <1>1, <2>1 DEF Range
  <2> QED
    BY <2>2, <2>3
<1>4. /\ StoredNow' = StoredNow /\ StoredNow \subseteq Fids
      /\ NewFids' = IF Committing' THEN NewFids ELSE {}
      /\ StoredNow \cap NewFids = {} /\ DOMAIN features = StoredNow \cup NewFids
  BY <1>1 DEF StoredNow, NewFids, FullInv, TInv
<1>5. count = Cardinality(StoredNow) /\ count \in Nat
  <2>1. {fid \in DOMAIN features \cup DOMAIN gone : IsStored(fid)} = StoredNow
    BY <1>2 DEF StoredNow, NewFids
  <2> QED
    BY <1>4, <2>1, FewerFids DEF FeatureCount
<1>6. /\ IsQueue(taken) /\ DOMAIN taken.entries = DOMAIN cache.entries \ {temp}
      /\ taken.size = cache.size
  BY RemovedQueue DEF FeatureDeleted, FullInv, TInv
<1> HIDE DEF taken, count, all, new
<1>7. /\ IsQueue(cache')
      /\ DOMAIN cache'.entries \subseteq DOMAIN taken.entries \cup {new}
      /\ fullCache => cache'.size > count
      /\ /\ fullCache /\ Cardinality(DOMAIN taken.entries \cup {new}) <= count + 1
         => DOMAIN cache'.entries = DOMAIN taken.entries \cup {new}
  <2>1. new \in DOMAIN features
    BY <1>2 DEF StoredNow
  <2> QED
    BY <1>1, <1>5, <1>6, <2>1, OnFeatureAddedQueue DEF CInv, Shape
<1>8. TInv'
  <2>1. DOMAIN cache'.entries \subseteq Fids
    BY <1>2, <1>4, <1>6, <1>7 DEF FullInv, TInv
  <2>2. DOMAIN committing' \subseteq NewFids'
    BY <1>1, <1>2, <1>4 DEF Committing
  <2> QED
    BY <1>1, <1>4, <1>7, <2>1, <2>2 DEF FullInv, TInv, HasRead
<1>9. AnnouncedOnce'
  BY <1>1, <1>2, <1>3, <1>4 DEF AnnouncedOnce
<1>10. FInv'
  <2> SUFFICES ASSUME fullCache, ~excused'
               PROVE  /\ Wrong' = {}
                      /\ ~Committing' =>
                           /\ Cardinality(DOMAIN features') <= cache'.size
                           /\ DOMAIN features' \subseteq
                                DOMAIN cache'.entries \cup readers'[Loader].left
                      /\ Committing' => DOMAIN cache'.entries = OnesCommitting'
    BY <1>1 DEF FInv
  <2>1. /\ Wrong = {}
        /\ DOMAIN cache.entries = (StoredNow \ all) \cup DOMAIN committing
    BY <1>1, <1>2 DEF Excusing, FullInv, FInv, OnesCommitting, all
  <2>2. Wrong' = {}
    BY <2>1, AnnounceCommittedStep
  <2>3. DOMAIN taken.entries \cup {new}
          = (StoredNow \ Range(committing')) \cup DOMAIN committing'
    BY <1>1, <1>2, <1>3, <1>4, <1>6, <2>1
  <2>4. Cardinality(DOMAIN taken.entries \cup {new}) <= count + 1
    <3>1. committing' \in [DOMAIN committing' -> Range(committing')]
      <4>1. committing' = [t \in DOMAIN committing' |-> committing'[t]]
        BY DEF AnnounceCommitted, ButNot, Restrict
      <4> QED
        BY <4>1 DEF Range
    <3>2. Range(committing') \in SUBSET StoredNow /\ DOMAIN committing' \in SUBSET Fids
      BY <1>1, <1>2, <1>3 DEF FullInv, TInv, NewFids
    <3>3. Cardinality((StoredNow \ Range(committing')) \cup DOMAIN committing') <= count
      BY <1>3, <1>4, <1>5, <3>1, <3>2, ExchangedFids
    <3>4. Cardinality((StoredNow \ Range(committing')) \cup DOMAIN committing') \in Nat
      <4>1. (StoredNow \ Range(committing')) \cup DOMAIN committing' \in SUBSET Fids
        BY <1>4, <3>2
      <4> QED
        BY <4>1, FewerFids
    <3> QED
      BY <1>5, <2>3, <3>3, <3>4
  <2>5. DOMAIN cache'.entries = OnesCommitting'
    BY <1>4, <1>7, <2>3, <2>4 DEF OnesCommitting
  <2>6. ASSUME ~Committing'
        PROVE  /\ Cardinality(DOMAIN features') <= cache'.size
               /\ DOMAIN features' \subseteq DOMAIN cache'.entries
    <3>1. DOMAIN features' = StoredNow /\ DOMAIN committing' = {}
      BY <1>1, <2>6 DEF Committing
    <3>2. Range(committing') = {}
      BY <3>1 DEF Range
    <3>3. Cardinality(StoredNow) <= cache'.size
      BY <1>5, <1>7 DEF IsQueue
    <3> QED
      BY <1>4, <2>5, <3>1, <3>2, <3>3 DEF OnesCommitting
  <2> QED
    BY <2>2, <2>5, <2>6
<1> QED
  BY <1>1, <1>8, <1>9, <1>10 DEF FullInv, LoaderReads, NoReader

\* A step of an iterator, or of a caller who asks for a feature.
LEMMA ReadingStep ==
  ASSUME CInv, FullInv, Idle, UNCHANGED <<features, gone, lastTemp, committing, fullCache>>,
         IsQueue(cache'), DOMAIN cache'.entries \subseteq Fids,
         \A r \in Readers \cup {Loader} : HasRead(readers'[r]), LoaderReads',
         ~excused' => ~excused,
         fullCache /\ ~excused' /\ Wrong = {}
           /\ Cardinality(DOMAIN features) <= cache.size =>
           /\ Wrong' = {} /\ cache.size = cache'.size
           /\ DOMAIN cache.entries \subseteq DOMAIN cache'.entries
           /\ readers[Loader].left \subseteq
                DOMAIN cache'.entries \cup readers'[Loader].left
  PROVE  FullInv'
<1>1. fullCache' /\ ~excused' =>
        /\ Wrong' = {} /\ Cardinality(DOMAIN features) <= cache'.size
        /\ DOMAIN features \subseteq DOMAIN cache'.entries \cup readers'[Loader].left
  <2> SUFFICES ASSUME fullCache, ~excused'
               PROVE  /\ Wrong' = {} /\ Cardinality(DOMAIN features) <= cache'.size
                      /\ DOMAIN features \subseteq
                           DOMAIN cache'.entries \cup readers'[Loader].left
    OBVIOUS
  <2>1. /\ Wrong = {} /\ Cardinality(DOMAIN features) <= cache.size
        /\ DOMAIN features \subseteq DOMAIN cache.entries \cup readers[Loader].left
    BY DEF FullInv, FInv, Idle
  <2>2. /\ Wrong' = {} /\ cache.size = cache'.size
        /\ DOMAIN cache.entries \subseteq DOMAIN cache'.entries
        /\ readers[Loader].left \subseteq
             DOMAIN cache'.entries \cup readers'[Loader].left
    BY <2>1
  <2> QED
    BY <2>1, <2>2
<1> QED
  BY <1>1, QuietStep

\* A feature the layer has fits into a full cache beside all others.
LEMMA FeatureFits ==
  ASSUME FullInv, Wrong = {}, Cardinality(DOMAIN features) <= cache.size,
         NEW fid \in DOMAIN features
  PROVE  Cardinality(DOMAIN cache.entries \cup {fid}) <= cache.size
<1>1. DOMAIN cache.entries \cup {fid} \in SUBSET DOMAIN features
  BY RightOnesExist
<1>2. DOMAIN features \in SUBSET Fids /\ cache.size \in Nat
  BY DEF FullInv, TInv, IsQueue
<1> QED
  BY <1>1, <1>2, FewerFids

\* A feature that is asked for may join the cache.
LEMMA CallFeatureAtIdFull ==
  ASSUME CInv, FullInv, NEW fid \in Fids, NEW skipCache \in BOOLEAN,
         CallFeatureAtId(fid, skipCache)
  PROVE  FullInv'
<1>1. /\ Idle /\ UNCHANGED <<features, gone, lastTemp, committing, fullCache, readers,
                             excused, config, layerVars, cachedAttributes>>
      /\ cache' = FeatureAtId(cache, features, fid, skipCache)
  BY DEF CallFeatureAtId, layerVars
<1>2. /\ IsQueue(cache') /\ cache'.size = cache.size
      /\ DOMAIN cache'.entries \subseteq DOMAIN cache.entries \cup {fid}
      /\ fid \in DOMAIN features
           /\ Cardinality(DOMAIN cache.entries \cup {fid}) <= cache.size
           => DOMAIN cache'.entries = DOMAIN cache.entries \cup {fid}
      /\ fid \notin DOMAIN features => DOMAIN cache'.entries = DOMAIN cache.entries
  <2>1. Shape /\ IsQueue(cache)
    BY DEF CInv, FullInv, TInv
  <2>2. \A f \in DOMAIN features : features[f] \in Content
    BY <2>1 DEF Shape
  <2> DEFINE d == FeatureAtId(cache, features, fid, skipCache)
  <2>3. /\ IsQueue(d) /\ d.size = cache.size
        /\ DOMAIN d.entries \subseteq DOMAIN cache.entries \cup {fid}
        /\ fid \in DOMAIN features
             /\ Cardinality(DOMAIN cache.entries \cup {fid}) <= cache.size
             => DOMAIN d.entries = DOMAIN cache.entries \cup {fid}
        /\ fid \notin DOMAIN features => DOMAIN d.entries = DOMAIN cache.entries
    <3>1. IsQueue(d) /\ d.size = cache.size
      BY <2>1, <2>2, FeatureAtIdQueue, ZenonT(30)
    <3>2. DOMAIN d.entries \subseteq DOMAIN cache.entries \cup {fid}
      BY <2>1, <2>2, FeatureAtIdQueue
    <3>3. fid \in DOMAIN features
            /\ Cardinality(DOMAIN cache.entries \cup {fid}) <= cache.size
            => DOMAIN d.entries = DOMAIN cache.entries \cup {fid}
      BY <2>1, <2>2, FeatureAtIdQueue
    <3>4. fid \notin DOMAIN features => DOMAIN d.entries = DOMAIN cache.entries
      BY <2>1, UsedLeaves DEF FeatureAtId, IsQueue
    <3> QED
      BY <3>1, <3>2, <3>3, <3>4
  <2>4. cache' = d
    BY <1>1
  <2> HIDE DEF d
  <2> QED
    BY <2>3, <2>4
<1>3. DOMAIN cache'.entries \subseteq Fids
  BY <1>2 DEF FullInv, TInv
<1>4. Wrong' \subseteq Wrong
  <2>1. /\ IsCache(cache')
        /\ \/ Within(cache', cache)
           \/ fid \in DOMAIN features /\ Gains(cache', cache, fid, Fetched(features[fid]))
    BY <1>1, FeatureAtIdGains DEF CInv, Shape
  <2> QED
    BY <1>1, <2>1, CallerStep
<1>5. fullCache /\ ~excused' /\ Wrong = {}
        /\ Cardinality(DOMAIN features) <= cache.size
        => DOMAIN cache.entries \subseteq DOMAIN cache'.entries
  BY <1>2, FeatureFits
<1>6. (\A r \in Readers \cup {Loader} : HasRead(readers'[r])) /\ LoaderReads'
  BY <1>1 DEF FullInv, TInv, HasRead, LoaderReads, NoReader
<1> QED
  BY <1>1, <1>2, <1>3, <1>4, <1>5, <1>6, ReadingStep

\* One who takes a feature out, or changes the size, gives up completeness.
LEMMA CallerFull ==
  ASSUME CInv, FullInv,
         \/ \E fid \in Fids : RemoveCachedFeature(fid)
         \/ \E size \in CacheSizes : SetCacheSize(size)
  PROVE  FullInv'
<1>1. /\ Idle /\ UNCHANGED <<features, gone, lastTemp, committing, readers>> /\ excused'
  BY DEF RemoveCachedFeature, SetCacheSize, layerVars, Excusing
<1>2. IsQueue(cache') /\ DOMAIN cache'.entries \subseteq DOMAIN cache.entries
  <2>1. ASSUME NEW fid \in Fids, RemoveCachedFeature(fid)
        PROVE  IsQueue(cache') /\ DOMAIN cache'.entries \subseteq DOMAIN cache.entries
    <3>1. cache' = Removed(cache, fid) /\ IsQueue(cache)
      BY <2>1 DEF RemoveCachedFeature, FullInv, TInv
    <3> QED
      BY <3>1, RemovedQueue
  <2>2. ASSUME NEW size \in CacheSizes, SetCacheSize(size)
        PROVE  IsQueue(cache') /\ DOMAIN cache'.entries \subseteq DOMAIN cache.entries
    <3>1. cache' = Resized(cache, size) /\ IsQueue(cache) /\ size \in Nat
      BY <2>2, CacheAssumption DEF SetCacheSize, FullInv, TInv
    <3> QED
      BY <3>1, ResizedQueue
  <2> QED
    BY <2>1, <2>2
<1> QED
  BY <1>1, <1>2, QuietStep DEF FullInv, TInv, HasRead, LoaderReads, NoReader

\* An iterator that writes has read all it is to deliver.
LEMMA WriterHasRead ==
  ASSUME NEW fids
  PROVE  /\ HasRead(WriterIterator(fids)) /\ HasRead(CachedIterator(fids))
         /\ WriterIterator(fids).kind = "writer" /\ WriterIterator(fids).left = fids
BY DEF HasRead, WriterIterator, CachedIterator

\* Loading makes room for the features there are, and starts with all of them.
LEMMA SetFullCacheFull ==
  ASSUME CInv, FullInv, NEW full \in BOOLEAN, SetFullCache(full)
  PROVE  FullInv'
<1>1. /\ Idle /\ UNCHANGED <<features, gone, lastTemp, committing, config,
                             layerVars, cachedAttributes>>
      /\ fullCache' = full
  BY DEF SetFullCache, layerVars
<1>2. CASE ~full
  <2>1. UNCHANGED <<cache, readers, excused>>
    BY <1>2 DEF SetFullCache
  <2> QED
    BY <1>1, <1>2, <2>1, QuietStep DEF FullInv, TInv, HasRead, LoaderReads, NoReader,
       IsQueue, IsCache, IsOrder
<1>3. CASE full
  <2> DEFINE count == FeatureCount(features, gone)
             reader == WriterIterator(DOMAIN features)
  <2>1. /\ cache' = Resized(cache, count + Slack)
        /\ readers' = [readers EXCEPT ![Loader] = reader]
        /\ excused' = (Wrong # {} \/ Crowded)
    BY <1>3 DEF SetFullCache
  <2>2. count \in Nat /\ count + Slack \in Nat /\ count + Slack >= count + 1
    BY CountIsNatural, CacheAssumption DEF FullInv, TInv
  <2>3. HasRead(reader) /\ reader.kind = "writer" /\ reader.left = DOMAIN features
    BY WriterHasRead
  <2> HIDE DEF reader, count
  <2>4. /\ IsQueue(cache') /\ cache'.size = count + Slack
        /\ DOMAIN cache'.entries \subseteq DOMAIN cache.entries
    BY <2>1, <2>2, ResizedQueue DEF FullInv, TInv
  <2>5. /\ readers'[Loader] = reader
        /\ \A r \in Readers \cup {Loader} : HasRead(readers'[r])
    <3>1. DOMAIN readers = Readers \cup {Loader}
      BY DEF CInv, Shape
    <3> QED
      BY <2>1, <2>3, <3>1 DEF FullInv, TInv
  <2>6. ~excused' => Wrong' = {} /\ Cardinality(DOMAIN features) <= cache'.size
    <3> SUFFICES ASSUME ~excused'
                 PROVE  Wrong' = {} /\ Cardinality(DOMAIN features) <= cache'.size
      OBVIOUS
    <3>1. Wrong = {} /\ ~Crowded
      BY <2>1
    <3>2. Wrong' = {}
      BY <3>1, SetFullCacheStep
    <3>3. Held = DOMAIN features
      BY <1>1 DEF Held, Idle
    <3>4. ~(Cardinality(DOMAIN features) > count + 1)
      BY <3>1, <3>3 DEF Crowded, count
    <3>5. Cardinality(DOMAIN features) \in Nat
      BY FewerFids DEF FullInv, TInv
    <3> QED
      BY <2>2, <2>4, <3>2, <3>4, <3>5
  <2>7. LoaderReads' /\ DOMAIN cache'.entries \subseteq Fids
    BY <2>3, <2>4, <2>5 DEF LoaderReads, FullInv, TInv
  <2> QED
    BY <1>1, <2>3, <2>4, <2>5, <2>6, <2>7, QuietStep
<1> QED
  BY <1>2, <1>3

\* A new iterator of a caller concerns no loader.
LEMMA GetFeaturesFull ==
  ASSUME CInv, FullInv, NEW r \in Readers, NEW byId \in BOOLEAN, NEW fid,
         GetFeatures(r, byId, fid)
  PROVE  FullInv'
<1>1. /\ Idle /\ UNCHANGED <<features, gone, lastTemp, committing, fullCache, cache, excused>>
  BY DEF GetFeatures, layerVars
<1>2. PICK reader : readers' = [readers EXCEPT ![r] = reader] /\ HasRead(reader)
  BY WriterHasRead DEF GetFeatures
<1>3. /\ \A q \in Readers \cup {Loader} : HasRead(readers'[q])
      /\ readers'[Loader] = readers[Loader]
  <2>1. r # Loader /\ DOMAIN readers = Readers \cup {Loader}
    BY CacheAssumption DEF CInv, Shape
  <2> QED
    BY <1>2, <2>1 DEF FullInv, TInv
<1>4. LoaderReads'
  BY <1>3 DEF FullInv, LoaderReads, NoReader
<1>5. Wrong' \subseteq Wrong
  BY GetFeaturesStep
<1>6. IsQueue(cache') /\ DOMAIN cache'.entries \subseteq Fids
  BY <1>1 DEF FullInv, TInv
<1> QED
  BY <1>1, <1>3, <1>4, <1>5, <1>6, ReadingStep

\* The loader that is closed too early leaves the cache incomplete.
LEMMA CloseReaderFull ==
  ASSUME CInv, FullInv, NEW r \in Readers \cup {Loader}, CloseReader(r)
  PROVE  FullInv'
<1>1. /\ Idle /\ UNCHANGED <<features, gone, lastTemp, committing, fullCache, cache>>
      /\ readers' = [readers EXCEPT ![r] = NoReader]
      /\ Excusing(r = Loader /\ readers[r].left # {})
  BY DEF CloseReader, layerVars
<1>2. /\ \A q \in Readers \cup {Loader} : HasRead(readers'[q])
      /\ readers'[Loader] = IF r = Loader THEN NoReader ELSE readers[Loader]
  <2>1. DOMAIN readers = Readers \cup {Loader} /\ HasRead(NoReader)
    BY DEF CInv, Shape, HasRead, NoReader
  <2> QED
    BY <1>1, <2>1 DEF FullInv, TInv
<1>3. LoaderReads'
  BY <1>2 DEF FullInv, LoaderReads, NoReader
<1>4. Wrong' \subseteq Wrong
  BY CloseReaderStep
<1>5. IsQueue(cache') /\ DOMAIN cache'.entries \subseteq Fids
  BY <1>1 DEF FullInv, TInv
<1>6. ~excused' => ~excused /\ readers[Loader].left \subseteq readers'[Loader].left
  BY <1>1, <1>2 DEF Excusing
<1> QED
  BY <1>1, <1>2, <1>3, <1>4, <1>5, <1>6, ReadingStep

\* An iterator that moves on changes in nothing else.
LEMMA Advanced ==
  ASSUME CInv, NEW r \in Readers \cup {Loader}, NEW fid, Advances(r, fid)
  PROVE  /\ readers'[r] = [kind |-> readers[r].kind, left |-> readers[r].left \ {fid},
                           fetched |-> readers[r].fetched]
         /\ readers'[r].kind = readers[r].kind
         /\ readers'[r].left = readers[r].left \ {fid}
         /\ readers'[r].fetched = readers[r].fetched
         /\ \A q \in Readers \cup {Loader} : q # r => readers'[q] = readers[q]
<1>1. IsReader(readers[r]) /\ DOMAIN readers = Readers \cup {Loader}
  BY DEF CInv, Shape
<1> DEFINE reader == [readers[r] EXCEPT !.left = readers[r].left \ {fid}]
<1>2. readers' = [readers EXCEPT ![r] = reader]
  BY Zenon DEF Advances
<1>3. reader = [kind |-> readers[r].kind, left |-> readers[r].left \ {fid},
                fetched |-> readers[r].fetched]
  BY <1>1 DEF IsReader
<1> HIDE DEF reader
<1> QED
  BY <1>1, <1>2, <1>3

\* What has been read is still to be had, and the loader goes on reading.
LEMMA AdvancedHasRead ==
  ASSUME CInv, FullInv, NEW r \in Readers \cup {Loader}, NEW fid, Advances(r, fid)
  PROVE  (\A q \in Readers \cup {Loader} : HasRead(readers'[q])) /\ LoaderReads'
<1>1. /\ readers'[r] = [kind |-> readers[r].kind, left |-> readers[r].left \ {fid},
                        fetched |-> readers[r].fetched]
      /\ readers'[r].kind = readers[r].kind
      /\ readers'[r].left = readers[r].left \ {fid}
      /\ readers'[r].fetched = readers[r].fetched
  BY Advanced
<1>2. \A q \in Readers \cup {Loader} : q # r => readers'[q] = readers[q]
  BY Advanced
<1>3. HasRead(readers[r])
  BY DEF FullInv, TInv
<1>4. HasRead(readers'[r])
  BY <1>1, <1>3 DEF HasRead
<1>5. \A q \in Readers \cup {Loader} : HasRead(readers'[q])
  BY <1>2, <1>4 DEF FullInv, TInv
<1>6. readers[r] = NoReader => readers'[r] = NoReader
  BY <1>1 DEF NoReader
<1>7. readers'[Loader] = NoReader \/ readers'[Loader].kind = "writer"
  BY <1>1, <1>2, <1>6 DEF FullInv, LoaderReads
<1> QED
  BY <1>5, <1>7 DEF LoaderReads, NoReader

\* An iterator that writes what the layer still has drives nothing out; the loader
\* passes a feature when it is cached.
LEMMA FetchAndCacheFull ==
  ASSUME CInv, FullInv, NEW r \in Readers \cup {Loader}, NEW fid \in Fids,
         FetchAndCache(r, fid)
  PROVE  FullInv'
<1> DEFINE entry == readers[r].fetched[fid]
<1>1. /\ Idle /\ UNCHANGED <<features, gone, lastTemp, committing, fullCache>>
      /\ readers[r].kind = "writer" /\ fid \in readers[r].left
      /\ cache' = Inserted(cache, fid, entry)
      /\ Advances(r, fid) /\ Excusing(Stale(r, fid))
  BY DEF FetchAndCache, layerVars
<1>2. entry \in Entry
  BY <1>1 DEF CInv, Shape, IsReader
<1> HIDE DEF entry
<1>3. /\ IsQueue(cache') /\ cache'.size = cache.size
      /\ DOMAIN cache'.entries \subseteq DOMAIN cache.entries \cup {fid}
      /\ Cardinality(DOMAIN cache.entries \cup {fid}) <= cache.size
           => DOMAIN cache'.entries = DOMAIN cache.entries \cup {fid}
  BY <1>1, <1>2, InsertedQueue, ZenonT(30) DEF FullInv, TInv
<1>4. DOMAIN cache'.entries \subseteq Fids
  BY <1>3 DEF FullInv, TInv
<1>5. (\A q \in Readers \cup {Loader} : HasRead(readers'[q])) /\ LoaderReads'
  BY <1>1, AdvancedHasRead
<1>6. ~excused' => ~excused /\ ~Stale(r, fid)
  BY <1>1 DEF Excusing
<1>7. ASSUME ~excused' PROVE Wrong' \subseteq Wrong
  <2> SUFFICES ASSUME NEW f \in Wrong', f \notin Wrong PROVE FALSE
    OBVIOUS
  <2>1. WrittenLate(f)
    BY FetchAndCacheStep
  <2>2. PICK q \in Readers \cup {Loader} :
          f \in readers[q].left \ readers'[q].left /\ Stale(q, f)
    BY <2>1 DEF WrittenLate
  <2>3. /\ readers'[r].left = readers[r].left \ {fid}
        /\ q # r => readers'[q] = readers[q]
    BY <1>1, Advanced
  <2>4. q = r /\ f = fid
    BY <2>2, <2>3
  <2> QED
    BY <1>6, <1>7, <2>2, <2>4
<1>8. ASSUME ~excused', Wrong = {}, Cardinality(DOMAIN features) <= cache.size
      PROVE  /\ DOMAIN cache'.entries = DOMAIN cache.entries \cup {fid}
             /\ readers[Loader].left \subseteq {fid} \cup readers'[Loader].left
  <2>1. fid \in DOMAIN features
    BY <1>6, <1>8 DEF Stale
  <2>2. Cardinality(DOMAIN cache.entries \cup {fid}) <= cache.size
    BY <1>8, <2>1, FeatureFits
  <2>3. readers[Loader].left \subseteq {fid} \cup readers'[Loader].left
    <3>1. CASE r = Loader
      <4>1. readers'[r].left = readers[r].left \ {fid}
        BY <1>1, Advanced
      <4> QED
        BY <3>1, <4>1
    <3>2. CASE r # Loader
      <4>1. readers'[Loader] = readers[Loader]
        BY <1>1, <3>2, Advanced
      <4> QED
        BY <4>1
    <3> QED
      BY <3>1, <3>2
  <2> QED
    BY <1>3, <2>2, <2>3
<1> QED
  BY <1>1, <1>3, <1>4, <1>5, <1>6, <1>7, <1>8, ReadingStep

\* An iterator over the cache changes the order of use at most.
LEMMA FetchCachedFull ==
  ASSUME CInv, FullInv, NEW r \in Readers \cup {Loader}, NEW fid, FetchCached(r, fid)
  PROVE  FullInv'
<1>1. /\ Idle /\ UNCHANGED <<features, gone, lastTemp, committing, fullCache, excused>>
      /\ readers[r].kind = "cached" /\ Advances(r, fid)
      /\ cache' = Used(cache, fid) \/ UNCHANGED cache
  BY DEF FetchCached, layerVars
<1>2. /\ IsQueue(cache') /\ cache'.size = cache.size
      /\ cache'.entries = cache.entries
  <2>1. IsQueue(cache) /\ IsCache(cache)
    BY DEF FullInv, TInv, IsQueue
  <2>2. CASE cache' = Used(cache, fid)
    BY <2>1, <2>2, UsedQueue, UsedLeaves
  <2> QED
    BY <1>1, <2>1, <2>2
<1>3. Wrong' \subseteq Wrong
  BY FetchCachedStep
<1>4. (\A q \in Readers \cup {Loader} : HasRead(readers'[q])) /\ LoaderReads'
  BY <1>1, AdvancedHasRead
<1>5. readers'[Loader] = readers[Loader]
  <2>1. r # Loader
    BY <1>1 DEF FullInv, LoaderReads, NoReader
  <2> QED
    BY <1>1, <2>1, Advanced
<1>6. DOMAIN cache'.entries \subseteq Fids
  BY <1>2 DEF FullInv, TInv
<1> QED
  BY <1>1, <1>2, <1>3, <1>4, <1>5, <1>6, ReadingStep

(***************************************************************************)
(* The theorems.                                                           *)
(***************************************************************************)

\* At first the cache is empty, and not a full one.
LEMMA InitFullInv == Init => FullInv
<1> SUFFICES ASSUME Init PROVE FullInv
  OBVIOUS
<1>1. DOMAIN <<>> = {} /\ \A a, b \in {} : a = b
  OBVIOUS
<1>2. PICK size \in CacheSizes :
        cache = [entries |-> EmptyMap, order |-> <<>>, size |-> size]
  BY DEF Init
<1>3. IsQueue(cache)
  <2>1. size \in Nat
    BY CacheAssumption
  <2>2. IsOrder(<<>>, {}) /\ Len(<<>>) = 0
    BY DEF IsOrder, IsInjective, Range
  <2>3. /\ DOMAIN cache.entries = {} /\ cache.order = <<>> /\ cache.size = size
        /\ cache = [entries |-> cache.entries, order |-> cache.order, size |-> cache.size]
    BY <1>1, <1>2 DEF EmptyMap
  <2> QED
    BY <2>1, <2>2, <2>3 DEF IsQueue, IsCache
<1>4. TInv
  <2>1. DOMAIN cache.entries = {} /\ DOMAIN gone = {} /\ DOMAIN committing = {}
    BY <1>1, <1>2 DEF Init, EmptyMap
  <2>2. DOMAIN features \subseteq Fids
    BY CacheAssumption DEF Init, Fids
  <2>3. \A r \in Readers \cup {Loader} : HasRead(readers[r])
    BY DEF Init, HasRead, NoReader
  <2>4. lastTemp >= -MaxNew
    BY CacheAssumption DEF Init
  <2> QED
    BY <1>3, <2>1, <2>2, <2>3, <2>4 DEF TInv
<1> QED
  BY <1>1, <1>4 DEF Init, FullInv, LoaderReads, AnnouncedOnce, Committing, FInv, EmptyMap

\* Every step keeps the invariant.
LEMMA NextKeepsFullInv ==
  ASSUME CInv, FullInv, [Next]_vars
  PROVE  FullInv'
<1>1. CASE AddFeature \/ AddField \/ DeleteField \/ CommitChanges
  BY <1>1, AddFeatureFull, FieldFull, CommitChangesFull
<1>2. ASSUME NEW fid \in Fids,
             DeleteFeature(fid) \/ BringBackFeature(fid) \/ AnnounceCommitted(fid)
      PROVE  FullInv'
  BY <1>2, DeleteFeatureFull, BringBackFeatureFull, AnnounceCommittedFull
<1>3. ASSUME NEW fid \in Fids, NEW v \in Values,
             ChangeAttributeValue(fid, v) \/ ChangeGeometry(fid, v)
      PROVE  FullInv'
  BY <1>3, ChangeAttributeValueFull, ChangeGeometryFull
<1>4. ASSUME NEW fid \in Fids, NEW skipCache \in BOOLEAN,
             CallFeatureAtId(fid, skipCache)
      PROVE  FullInv'
  BY <1>4, CallFeatureAtIdFull
<1>5. ASSUME \/ \E fid \in Fids : RemoveCachedFeature(fid)
             \/ \E size \in CacheSizes : SetCacheSize(size)
      PROVE  FullInv'
  BY <1>5, CallerFull
<1>6. ASSUME NEW full \in BOOLEAN, SetFullCache(full) PROVE FullInv'
  BY <1>6, SetFullCacheFull
<1>7. ASSUME NEW r \in Readers, NEW byId \in BOOLEAN, NEW fid \in Fids,
             GetFeatures(r, byId, fid)
      PROVE  FullInv'
  BY <1>7, GetFeaturesFull
<1>8. ASSUME NEW r \in Readers \cup {Loader}, NEW fid \in Fids,
             FetchAndCache(r, fid) \/ FetchCached(r, fid)
      PROVE  FullInv'
  BY <1>8, FetchAndCacheFull, FetchCachedFull
<1>9. ASSUME NEW r \in Readers \cup {Loader}, CloseReader(r) PROVE FullInv'
  BY <1>9, CloseReaderFull
<1>10. CASE UNCHANGED vars
  <2>1. /\ UNCHANGED <<config, width, features, gone, lastTemp, committing, cache,
                       cachedAttributes, fullCache, readers, excused>>
    BY <1>10 DEF vars
  <2>2. Wrong' = Wrong
    BY <2>1 DEF Wrong, Right, Fetched
  <2>3. TInv'
    BY <2>1 DEF FullInv, TInv, NewFids, HasRead
  <2>4. LoaderReads' /\ AnnouncedOnce'
    BY <2>1 DEF FullInv, LoaderReads, NoReader, AnnouncedOnce, Committing, StoredNow, NewFids
  <2>5. FInv'
    BY <2>1, <2>2 DEF FullInv, FInv, Committing, OnesCommitting, StoredNow, NewFids
  <2> QED
    BY <2>3, <2>4, <2>5 DEF FullInv
<1> QED
  BY <1>1, <1>2, <1>3, <1>4, <1>5, <1>6, <1>7, <1>8, <1>9, <1>10 DEF Next

\* The invariant holds in every state.
THEOREM FullInvariant == Spec => []FullInv
<1>1. CInv /\ FullInv /\ [Next]_vars => FullInv'
  BY NextKeepsFullInv
<1> QED
  BY CacheInvariant, InitFullInv, <1>1, PTL DEF Spec

\* Whatever callers, iterators and edits do, the cache keeps to its size and has
\* in its order each id of an entry once; iterators deliver only what they read.
THEOREM Typing == Spec => []TypeOK
<1>1. CInv /\ FullInv => TypeOK
  <2> SUFFICES ASSUME CInv, FullInv PROVE TypeOK
    OBVIOUS
  <2>1. /\ DOMAIN features \subseteq Fids /\ DOMAIN gone \subseteq Fids
        /\ DOMAIN features \cap DOMAIN gone = {}
        /\ \A fid \in DOMAIN features : features[fid] \in Content
        /\ \A fid \in DOMAIN gone : gone[fid] \in Content
        /\ DOMAIN committing \subseteq NewFids
    BY DEF CInv, Shape, FullInv, TInv
  <2>2. /\ Len(cache.order) <= cache.size /\ IsInjective(cache.order)
        /\ Range(cache.order) = DOMAIN cache.entries
        /\ DOMAIN cache.entries \subseteq Fids
        /\ \A fid \in DOMAIN cache.entries : cache.entries[fid] \in Entry
    BY DEF FullInv, TInv, IsQueue, IsOrder, IsCache
  <2>3. \A r \in Readers \cup {Loader} :
          readers[r].kind = "writer" => readers[r].left \subseteq DOMAIN readers[r].fetched
    BY DEF FullInv, TInv, HasRead
  <2> QED
    BY <2>1, <2>2, <2>3 DEF TypeOK
<1> QED
  BY CacheInvariant, FullInvariant, <1>1, PTL

\* A full cache that was loaded to the end holds every feature of the layer, for
\* any number of features, edits, undo steps and commits, unless the fields change,
\* somebody takes features out of it, an iterator writes what it read before a
\* change, or more than one new feature is not stored.
THEOREM FullCacheStaysComplete == Spec => []FullCacheComplete
<1>1. FullInv => FullCacheComplete
  <2> SUFFICES ASSUME FullInv, fullCache, ~Loading, ~Committing, ~excused
               PROVE  DOMAIN features \subseteq DOMAIN cache.entries
    BY DEF FullCacheComplete
  <2>1. DOMAIN features \subseteq DOMAIN cache.entries \cup readers[Loader].left
    BY DEF FullInv, FInv
  <2>2. readers[Loader].left = {}
    BY DEF Loading, NoReader
  <2> QED
    BY <2>1, <2>2
<1> QED
  BY FullInvariant, <1>1, PTL
=============================================================================
