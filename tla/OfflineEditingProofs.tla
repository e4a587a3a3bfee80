------------------------ MODULE OfflineEditingProofs ------------------------
(***************************************************************************)
(* Proofs about OfflineEditing for any layers, values and bounds: the log  *)
(* accounts for the rows of an offline layer, and names added features in  *)
(* the order of their ids.                                                 *)
(***************************************************************************)
EXTENDS OfflineEditing, FiniteSetTheorems, WellFoundedInduction, TLAPS

-----------------------------------------------------------------------------
(* Rowids.                                                                 *)

Rowids(S) == S \subseteq Nat \ {0} /\ \E b \in Nat : \A k \in S : k <= b

\* Sets of rowids are finite.
LEMMA RowidsFinite ==
    ASSUME NEW S, Rowids(S), NEW T, T \subseteq S
    PROVE  IsFiniteSet(T) /\ Cardinality(T) \in Nat
<1>1. PICK b \in Nat : \A k \in S : k <= b
  BY DEF Rowids
<1>2. T \in SUBSET Nat /\ \A k \in T : k <= b
  BY <1>1 DEF Rowids
<1>3. IsFiniteSet(T)
  BY <1>2, FS_BoundedSetOfNaturals
<1> QED BY <1>3, FS_CardinalityType

\* A set of rowids that is not empty has a greatest one.
LEMMA GreatestRowid ==
    ASSUME NEW S, Rowids(S)
    PROVE  \E m \in {0} \cup S : \A k \in S : k <= m
<1> DEFINE Above == {b \in Nat : \A k \in S : k <= b}
<1>1. Above \subseteq Nat /\ Above # {}
  BY DEF Rowids
<1>2. PICK b \in Above : \A c \in Above : ~(<<c, b>> \in OpToRel(<, Nat))
  <2> HIDE DEF Above
  <2> QED BY <1>1, NatLessThanWellFounded, WFMin
<1>3. \A c \in Above : ~(c < b)
  BY <1>2 DEF OpToRel
<1>0. b \in Nat /\ \A k \in S : k <= b
  OBVIOUS
<1>4. CASE b = 0
  BY <1>4, <1>0
<1>5. CASE b # 0
  <2>1. b - 1 \in Nat /\ b - 1 < b /\ b \in Nat
    BY <1>5, <1>0
  <2>2. b - 1 \notin Above
    BY <2>1, <1>3
  <2>3. PICK k \in S : ~(k <= b - 1)
    BY <2>1, <2>2
  <2>4. k = b
    BY <2>3, <2>1, <1>0 DEF Rowids
  <2> QED BY <2>4, <1>0
<1> QED BY <1>4, <1>5

\* A new row gets an id above all that are in use.
LEMMA NextRowidIsAbove ==
    ASSUME NEW t, Rowids(DOMAIN t)
    PROVE  /\ NextRowid(t) \in Nat \ {0}
           /\ \A k \in DOMAIN t : k < NextRowid(t)
<1> DEFINE m == CHOOSE m \in {0} \cup DOMAIN t : \A k \in DOMAIN t : k <= m
<1>1. m \in {0} \cup DOMAIN t /\ \A k \in DOMAIN t : k <= m
  BY GreatestRowid
<1>2. NextRowid(t) = 1 + m
  BY DEF NextRowid
<1>3. m \in Nat /\ \A k \in DOMAIN t : k \in Nat
  BY <1>1 DEF Rowids
<1> HIDE DEF m
<1> QED BY <1>1, <1>2, <1>3

\* Rows are inserted above those that are there, which stay as they are.
LEMMA Inserted ==
    ASSUME NEW t, Rowids(DOMAIN t), NEW n \in Nat, NEW rows, Len(rows) = n
    PROVE  LET next == NextRowid(t) IN
           /\ DOMAIN InsertAll(t, rows) = DOMAIN t \cup next..(next + n - 1)
           /\ \A k \in DOMAIN t : InsertAll(t, rows)[k] = t[k]
           /\ \A k \in next..(next + n - 1) : k \notin DOMAIN t
           /\ Rowids(DOMAIN InsertAll(t, rows))
<1> DEFINE next == NextRowid(t)
<1>1. next \in Nat \ {0} /\ \A k \in DOMAIN t : k < next
  BY NextRowidIsAbove
<1>2. InsertAll(t, rows) = [k \in DOMAIN t \cup next..(next + n - 1) |->
          IF k \in DOMAIN t THEN t[k] ELSE rows[k - next + 1]]
  BY DEF InsertAll
<1>3. DOMAIN t \subseteq Nat \ {0}
  BY DEF Rowids
<1> HIDE DEF next
<1>4. \A k \in next..(next + n - 1) : k \notin DOMAIN t /\ k \in Nat \ {0}
  BY <1>1, <1>3
<1>5. \A k \in DOMAIN t \cup next..(next + n - 1) : k <= next + n
  BY <1>1, <1>3
<1>6. Rowids(DOMAIN t \cup next..(next + n - 1))
  BY <1>1, <1>3, <1>4, <1>5 DEF Rowids
<1> QED BY <1>2, <1>4, <1>6 DEF next

\* The length of a sequence put in ascending order.
LEMMA AscendingLength ==
    ASSUME NEW S, Rowids(S)
    PROVE  Len(Ascending(S)) \in Nat /\ Len(Ascending(S)) = Cardinality(S)
BY RowidsFinite DEF Ascending

\* An interval in ascending order.
LEMMA AscendingInterval ==
    ASSUME NEW a \in Nat, NEW n \in Nat
    PROVE  /\ Len(Ascending(a..(a + n - 1))) = n
           /\ \A i \in 1..n : Ascending(a..(a + n - 1))[i] = a + i - 1
<1> DEFINE S == a..(a + n - 1)
<1>1. Cardinality(S) = n
  BY FS_Interval
<1>2. ASSUME NEW i \in 1..n
      PROVE  (CHOOSE x \in S : Cardinality({y \in S : y < x}) = i - 1) = a + i - 1
  <2>1. \A x \in S : Cardinality({y \in S : y < x}) = x - a
    <3> TAKE x \in S
    <3>1. {y \in S : y < x} = a..(x - 1)
      OBVIOUS
    <3>2. a \in Int /\ x - 1 \in Int /\ x >= a
      OBVIOUS
    <3>3. Cardinality(a..(x - 1)) = IF a > x - 1 THEN 0 ELSE (x - 1) - a + 1
      BY <3>2, FS_Interval
    <3>4. Cardinality(a..(x - 1)) = x - a
      BY <3>2, <3>3
    <3> QED BY <3>1, <3>4
  <2>2. a + i - 1 \in S
    OBVIOUS
  <2>3. \A x \in S : x - a = i - 1 <=> x = a + i - 1
    OBVIOUS
  <2> HIDE DEF S
  <2> QED BY <2>1, <2>2, <2>3
<1> HIDE DEF S
<1>3. Ascending(S) = [i \in 1..n |->
          CHOOSE x \in S : Cardinality({y \in S : y < x}) = i - 1]
  BY <1>1 DEF Ascending
<1>4. Len(Ascending(S)) = n
  BY <1>3
<1>5. \A i \in 1..n : Ascending(S)[i] = a + i - 1
  BY <1>2, <1>3 DEF S
<1> QED BY <1>4, <1>5 DEF S

\* Reading the newest rowids after an insertion gives those of the new rows.
LEMMA NewestAreInserted ==
    ASSUME NEW t, Rowids(DOMAIN t), NEW n \in Nat, NEW rows, Len(rows) = n
    PROVE  LET ids == NewestRowids(InsertAll(t, rows), n)
           IN  Len(ids) = n /\ \A i \in 1..n : ids[i] = NextRowid(t) + i - 1
<1> DEFINE next == NextRowid(t)
           new  == next..(next + n - 1)
           D    == DOMAIN InsertAll(t, rows)
<1>1. next \in Nat \ {0} /\ \A k \in DOMAIN t : k < next
  BY NextRowidIsAbove
<1>2. D = DOMAIN t \cup new /\ Rowids(D)
  BY Inserted
<1>3. DOMAIN t \subseteq Nat \ {0}
  BY DEF Rowids
<1> HIDE DEF next, D
<1>4. ASSUME NEW k \in new
      PROVE  Cardinality({m \in D : m > k}) < n
  <2>1. {m \in D : m > k} = (k + 1)..(next + n - 1)
    BY <1>1, <1>2, <1>3
  <2>2. k + 1 \in Int /\ next + n - 1 \in Int /\ k >= next /\ k <= next + n - 1
    BY <1>1
  <2>3. Cardinality((k + 1)..(next + n - 1))
            = IF k + 1 > next + n - 1 THEN 0 ELSE (next + n - 1) - (k + 1) + 1
    BY <2>2, FS_Interval
  <2>4. Cardinality((k + 1)..(next + n - 1)) < n
    BY <1>1, <2>2, <2>3
  <2> QED BY <2>1, <2>4
<1>5. ASSUME NEW k \in DOMAIN t
      PROVE  ~(Cardinality({m \in D : m > k}) < n)
  <2> DEFINE later == {m \in D : m > k}
  <2>1. new \subseteq later
    BY <1>1, <1>2, <1>3
  <2>2. IsFiniteSet(later) /\ Cardinality(later) \in Nat
    BY <1>2, RowidsFinite
  <2>3. Cardinality(new) = n
    BY <1>1, FS_Interval
  <2> HIDE DEF later
  <2>4. Cardinality(new) <= Cardinality(later)
    BY <2>1, <2>2, FS_Subset
  <2> QED BY <2>2, <2>3, <2>4 DEF later
<1>6. {k \in D : Cardinality({m \in D : m > k}) < n} = new
  BY <1>2, <1>4, <1>5
<1>7. NewestRowids(InsertAll(t, rows), n) = Ascending(new)
  BY <1>6 DEF NewestRowids, D
<1>8. /\ Len(Ascending(new)) = n
      /\ \A i \in 1..n : Ascending(new)[i] = next + i - 1
  BY <1>1, AscendingInterval
<1> QED BY <1>7, <1>8 DEF next

-----------------------------------------------------------------------------
(* One commit: t is the rows of the layer, its log and the commit number.  *)

LogTables == {"added", "removed", "fields", "values", "geoms", "fids"}
LogShaped(g) == g = [x \in LogTables |-> g[x]]

Shaped(t) ==
    /\ t = [x \in {"fields", "rows", "log", "commitNo"} |-> t[x]]
    /\ LogShaped(t.log)

Good(t) ==
    Shaped(t) /\ Rowids(DOMAIN t.rows) /\ Rowids(DOMAIN t.log.added)

InOrder(t) ==
    /\ RowsIn(t.log.added) \subseteq DOMAIN t.rows
    /\ \A i, j \in DOMAIN t.log.added :
           i < j => t.log.added[i] < t.log.added[j]

CopiedRows(g) == {g.fids[k].offline : k \in DOMAIN g.fids}

Accounted(t) ==
    LET kept == CopiedRows(t.log) \ t.log.removed
        added == RowsIn(t.log.added)
    IN  DOMAIN t.rows = kept \cup added /\ added \cap kept = {}

\* What a stage keeps that neither adds nor deletes rows.
SameRows(t, u) ==
    /\ Shaped(u)
    /\ DOMAIN u.rows = DOMAIN t.rows
    /\ u.log.added = t.log.added
    /\ u.log.removed = t.log.removed
    /\ u.log.fids = t.log.fids

\* What a stage does to the invariant: rowids stay positive and bounded, and if
\* the slot finds its database, order and account are kept.
Preserves(t, u, logging) ==
    /\ Good(t) => Good(u)
    /\ logging /\ Good(t) /\ InOrder(t) => InOrder(u)
    /\ logging /\ Good(t) /\ Accounted(t) => Accounted(u)

\* A stage that keeps the rows keeps the invariant.
LEMMA SameRowsPreserves ==
    ASSUME NEW t, NEW u, SameRows(t, u), NEW logging
    PROVE  Preserves(t, u, logging)
BY DEF SameRows, Preserves, Good, InOrder, Accounted, CopiedRows, RowsIn

\* Stages that keep the invariant do so one after the other.
LEMMA PreservesBoth ==
    ASSUME NEW t, NEW u, NEW v, NEW logging,
           Preserves(t, u, logging), Preserves(u, v, logging)
    PROVE  Preserves(t, v, logging)
BY DEF Preserves

\* New fields change no id.
LEMMA FieldsKeepRows ==
    ASSUME NEW t, Shaped(t), NEW n, NEW logging \in BOOLEAN
    PROVE  SameRows(t, CommitFields(t, n, logging))
<1> DEFINE w == AddFields(t, n)
<1>1. SameRows(t, t)
  BY DEF SameRows
<1>2. SameRows(t, w)
  BY DEF SameRows, Shaped, AddFields
<1>3. SameRows(w, CommittedAttributesAdded(w, n))
  <2> HIDE DEF w
  <2>1. Shaped(w)
    BY <1>2 DEF SameRows
  <2> QED BY <2>1 DEF SameRows, Shaped, LogShaped, LogTables, CommittedAttributesAdded
<1> HIDE DEF w
<1>4. SameRows(t, CommittedAttributesAdded(w, n))
  BY <1>2, <1>3 DEF SameRows
<1> QED BY <1>1, <1>2, <1>4 DEF CommitFields, Stage, w

\* Changed values change no id.
LEMMA ValuesKeepRows ==
    ASSUME NEW t, Shaped(t), NEW values, NEW logging \in BOOLEAN
    PROVE  SameRows(t, CommitValues(t, values, logging))
<1> DEFINE w == ChangeValues(t, values)
<1>1. SameRows(t, t)
  BY DEF SameRows
<1>2. SameRows(t, w)
  BY DEF SameRows, Shaped, ChangeValues
<1>3. SameRows(w, CommittedAttributeValuesChanges(w, values))
  <2> HIDE DEF w
  <2>1. Shaped(w)
    BY <1>2 DEF SameRows
  <2>2. PICK rows : CommittedAttributeValuesChanges(w, values) =
            [w EXCEPT !.log.values = rows, !.commitNo = @ + 1]
    BY Zenon DEF CommittedAttributeValuesChanges
  <2> QED BY <2>1, <2>2 DEF SameRows, Shaped, LogShaped, LogTables
<1> HIDE DEF w
<1>4. SameRows(t, CommittedAttributeValuesChanges(w, values))
  BY <1>2, <1>3 DEF SameRows
<1> QED BY <1>1, <1>2, <1>4 DEF CommitValues, Stage, w

\* Changed geometries change no id.
LEMMA GeometriesKeepRows ==
    ASSUME NEW t, Shaped(t), NEW geoms, NEW logging \in BOOLEAN
    PROVE  SameRows(t, CommitGeometries(t, geoms, logging))
<1> DEFINE w == ChangeGeometries(t, geoms)
<1>1. SameRows(t, t)
  BY DEF SameRows
<1>2. SameRows(t, w)
  BY DEF SameRows, Shaped, ChangeGeometries
<1>3. SameRows(w, CommittedGeometriesChanges(w, geoms))
  <2> HIDE DEF w
  <2>1. Shaped(w)
    BY <1>2 DEF SameRows
  <2>2. PICK rows : CommittedGeometriesChanges(w, geoms) =
            [w EXCEPT !.log.geoms = rows, !.commitNo = @ + 1]
    BY Zenon DEF CommittedGeometriesChanges
  <2> QED BY <2>1, <2>2 DEF SameRows, Shaped, LogShaped, LogTables
<1> HIDE DEF w
<1>4. SameRows(t, CommittedGeometriesChanges(w, geoms))
  BY <1>2, <1>3 DEF SameRows
<1> QED BY <1>1, <1>2, <1>4 DEF CommitGeometries, Stage, w

\* Deleted rows leave the account: an added one its row of the log, one that
\* was copied is logged as removed.
LEMMA DeletionsPreserve ==
    ASSUME NEW t, NEW fids, NEW logging \in BOOLEAN
    PROVE  Preserves(t, CommitDeletions(t, fids, logging), logging)
<1> DEFINE w == DeleteRows(t, fids)
           gone == {k \in fids : IsAddedFeature(t.log, k)}
           u == CommittedFeaturesRemoved(w, fids)
<1>1. CASE fids = {}
  <2>1. CommitDeletions(t, fids, logging) = t
    BY <1>1 DEF CommitDeletions, Stage
  <2> QED BY <2>1 DEF Preserves
<1>2. CASE fids # {} /\ ~logging
  <2>1. CommitDeletions(t, fids, logging) = w
    BY <1>2 DEF CommitDeletions, Stage
  <2>2. ASSUME Good(t) PROVE Good(w)
    <3>1. Shaped(w) /\ w.log = t.log /\ w.rows = Without(t.rows, fids)
      BY <2>2 DEF Good, Shaped, DeleteRows
    <3>2. DOMAIN w.rows \subseteq DOMAIN t.rows
      BY <3>1 DEF Without
    <3> QED BY <2>2, <3>1, <3>2 DEF Good, Rowids
  <2> QED BY <1>2, <2>1, <2>2 DEF Preserves
<1>3. CASE fids # {} /\ logging
  <2>1. CommitDeletions(t, fids, logging) = u
    BY <1>3 DEF CommitDeletions, Stage
  <2> SUFFICES ASSUME Good(t)
               PROVE  /\ Good(u)
                      /\ InOrder(t) => InOrder(u)
                      /\ Accounted(t) => Accounted(u)
    BY <2>1 DEF Preserves
  <2>2. Shaped(w) /\ w.log = t.log /\ w.rows = Without(t.rows, fids)
    BY DEF Good, Shaped, DeleteRows
  <2>3. /\ Shaped(u)
        /\ u.rows = Without(t.rows, fids)
        /\ u.log.fids = t.log.fids
        /\ u.log.removed = t.log.removed \cup (fids \ gone)
        /\ u.log.added = Without(t.log.added,
               {k \in DOMAIN t.log.added : t.log.added[k] \in gone})
    <3> HIDE DEF w
    <3>1. u = [w EXCEPT
            !.log.added = Without(@, {k \in DOMAIN @ : @[k] \in gone}),
            !.log.removed = @ \cup (fids \ gone)]
      BY <2>2 DEF CommittedFeaturesRemoved
    <3> HIDE DEF u, gone
    <3> QED BY <2>2, <3>1 DEF Shaped, LogShaped, LogTables
  <2>4. /\ DOMAIN u.rows = DOMAIN t.rows \ fids
        /\ DOMAIN u.log.added =
               {k \in DOMAIN t.log.added : t.log.added[k] \notin gone}
        /\ \A k \in DOMAIN u.log.added : u.log.added[k] = t.log.added[k]
    <3> HIDE DEF u, gone
    <3> QED BY <2>3 DEF Without
  <2>5. gone = fids \cap RowsIn(t.log.added)
    BY DEF IsAddedFeature
  <2> HIDE DEF u, gone
  <2>6. RowsIn(u.log.added) = RowsIn(t.log.added) \ fids
    BY <2>4, <2>5 DEF RowsIn
  <2>7. Good(u)
    BY <2>3, <2>4 DEF Good, Rowids
  <2>8. InOrder(t) => InOrder(u)
    BY <2>4, <2>6 DEF InOrder
  <2>9. Accounted(t) => Accounted(u)
    BY <2>3, <2>4, <2>5, <2>6 DEF Accounted, CopiedRows
  <2> QED BY <2>7, <2>8, <2>9
<1> QED BY <1>1, <1>2, <1>3

\* Added rows get ids above all others, and these are what the slot reads back
\* and appends to the log, in the same order.
LEMMA AdditionsPreserve ==
    ASSUME NEW t, NEW rows, Len(rows) \in Nat, NEW logging \in BOOLEAN
    PROVE  Preserves(t, CommitAdditions(t, rows, logging), logging)
<1> DEFINE w == AddRows(t, rows)
           n == Len(rows)
           u == CommittedFeaturesAdded(w, n)
<1>1. CASE rows = <<>>
  <2>1. CommitAdditions(t, rows, logging) = t
    BY <1>1 DEF CommitAdditions, Stage
  <2> QED BY <2>1 DEF Preserves
<1>2. ASSUME Good(t)
      PROVE  /\ Shaped(w) /\ w.log = t.log
             /\ w.rows = InsertAll(t.rows, rows)
  BY <1>2 DEF Good, Shaped, AddRows
<1>3. CASE rows # <<>> /\ ~logging
  <2>1. CommitAdditions(t, rows, logging) = w
    BY <1>3 DEF CommitAdditions, Stage
  <2>2. ASSUME Good(t) PROVE Good(w)
    <3>1. Rowids(DOMAIN InsertAll(t.rows, rows))
      BY <2>2, Inserted DEF Good
    <3> QED BY <1>2, <2>2, <3>1 DEF Good
  <2> QED BY <1>3, <2>1, <2>2 DEF Preserves
<1>4. CASE rows # <<>> /\ logging
  <2>1. CommitAdditions(t, rows, logging) = u
    BY <1>4 DEF CommitAdditions, Stage
  <2> SUFFICES ASSUME Good(t)
               PROVE  /\ Good(u)
                      /\ InOrder(t) => InOrder(u)
                      /\ Accounted(t) => Accounted(u)
    BY <2>1 DEF Preserves
  <2> DEFINE next == NextRowid(t.rows)
             nextKey == NextRowid(t.log.added)
             ids == NewestRowids(InsertAll(t.rows, rows), n)
  <2>2. Len(ids) = n /\ \A i \in 1..n : ids[i] = next + i - 1
    BY NewestAreInserted DEF Good
  <2>3. /\ Shaped(u)
        /\ u.rows = InsertAll(t.rows, rows)
        /\ u.log.fids = t.log.fids
        /\ u.log.removed = t.log.removed
        /\ u.log.added = InsertAll(t.log.added, ids)
    <3> HIDE DEF w
    <3>1. u = [w EXCEPT !.log.added = InsertAll(@, ids)]
      BY <1>2 DEF CommittedFeaturesAdded
    <3> HIDE DEF u, ids
    <3> QED BY <1>2, <3>1 DEF Shaped, LogShaped, LogTables
  <2> HIDE DEF ids, w, u
  <2>4. /\ DOMAIN InsertAll(t.rows, rows) = DOMAIN t.rows \cup next..(next + n - 1)
        /\ Rowids(DOMAIN InsertAll(t.rows, rows))
        /\ next \in Nat /\ \A k \in DOMAIN t.rows : k < next
    BY Inserted, NextRowidIsAbove DEF Good
  <2>5. /\ DOMAIN InsertAll(t.log.added, ids)
               = DOMAIN t.log.added \cup nextKey..(nextKey + n - 1)
        /\ \A k \in DOMAIN t.log.added :
               InsertAll(t.log.added, ids)[k] = t.log.added[k]
        /\ \A k \in nextKey..(nextKey + n - 1) :
               /\ k \notin DOMAIN t.log.added
               /\ InsertAll(t.log.added, ids)[k] = ids[k - nextKey + 1]
        /\ Rowids(DOMAIN InsertAll(t.log.added, ids))
        /\ nextKey \in Nat /\ \A k \in DOMAIN t.log.added : k < nextKey
    <3>1. Rowids(DOMAIN t.log.added) /\ n \in Nat /\ Len(ids) = n
      BY <2>2 DEF Good
    <3> HIDE DEF n
    <3>2. nextKey \in Nat /\ \A k \in DOMAIN t.log.added : k < nextKey
      BY <3>1, NextRowidIsAbove
    <3>3. DOMAIN InsertAll(t.log.added, ids)
              = DOMAIN t.log.added \cup nextKey..(nextKey + n - 1)
      BY <3>1, Inserted
    <3>4. \A k \in DOMAIN t.log.added :
              InsertAll(t.log.added, ids)[k] = t.log.added[k]
      BY <3>1, <3>3 DEF InsertAll
    <3>5. Rowids(DOMAIN InsertAll(t.log.added, ids))
      BY <3>1, Inserted
    <3>6. ASSUME NEW k \in nextKey..(nextKey + n - 1)
          PROVE  k \notin DOMAIN t.log.added
      BY <3>1, Inserted
    <3>7. ASSUME NEW k \in nextKey..(nextKey + n - 1)
          PROVE  InsertAll(t.log.added, ids)[k] = ids[k - nextKey + 1]
      BY <3>1, <3>3, <3>6 DEF InsertAll
    <3> QED BY <3>2, <3>3, <3>4, <3>5, <3>6, <3>7
  <2> HIDE DEF next, nextKey, n
  <2>0. n \in Nat
    BY DEF n
  <2>6. \A k \in nextKey..(nextKey + n - 1) :
            InsertAll(t.log.added, ids)[k] = next + (k - nextKey)
    <3> TAKE k \in nextKey..(nextKey + n - 1)
    <3>1. k - nextKey + 1 \in 1..n
      BY <2>0, <2>5
    <3>2. ids[k - nextKey + 1] = next + (k - nextKey + 1) - 1
      BY <2>2, <3>1
    <3> QED BY <2>4, <2>5, <3>1, <3>2
  <2>7. RowsIn(InsertAll(t.log.added, ids))
            = RowsIn(t.log.added) \cup next..(next + n - 1)
    <3>1. \A k \in nextKey..(nextKey + n - 1) :
              next + (k - nextKey) \in next..(next + n - 1)
      BY <2>0, <2>4, <2>5
    <3>2. \A x \in next..(next + n - 1) :
              /\ nextKey + (x - next) \in nextKey..(nextKey + n - 1)
              /\ next + ((nextKey + (x - next)) - nextKey) = x
      BY <2>0, <2>4, <2>5
    <3>3. \A x \in next..(next + n - 1) :
              \E k \in nextKey..(nextKey + n - 1) :
                  InsertAll(t.log.added, ids)[k] = x
      BY <2>6, <3>2
    <3>4. \A k \in nextKey..(nextKey + n - 1) :
              InsertAll(t.log.added, ids)[k] \in next..(next + n - 1)
      BY <2>6, <3>1
    <3> QED BY <2>5, <3>3, <3>4 DEF RowsIn
  <2>8. Good(u)
    BY <2>3, <2>4, <2>5 DEF Good
  <2>9. InOrder(t) => InOrder(u)
    <3> SUFFICES ASSUME InOrder(t),
                        NEW i \in DOMAIN u.log.added,
                        NEW j \in DOMAIN u.log.added, i < j
                 PROVE  u.log.added[i] < u.log.added[j]
      BY <2>3, <2>4, <2>7 DEF InOrder
    <3>1. CASE j \in DOMAIN t.log.added
      <4>1. i \in DOMAIN t.log.added
        BY <2>0, <2>3, <2>5, <3>1 DEF Good, Rowids
      <4> QED BY <2>3, <2>5, <3>1, <4>1 DEF InOrder
    <3>2. CASE j \notin DOMAIN t.log.added /\ i \in DOMAIN t.log.added
      <4>1. u.log.added[j] >= next
        BY <2>0, <2>3, <2>4, <2>5, <2>6, <3>2
      <4>2. u.log.added[i] \in DOMAIN t.rows
        BY <2>3, <2>5, <3>2 DEF InOrder, RowsIn
      <4>3. u.log.added[i] \in Nat /\ u.log.added[j] \in Nat
        <5>1. j \in nextKey..(nextKey + n - 1)
          BY <2>3, <2>5, <3>2
        <5> QED BY <2>0, <2>3, <2>4, <2>5, <2>6, <4>2, <5>1, SMTT(20) DEF Good, Rowids
      <4> QED BY <2>4, <4>1, <4>2, <4>3
    <3>3. CASE j \notin DOMAIN t.log.added /\ i \notin DOMAIN t.log.added
      <4>1. /\ i \in nextKey..(nextKey + n - 1)
            /\ j \in nextKey..(nextKey + n - 1)
        BY <2>3, <2>5, <3>3
      <4>2. /\ u.log.added[i] = next + (i - nextKey)
            /\ u.log.added[j] = next + (j - nextKey)
        BY <2>3, <2>6, <4>1
      <4> QED BY <2>0, <2>4, <2>5, <4>1, <4>2
    <3> QED BY <3>1, <3>2, <3>3
  <2>10. Accounted(t) => Accounted(u)
    <3>1. \A x \in next..(next + n - 1) : x \notin DOMAIN t.rows
      BY <2>0, <2>4 DEF Good, Rowids
    <3> QED BY <2>3, <2>4, <2>7, <3>1 DEF Accounted, CopiedRows
  <2> QED BY <2>8, <2>9, <2>10
<1> QED BY <1>1, <1>3, <1>4

\* A commit keeps the invariant of the layer's table and log.
LEMMA CommittedPreserves ==
    ASSUME NEW t, Good(t), NEW s, Len(s.added) \in Nat,
           NEW logging \in BOOLEAN
    PROVE  /\ Good(Committed(t, s, logging))
           /\ logging /\ InOrder(t) => InOrder(Committed(t, s, logging))
           /\ logging /\ Accounted(t) => Accounted(Committed(t, s, logging))
<1> DEFINE t1 == CommitFields(t, s.newFields, logging)
           t2 == CommitValues(t1, s.values, logging)
           t3 == CommitDeletions(t2, s.deleted, logging)
           t4 == CommitAdditions(t3, s.added, logging)
           t5 == CommitGeometries(t4, Without(s.geoms, s.deleted), logging)
<1>1. Committed(t, s, logging) = t5
  BY DEF Committed
<1>2. Preserves(t, t1, logging)
  BY FieldsKeepRows, SameRowsPreserves DEF Good
<1>3. Good(t1)
  BY <1>2 DEF Preserves
<1> HIDE DEF t1
<1>4. Preserves(t1, t2, logging)
  BY <1>3, ValuesKeepRows, SameRowsPreserves DEF Good
<1> HIDE DEF t2
<1>5. Preserves(t2, t3, logging)
  BY DeletionsPreserve
<1> HIDE DEF t3
<1>6. Preserves(t3, t4, logging)
  BY AdditionsPreserve
<1>7. Preserves(t, t4, logging)
  BY <1>2, <1>4, <1>5, <1>6, PreservesBoth
<1>8. Good(t4)
  BY <1>7 DEF Preserves
<1> HIDE DEF t4
<1>9. Preserves(t4, t5, logging)
  BY <1>8, GeometriesKeepRows, SameRowsPreserves DEF Good
<1> HIDE DEF t5
<1>10. Preserves(t, t5, logging)
  BY <1>7, <1>9, PreservesBoth
<1> QED BY <1>1, <1>10 DEF Preserves

-----------------------------------------------------------------------------
(* All layers.                                                             *)

\* An offline layer as a commit sees it.
Stored(t, g, c) ==
    [fields |-> t.fields, rows |-> t.rows, log |-> g, commitNo |-> c]

Offline(l) == Stored(table[l], log[l], commitNo)

ServerShape ==
    /\ server = [l \in Layers |-> server[l]]
    /\ \A l \in Layers :
        /\ server[l] = [x \in {"fields", "nextFid", "rows"} |-> server[l][x]]
        /\ server[l].nextFid \in Nat
        /\ IsFiniteSet(DOMAIN server[l].rows)

OfflineShape ==
    /\ table = [l \in Layers |-> table[l]]
    /\ log = [l \in Layers |-> log[l]]
    /\ \A l \in Layers : Good(Offline(l))
    /\ project.entry \in BOOLEAN
    /\ saved.entry \in BOOLEAN

\* The inductive invariant.
IInv ==
    /\ ServerShape
    /\ OfflineShape
    /\ \A l \in Layers \ unlogged : InOrder(Offline(l))
    /\ \A l \in Layers \ (unlogged \cup delivered) : Accounted(Offline(l))

\* The commit number is no part of what the invariant says of a layer.
LEMMA AnyCommitNumber ==
    ASSUME NEW t, NEW g, NEW c, NEW d
    PROVE  /\ Good(Stored(t, g, c)) <=> Good(Stored(t, g, d))
           /\ InOrder(Stored(t, g, c)) <=> InOrder(Stored(t, g, d))
           /\ Accounted(Stored(t, g, c)) <=> Accounted(Stored(t, g, d))
<1>1. Shaped(Stored(t, g, c)) <=> LogShaped(g)
  BY DEF Shaped, Stored
<1>2. Shaped(Stored(t, g, d)) <=> LogShaped(g)
  BY DEF Shaped, Stored
<1> QED BY <1>1, <1>2 DEF Good, InOrder, Accounted, Stored

\* A log with no added rows is in order.
LEMMA ClearedGood ==
    ASSUME NEW t, Rowids(DOMAIN t.rows), NEW fids, NEW c
    PROVE  LET g == [EmptyLog EXCEPT !.fids = fids]
           IN  /\ g.added = EmptyTable /\ g.removed = {} /\ g.fids = fids
               /\ Good(Stored(t, g, c)) /\ InOrder(Stored(t, g, c))
<1> DEFINE g == [EmptyLog EXCEPT !.fids = fids]
           u == Stored(t, g, c)
<1>1. /\ g.added = EmptyTable /\ g.removed = {} /\ g.fids = fids
      /\ LogShaped(g)
  BY DEF EmptyLog, LogShaped, LogTables
<1>2. DOMAIN EmptyTable = {}
  BY DEF EmptyTable
<1>3. Rowids({})
  BY DEF Rowids
<1> HIDE DEF g
<1>4. Shaped(u) /\ u.rows = t.rows /\ u.log = g
  BY <1>1 DEF Shaped, Stored
<1> HIDE DEF u
<1>5. Good(u) /\ InOrder(u)
  BY <1>1, <1>2, <1>3, <1>4 DEF Good, InOrder, RowsIn
<1> QED BY <1>1, <1>5 DEF g, u

\* The empty table and log of a layer that is not offline.
LEMMA NothingStored ==
    ASSUME NEW c
    PROVE  /\ Good(Stored(NoRows, EmptyLog, c))
           /\ InOrder(Stored(NoRows, EmptyLog, c))
           /\ Accounted(Stored(NoRows, EmptyLog, c))
<1>1. EmptyLog = [EmptyLog EXCEPT !.fids = EmptyTable]
  BY DEF EmptyLog
<1>2. DOMAIN EmptyTable = {} /\ NoRows.rows = EmptyTable
  BY DEF EmptyTable, NoRows
<1>3. Rowids(DOMAIN NoRows.rows)
  BY <1>2 DEF Rowids
<1>4. /\ Good(Stored(NoRows, EmptyLog, c))
      /\ InOrder(Stored(NoRows, EmptyLog, c))
      /\ EmptyLog.added = EmptyTable /\ EmptyLog.removed = {}
      /\ EmptyLog.fids = EmptyTable
  BY <1>1, <1>3, ClearedGood
<1> QED BY <1>2, <1>4 DEF Accounted, CopiedRows, RowsIn, Stored

\* The invariant holds at first.
LEMMA InitIInv == Init => IInv
<1> SUFFICES ASSUME Init PROVE IInv
  OBVIOUS
<1>1. ServerShape
  <2>1. IsFiniteSet(1..StoredRows)
    BY OfflineAssumption, FS_Interval
  <2> QED BY <2>1, OfflineAssumption DEF Init, ServerShape
<1>2. \A l \in Layers : Offline(l) = Stored(NoRows, EmptyLog, commitNo)
  BY DEF Init, Offline
<1>3. OfflineShape
  BY <1>2, NothingStored DEF Init, OfflineShape, NothingOffline
<1> QED BY <1>1, <1>2, <1>3, NothingStored DEF IInv

\* The copy of a layer has the rows that the lookup pairs.
LEMMA CopyAccounted ==
    ASSUME NEW S, IsFiniteSet(S), NEW rows, NEW order \in Orders(S),
           NEW fields, NEW c
    PROVE  LET copy == CopyOf(rows, order)
               t == [fields |-> fields, rows |-> copy.rows]
               u == Stored(t, [EmptyLog EXCEPT !.fids = copy.fids], c)
           IN  Good(u) /\ InOrder(u) /\ Accounted(u)
<1> DEFINE copy == CopyOf(rows, order)
           t == [fields |-> fields, rows |-> copy.rows]
           g == [EmptyLog EXCEPT !.fids = copy.fids]
           u == Stored(t, g, c)
           n == Len(order)
           read == [i \in 1..n |-> rows[order[i]]]
           pairs == PairsInOrder([i \in 1..n |-> i],
                                 [i \in 1..n |-> order[n + 1 - i]])
<1>1. n \in Nat
  <2>1. Cardinality(S) \in Nat
    BY FS_CardinalityType
  <2>2. order \in [1..Cardinality(S) -> S]
    BY DEF Orders
  <2> QED BY <2>1, <2>2
<1>2. copy.rows = InsertAll(EmptyTable, read) /\ copy.fids = InsertAll(EmptyTable, pairs)
  BY DEF CopyOf
<1> HIDE DEF n
<1>3. DOMAIN pairs = 1..n /\ Len(pairs) = n /\ \A i \in 1..n : pairs[i].offline = i
  BY <1>1 DEF PairsInOrder
<1>4. Len(read) = n
  BY <1>1
<1>5. DOMAIN EmptyTable = {}
  BY DEF EmptyTable
<1>6. Rowids(DOMAIN EmptyTable)
  BY <1>5 DEF Rowids
<1>7. NextRowid(EmptyTable) = 1
  BY <1>5 DEF NextRowid
<1> HIDE DEF copy, read, pairs
<1>8. DOMAIN copy.rows = 1..n /\ Rowids(DOMAIN copy.rows)
  <2>1. /\ DOMAIN InsertAll(EmptyTable, read) = {} \cup 1..(1 + n - 1)
        /\ Rowids(DOMAIN InsertAll(EmptyTable, read))
    BY <1>1, <1>4, <1>5, <1>6, <1>7, Inserted, ZenonT(30)
  <2> QED BY <1>1, <1>2, <2>1
<1>9. copy.fids = [k \in 1..n |-> pairs[k]]
  <2>1. InsertAll(EmptyTable, pairs) = [k \in {} \cup 1..(1 + n - 1) |->
            IF k \in {} THEN EmptyTable[k] ELSE pairs[k - 1 + 1]]
    BY <1>3, <1>5, <1>7 DEF InsertAll
  <2> QED BY <1>1, <1>2, <2>1
<1>10. t.rows = copy.rows
  OBVIOUS
<1> HIDE DEF t
<1>11. /\ Good(u) /\ InOrder(u)
       /\ g.added = EmptyTable /\ g.removed = {} /\ g.fids = copy.fids
  BY <1>8, <1>10, ClearedGood
<1>12. u.rows = copy.rows /\ u.log = g
  BY <1>10 DEF Stored
<1> HIDE DEF g, u
<1>13. CopiedRows(g) = 1..n
  BY <1>3, <1>9, <1>11 DEF CopiedRows
<1>14. RowsIn(g.added) = {}
  BY <1>5, <1>11 DEF RowsIn
<1>15. Accounted(u)
  BY <1>8, <1>11, <1>12, <1>13, <1>14 DEF Accounted
<1> QED BY <1>11, <1>15 DEF u, g, t, copy

\* Taking layers offline keeps the invariant.
LEMMA ConvertPreserves == IInv /\ ConvertToOfflineProject => IInv'
<1> SUFFICES ASSUME IInv, ConvertToOfflineProject PROVE IInv'
  OBVIOUS
<1>1. PICK taken \in SUBSET Layers \ {{}} :
      \E copies \in [taken -> UNION {Orders(DOMAIN server[l].rows) : l \in taken}] :
          LET CopyOfLayer(l) == CopyOf(server[l].rows, copies[l])
          IN  /\ \A l \in taken : copies[l] \in Orders(DOMAIN server[l].rows)
              /\ table' = [l \in Layers |->
                    IF l \in taken THEN [fields |-> server[l].fields,
                                         rows |-> CopyOfLayer(l).rows]
                    ELSE NoRows]
              /\ log' = [l \in Layers |->
                    IF l \in taken
                    THEN [EmptyLog EXCEPT !.fids = CopyOfLayer(l).fids]
                    ELSE EmptyLog]
              /\ commitNo' = 0
              /\ project' = [layers |-> taken, entry |-> TRUE]
  BY DEF ConvertToOfflineProject
<1>2. PICK copies :
          /\ \A l \in taken : copies[l] \in Orders(DOMAIN server[l].rows)
          /\ table' = [l \in Layers |->
                IF l \in taken THEN [fields |-> server[l].fields,
                                     rows |-> CopyOf(server[l].rows, copies[l]).rows]
                ELSE NoRows]
          /\ log' = [l \in Layers |->
                IF l \in taken
                THEN [EmptyLog EXCEPT !.fids = CopyOf(server[l].rows, copies[l]).fids]
                ELSE EmptyLog]
          /\ commitNo' = 0
          /\ project' = [layers |-> taken, entry |-> TRUE]
  BY <1>1
<1>3. UNCHANGED <<server, saved, delivered, unlogged>>
  BY DEF ConvertToOfflineProject
<1>4. ASSUME NEW l \in Layers
      PROVE  Good(Offline(l)') /\ InOrder(Offline(l)') /\ Accounted(Offline(l)')
  <2>1. CASE l \in taken
    <3> DEFINE copy == CopyOf(server[l].rows, copies[l])
    <3>1. Offline(l)' = Stored([fields |-> server[l].fields, rows |-> copy.rows],
                               [EmptyLog EXCEPT !.fids = copy.fids], 0)
      BY <1>2, <2>1 DEF Offline
    <3>2. IsFiniteSet(DOMAIN server[l].rows)
      BY DEF IInv, ServerShape
    <3>3. copies[l] \in Orders(DOMAIN server[l].rows)
      BY <1>2, <2>1
    <3> QED BY <3>1, <3>2, <3>3, CopyAccounted
  <2>2. CASE l \notin taken
    <3>1. Offline(l)' = Stored(NoRows, EmptyLog, 0)
      BY <1>2, <2>2 DEF Offline
    <3> QED BY <3>1, NothingStored
  <2> QED BY <2>1, <2>2
<1>5. ServerShape'
  BY <1>3 DEF IInv, ServerShape
<1>6. OfflineShape'
  BY <1>2, <1>3, <1>4 DEF IInv, OfflineShape
<1> QED BY <1>4, <1>5, <1>6 DEF IInv

\* A commit of one offline layer keeps the invariant.
LEMMA CommitPreserves ==
    ASSUME NEW l \in Layers, IInv, CommitOffline(l)
    PROVE  IInv'
<1> DEFINE before == [fields |-> table[l].fields, rows |-> table[l].rows,
                      log |-> log[l], commitNo |-> commitNo]
<1>1. PICK s : \E n \in Nat :
          LET after == Committed(before, s, IsLogging(l))
          IN  /\ Len(s.added) = n
              /\ table' = [table EXCEPT ![l] =
                              [fields |-> after.fields, rows |-> after.rows]]
              /\ log' = [log EXCEPT ![l] = after.log]
              /\ commitNo' = after.commitNo
  <2> DEFINE Session(newFields, values, geoms, deleted, added) ==
               [newFields |-> newFields, values |-> values,
                deleted |-> deleted, geoms |-> geoms,
                added |-> [i \in 1..added |->
                             Feature(nextName + i - 1,
                                     table[l].fields + newFields)]]
             Stores(s) ==
               LET after == Committed(before, s, IsLogging(l))
               IN  /\ table' = [table EXCEPT ![l] =
                                   [fields |-> after.fields, rows |-> after.rows]]
                   /\ log' = [log EXCEPT ![l] = after.log]
                   /\ commitNo' = after.commitNo
  <2>1. \E newFields, values, geoms, deleted : \E added \in 0..MaxAdded :
            Stores(Session(newFields, values, geoms, deleted, added))
    <3> DEFINE Done(newFields, values, geoms, deleted, added) ==
                   LET fields == table[l].fields + newFields
                       after == Committed(before,
                         [newFields |-> newFields, values |-> values,
                          deleted |-> deleted, geoms |-> geoms,
                          added |-> [i \in 1..added |->
                                       Feature(nextName + i - 1, fields)]],
                         IsLogging(l))
                   IN  /\ after # before
                       /\ table' = [table EXCEPT ![l] =
                             [fields |-> after.fields, rows |-> after.rows]]
                       /\ log' = [log EXCEPT ![l] = after.log]
                       /\ commitNo' = after.commitNo
                       /\ nextName' = nextName + added
    <3>1. \E newFields \in 0..(IF table[l].fields < MaxFields THEN 1 ELSE 0) :
          \E edited \in {E \in SUBSET DOMAIN table[l].rows :
                            Cardinality(E) <= MaxEdited} :
          \E values \in PartialFunctions(edited,
                 [field : 1..(table[l].fields + newFields),
                  value : Values \cup {Null}]),
             geoms \in PartialFunctions(edited, Geometries),
             deleted \in SUBSET edited,
             added \in 0..MaxAdded :
              Done(newFields, values, geoms, deleted, added)
      BY Zenon DEF CommitOffline
    <3> HIDE DEF Done
    <3>2. PICK newFields, edited :
          \E values \in PartialFunctions(edited,
                 [field : 1..(table[l].fields + newFields),
                  value : Values \cup {Null}]),
             geoms \in PartialFunctions(edited, Geometries),
             deleted \in SUBSET edited,
             added \in 0..MaxAdded :
              Done(newFields, values, geoms, deleted, added)
      BY <3>1
    <3>3. PICK values, geoms, deleted, added :
              /\ added \in 0..MaxAdded
              /\ Done(newFields, values, geoms, deleted, added)
      BY <3>2
    <3>4. Stores(Session(newFields, values, geoms, deleted, added))
      BY <3>3, Zenon DEF Done
    <3> HIDE DEF Session, Stores
    <3> QED BY <3>3, <3>4
  <2>2. PICK newFields, values, geoms, deleted :
            \E added \in 0..MaxAdded :
                Stores(Session(newFields, values, geoms, deleted, added))
    BY <2>1
  <2>3. PICK added \in 0..MaxAdded :
            Stores(Session(newFields, values, geoms, deleted, added))
    BY <2>2
  <2> DEFINE all == Session(newFields, values, geoms, deleted, added)
  <2>4. added \in Nat
    BY OfflineAssumption
  <2>5. Len(all.added) = added
    BY <2>4
  <2> HIDE DEF Session
  <2> WITNESS all
  <2> WITNESS added \in Nat
  <2> QED BY <2>3, <2>5
<1> DEFINE after == Committed(before, s, IsLogging(l))
<1>2. /\ UNCHANGED <<server, project, saved, delivered>>
      /\ unlogged' = IF IsLogging(l) THEN unlogged ELSE unlogged \cup {l}
  BY DEF CommitOffline
<1>3. before = Offline(l) /\ Good(before)
  BY DEF IInv, OfflineShape, Offline, Stored
<1>4. IsLogging(l) \in BOOLEAN
  BY DEF IInv, OfflineShape, IsLogging
<1>5. Len(s.added) \in Nat
  BY <1>1
<1>6. /\ table' = [table EXCEPT ![l] =
                      [fields |-> after.fields, rows |-> after.rows]]
      /\ log' = [log EXCEPT ![l] = after.log]
      /\ commitNo' = after.commitNo
  BY <1>1
<1>7. /\ Good(after)
      /\ IsLogging(l) /\ InOrder(before) => InOrder(after)
      /\ IsLogging(l) /\ Accounted(before) => Accounted(after)
  <2> HIDE DEF before
  <2> QED BY <1>3, <1>4, <1>5, CommittedPreserves
<1> HIDE DEF after, before
<1>8. Offline(l)' = after
  <2>1. after = [x \in {"fields", "rows", "log", "commitNo"} |-> after[x]]
    BY <1>7 DEF Good, Shaped
  <2>2. table'[l] = [fields |-> after.fields, rows |-> after.rows]
    BY <1>6 DEF IInv, OfflineShape
  <2>3. log'[l] = after.log
    BY <1>6 DEF IInv, OfflineShape
  <2> QED BY <1>6, <2>1, <2>2, <2>3 DEF Offline, Stored
<1>9. ASSUME NEW m \in Layers, m # l
      PROVE  /\ Good(Offline(m)')
             /\ InOrder(Offline(m)) => InOrder(Offline(m)')
             /\ Accounted(Offline(m)) => Accounted(Offline(m)')
  <2>1. table'[m] = table[m] /\ log'[m] = log[m]
    BY <1>6, <1>9 DEF IInv, OfflineShape
  <2>2. Good(Offline(m))
    BY DEF IInv, OfflineShape
  <2> QED BY <2>1, <2>2, AnyCommitNumber DEF Offline
<1>10. OfflineShape'
  BY <1>2, <1>6, <1>7, <1>8, <1>9 DEF IInv, OfflineShape
<1>11. ServerShape'
  BY <1>2 DEF IInv, ServerShape
<1>12. ASSUME NEW m \in Layers \ unlogged' PROVE InOrder(Offline(m)')
  BY <1>2, <1>3, <1>4, <1>7, <1>8, <1>9, <1>12 DEF IInv
<1>13. ASSUME NEW m \in Layers \ (unlogged' \cup delivered')
       PROVE  Accounted(Offline(m)')
  BY <1>2, <1>3, <1>4, <1>7, <1>8, <1>9, <1>13 DEF IInv
<1> QED BY <1>10, <1>11, <1>12, <1>13 DEF IInv

\* Synchronising a layer keeps the invariant: its log is empty afterwards.
LEMMA SynchronizedPreserves ==
    ASSUME NEW l \in Layers, l = Head(syncing), IInv, LayerSynchronized
    PROVE  IInv'
<1> DEFINE new == RowsToAdd(l)
           next == server[l].nextFid
           kept == DOMAIN server[l].rows \ RemovedOnServer(l)
           fids == LookupUpdated(log[l], DOMAIN Replayed(l).rows)
<1>1. /\ server' = [server EXCEPT ![l] = Replayed(l)]
      /\ log' = [log EXCEPT ![l] = ClearedLog(log[l], fids)]
      /\ commitNo' = 0
      /\ project'.entry = FALSE
      /\ delivered' = delivered \cup {l}
      /\ UNCHANGED <<table, saved, unlogged>>
  BY DEF LayerSynchronized, LayerDone
<1>2. Len(new) \in Nat
  <2> DEFINE keys == {k \in DOMAIN log[l].added :
                         log[l].added[k] \in DOMAIN table[l].rows}
  <2>1. Rowids(DOMAIN log[l].added)
    BY DEF IInv, OfflineShape, Good, Offline, Stored
  <2>2. Rowids(keys)
    BY <2>1 DEF Rowids
  <2> HIDE DEF keys
  <2>3. /\ DOMAIN Ascending(keys) = 1..Cardinality(keys)
        /\ Cardinality(keys) \in Nat
    <3>1. Cardinality(keys) \in Nat
      BY <2>2, RowidsFinite
    <3>2. DOMAIN Ascending(keys) = 1..Cardinality(keys)
      BY DEF Ascending
    <3> QED BY <3>1, <3>2
  <2>4. DOMAIN new = DOMAIN Ascending(keys)
    BY DEF RowsToAdd, keys
  <2>5. DOMAIN new = 1..Cardinality(keys) /\ \E x : new = [i \in DOMAIN new |-> x[i]]
    <3>1. new = [i \in DOMAIN new |-> new[i]]
      BY DEF RowsToAdd
    <3> QED BY <2>3, <2>4, <3>1
  <2> HIDE DEF new
  <2> QED BY <2>3, <2>5
<1>3. /\ next \in Nat
      /\ IsFiniteSet(kept)
  BY FS_Subset DEF IInv, ServerShape
<1>4. IsFiniteSet(kept \cup next..(next + Len(new) - 1))
  <2>1. next \in Int /\ next + Len(new) - 1 \in Int
    BY <1>2, <1>3
  <2> HIDE DEF kept, next, new
  <2>2. IsFiniteSet(next..(next + Len(new) - 1))
    BY <2>1, FS_Interval
  <2> QED BY <1>3, <2>2, FS_Union
<1>5. /\ Replayed(l) = [x \in {"fields", "nextFid", "rows"} |-> Replayed(l)[x]]
      /\ Replayed(l).nextFid = next + Len(new)
      /\ DOMAIN Replayed(l).rows = kept \cup next..(next + Len(new) - 1)
  BY DEF Replayed
<1>6. ServerShape'
  <2> HIDE DEF new, next, kept
  <2>1. IsFiniteSet(DOMAIN Replayed(l).rows)
    BY <1>4, <1>5, Zenon
  <2>2. Replayed(l).nextFid \in Nat
    BY <1>2, <1>3, <1>5
  <2> QED BY <1>1, <1>5, <2>1, <2>2 DEF IInv, ServerShape
<1>7. Good(Offline(l)') /\ InOrder(Offline(l)')
  <2>1. log'[l] = [EmptyLog EXCEPT !.fids = fids]
    BY <1>1 DEF IInv, OfflineShape, ClearedLog
  <2>2. Rowids(DOMAIN table[l].rows)
    BY DEF IInv, OfflineShape, Good, Offline, Stored
  <2> HIDE DEF fids
  <2>3. Offline(l)' = Stored(table[l], [EmptyLog EXCEPT !.fids = fids], 0)
    BY <1>1, <2>1 DEF Offline
  <2>4. /\ Good(Stored(table[l], [EmptyLog EXCEPT !.fids = fids], 0))
        /\ InOrder(Stored(table[l], [EmptyLog EXCEPT !.fids = fids], 0))
    BY <2>2, ClearedGood
  <2> QED BY <2>3, <2>4
<1> HIDE DEF fids
<1>8. ASSUME NEW m \in Layers, m # l
      PROVE  /\ Good(Offline(m)')
             /\ InOrder(Offline(m)) => InOrder(Offline(m)')
             /\ Accounted(Offline(m)) => Accounted(Offline(m)')
  <2>1. table'[m] = table[m] /\ log'[m] = log[m]
    BY <1>1, <1>8 DEF IInv, OfflineShape
  <2>2. Good(Offline(m))
    BY DEF IInv, OfflineShape
  <2> QED BY <2>1, <2>2, AnyCommitNumber DEF Offline
<1>9. OfflineShape'
  <2>1. \A m \in Layers : Good(Offline(m)')
    BY <1>7, <1>8
  <2> QED BY <1>1, <2>1 DEF IInv, OfflineShape
<1>10. ASSUME NEW m \in Layers \ unlogged' PROVE InOrder(Offline(m)')
  BY <1>1, <1>7, <1>8, <1>10 DEF IInv
<1>11. ASSUME NEW m \in Layers \ (unlogged' \cup delivered')
       PROVE  Accounted(Offline(m)')
  BY <1>1, <1>8, <1>11 DEF IInv
<1> QED BY <1>6, <1>9, <1>10, <1>11 DEF IInv

\* What others do on the server keeps the invariant.
LEMMA OthersPreserve ==
    ASSUME NEW l \in Layers, IInv, OthersChange(l) \/ OthersDelete(l) \/ OthersAdd(l)
    PROVE  IInv'
<1>1. ASSUME NEW rows, NEW named, NEW ids \in Nat, IsFiniteSet(DOMAIN rows),
             EditedByOthers(l, rows, named, ids)
      PROVE  IInv'
  <2>1. /\ server' = [server EXCEPT ![l].rows = rows, ![l].nextFid = @ + ids]
        /\ UNCHANGED <<table, log, commitNo, project, saved, delivered, unlogged>>
    BY <1>1 DEF EditedByOthers
  <2>2. ServerShape'
    <3> DEFINE mine == [server[l] EXCEPT !.rows = rows, !.nextFid = @ + ids]
    <3>1. server' = [server EXCEPT ![l] = mine]
      BY <2>1 DEF IInv, ServerShape
    <3>2. /\ mine = [x \in {"fields", "nextFid", "rows"} |-> mine[x]]
          /\ mine.nextFid \in Nat /\ mine.rows = rows
      <4>1. /\ server[l] = [x \in {"fields", "nextFid", "rows"} |-> server[l][x]]
            /\ server[l].nextFid \in Nat
        BY DEF IInv, ServerShape
      <4>2. server[l].nextFid + ids \in Nat
        BY <1>1, <4>1
      <4> QED BY <4>1, <4>2
    <3> HIDE DEF mine
    <3> QED BY <1>1, <3>1, <3>2 DEF IInv, ServerShape
  <2>3. \A m \in Layers : Offline(m)' = Offline(m)
    BY <2>1 DEF Offline
  <2> QED BY <2>1, <2>2, <2>3 DEF IInv, OfflineShape
<1>2. IsFiniteSet(DOMAIN server[l].rows)
  BY DEF IInv, ServerShape
<1>3. CASE OthersChange(l)
  <2>1. PICK r \in DOMAIN server[l].rows, v \in Values \cup {Null} :
            EditedByOthers(l, [server[l].rows EXCEPT ![r].attrs[1] = v], 0, 0)
    BY <1>3 DEF OthersChange
  <2>2. DOMAIN [server[l].rows EXCEPT ![r].attrs[1] = v] = DOMAIN server[l].rows
    OBVIOUS
  <2> QED BY <1>1, <1>2, <2>1, <2>2
<1>4. CASE OthersDelete(l)
  <2>1. PICK r \in DOMAIN server[l].rows :
            EditedByOthers(l, Without(server[l].rows, {r}), 0, 0)
    BY <1>4 DEF OthersDelete
  <2>2. IsFiniteSet(DOMAIN Without(server[l].rows, {r}))
    BY <1>2, FS_Subset DEF Without
  <2> QED BY <1>1, <2>1, <2>2
<1>5. CASE OthersAdd(l)
  <2> DEFINE next == server[l].nextFid
             rows == [r \in DOMAIN server[l].rows \cup {next} |->
                         IF r = next THEN Feature(nextName, server[l].fields)
                         ELSE server[l].rows[r]]
  <2>1. EditedByOthers(l, rows, 1, 1)
    BY <1>5 DEF OthersAdd
  <2>2. IsFiniteSet(DOMAIN rows)
    BY <1>2, FS_AddElement
  <2> HIDE DEF rows
  <2> QED BY <1>1, <2>1, <2>2
<1> QED BY <1>3, <1>4, <1>5

\* Steps that leave tables, logs and layers alone keep the invariant.
LEMMA DataUnchanged ==
    ASSUME IInv, UNCHANGED <<dataVars, delivered, unlogged>>,
           project'.entry \in BOOLEAN, saved'.entry \in BOOLEAN
    PROVE  IInv'
<1>1. \A m \in Layers : Offline(m)' = Offline(m)
  BY DEF Offline, dataVars
<1> QED BY <1>1 DEF IInv, OfflineShape, ServerShape, dataVars

\* Every step keeps the invariant.
LEMMA NextIInv == IInv /\ [Next]_vars => IInv'
<1> SUFFICES ASSUME IInv, [Next]_vars PROVE IInv'
  OBVIOUS
<1>0. project.entry \in BOOLEAN /\ saved.entry \in BOOLEAN
  BY DEF IInv, OfflineShape
<1>1. CASE ConvertToOfflineProject
  BY <1>1, ConvertPreserves
<1>2. ASSUME NEW l \in Layers, CommitOffline(l) PROVE IInv'
  BY <1>2, CommitPreserves
<1>3. CASE SaveProject
  BY <1>0, <1>3, DataUnchanged DEF SaveProject, historyVars
<1>4. CASE ReopenProject
  BY <1>0, <1>4, DataUnchanged DEF ReopenProject, historyVars
<1>5. CASE StartSynchronize
  BY <1>0, <1>5, DataUnchanged DEF StartSynchronize, historyVars
<1>6. CASE RemoteInvalid
  BY <1>0, <1>6, DataUnchanged DEF RemoteInvalid, historyVars
<1>7. CASE CommitRefused
  BY <1>0, <1>7, DataUnchanged DEF CommitRefused, LayerDone, historyVars
<1>8. CASE LayerSynchronized
  <2>1. CASE Head(syncing) \in Layers
    BY <1>8, <2>1, SynchronizedPreserves
  <2>2. CASE Head(syncing) \notin Layers
    <3>1. UNCHANGED <<server, table, log, saved, unlogged>>
      BY <1>8, <2>2 DEF LayerSynchronized, IInv, ServerShape, OfflineShape
    <3>2. project'.entry = FALSE /\ delivered \subseteq delivered'
      BY <1>8 DEF LayerSynchronized, LayerDone
    <3>3. \A m \in Layers :
              /\ Good(Offline(m)') <=> Good(Offline(m))
              /\ InOrder(Offline(m)') <=> InOrder(Offline(m))
              /\ Accounted(Offline(m)') <=> Accounted(Offline(m))
      BY <3>1, AnyCommitNumber DEF Offline
    <3>4. OfflineShape'
      BY <3>1, <3>2, <3>3 DEF IInv, OfflineShape
    <3>5. ServerShape'
      BY <3>1 DEF IInv, ServerShape
    <3> QED BY <3>1, <3>2, <3>3, <3>4, <3>5 DEF IInv
  <2> QED BY <2>1, <2>2
<1>11. ASSUME NEW l \in Layers, RollBackKeepEditing(l) \/ CancelEdits(l) PROVE IInv'
  BY <1>0, <1>11, DataUnchanged DEF RollBackKeepEditing, CancelEdits, historyVars
<1>9. ASSUME NEW l \in Layers, OthersChange(l) \/ OthersDelete(l) \/ OthersAdd(l)
      PROVE  IInv'
  BY <1>9, OthersPreserve
<1>10. CASE UNCHANGED vars
  BY <1>0, <1>10, DataUnchanged DEF vars, dataVars
<1> QED
  BY <1>1, <1>2, <1>3, <1>4, <1>5, <1>6, <1>7, <1>8, <1>9, <1>10, <1>11 DEF Next

\* The invariant implies the two properties.
LEMMA IInvImplies == IInv => LogAccountsForRows /\ AddedInOrder
<1> SUFFICES ASSUME IInv PROVE LogAccountsForRows /\ AddedInOrder
  OBVIOUS
<1>1. \A l \in Layers : Offline(l).rows = table[l].rows /\ Offline(l).log = log[l]
  BY DEF Offline, Stored
<1>2. AddedInOrder
  BY <1>1 DEF IInv, InOrder, AddedInOrder
<1>3. LogAccountsForRows
  BY <1>1 DEF IInv, Accounted, CopiedRows, LogAccountsForRows, RowsAccountedFor
<1> QED BY <1>2, <1>3

\* The invariant always holds.
THEOREM Invariance == Spec => []IInv
<1>1. Init => IInv
  BY InitIInv
<1>2. IInv /\ [Next]_vars => IInv'
  BY NextIInv
<1> QED BY <1>1, <1>2, PTL DEF Spec

\* For any layers and any edit sessions, deletions of added features among
\* them: the rows of a copy are those copied and not logged as removed, and
\* those logged as added, although SQLite gives rowids a second time.
THEOREM LogAlwaysAccountsForRows == Spec => []LogAccountsForRows
BY Invariance, IInvImplies, PTL

\* The log of every copy names the added features in ascending order of their
\* ids, on which the pairing of updateFidLookup rests.
THEOREM AddedAlwaysInOrder == Spec => []AddedInOrder
BY Invariance, IInvImplies, PTL
=============================================================================
