-------------------------- MODULE OfflineSyncProofs --------------------------
(***************************************************************************)
(* Proofs about OfflineEditing, continued: what synchronize() writes to    *)
(* the server's layer fits its fields, no feature gets there twice, the    *)
(* log tells what happened to the copy, the lookup leads to the right      *)
(* features, and synchronising is the merge that LayerMerge specifies.     *)
(***************************************************************************)
EXTENDS OfflineEditingProofs, SequenceTheorems

-----------------------------------------------------------------------------
(* Rowids in ascending order.                                              *)

Rank(S, x) == Cardinality({y \in S : y < x})

\* Ranks grow with the ids.
LEMMA RankMonotone ==
    ASSUME NEW S, Rowids(S), NEW x \in S, NEW y \in S, x < y
    PROVE  /\ Rank(S, x) \in Nat /\ Rank(S, y) \in Nat
           /\ Rank(S, x) < Rank(S, y)
<1> DEFINE X == {z \in S : z < x}
           Y == {z \in S : z < y}
<1>1. x \in Nat /\ y \in Nat /\ S \subseteq Nat
  BY DEF Rowids
<1>2. X \subseteq Y /\ x \in Y /\ x \notin X
  <2>1. \A z \in S : z < x => z < y
    BY <1>1
  <2>2. ~(x < x)
    BY <1>1
  <2> QED BY <2>1, <2>2
<1>3. /\ IsFiniteSet(X) /\ Cardinality(X) \in Nat
      /\ IsFiniteSet(Y) /\ Cardinality(Y) \in Nat
  BY RowidsFinite
<1> HIDE DEF X, Y
<1>4. Cardinality(X) <= Cardinality(Y) /\ Cardinality(X) # Cardinality(Y)
  BY <1>2, <1>3, FS_Subset
<1> QED BY <1>3, <1>4 DEF Rank, X, Y

\* Every place below the number of ids is the rank of one of them.
LEMMA RankTaken ==
    ASSUME NEW S, Rowids(S), NEW i \in 0..(Cardinality(S) - 1)
    PROVE  \E x \in S : Rank(S, x) = i
<1> DEFINE n == Cardinality(S)
           f == [x \in S |-> Rank(S, x)]
<1>1. IsFiniteSet(S) /\ n \in Nat
  BY RowidsFinite
<1>2. S \subseteq Nat
  BY DEF Rowids
<1>3. ASSUME NEW x \in S PROVE Rank(S, x) \in 0..(n - 1)
  <2>1. {y \in S : y < x} \subseteq S \ {x}
    BY <1>2
  <2>2. IsFiniteSet(S \ {x}) /\ Cardinality(S \ {x}) = n - 1
    BY <1>1, FS_RemoveElement
  <2>3. Cardinality({y \in S : y < x}) \in Nat
    BY RowidsFinite
  <2>4. Cardinality({y \in S : y < x}) <= n - 1
    BY <2>1, <2>2, FS_Subset
  <2> QED BY <1>1, <2>3, <2>4 DEF Rank
<1>4. ASSUME NEW x \in S, NEW y \in S, Rank(S, x) = Rank(S, y) PROVE x = y
  <2>1. ~(x < y) /\ ~(y < x)
    BY <1>4, RankMonotone
  <2> QED BY <1>2, <2>1
<1>5. f \in Injection(S, 0..(n - 1))
  BY <1>3, <1>4 DEF Injection, IsInjective
<1>6. IsFiniteSet(0..(n - 1)) /\ Cardinality(0..(n - 1)) = n
  BY <1>1, FS_Interval
<1> HIDE DEF f
<1>7. f \in Surjection(S, 0..(n - 1))
  BY <1>5, <1>6, FS_Injection
<1>8. PICK x \in S : f[x] = i
  BY <1>7 DEF Surjection
<1> QED BY <1>8 DEF f

\* Ascending(S) is S in ascending order.
LEMMA AscendingOrder ==
    ASSUME NEW S, Rowids(S)
    PROVE  /\ DOMAIN Ascending(S) = 1..Cardinality(S)
           /\ Len(Ascending(S)) = Cardinality(S)
           /\ Cardinality(S) \in Nat
           /\ \A i \in DOMAIN Ascending(S) : Ascending(S)[i] \in S
           /\ \A i, j \in DOMAIN Ascending(S) :
                  i < j => Ascending(S)[i] < Ascending(S)[j]
<1> DEFINE n == Cardinality(S)
           At(i) == CHOOSE x \in S : Rank(S, x) = i - 1
<1>1. n \in Nat
  BY RowidsFinite
<1>2. Ascending(S) = [i \in 1..n |-> At(i)]
  BY DEF Ascending, Rank
<1>3. ASSUME NEW i \in 1..n PROVE At(i) \in S /\ Rank(S, At(i)) = i - 1
  <2>1. \E x \in S : Rank(S, x) = i - 1
    BY <1>1, RankTaken
  <2> QED BY <2>1
<1> HIDE DEF At
<1>4. ASSUME NEW i \in 1..n, NEW j \in 1..n, i < j PROVE At(i) < At(j)
  <2>1. At(i) \in Nat /\ At(j) \in Nat
    BY <1>3 DEF Rowids
  <2>2. CASE At(i) = At(j)
    BY <1>3, <1>4, <2>2
  <2>3. CASE At(j) < At(i)
    <3>1. Rank(S, At(j)) < Rank(S, At(i))
      BY <1>3, <2>3, RankMonotone
    <3> QED BY <1>1, <1>3, <1>4, <3>1
  <2> QED BY <2>1, <2>2, <2>3
<1> QED BY <1>1, <1>2, <1>3, <1>4, AscendingLength

\* The rows that are inserted, and how many rows there are then.
LEMMA InsertedRows ==
    ASSUME NEW t, Rowids(DOMAIN t), NEW n \in Nat, NEW rows, Len(rows) = n
    PROVE  LET next == NextRowid(t) IN
           /\ next \in Nat \ {0}
           /\ \A k \in DOMAIN InsertAll(t, rows) :
                  k \in DOMAIN t \/ k \in next..(next + n - 1)
           /\ \A k \in next..(next + n - 1) :
                  /\ k - next + 1 \in 1..n
                  /\ InsertAll(t, rows)[k] = rows[k - next + 1]
           /\ Cardinality(DOMAIN InsertAll(t, rows)) = Cardinality(DOMAIN t) + n
<1> DEFINE next == NextRowid(t)
           new == next..(next + n - 1)
<1>1. next \in Nat \ {0}
  BY NextRowidIsAbove
<1>2. /\ DOMAIN InsertAll(t, rows) = DOMAIN t \cup new
      /\ \A k \in new : k \notin DOMAIN t
  BY Inserted
<1>3. InsertAll(t, rows) = [k \in DOMAIN t \cup new |->
          IF k \in DOMAIN t THEN t[k] ELSE rows[k - next + 1]]
  BY DEF InsertAll
<1>4. IsFiniteSet(DOMAIN t) /\ Cardinality(DOMAIN t) \in Nat
  BY RowidsFinite
<1> HIDE DEF next
<1>5. IsFiniteSet(new) /\ Cardinality(new) = n
  <2>1. next \in Int /\ next + n - 1 \in Int
    BY <1>1
  <2>2. /\ IsFiniteSet(new)
        /\ Cardinality(new) = IF next > next + n - 1 THEN 0
                              ELSE (next + n - 1) - next + 1
    BY <2>1, FS_Interval
  <2> QED BY <1>1, <2>2
<1>6. \A k \in new : k - next + 1 \in 1..n
  BY <1>1
<1> HIDE DEF new
<1>7. DOMAIN t \cap new = {} /\ Cardinality({}) = 0
  BY <1>2, FS_EmptySet
<1>8. Cardinality(DOMAIN t \cup new) = Cardinality(DOMAIN t) + n
  <2>1. Cardinality(DOMAIN t \cup new)
            = Cardinality(DOMAIN t) + Cardinality(new) - Cardinality(DOMAIN t \cap new)
    BY <1>4, <1>5, FS_Union
  <2>2. Cardinality(DOMAIN t \cap new) = 0
    BY <1>7, Zenon
  <2> QED BY <1>4, <1>5, <2>1, <2>2
<1>9. \A k \in new : InsertAll(t, rows)[k] = rows[k - next + 1]
  BY <1>2, <1>3
<1> QED BY <1>1, <1>2, <1>6, <1>8, <1>9 DEF next, new

\* The keys of a table with rows inserted are rowids still.
LEMMA InsertedRowids ==
    ASSUME NEW t, Rowids(DOMAIN t), NEW n \in Nat, NEW rows, Len(rows) = n
    PROVE  Rowids(DOMAIN InsertAll(t, rows))
BY Inserted

\* What holds of every row of a table and of every row inserted holds of every
\* row of the longer table.
LEMMA InsertedTyped ==
    ASSUME NEW t, Rowids(DOMAIN t), NEW n \in Nat, NEW rows, Len(rows) = n,
           NEW T, \A k \in DOMAIN t : t[k] \in T, \A i \in 1..n : rows[i] \in T
    PROVE  \A k \in DOMAIN InsertAll(t, rows) : InsertAll(t, rows)[k] \in T
<1>1. \A k \in DOMAIN t : InsertAll(t, rows)[k] = t[k]
  BY Inserted
<1> QED BY <1>1, InsertedRows

\* A subset of a set of rowids is one.
LEMMA SomeRowids ==
    ASSUME NEW S, Rowids(S), NEW T, T \subseteq S
    PROVE  Rowids(T)
BY DEF Rowids

-----------------------------------------------------------------------------
(* Types and names through a commit.                                       *)

ValueRow(fields) ==
    [commit : Nat, fid : Nat, field : 1..fields, value : Values \cup {EmptyText}]

GeomRow == [commit : Nat, fid : Nat, geom : Geometries]

LogTyped(g, fields) ==
    /\ Rowids(DOMAIN g.fields) /\ Rowids(DOMAIN g.values)
    /\ Rowids(DOMAIN g.geoms) /\ Rowids(DOMAIN g.fids)
    /\ \A k \in DOMAIN g.fields : g.fields[k] \in Nat
    /\ \A k \in DOMAIN g.values : g.values[k] \in ValueRow(fields)
    /\ \A k \in DOMAIN g.geoms : g.geoms[k] \in GeomRow

CopyTyped(t) ==
    /\ t.fields \in 1..MaxFields
    /\ \A k \in DOMAIN t.rows : t.rows[k] \in Row(t.fields)
    /\ LogTyped(t.log, t.fields)
    /\ t.commitNo \in Nat

SessionTyped(s, fields) ==
    /\ s.newFields \in Nat
    /\ fields + s.newFields <= MaxFields
    /\ Rowids(DOMAIN s.values) /\ Rowids(DOMAIN s.geoms)
    /\ \A k \in DOMAIN s.values :
           s.values[k] \in [field : 1..(fields + s.newFields),
                            value : Values \cup {Null}]
    /\ \A k \in DOMAIN s.geoms : s.geoms[k] \in Geometries
    /\ Len(s.added) \in Nat
    /\ \A i \in 1..Len(s.added) : s.added[i] \in Row(fields + s.newFields)

SameNames(t, u) ==
    /\ DOMAIN u.rows = DOMAIN t.rows
    /\ u.log.added = t.log.added
    /\ \A k \in DOMAIN t.rows : u.rows[k].name = t.rows[k].name

SameFieldLog(t, u) == u.fields = t.fields /\ u.log.fields = t.log.fields

\* New fields lengthen every row, and each is logged once.
LEMMA FieldsTyped ==
    ASSUME NEW t, Good(t), CopyTyped(t), NEW n \in Nat,
           t.fields + n <= MaxFields, NEW logging \in BOOLEAN
    PROVE  LET u == CommitFields(t, n, logging) IN
           /\ CopyTyped(u)
           /\ SameNames(t, u)
           /\ u.fields = t.fields + n
           /\ Cardinality(DOMAIN u.log.fields)
                  = Cardinality(DOMAIN t.log.fields) + (IF logging THEN n ELSE 0)
<1> DEFINE w == AddFields(t, n)
           new == [i \in 1..n |-> t.commitNo]
           v == CommittedAttributesAdded(w, n)
           A == Values \cup {Null, EmptyText}
<1>0. MaxFields \in Nat /\ t.fields \in Nat
  BY OfflineAssumption DEF CopyTyped
<1>1. /\ Shaped(w) /\ w.fields = t.fields + n /\ w.log = t.log
      /\ w.commitNo = t.commitNo
      /\ w.rows = [k \in DOMAIN t.rows |->
            [t.rows[k] EXCEPT !.attrs = @ \o [i \in 1..n |-> Null]]]
  <2>1. Shaped(t)
    BY DEF Good
  <2> DEFINE longer == [k \in DOMAIN t.rows |->
                [t.rows[k] EXCEPT !.attrs = @ \o [i \in 1..n |-> Null]]]
  <2>2. w = [t EXCEPT !.fields = @ + n, !.rows = longer]
    BY DEF AddFields
  <2> HIDE DEF w, longer
  <2>3. /\ Shaped(w) /\ w.fields = t.fields + n /\ w.log = t.log
        /\ w.commitNo = t.commitNo /\ w.rows = longer
    BY <2>1, <2>2 DEF Shaped
  <2> QED BY <2>3 DEF longer
<1>2. ASSUME NEW k \in DOMAIN t.rows
      PROVE  w.rows[k] \in Row(w.fields) /\ w.rows[k].name = t.rows[k].name
  <2> DEFINE row == t.rows[k]
             more == [i \in 1..n |-> Null]
  <2>1. row \in Row(t.fields)
    BY DEF CopyTyped
  <2>2. row.attrs \in Seq(A) /\ Len(row.attrs) = t.fields
    BY <1>0, <2>1 DEF Row
  <2>3. more \in Seq(A) /\ Len(more) = n
    OBVIOUS
  <2> HIDE DEF row, more, A
  <2>4. row.attrs \o more \in Seq(A) /\ Len(row.attrs \o more) = t.fields + n
    <3>1. /\ row.attrs \o more \in Seq(A)
          /\ Len(row.attrs \o more) = Len(row.attrs) + Len(more)
      BY <2>2, <2>3, ConcatProperties
    <3> QED BY <2>2, <2>3, <3>1
  <2>5. row.attrs \o more \in [1..(t.fields + n) -> A]
    BY <2>4, LenProperties
  <2>6. w.rows[k] = [row EXCEPT !.attrs = @ \o more]
    BY <1>1 DEF row, more
  <2>7. w.rows[k] \in Row(t.fields + n) /\ w.rows[k].name = row.name
    BY <2>1, <2>5, <2>6 DEF Row, A
  <2> HIDE DEF w
  <2> QED BY <1>1, <2>7 DEF row
<1>3. w.fields \in 1..MaxFields /\ t.fields <= w.fields
  BY <1>0, <1>1 DEF CopyTyped
<1>4. LogTyped(w.log, w.fields)
  <2>1. \A f \in 1..t.fields : f \in 1..w.fields
    BY <1>0, <1>3
  <2> HIDE DEF w
  <2> QED BY <1>1, <2>1 DEF CopyTyped, LogTyped, ValueRow
<1>5. CopyTyped(w) /\ SameNames(t, w)
  BY <1>1, <1>2, <1>3, <1>4 DEF CopyTyped, SameNames
<1>6. /\ v.fields = w.fields /\ v.rows = w.rows /\ v.commitNo = t.commitNo + 1
      /\ LogShaped(v.log) /\ v.log.added = t.log.added
      /\ v.log.values = t.log.values /\ v.log.geoms = t.log.geoms
      /\ v.log.fids = t.log.fids
      /\ v.log.fields = InsertAll(t.log.fields, new)
  <2> HIDE DEF w
  <2> QED BY <1>1 DEF Shaped, LogShaped, LogTables, CommittedAttributesAdded
<1>7. Rowids(DOMAIN t.log.fields) /\ t.commitNo \in Nat /\ Len(new) = n
  BY DEF CopyTyped, LogTyped
<1> HIDE DEF w, v
<1>8. /\ Rowids(DOMAIN v.log.fields)
      /\ Cardinality(DOMAIN v.log.fields) = Cardinality(DOMAIN t.log.fields) + n
  <2> HIDE DEF new
  <2>1. Rowids(DOMAIN InsertAll(t.log.fields, new))
    BY <1>7, Inserted
  <2>2. Cardinality(DOMAIN InsertAll(t.log.fields, new))
            = Cardinality(DOMAIN t.log.fields) + n
    BY <1>7, InsertedRows
  <2> QED BY <1>6, <2>1, <2>2
<1>9. \A k \in DOMAIN v.log.fields : v.log.fields[k] \in Nat
  <2>1. \A k \in DOMAIN t.log.fields : t.log.fields[k] \in Nat
    BY DEF CopyTyped, LogTyped
  <2>2. \A i \in 1..n : new[i] \in Nat
    BY <1>7
  <2> HIDE DEF new
  <2> QED BY <1>6, <1>7, <2>1, <2>2, InsertedTyped
<1>10. CopyTyped(v) /\ SameNames(t, v)
  <2>1. LogTyped(v.log, v.fields)
    BY <1>1, <1>4, <1>6, <1>8, <1>9 DEF LogTyped
  <2> QED BY <1>5, <1>6, <1>7, <2>1 DEF CopyTyped, SameNames
<1>11. CASE n = 0
  <2>1. CommitFields(t, n, logging) = t
    BY <1>11 DEF CommitFields, Stage
  <2>2. Cardinality(DOMAIN t.log.fields) \in Nat
    BY <1>7, RowidsFinite
  <2> QED BY <1>0, <1>11, <2>1, <2>2 DEF SameNames
<1>12. CASE n # 0 /\ logging
  <2>1. CommitFields(t, n, logging) = v
    BY <1>12 DEF CommitFields, Stage, v, w
  <2> QED BY <1>1, <1>6, <1>8, <1>10, <1>12, <2>1
<1>13. CASE n # 0 /\ ~logging
  <2>1. CommitFields(t, n, logging) = w
    BY <1>13 DEF CommitFields, Stage, w
  <2>2. Cardinality(DOMAIN t.log.fields) \in Nat
    BY <1>7, RowidsFinite
  <2> QED BY <1>1, <1>5, <1>13, <2>1, <2>2
<1> QED BY <1>11, <1>12, <1>13

\* Changed values fit their field, and so do those that are logged.
LEMMA ValuesTyped ==
    ASSUME NEW t, Good(t), CopyTyped(t), NEW values, Rowids(DOMAIN values),
           \A k \in DOMAIN values :
               values[k] \in [field : 1..t.fields, value : Values \cup {Null}],
           NEW logging \in BOOLEAN
    PROVE  LET u == CommitValues(t, values, logging)
           IN  CopyTyped(u) /\ SameNames(t, u) /\ SameFieldLog(t, u)
<1> DEFINE w == ChangeValues(t, values)
           keys == {k \in DOMAIN values :
                       /\ ~IsAddedFeature(w.log, k)
                       /\ values[k].value \notin QuotedValues}
           new == [i \in DOMAIN Ascending(keys) |->
                     [commit |-> w.commitNo, fid |-> Ascending(keys)[i],
                      field |-> values[Ascending(keys)[i]].field,
                      value |-> Logged(values[Ascending(keys)[i]].value)]]
           n == Cardinality(keys)
           v == CommittedAttributeValuesChanges(w, values)
           Changed(k) == IF k \in DOMAIN values
                         THEN [t.rows[k] EXCEPT
                                 !.attrs[values[k].field] = values[k].value]
                         ELSE t.rows[k]
<1>1. /\ Shaped(w) /\ w.fields = t.fields /\ w.log = t.log
      /\ w.commitNo = t.commitNo
      /\ w.rows = [k \in DOMAIN t.rows |-> Changed(k)]
  <2> DEFINE rows == [k \in DOMAIN t.rows |-> Changed(k)]
  <2>1. w = [t EXCEPT !.rows = rows]
    BY DEF ChangeValues
  <2> HIDE DEF w, rows
  <2>2. /\ Shaped(w) /\ w.fields = t.fields /\ w.log = t.log
        /\ w.commitNo = t.commitNo /\ w.rows = rows
    BY <2>1 DEF Good, Shaped
  <2> QED BY <2>2 DEF rows
<1>2. ASSUME NEW k \in DOMAIN t.rows
      PROVE  Changed(k) \in Row(t.fields) /\ Changed(k).name = t.rows[k].name
  <2>1. t.rows[k] \in Row(t.fields)
    BY DEF CopyTyped
  <2>2. CASE k \in DOMAIN values
    <3>1. values[k].field \in 1..t.fields /\ values[k].value \in Values \cup {Null}
      BY <2>2
    <3>2. [t.rows[k].attrs EXCEPT ![values[k].field] = values[k].value]
              \in [1..t.fields -> Values \cup {Null, EmptyText}]
      BY <2>1, <3>1 DEF Row
    <3>3. Changed(k) = [t.rows[k] EXCEPT !.attrs =
              [t.rows[k].attrs EXCEPT ![values[k].field] = values[k].value]]
      BY <2>2
    <3> HIDE DEF Changed
    <3> QED BY <2>1, <3>2, <3>3 DEF Row
  <2> QED BY <2>1, <2>2
<1> HIDE DEF Changed, w
<1>3. CopyTyped(w) /\ SameNames(t, w) /\ SameFieldLog(t, w)
  BY <1>1, <1>2 DEF CopyTyped, SameNames, SameFieldLog
<1>4. Rowids(keys)
  BY SomeRowids
<1>5. \A k \in keys : /\ values[k].field \in 1..t.fields
                      /\ Logged(values[k].value) \in Values \cup {EmptyText}
                      /\ k \in Nat
  BY <1>4 DEF Logged, Rowids
<1>6. v = [w EXCEPT !.log.values = InsertAll(@, new), !.commitNo = @ + 1]
  BY DEF CommittedAttributeValuesChanges
<1> HIDE DEF keys
<1>7. /\ DOMAIN Ascending(keys) = 1..n /\ n \in Nat
      /\ \A i \in 1..n : Ascending(keys)[i] \in keys
  BY <1>4, AscendingOrder
<1>8. Len(new) = n
  BY <1>7
<1>9. \A i \in 1..n : new[i] \in ValueRow(t.fields)
  <2> TAKE i \in 1..n
  <2>1. Ascending(keys)[i] \in keys /\ w.commitNo \in Nat
    BY <1>3, <1>7 DEF CopyTyped
  <2> QED BY <1>5, <1>7, <2>1 DEF ValueRow
<1> HIDE DEF new, v, n
<1>10. /\ v.fields = w.fields /\ v.rows = w.rows /\ v.commitNo = t.commitNo + 1
       /\ LogShaped(v.log) /\ v.log.added = t.log.added
       /\ v.log.fields = t.log.fields /\ v.log.geoms = t.log.geoms
       /\ v.log.fids = t.log.fids
       /\ v.log.values = InsertAll(t.log.values, new)
  BY <1>1, <1>6 DEF Shaped, LogShaped, LogTables
<1>11. LogTyped(v.log, v.fields)
  <2>1. /\ Rowids(DOMAIN t.log.values)
        /\ \A k \in DOMAIN t.log.values : t.log.values[k] \in ValueRow(t.fields)
    BY DEF CopyTyped, LogTyped
  <2>2. Rowids(DOMAIN v.log.values)
    BY <1>7, <1>8, <1>10, <2>1, InsertedRowids
  <2>3. \A k \in DOMAIN v.log.values : v.log.values[k] \in ValueRow(t.fields)
    BY <1>7, <1>8, <1>9, <1>10, <2>1, InsertedTyped
  <2> QED BY <1>1, <1>10, <2>2, <2>3 DEF CopyTyped, LogTyped
<1>12. CopyTyped(v) /\ SameNames(t, v) /\ SameFieldLog(t, v)
  BY <1>1, <1>3, <1>10, <1>11 DEF CopyTyped, SameNames, SameFieldLog
<1>13. CommitValues(t, values, logging) \in {t, w, v}
  BY DEF CommitValues, Stage, v, w
<1> QED BY <1>3, <1>12, <1>13 DEF SameNames, SameFieldLog

\* Changed geometries, likewise.
LEMMA GeometriesTyped ==
    ASSUME NEW t, Good(t), CopyTyped(t), NEW geoms, Rowids(DOMAIN geoms),
           \A k \in DOMAIN geoms : geoms[k] \in Geometries,
           NEW logging \in BOOLEAN
    PROVE  LET u == CommitGeometries(t, geoms, logging)
           IN  CopyTyped(u) /\ SameNames(t, u) /\ SameFieldLog(t, u)
<1> DEFINE w == ChangeGeometries(t, geoms)
           keys == {k \in DOMAIN geoms : ~IsAddedFeature(w.log, k)}
           new == [i \in DOMAIN Ascending(keys) |->
                     [commit |-> w.commitNo, fid |-> Ascending(keys)[i],
                      geom |-> geoms[Ascending(keys)[i]]]]
           n == Cardinality(keys)
           v == CommittedGeometriesChanges(w, geoms)
           Changed(k) == IF k \in DOMAIN geoms
                         THEN [t.rows[k] EXCEPT !.geom = geoms[k]]
                         ELSE t.rows[k]
<1>1. /\ Shaped(w) /\ w.fields = t.fields /\ w.log = t.log
      /\ w.commitNo = t.commitNo
      /\ w.rows = [k \in DOMAIN t.rows |-> Changed(k)]
  <2> DEFINE rows == [k \in DOMAIN t.rows |-> Changed(k)]
  <2>1. w = [t EXCEPT !.rows = rows]
    BY DEF ChangeGeometries
  <2> HIDE DEF w, rows
  <2>2. /\ Shaped(w) /\ w.fields = t.fields /\ w.log = t.log
        /\ w.commitNo = t.commitNo /\ w.rows = rows
    BY <2>1 DEF Good, Shaped
  <2> QED BY <2>2 DEF rows
<1>2. ASSUME NEW k \in DOMAIN t.rows
      PROVE  Changed(k) \in Row(t.fields) /\ Changed(k).name = t.rows[k].name
  <2>1. t.rows[k] \in Row(t.fields)
    BY DEF CopyTyped
  <2> QED BY <2>1 DEF Row
<1> HIDE DEF Changed, w
<1>3. CopyTyped(w) /\ SameNames(t, w) /\ SameFieldLog(t, w)
  BY <1>1, <1>2 DEF CopyTyped, SameNames, SameFieldLog
<1>4. Rowids(keys)
  BY SomeRowids
<1>5. \A k \in keys : geoms[k] \in Geometries /\ k \in Nat
  BY <1>4 DEF Rowids
<1>6. v = [w EXCEPT !.log.geoms = InsertAll(@, new), !.commitNo = @ + 1]
  BY DEF CommittedGeometriesChanges
<1> HIDE DEF keys
<1>7. /\ DOMAIN Ascending(keys) = 1..n /\ n \in Nat
      /\ \A i \in 1..n : Ascending(keys)[i] \in keys
  BY <1>4, AscendingOrder
<1>8. Len(new) = n
  BY <1>7
<1>9. \A i \in 1..n : new[i] \in GeomRow
  <2> TAKE i \in 1..n
  <2>1. Ascending(keys)[i] \in keys /\ w.commitNo \in Nat
    BY <1>3, <1>7 DEF CopyTyped
  <2> QED BY <1>5, <1>7, <2>1 DEF GeomRow
<1> HIDE DEF new, v, n
<1>10. /\ v.fields = w.fields /\ v.rows = w.rows /\ v.commitNo = t.commitNo + 1
       /\ LogShaped(v.log) /\ v.log.added = t.log.added
       /\ v.log.fields = t.log.fields /\ v.log.values = t.log.values
       /\ v.log.fids = t.log.fids
       /\ v.log.geoms = InsertAll(t.log.geoms, new)
  BY <1>1, <1>6 DEF Shaped, LogShaped, LogTables
<1>11. LogTyped(v.log, v.fields)
  <2>1. /\ Rowids(DOMAIN t.log.geoms)
        /\ \A k \in DOMAIN t.log.geoms : t.log.geoms[k] \in GeomRow
    BY DEF CopyTyped, LogTyped
  <2>2. Rowids(DOMAIN v.log.geoms)
    BY <1>7, <1>8, <1>10, <2>1, InsertedRowids
  <2>3. \A k \in DOMAIN v.log.geoms : v.log.geoms[k] \in GeomRow
    BY <1>7, <1>8, <1>9, <1>10, <2>1, InsertedTyped
  <2> QED BY <1>1, <1>10, <2>2, <2>3 DEF CopyTyped, LogTyped
<1>12. CopyTyped(v) /\ SameNames(t, v) /\ SameFieldLog(t, v)
  BY <1>1, <1>3, <1>10, <1>11 DEF CopyTyped, SameNames, SameFieldLog
<1>13. CommitGeometries(t, geoms, logging) \in {t, w, v}
  BY DEF CommitGeometries, Stage, v, w
<1> QED BY <1>3, <1>12, <1>13 DEF SameNames, SameFieldLog

\* Deletion leaves the other rows as they are, and logs no row as added.
LEMMA DeletionsTyped ==
    ASSUME NEW t, Good(t), CopyTyped(t), NEW fids, NEW logging \in BOOLEAN
    PROVE  LET u == CommitDeletions(t, fids, logging) IN
           /\ CopyTyped(u) /\ SameFieldLog(t, u)
           /\ DOMAIN u.rows \subseteq DOMAIN t.rows
           /\ \A k \in DOMAIN u.rows : u.rows[k] = t.rows[k]
           /\ RowsIn(u.log.added) \subseteq RowsIn(t.log.added)
<1> DEFINE w == DeleteRows(t, fids)
           gone == {k \in fids : IsAddedFeature(w.log, k)}
           v == CommittedFeaturesRemoved(w, fids)
<1>1. /\ Shaped(w) /\ w.fields = t.fields /\ w.log = t.log
      /\ w.commitNo = t.commitNo /\ w.rows = Without(t.rows, fids)
  BY DEF Good, Shaped, DeleteRows
<1>2. v = [w EXCEPT
            !.log.added = Without(w.log.added,
                {k \in DOMAIN w.log.added : w.log.added[k] \in gone}),
            !.log.removed = @ \cup (fids \ gone)]
  BY DEF CommittedFeaturesRemoved
<1> HIDE DEF gone, w, v
<1>3. /\ v.fields = w.fields /\ v.rows = w.rows /\ v.commitNo = t.commitNo
      /\ LogShaped(v.log)
      /\ v.log.fields = t.log.fields /\ v.log.values = t.log.values
      /\ v.log.geoms = t.log.geoms /\ v.log.fids = t.log.fids
      /\ v.log.added = Without(t.log.added,
             {k \in DOMAIN t.log.added : t.log.added[k] \in gone})
  BY <1>1, <1>2 DEF Shaped, LogShaped, LogTables
<1>4. /\ DOMAIN w.rows \subseteq DOMAIN t.rows
      /\ \A k \in DOMAIN w.rows : w.rows[k] = t.rows[k]
  BY <1>1 DEF Without
<1>5. RowsIn(v.log.added) \subseteq RowsIn(t.log.added)
  BY <1>3 DEF Without, RowsIn
<1>6. CopyTyped(w) /\ CopyTyped(v)
  BY <1>1, <1>3, <1>4 DEF CopyTyped, LogTyped
<1>7. CommitDeletions(t, fids, logging) \in {t, w, v}
  BY DEF CommitDeletions, Stage, v, w
<1> QED BY <1>1, <1>3, <1>4, <1>5, <1>6, <1>7 DEF SameFieldLog

\* Added rows are inserted above the others, and the ids the slot reads back
\* from the table are theirs and no others.
LEMMA AdditionsTyped ==
    ASSUME NEW t, Good(t), CopyTyped(t), NEW rows, Len(rows) \in Nat,
           \A i \in 1..Len(rows) : rows[i] \in Row(t.fields),
           NEW logging \in BOOLEAN
    PROVE  LET u == CommitAdditions(t, rows, logging)
               next == NextRowid(t.rows)
           IN  /\ CopyTyped(u) /\ SameFieldLog(t, u)
               /\ DOMAIN u.rows = DOMAIN t.rows \cup next..(next + Len(rows) - 1)
               /\ \A k \in DOMAIN t.rows : u.rows[k] = t.rows[k]
               /\ \A k \in next..(next + Len(rows) - 1) :
                      /\ k \notin DOMAIN t.rows
                      /\ k - next + 1 \in 1..Len(rows)
                      /\ u.rows[k] = rows[k - next + 1]
               /\ RowsIn(u.log.added)
                      \subseteq RowsIn(t.log.added) \cup next..(next + Len(rows) - 1)
<1> DEFINE w == AddRows(t, rows)
           n == Len(rows)
           next == NextRowid(t.rows)
           ids == NewestRowids(InsertAll(t.rows, rows), n)
           v == CommittedFeaturesAdded(w, n)
<1>1. /\ Shaped(w) /\ w.fields = t.fields /\ w.log = t.log
      /\ w.commitNo = t.commitNo /\ w.rows = InsertAll(t.rows, rows)
  BY DEF Good, Shaped, AddRows
<1>2. Len(ids) = n /\ \A i \in 1..n : ids[i] = next + i - 1
  BY NewestAreInserted DEF Good
<1>3. v = [w EXCEPT !.log.added = InsertAll(@, ids)]
  BY <1>1 DEF CommittedFeaturesAdded
<1> HIDE DEF ids, w, v
<1>4. /\ v.fields = w.fields /\ v.rows = w.rows /\ v.commitNo = t.commitNo
      /\ LogShaped(v.log)
      /\ v.log.fields = t.log.fields /\ v.log.values = t.log.values
      /\ v.log.geoms = t.log.geoms /\ v.log.fids = t.log.fids
      /\ v.log.added = InsertAll(t.log.added, ids)
  BY <1>1, <1>3 DEF Shaped, LogShaped, LogTables
<1>5. \A k \in DOMAIN w.rows : w.rows[k] \in Row(t.fields)
  <2>1. /\ Rowids(DOMAIN t.rows)
        /\ \A k \in DOMAIN t.rows : t.rows[k] \in Row(t.fields)
    BY DEF Good, CopyTyped
  <2> QED BY <1>1, <2>1, InsertedTyped
<1>6. CopyTyped(w) /\ CopyTyped(v)
  BY <1>1, <1>4, <1>5 DEF CopyTyped, LogTyped
<1>7. RowsIn(v.log.added) \subseteq RowsIn(t.log.added) \cup next..(next + n - 1)
  <2> DEFINE all == InsertAll(t.log.added, ids)
             key == NextRowid(t.log.added)
  <2>1. Rowids(DOMAIN t.log.added) /\ n \in Nat
    BY DEF Good
  <2> HIDE DEF n
  <2>2. /\ \A k \in DOMAIN all :
               k \in DOMAIN t.log.added \/ k \in key..(key + n - 1)
        /\ \A k \in key..(key + n - 1) :
               k - key + 1 \in 1..n /\ all[k] = ids[k - key + 1]
    <3>1. \A k \in DOMAIN all :
              k \in DOMAIN t.log.added \/ k \in key..(key + n - 1)
      BY <1>2, <2>1, InsertedRows
    <3>2. \A k \in key..(key + n - 1) :
              k - key + 1 \in 1..n /\ all[k] = ids[k - key + 1]
      BY <1>2, <2>1, InsertedRows
    <3> QED BY <3>1, <3>2
  <2>3. \A k \in DOMAIN t.log.added : all[k] = t.log.added[k]
    BY DEF InsertAll
  <2>4. next \in Nat
    BY NextRowidIsAbove DEF Good
  <2> HIDE DEF all, key, next
  <2>5. \A i \in 1..n : ids[i] \in next..(next + n - 1)
    BY <1>2, <2>4
  <2>6. \A k \in DOMAIN all : \/ all[k] \in RowsIn(t.log.added)
                              \/ all[k] \in next..(next + n - 1)
    BY <2>2, <2>3, <2>5 DEF RowsIn
  <2> QED BY <1>4, <2>6 DEF RowsIn, all
<1>8. /\ DOMAIN w.rows = DOMAIN t.rows \cup next..(next + n - 1)
      /\ \A k \in DOMAIN t.rows : w.rows[k] = t.rows[k]
      /\ \A k \in next..(next + n - 1) :
             /\ k \notin DOMAIN t.rows
             /\ k - next + 1 \in 1..n
             /\ w.rows[k] = rows[k - next + 1]
  <2>1. Rowids(DOMAIN t.rows) /\ n \in Nat
    BY DEF Good
  <2>2. Len(rows) = n
    OBVIOUS
  <2> HIDE DEF n
  <2>3. DOMAIN w.rows = DOMAIN t.rows \cup next..(next + n - 1)
    <3>1. DOMAIN InsertAll(t.rows, rows)
              = DOMAIN t.rows \cup next..(next + Len(rows) - 1)
      BY DEF InsertAll
    <3> QED BY <1>1, <2>2, <3>1
  <2>4. \A k \in DOMAIN t.rows : w.rows[k] = t.rows[k]
    <3>1. \A k \in DOMAIN t.rows : InsertAll(t.rows, rows)[k] = t.rows[k]
      BY DEF InsertAll
    <3> QED BY <1>1, <3>1
  <2>5. ASSUME NEW k \in next..(next + n - 1) PROVE k \notin DOMAIN t.rows
    BY <2>1, <2>2, Inserted
  <2>6. \A k \in next..(next + n - 1) :
            k - next + 1 \in 1..n /\ w.rows[k] = rows[k - next + 1]
    BY <1>1, <2>1, <2>2, InsertedRows
  <2> QED BY <2>3, <2>4, <2>5, <2>6
<1>9. CASE rows # <<>>
  <2>1. CommitAdditions(t, rows, logging) \in {w, v}
    BY <1>9 DEF CommitAdditions, Stage, v, w
  <2> QED BY <1>1, <1>4, <1>6, <1>7, <1>8, <2>1 DEF SameFieldLog
<1>10. CASE rows = <<>>
  <2>1. CommitAdditions(t, rows, logging) = t
    BY <1>10 DEF CommitAdditions, Stage
  <2>2. n = 0 /\ next \in Nat
    BY <1>10, NextRowidIsAbove DEF Good
  <2>3. next..(next + n - 1) = {}
    BY <2>2
  <2> QED BY <2>1, <2>3 DEF SameFieldLog
<1> QED BY <1>9, <1>10

\* Features of a layer are told apart by their names, which are below N.
NamesApart(rows, N) ==
    /\ \A k \in DOMAIN rows : rows[k].name < N
    /\ \A j, k \in DOMAIN rows : rows[j].name = rows[k].name => j = k

\* What the log has as added is not among the rows of the server's layer.
NotYetThere(t, there) ==
    \A k \in DOMAIN t.rows \cap RowsIn(t.log.added) :
        \A r \in DOMAIN there : there[r].name # t.rows[k].name

\* A stage that keeps the names keeps both.
LEMMA SameNamesApart ==
    ASSUME NEW t, NEW u, SameNames(t, u), NEW N, NEW there
    PROVE  /\ NamesApart(t.rows, N) => NamesApart(u.rows, N)
           /\ NotYetThere(t, there) => NotYetThere(u, there)
BY DEF SameNames, NamesApart, NotYetThere

\* A commit keeps types, and logs no more fields than it adds; the names of the
\* features it adds are new.
LEMMA CommittedTyped ==
    ASSUME NEW t, Good(t), CopyTyped(t), NEW s, SessionTyped(s, t.fields),
           NEW logging \in BOOLEAN
    PROVE  LET u == Committed(t, s, logging) IN
           /\ CopyTyped(u)
           /\ u.fields = t.fields + s.newFields
           /\ Cardinality(DOMAIN u.log.fields)
                  = Cardinality(DOMAIN t.log.fields)
                        + (IF logging THEN s.newFields ELSE 0)
           /\ \A N \in Nat : \A there :
                  /\ \A i \in 1..Len(s.added) : s.added[i].name = N + i - 1
                  /\ NamesApart(t.rows, N) /\ NotYetThere(t, there)
                  /\ \A r \in DOMAIN there : there[r].name < N
                  => /\ NamesApart(u.rows, N + Len(s.added))
                     /\ NotYetThere(u, there)
<1> DEFINE t1 == CommitFields(t, s.newFields, logging)
           t2 == CommitValues(t1, s.values, logging)
           t3 == CommitDeletions(t2, s.deleted, logging)
           t4 == CommitAdditions(t3, s.added, logging)
           geoms == Without(s.geoms, s.deleted)
           t5 == CommitGeometries(t4, geoms, logging)
           n == Len(s.added)
           next == NextRowid(t3.rows)
<1>1. Committed(t, s, logging) = t5
  BY DEF Committed
<1>2. /\ CopyTyped(t1) /\ SameNames(t, t1)
      /\ t1.fields = t.fields + s.newFields
      /\ Cardinality(DOMAIN t1.log.fields)
             = Cardinality(DOMAIN t.log.fields)
                   + (IF logging THEN s.newFields ELSE 0)
  BY FieldsTyped DEF SessionTyped
<1>3. Good(t1)
  BY FieldsKeepRows, SameRowsPreserves DEF Good, Preserves
<1> HIDE DEF t1
<1>4. CopyTyped(t2) /\ SameNames(t1, t2) /\ SameFieldLog(t1, t2)
  BY <1>2, <1>3, ValuesTyped DEF SessionTyped
<1>5. Good(t2)
  BY <1>3, ValuesKeepRows, SameRowsPreserves DEF Good, Preserves
<1> HIDE DEF t2
<1>6. /\ CopyTyped(t3) /\ SameFieldLog(t2, t3)
      /\ DOMAIN t3.rows \subseteq DOMAIN t2.rows
      /\ \A k \in DOMAIN t3.rows : t3.rows[k] = t2.rows[k]
      /\ RowsIn(t3.log.added) \subseteq RowsIn(t2.log.added)
  BY <1>4, <1>5, DeletionsTyped
<1>7. Good(t3)
  BY <1>5, DeletionsPreserve DEF Preserves
<1>8. t3.fields = t.fields + s.newFields
  BY <1>2, <1>4, <1>6 DEF SameFieldLog
<1> HIDE DEF t3
<1>9. /\ CopyTyped(t4) /\ SameFieldLog(t3, t4)
      /\ DOMAIN t4.rows = DOMAIN t3.rows \cup next..(next + n - 1)
      /\ \A k \in DOMAIN t3.rows : t4.rows[k] = t3.rows[k]
      /\ \A k \in next..(next + n - 1) :
             /\ k \notin DOMAIN t3.rows
             /\ k - next + 1 \in 1..n
             /\ t4.rows[k] = s.added[k - next + 1]
      /\ RowsIn(t4.log.added)
             \subseteq RowsIn(t3.log.added) \cup next..(next + n - 1)
  <2>1. n \in Nat /\ \A i \in 1..n : s.added[i] \in Row(t3.fields)
    BY <1>8 DEF SessionTyped
  <2>2. n = Len(s.added)
    OBVIOUS
  <2> HIDE DEF t4
  <2>3. t4 = CommitAdditions(t3, s.added, logging)
    BY DEF t4
  <2> QED BY <1>6, <1>7, <2>1, <2>2, <2>3, AdditionsTyped, SMTT(30)
<1>10. Good(t4)
  BY <1>7, AdditionsPreserve DEF Preserves, SessionTyped
<1>11. next \in Nat /\ n \in Nat
  BY <1>7, NextRowidIsAbove DEF Good, SessionTyped
<1> HIDE DEF t4, next
<1>12. /\ Rowids(DOMAIN geoms)
       /\ \A k \in DOMAIN geoms : geoms[k] \in Geometries
  <2>1. /\ DOMAIN geoms \subseteq DOMAIN s.geoms
        /\ \A k \in DOMAIN geoms : geoms[k] = s.geoms[k]
    BY DEF Without
  <2> HIDE DEF geoms
  <2> QED BY <2>1, SomeRowids DEF SessionTyped
<1> HIDE DEF geoms
<1>13. CopyTyped(t5) /\ SameNames(t4, t5) /\ SameFieldLog(t4, t5)
  BY <1>9, <1>10, <1>12, GeometriesTyped
<1> HIDE DEF t5
<1>14. t5.fields = t.fields + s.newFields /\ t5.log.fields = t1.log.fields
  BY <1>4, <1>6, <1>8, <1>9, <1>13 DEF SameFieldLog
<1>15. ASSUME NEW N \in Nat, NEW there,
              \A i \in 1..Len(s.added) : s.added[i].name = N + i - 1,
              NamesApart(t.rows, N), NotYetThere(t, there),
              \A r \in DOMAIN there : there[r].name < N
       PROVE  NamesApart(t5.rows, N + n) /\ NotYetThere(t5, there)
  <2>1. NamesApart(t2.rows, N) /\ NotYetThere(t2, there)
    BY <1>2, <1>4, <1>15, SameNamesApart
  <2>2. NamesApart(t3.rows, N) /\ NotYetThere(t3, there)
    BY <1>6, <2>1 DEF NamesApart, NotYetThere
  <2> DEFINE new == next..(next + n - 1)
  <2>3. \A k \in DOMAIN t3.rows : t4.rows[k].name \in Nat /\ t4.rows[k].name < N
    BY <1>6, <1>9, <2>2 DEF CopyTyped, Row, NamesApart
  <2>4. \A k \in new : t4.rows[k].name = N + (k - next)
    <3> TAKE k \in new
    <3>1. /\ t4.rows[k] = s.added[k - next + 1]
          /\ s.added[k - next + 1].name = N + (k - next + 1) - 1
      BY <1>9, <1>15
    <3> QED BY <1>11, <3>1
  <2>5. \A k \in new : t4.rows[k].name >= N /\ t4.rows[k].name < N + n
    BY <1>11, <2>4
  <2>6. \A j, k \in new : t4.rows[j].name = t4.rows[k].name => j = k
    BY <1>11, <2>4
  <2>7. \A j \in DOMAIN t3.rows, k \in new : t4.rows[j].name # t4.rows[k].name
    BY <1>11, <2>3, <2>4
  <2>8. \A k \in DOMAIN t3.rows : t4.rows[k].name < N + n
    BY <1>11, <2>3
  <2> HIDE DEF new
  <2>9. DOMAIN t4.rows = DOMAIN t3.rows \cup new
    BY <1>9 DEF new
  <2>10. NamesApart(t4.rows, N + n)
    <3>1. ASSUME NEW k \in DOMAIN t4.rows PROVE t4.rows[k].name < N + n
      BY <2>5, <2>8, <2>9
    <3>2. ASSUME NEW j \in DOMAIN t4.rows, NEW k \in DOMAIN t4.rows,
                 t4.rows[j].name = t4.rows[k].name
          PROVE  j = k
      <4>1. CASE j \in DOMAIN t3.rows /\ k \in DOMAIN t3.rows
        BY <1>9, <2>2, <3>2, <4>1 DEF NamesApart
      <4>2. CASE j \in new /\ k \in new
        BY <2>6, <3>2, <4>2
      <4>3. CASE (j \in DOMAIN t3.rows /\ k \in new) \/ (j \in new /\ k \in DOMAIN t3.rows)
        BY <2>7, <3>2, <4>3
      <4> QED BY <2>9, <4>1, <4>2, <4>3
    <3> QED BY <3>1, <3>2 DEF NamesApart
  <2>11. NotYetThere(t4, there)
    <3> SUFFICES ASSUME NEW k \in DOMAIN t4.rows, k \in RowsIn(t4.log.added),
                        NEW r \in DOMAIN there
                 PROVE  there[r].name # t4.rows[k].name
      BY DEF NotYetThere
    <3>1. CASE k \in DOMAIN t3.rows
      <4>1. k \notin new
        BY <1>9, <3>1 DEF new
      <4>2. k \in RowsIn(t3.log.added)
        BY <1>9, <4>1 DEF new
      <4> QED BY <1>9, <2>2, <3>1, <4>2 DEF NotYetThere
    <3>2. CASE k \in new
      <4>1. t4.rows[k].name = N + (k - next) /\ k - next >= 0 /\ k - next \in Int
        BY <1>11, <2>4, <3>2 DEF new
      <4>2. there[r].name < N
        BY <1>15
      <4> QED BY <1>15, <4>1, <4>2
    <3> QED BY <2>9, <3>1, <3>2
  <2> QED BY <1>13, <2>10, <2>11, SameNamesApart
<1>16. Cardinality(DOMAIN t5.log.fields)
           = Cardinality(DOMAIN t.log.fields) + (IF logging THEN s.newFields ELSE 0)
  BY <1>2, <1>14
<1> QED BY <1>1, <1>13, <1>14, <1>15, <1>16

-----------------------------------------------------------------------------
(* Replaying the log.                                                      *)

\* Of logged rows the last one is one of them.
LEMMA LastIsLogged ==
    ASSUME NEW t, NEW keys, Rowids(keys), keys # {}, NEW b \in Nat,
           \A k \in keys : t[k].commit \in Nat /\ t[k].commit < b
    PROVE  \E k \in keys : LastReplayed(t, keys) = t[k]
<1> DEFINE commits == {t[k].commit + 1 : k \in keys}
           Last(k) == \A m \in keys : \/ t[m].commit < t[k].commit
                                      \/ t[m].commit = t[k].commit /\ m <= k
<1>1. Rowids(commits)
  <2>1. \A k \in keys : t[k].commit + 1 \in Nat \ {0} /\ t[k].commit + 1 <= b
    OBVIOUS
  <2> QED BY <2>1 DEF Rowids
<1>2. PICK c \in {0} \cup commits : \A d \in commits : d <= c
  BY <1>1, GreatestRowid
<1>3. \E k \in keys : c = t[k].commit + 1
  <2>1. PICK k \in keys : TRUE
    OBVIOUS
  <2>2. t[k].commit + 1 <= c /\ t[k].commit + 1 > 0
    BY <1>2
  <2>3. c # 0
    BY <2>2
  <2> QED BY <2>3
<1> DEFINE latest == {k \in keys : t[k].commit + 1 = c}
<1>4. Rowids(latest) /\ latest # {}
  BY <1>3, SomeRowids
<1>5. PICK k \in {0} \cup latest : \A m \in latest : m <= k
  <2> HIDE DEF latest
  <2> QED BY <1>4, GreatestRowid
<1>6. k \in latest
  BY <1>4, <1>5 DEF Rowids
<1>7. Last(k)
  <2> SUFFICES ASSUME NEW m \in keys
               PROVE  \/ t[m].commit < t[k].commit
                      \/ t[m].commit = t[k].commit /\ m <= k
    OBVIOUS
  <2>1. t[m].commit + 1 <= t[k].commit + 1
    BY <1>2, <1>6
  <2>2. t[m].commit = t[k].commit => m <= k
    BY <1>5, <1>6
  <2>3. t[m].commit \in Nat /\ t[k].commit \in Nat
    BY <1>6
  <2> QED BY <2>1, <2>2, <2>3
<1>8. \E x \in keys : Last(x)
  BY <1>6, <1>7
<1> HIDE DEF Last
<1>9. (CHOOSE x \in keys : Last(x)) \in keys
  BY <1>8
<1> QED BY <1>9 DEF LastReplayed, Last

ServerTyped(remote) ==
    /\ remote.fields \in 1..MaxFields
    /\ remote.nextFid \in Nat \ {0}
    /\ \A r \in DOMAIN remote.rows :
           /\ r \in 1..(remote.nextFid - 1)
           /\ remote.rows[r] \in Row(remote.fields)

\* The fields of a copy are those of the server's layer, those logged, and
\* those added while there was no log.
FieldsLogged(l) ==
    server[l].fields + Cardinality(DOMAIN log[l].fields) <= table[l].fields

Replayable(l) ==
    /\ Good(Offline(l)) /\ CopyTyped(Offline(l))
    /\ ServerTyped(server[l])
    /\ FieldsLogged(l)

\* Replaying gives the server's layer no more fields than the copy has.
LEMMA FieldsReplayed ==
    ASSUME NEW l \in Layers, Replayable(l), NEW c
    PROVE  /\ FieldsAt(l, c) \in 1..MaxFields
           /\ server[l].fields <= FieldsAt(l, c)
           /\ FieldsAt(l, c) <= table[l].fields
<1> DEFINE S == {k \in DOMAIN log[l].fields :
                    log[l].fields[k] <= c /\ log[l].fields[k] < commitNo}
<1>1. Rowids(DOMAIN log[l].fields)
  BY DEF Replayable, CopyTyped, LogTyped, Offline, Stored
<1>2. /\ IsFiniteSet(S) /\ Cardinality(S) \in Nat
      /\ IsFiniteSet(DOMAIN log[l].fields)
      /\ Cardinality(DOMAIN log[l].fields) \in Nat
  BY <1>1, RowidsFinite
<1>3. S \subseteq DOMAIN log[l].fields
  OBVIOUS
<1>4. FieldsAt(l, c) = server[l].fields + Cardinality(S)
  BY DEF FieldsAt
<1> HIDE DEF S
<1>5. Cardinality(S) <= Cardinality(DOMAIN log[l].fields)
  BY <1>2, <1>3, FS_Subset
<1>6. server[l].fields \in 1..MaxFields /\ table[l].fields \in 1..MaxFields
  BY DEF Replayable, CopyTyped, ServerTyped, Offline, Stored
<1>7. server[l].fields + Cardinality(DOMAIN log[l].fields) <= table[l].fields
  BY DEF Replayable, FieldsLogged
<1> QED BY <1>2, <1>4, <1>5, <1>6, <1>7, OfflineAssumption

\* A row of the server's layer stays the same feature and gets as many values
\* as there are fields, each of them a value that was logged or was there.
LEMMA ReplayedRowTyped ==
    ASSUME NEW l \in Layers, Replayable(l), NEW r \in DOMAIN server[l].rows
    PROVE  /\ ReplayedRow(l, r) \in Row(FieldsAt(l, commitNo))
           /\ ReplayedRow(l, r).name = server[l].rows[r].name
<1> DEFINE g == log[l]
           row == server[l].rows[r]
           F == FieldsAt(l, commitNo)
           valueRows(f) ==
              {k \in RowsToReplay(g.values) :
                  /\ RemoteFid(g, g.values[k].fid) = r
                  /\ AttributeLookup(FieldsAt(l, g.values[k].commit),
                                     g.values[k].field) = f}
           geomRows == {k \in RowsToReplay(g.geoms) :
                           RemoteFid(g, g.geoms[k].fid) = r}
           A == Values \cup {Null, EmptyText}
           attrs == [f \in 1..F |->
                IF valueRows(f) # {}
                THEN LastReplayed(g.values, valueRows(f)).value
                ELSE IF f \in DOMAIN row.attrs THEN row.attrs[f] ELSE Null]
           geom == IF geomRows # {}
                   THEN LastReplayed(g.geoms, geomRows).geom ELSE row.geom
<1>1. ReplayedRow(l, r) = [row EXCEPT !.attrs = attrs, !.geom = geom]
  BY DEF ReplayedRow
<1>2. row \in Row(server[l].fields)
  BY DEF Replayable, ServerTyped
<1>3. /\ LogTyped(g, table[l].fields)
      /\ commitNo \in Nat
  BY DEF Replayable, CopyTyped, Offline, Stored
<1>4. F \in Nat
  BY FieldsReplayed
<1>5. ASSUME NEW f \in 1..F, valueRows(f) # {}
      PROVE  LastReplayed(g.values, valueRows(f)).value \in A
  <2>1. /\ valueRows(f) \subseteq DOMAIN g.values
        /\ \A k \in valueRows(f) : g.values[k].commit < commitNo
    BY DEF RowsToReplay
  <2>2. Rowids(valueRows(f))
    BY <1>3, <2>1, SomeRowids DEF LogTyped
  <2>3. \A k \in valueRows(f) : /\ g.values[k].commit \in Nat
                                /\ g.values[k].value \in A
    BY <1>3, <2>1 DEF LogTyped, ValueRow
  <2> HIDE DEF valueRows
  <2>4. \E k \in valueRows(f) : LastReplayed(g.values, valueRows(f)) = g.values[k]
    BY <1>3, <1>5, <2>1, <2>2, <2>3, LastIsLogged
  <2> QED BY <2>3, <2>4
<1>6. geom \in Geometries
  <2>1. CASE geomRows = {}
    BY <1>2, <2>1 DEF Row
  <2>2. CASE geomRows # {}
    <3>1. /\ geomRows \subseteq DOMAIN g.geoms
          /\ \A k \in geomRows : g.geoms[k].commit < commitNo
      BY DEF RowsToReplay
    <3>2. Rowids(geomRows)
      BY <1>3, <3>1, SomeRowids DEF LogTyped
    <3>3. \A k \in geomRows : /\ g.geoms[k].commit \in Nat
                              /\ g.geoms[k].geom \in Geometries
      BY <1>3, <3>1 DEF LogTyped, GeomRow
    <3> HIDE DEF geomRows
    <3>4. \E k \in geomRows : LastReplayed(g.geoms, geomRows) = g.geoms[k]
      BY <1>3, <2>2, <3>1, <3>2, <3>3, LastIsLogged
    <3> QED BY <2>2, <3>3, <3>4
  <2> QED BY <2>1, <2>2
<1>7. attrs \in [1..F -> A]
  <2> SUFFICES ASSUME NEW f \in 1..F PROVE attrs[f] \in A
    OBVIOUS
  <2>1. \A h \in DOMAIN row.attrs : row.attrs[h] \in A
    BY <1>2 DEF Row
  <2> HIDE DEF A, valueRows, row
  <2> QED BY <1>5, <2>1 DEF A
<1> HIDE DEF attrs, geom, row, F, A
<1>8. [row EXCEPT !.attrs = attrs, !.geom = geom] \in Row(F)
  BY <1>2, <1>6, <1>7 DEF Row, A
<1>9. [row EXCEPT !.attrs = attrs, !.geom = geom].name = row.name
  BY <1>2 DEF Row
<1> QED BY <1>1, <1>8, <1>9 DEF F, row

\* The features to add are rows of the copy that the log has as added, each
\* once, with as many values as the server's layer has fields.
LEMMA RowsToAddTyped ==
    ASSUME NEW l \in Layers, Replayable(l)
    PROVE  LET new == RowsToAdd(l)
               added == DOMAIN table[l].rows \cap RowsIn(log[l].added)
           IN  /\ Len(new) \in Nat /\ DOMAIN new = 1..Len(new)
               /\ \A i \in 1..Len(new) :
                      /\ new[i] \in Row(FieldsAt(l, commitNo))
                      /\ \E k \in added : new[i].name = table[l].rows[k].name
               /\ InOrder(Offline(l)) =>
                    \A i, j \in 1..Len(new) :
                       i < j => \E h, k \in added :
                                   /\ h # k
                                   /\ new[i].name = table[l].rows[h].name
                                   /\ new[j].name = table[l].rows[k].name
<1> DEFINE g == log[l]
           rows == table[l].rows
           S == {k \in DOMAIN g.added : g.added[k] \in DOMAIN rows}
           keys == Ascending(S)
           F == FieldsAt(l, commitNo)
           A == Values \cup {Null, EmptyText}
           Attrs(row) == [f \in 1..F |->
                LET from == {h \in DOMAIN row.attrs : AttributeLookup(F, h) = f}
                IN  IF from = {} THEN Null
                    ELSE row.attrs[CHOOSE h \in from : \A i \in from : i <= h]]
           Copied(row) == [row EXCEPT !.attrs = Attrs(row)]
           new == RowsToAdd(l)
           n == Cardinality(S)
<1>1. new = [i \in DOMAIN keys |-> Copied(rows[g.added[keys[i]]])]
  BY DEF RowsToAdd
<1>2. Rowids(DOMAIN g.added)
  BY DEF Replayable, Good, Offline, Stored
<1>3. Rowids(S)
  BY <1>2, SomeRowids
<1>4. /\ DOMAIN keys = 1..n /\ n \in Nat
      /\ \A i \in 1..n : keys[i] \in S
      /\ \A i, j \in 1..n : i < j => keys[i] < keys[j]
  <2> HIDE DEF S
  <2> QED BY <1>3, AscendingOrder
<1>5. F \in Nat
  BY FieldsReplayed
<1>6. ASSUME NEW row \in Row(table[l].fields)
      PROVE  Copied(row) \in Row(F) /\ Copied(row).name = row.name
  <2>1. table[l].fields \in Nat
    BY OfflineAssumption DEF Replayable, CopyTyped, Offline, Stored
  <2>2. ASSUME NEW f \in 1..F PROVE Attrs(row)[f] \in A
    <3> DEFINE from == {h \in DOMAIN row.attrs : AttributeLookup(F, h) = f}
    <3>1. Attrs(row)[f] = IF from = {} THEN Null
              ELSE row.attrs[CHOOSE h \in from : \A i \in from : i <= h]
      OBVIOUS
    <3>2. DOMAIN row.attrs = 1..table[l].fields /\ \A h \in DOMAIN row.attrs : row.attrs[h] \in A
      BY DEF Row
    <3>3. from \subseteq DOMAIN row.attrs
      OBVIOUS
    <3> HIDE DEF from, Attrs, A
    <3>4. Rowids(from)
      BY <2>1, <3>2, <3>3 DEF Rowids
    <3>5. CASE from # {}
      <4>1. \E h \in from : \A i \in from : i <= h
        <5>1. PICK m \in {0} \cup from : \A k \in from : k <= m
          BY <3>4, GreatestRowid
        <5>2. PICK k \in from : k \in Nat \ {0} /\ k <= m
          BY <3>4, <3>5, <5>1 DEF Rowids
        <5>3. m # 0
          BY <5>2
        <5> QED BY <5>1, <5>3
      <4>2. (CHOOSE h \in from : \A i \in from : i <= h) \in from
        BY <4>1
      <4> QED BY <3>1, <3>2, <3>3, <3>5, <4>2
    <3>6. CASE from = {}
      BY <3>1, <3>6 DEF A
    <3> QED BY <3>5, <3>6
  <2>3. Attrs(row) \in [1..F -> A]
    <3>1. Attrs(row) = [f \in 1..F |-> Attrs(row)[f]]
      OBVIOUS
    <3> HIDE DEF Attrs
    <3> QED BY <2>2, <3>1
  <2> HIDE DEF Attrs
  <2> QED BY <2>3 DEF Row
<1>7. \A k \in DOMAIN rows : rows[k] \in Row(table[l].fields)
  BY DEF Replayable, CopyTyped, Offline, Stored
<1> HIDE DEF Copied, F
<1>8. DOMAIN new = 1..n /\ Len(new) = n
  BY <1>1, <1>4
<1>9. ASSUME NEW i \in 1..n
      PROVE  /\ g.added[keys[i]] \in DOMAIN rows
             /\ g.added[keys[i]] \in RowsIn(g.added)
             /\ new[i] \in Row(F)
             /\ new[i].name = rows[g.added[keys[i]]].name
  <2>1. keys[i] \in S
    BY <1>4
  <2>2. g.added[keys[i]] \in DOMAIN rows /\ g.added[keys[i]] \in RowsIn(g.added)
    BY <2>1 DEF RowsIn
  <2>3. new[i] = Copied(rows[g.added[keys[i]]])
    BY <1>1, <1>4
  <2> HIDE DEF new, keys, S, rows
  <2> QED BY <1>6, <1>7, <2>2, <2>3
<1>10. ASSUME InOrder(Offline(l)), NEW i \in 1..n, NEW j \in 1..n, i < j
       PROVE  g.added[keys[i]] # g.added[keys[j]]
  <2>1. keys[i] \in DOMAIN g.added /\ keys[j] \in DOMAIN g.added /\ keys[i] < keys[j]
    BY <1>4, <1>10
  <2>2. g.added[keys[i]] < g.added[keys[j]]
    BY <1>10, <2>1 DEF InOrder, Offline, Stored
  <2>3. g.added[keys[i]] \in Nat /\ g.added[keys[j]] \in Nat
    <3>1. g.added[keys[i]] \in DOMAIN rows /\ g.added[keys[j]] \in DOMAIN rows
      BY <1>9
    <3> QED BY <3>1 DEF Replayable, Good, Rowids, Offline, Stored
  <2> QED BY <2>2, <2>3
<1> HIDE DEF new, keys, S, rows, g
<1>11. \A i \in 1..n : /\ new[i] \in Row(F)
                       /\ \E k \in DOMAIN rows \cap RowsIn(g.added) :
                              new[i].name = rows[k].name
  BY <1>9
<1>12. InOrder(Offline(l)) =>
          \A i, j \in 1..n :
              i < j => \E h, k \in DOMAIN rows \cap RowsIn(g.added) :
                          /\ h # k
                          /\ new[i].name = rows[h].name
                          /\ new[j].name = rows[k].name
  BY <1>9, <1>10
<1> QED BY <1>4, <1>8, <1>11, <1>12 DEF new, rows, g, F

\* The server's layer after the replay: its rows fit its fields, and no two of
\* them are the same feature.
LEMMA ReplayedTyped ==
    ASSUME NEW l \in Layers, Replayable(l)
    PROVE  /\ ServerTyped(Replayed(l))
           /\ Replayed(l).fields <= table[l].fields
           /\ \A N \in Nat :
                  /\ InOrder(Offline(l))
                  /\ NamesApart(server[l].rows, N)
                  /\ NamesApart(table[l].rows, N)
                  /\ NotYetThere(Offline(l), server[l].rows)
                  => NamesApart(Replayed(l).rows, N)
<1> DEFINE new == RowsToAdd(l)
           next == server[l].nextFid
           n == Len(new)
           kept == DOMAIN server[l].rows \ RemovedOnServer(l)
           ids == next..(next + n - 1)
           F == FieldsAt(l, commitNo)
           rows == [r \in kept \cup ids |->
                      IF r \in kept THEN ReplayedRow(l, r) ELSE new[r - next + 1]]
           added == DOMAIN table[l].rows \cap RowsIn(log[l].added)
<1>1. Replayed(l) = [fields |-> F, nextFid |-> next + n, rows |-> rows]
  BY DEF Replayed
<1>2. /\ n \in Nat
      /\ \A i \in 1..n : /\ new[i] \in Row(F)
                         /\ \E k \in added : new[i].name = table[l].rows[k].name
      /\ InOrder(Offline(l)) =>
           \A i, j \in 1..n :
               i < j => \E h, k \in added : /\ h # k
                                            /\ new[i].name = table[l].rows[h].name
                                            /\ new[j].name = table[l].rows[k].name
  BY RowsToAddTyped
<1>3. /\ next \in Nat \ {0}
      /\ \A r \in DOMAIN server[l].rows : r \in 1..(next - 1)
  BY DEF Replayable, ServerTyped
<1>4. /\ F \in 1..MaxFields /\ F <= table[l].fields
  BY FieldsReplayed
<1>5. \A r \in kept : /\ r \in DOMAIN server[l].rows
                      /\ ReplayedRow(l, r) \in Row(F)
                      /\ ReplayedRow(l, r).name = server[l].rows[r].name
  BY ReplayedRowTyped
<1> HIDE DEF new, n, next, kept, F, added
<1>6. \A r \in ids : r - next + 1 \in 1..n /\ r \in 1..(next + n - 1)
  BY <1>2, <1>3
<1>7. \A r \in kept : r \in 1..(next + n - 1) /\ r \notin ids
  BY <1>2, <1>3, <1>5
<1>8. ASSUME NEW r \in ids
      PROVE  rows[r] = new[r - next + 1]
  BY <1>7
<1>9. \A r \in kept : rows[r] = ReplayedRow(l, r)
  OBVIOUS
<1>10. DOMAIN rows = kept \cup ids
  OBVIOUS
<1> HIDE DEF rows, ids
<1>11. \A r \in DOMAIN rows : rows[r] \in Row(F)
  BY <1>2, <1>5, <1>6, <1>8, <1>9, <1>10
<1>12. ASSUME NEW N \in Nat, InOrder(Offline(l)), NamesApart(server[l].rows, N),
              NamesApart(table[l].rows, N), NotYetThere(Offline(l), server[l].rows)
       PROVE  NamesApart(rows, N)
  <2>1. \A r \in kept : /\ rows[r].name = server[l].rows[r].name
                        /\ r \in DOMAIN server[l].rows
    BY <1>5, <1>9
  <2>2. \A r \in ids : \E k \in added : rows[r].name = table[l].rows[k].name
    BY <1>2, <1>6, <1>8
  <2>3. \A r \in DOMAIN rows : rows[r].name < N
    BY <1>10, <1>12, <2>1, <2>2 DEF NamesApart, added
  <2>4. \A r \in kept, q \in ids : rows[r].name # rows[q].name
    <3> TAKE r \in kept, q \in ids
    <3>1. PICK k \in added : rows[q].name = table[l].rows[k].name
      BY <2>2
    <3>2. server[l].rows[r].name # table[l].rows[k].name
      BY <1>12, <2>1 DEF NotYetThere, Offline, Stored, added
    <3> QED BY <2>1, <3>1, <3>2
  <2>5. \A r, q \in ids : r < q => rows[r].name # rows[q].name
    <3> SUFFICES ASSUME NEW r \in ids, NEW q \in ids, r < q
                 PROVE  rows[r].name # rows[q].name
      OBVIOUS
    <3>1. /\ r - next + 1 \in 1..n /\ q - next + 1 \in 1..n
      BY <1>6
    <3>2. r - next + 1 < q - next + 1
      BY <1>3, <1>2 DEF ids
    <3>3. PICK h \in added, k \in added :
              /\ h # k
              /\ new[r - next + 1].name = table[l].rows[h].name
              /\ new[q - next + 1].name = table[l].rows[k].name
      BY <1>2, <1>12, <3>1, <3>2
    <3>4. table[l].rows[h].name # table[l].rows[k].name
      BY <1>12, <3>3 DEF NamesApart, added
    <3> QED BY <1>8, <3>3, <3>4
  <2>6. ASSUME NEW r \in DOMAIN rows, NEW q \in DOMAIN rows,
               rows[r].name = rows[q].name
        PROVE  r = q
    <3>1. CASE r \in kept /\ q \in kept
      BY <1>12, <2>1, <2>6, <3>1 DEF NamesApart
    <3>2. CASE (r \in kept /\ q \in ids) \/ (r \in ids /\ q \in kept)
      BY <2>4, <2>6, <3>2
    <3>3. CASE r \in ids /\ q \in ids
      <4>1. ~(r < q) /\ ~(q < r)
        BY <2>5, <2>6, <3>3
      <4>2. r \in Int /\ q \in Int
        BY <3>3 DEF ids
      <4> QED BY <4>1, <4>2
    <3> QED BY <1>10, <3>1, <3>2, <3>3
  <2> QED BY <2>3, <2>6 DEF NamesApart
<1>13. \A r \in DOMAIN rows : r \in 1..(next + n - 1)
  <2> TAKE r \in DOMAIN rows
  <2>1. r \in kept \/ r \in ids
    BY <1>10
  <2> QED BY <1>6, <1>7, <2>1
<1>14. next + n \in Nat \ {0}
  BY <1>2, <1>3
<1>15. ServerTyped(Replayed(l))
  <2>1. /\ Replayed(l).fields = F /\ Replayed(l).rows = rows
        /\ Replayed(l).nextFid = next + n
    BY <1>1
  <2>2. \A r \in DOMAIN rows : r \in 1..((next + n) - 1)
    BY <1>2, <1>3, <1>13
  <2> QED BY <1>4, <1>11, <1>14, <2>1, <2>2 DEF ServerTyped
<1>16. Replayed(l).fields <= table[l].fields
  BY <1>1, <1>4
<1>17. Replayed(l).rows = rows
  BY <1>1
<1> QED BY <1>12, <1>15, <1>16, <1>17

-----------------------------------------------------------------------------
(* The invariant.                                                          *)

Taken(l) == CopyTyped(Offline(l)) /\ FieldsLogged(l)

NotTaken(l) == table[l] = NoRows /\ log[l] = EmptyLog

TableTyped(t) ==
    /\ t.fields \in 0..MaxFields
    /\ \A k \in DOMAIN t.rows : k > 0 /\ t.rows[k] \in Row(t.fields)

LayerTyped(l) ==
    /\ ServerTyped(server[l])
    /\ Taken(l) \/ NotTaken(l)
    /\ TableTyped(base[l])

LayerNames(l) ==
    /\ NamesApart(server[l].rows, nextName)
    /\ NamesApart(table[l].rows, nextName)
    /\ NotYetThere(Offline(l), server[l].rows)

Projects == [layers : SUBSET Layers, entry : BOOLEAN]

OthersTyped ==
    /\ base = [l \in Layers |-> base[l]]
    /\ commitNo \in Nat /\ nextName \in Nat
    /\ project \in Projects /\ saved \in Projects
    /\ \A l \in project.layers \cup saved.layers : Taken(l)
    /\ syncing \in Seq(project.layers)
    /\ \A i, j \in DOMAIN syncing : syncing[i] = syncing[j] => i = j
    /\ disconnected \subseteq project.layers

\* The inductive invariant.
TInv ==
    /\ IInv
    /\ OthersTyped
    /\ \A l \in Layers : LayerTyped(l)
    /\ \A l \in Layers \ unlogged : LayerNames(l)

\* A new feature fits the fields it is made for.
LEMMA FeatureTyped ==
    ASSUME NEW name \in Nat, NEW fields \in Nat
    PROVE  Feature(name, fields) \in Row(fields) /\ Feature(name, fields).name = name
<1>1. FirstValue \in Values /\ FirstGeometry \in Geometries
  BY OfflineAssumption DEF FirstValue, FirstGeometry
<1> QED BY <1>1 DEF Feature, Row

\* Logs that have no rows yet.
LEMMA EmptyLogTyped ==
    ASSUME NEW fields, NEW fids, Rowids(DOMAIN fids)
    PROVE  LET g == [EmptyLog EXCEPT !.fids = fids] IN
           /\ LogTyped(g, fields)
           /\ g.fids = fids /\ Cardinality(DOMAIN g.fields) = 0
           /\ RowsIn(g.added) = {}
<1> DEFINE g == [EmptyLog EXCEPT !.fids = fids]
<1>1. /\ g.added = EmptyTable /\ g.fields = EmptyTable /\ g.values = EmptyTable
      /\ g.geoms = EmptyTable /\ g.fids = fids
  BY DEF EmptyLog
<1> HIDE DEF g
<1>2. DOMAIN EmptyTable = {}
  BY DEF EmptyTable
<1>3. Rowids({}) /\ Cardinality({}) = 0
  BY FS_EmptySet DEF Rowids
<1>4. LogTyped(g, fields)
  BY <1>1, <1>2, <1>3 DEF LogTyped
<1>5. Cardinality(DOMAIN g.fields) = 0
  BY <1>1, <1>2, <1>3
<1>6. RowsIn(g.added) = {}
  BY <1>1, <1>2 DEF RowsIn
<1> QED BY <1>1, <1>4, <1>5, <1>6 DEF g

\* A layer that is not offline has no rows and no log.
LEMMA NoRowsTyped ==
    /\ DOMAIN NoRows.rows = {} /\ NoRows.fields = 0 /\ TableTyped(NoRows)
    /\ DOMAIN EmptyLog.fids = {} /\ DOMAIN EmptyLog.values = {}
<1>1. NoRows.rows = EmptyTable /\ NoRows.fields = 0
  BY DEF NoRows
<1>2. EmptyLog.fids = EmptyTable /\ EmptyLog.values = EmptyTable
  BY DEF EmptyLog
<1>3. DOMAIN EmptyTable = {}
  BY DEF EmptyTable
<1> QED BY <1>1, <1>2, <1>3, OfflineAssumption DEF TableTyped

\* The table of a copy is well typed.
LEMMA CopyTable ==
    ASSUME NEW t, NEW g, NEW c, Good(Stored(t, g, c)), CopyTyped(Stored(t, g, c))
    PROVE  TableTyped(t)
<1>1. /\ t.fields \in 1..MaxFields
      /\ \A k \in DOMAIN t.rows : t.rows[k] \in Row(t.fields)
      /\ Rowids(DOMAIN t.rows)
  BY DEF CopyTyped, Good, Stored
<1> QED BY <1>1, OfflineAssumption DEF TableTyped, Rowids

\* The invariant holds at first.
LEMMA InitTInv == Init => TInv
<1> SUFFICES ASSUME Init PROVE TInv
  OBVIOUS
<1>1. IInv
  BY InitIInv
<1>2. \A l \in Layers : NotTaken(l)
  BY DEF Init, NotTaken
<1>3. OthersTyped
  <2>1. <<>> \in Seq({}) /\ DOMAIN <<>> = {}
    OBVIOUS
  <2>2. NothingOffline \in Projects /\ NothingOffline.layers = {}
    BY DEF NothingOffline, Projects
  <2>3. StoredRows + 1 \in Nat
    BY OfflineAssumption
  <2> QED BY <2>1, <2>2, <2>3 DEF Init, OthersTyped
<1>4. ASSUME NEW l \in Layers PROVE LayerTyped(l) /\ LayerNames(l)
  <2>1. server[l] = [fields |-> 1, nextFid |-> StoredRows + 1,
                     rows |-> [r \in 1..StoredRows |-> Feature(r, 1)]]
    BY DEF Init
  <2>2. /\ server[l].fields = 1 /\ server[l].nextFid = StoredRows + 1
        /\ server[l].rows = [r \in 1..StoredRows |-> Feature(r, 1)]
    BY <2>1
  <2>3. \A r \in 1..StoredRows : Feature(r, 1) \in Row(1) /\ Feature(r, 1).name = r
    BY FeatureTyped
  <2>4. StoredRows \in Nat /\ MaxFields \in Nat \ {0}
    BY OfflineAssumption
  <2>5. ServerTyped(server[l])
    BY <2>2, <2>3, <2>4 DEF ServerTyped
  <2>6. nextName = StoredRows + 1
    BY DEF Init
  <2>7. NamesApart(server[l].rows, nextName)
    BY <2>2, <2>3, <2>4, <2>6 DEF NamesApart
  <2>8. base[l] = table[l]
    BY DEF Init
  <2> QED BY <1>2, <2>5, <2>7, <2>8, NoRowsTyped
        DEF LayerTyped, LayerNames, NamesApart, NotYetThere, Offline, Stored, NotTaken
<1> QED BY <1>1, <1>3, <1>4 DEF TInv

\* The rows of a new copy are those of the server's layer.
LEMMA CopyRows ==
    ASSUME NEW S, IsFiniteSet(S), NEW rows, NEW order \in Orders(S)
    PROVE  LET copy == CopyOf(rows, order) IN
           /\ Rowids(DOMAIN copy.rows) /\ Rowids(DOMAIN copy.fids)
           /\ \A k \in DOMAIN copy.rows :
                  order[k] \in S /\ copy.rows[k] = rows[order[k]]
           /\ \A j, k \in DOMAIN copy.rows : order[j] = order[k] => j = k
<1> DEFINE n == Len(order)
           read == [i \in 1..n |-> rows[order[i]]]
           pairs == PairsInOrder([i \in 1..n |-> i],
                                 [i \in 1..n |-> order[n + 1 - i]])
           copy == CopyOf(rows, order)
<1>1. /\ n \in Nat /\ DOMAIN order = 1..n
      /\ \A i \in 1..n : order[i] \in S
      /\ \A i, j \in 1..n : order[i] = order[j] => i = j
  <2>1. Cardinality(S) \in Nat
    BY FS_CardinalityType
  <2>2. /\ order \in [1..Cardinality(S) -> S]
        /\ \A i, j \in DOMAIN order : order[i] = order[j] => i = j
    BY DEF Orders
  <2> QED BY <2>1, <2>2
<1>2. copy.rows = InsertAll(EmptyTable, read) /\ copy.fids = InsertAll(EmptyTable, pairs)
  BY DEF CopyOf
<1> HIDE DEF n
<1>3. Len(read) = n /\ Len(pairs) = n
  BY <1>1 DEF PairsInOrder
<1>4. DOMAIN EmptyTable = {} /\ Rowids({})
  BY DEF EmptyTable, Rowids
<1>5. NextRowid(EmptyTable) = 1
  BY <1>4 DEF NextRowid
<1> HIDE DEF copy, pairs
<1>6. Rowids(DOMAIN copy.rows) /\ Rowids(DOMAIN copy.fids)
  <2> HIDE DEF read
  <2>1. Rowids(DOMAIN InsertAll(EmptyTable, read))
    BY <1>1, <1>3, <1>4, Inserted
  <2>2. Rowids(DOMAIN InsertAll(EmptyTable, pairs))
    BY <1>1, <1>3, <1>4, Inserted
  <2> QED BY <1>2, <2>1, <2>2
<1>7. copy.rows = [k \in 1..n |-> rows[order[k]]]
  <2>1. InsertAll(EmptyTable, read) = [k \in {} \cup 1..(1 + n - 1) |->
            IF k \in {} THEN EmptyTable[k] ELSE read[k - 1 + 1]]
    BY <1>3, <1>4, <1>5 DEF InsertAll
  <2>2. \A k \in 1..n : read[k - 1 + 1] = rows[order[k]]
    BY <1>1
  <2>3. 1..(1 + n - 1) = 1..n
    BY <1>1
  <2> HIDE DEF read
  <2> QED BY <1>2, <2>1, <2>2, <2>3
<1> QED BY <1>1, <1>6, <1>7 DEF copy

\* Taking layers offline keeps the invariant.
LEMMA ConvertTyped == TInv /\ ConvertToOfflineProject => TInv'
<1> SUFFICES ASSUME TInv, ConvertToOfflineProject PROVE TInv'
  OBVIOUS
<1>1. IInv'
  BY ConvertPreserves DEF TInv
<1>2. PICK taken \in SUBSET Layers \ {{}} :
      \E copies \in [taken -> UNION {Orders(DOMAIN server[l].rows) : l \in taken}] :
          LET CopyOfLayer(l) == CopyOf(server[l].rows, copies[l])
          IN  /\ \A l \in taken : copies[l] \in Orders(DOMAIN server[l].rows)
              /\ table' = [l \in Layers |->
                    IF l \in taken THEN [fields |-> server[l].fields,
                                         rows |-> CopyOfLayer(l).rows]
                    ELSE NoRows]
              /\ log' = [l \in Layers |->
                    IF l \in taken
                    THEN [EmptyLog EXCEPT !.fids = CopyOfLayer(l).fids]
                    ELSE EmptyLog]
              /\ commitNo' = 0
              /\ project' = [layers |-> taken, entry |-> TRUE]
              /\ base' = table'
  BY DEF ConvertToOfflineProject
<1>3. PICK copies :
          /\ \A l \in taken : copies[l] \in Orders(DOMAIN server[l].rows)
          /\ table' = [l \in Layers |->
                IF l \in taken THEN [fields |-> server[l].fields,
                                     rows |-> CopyOf(server[l].rows, copies[l]).rows]
                ELSE NoRows]
          /\ log' = [l \in Layers |->
                IF l \in taken
                THEN [EmptyLog EXCEPT !.fids = CopyOf(server[l].rows, copies[l]).fids]
                ELSE EmptyLog]
          /\ commitNo' = 0
          /\ project' = [layers |-> taken, entry |-> TRUE]
          /\ base' = table'
  BY <1>2
<1>4. /\ UNCHANGED <<server, saved, syncing, nextName, unlogged, disconnected>>
      /\ syncing = <<>> /\ saved = NothingOffline /\ project.layers = {}
  BY DEF ConvertToOfflineProject
<1>5. ASSUME NEW l \in taken
      PROVE  /\ Taken(l)'
             /\ LayerNames(l) => LayerNames(l)'
  <2> DEFINE copy == CopyOf(server[l].rows, copies[l])
             g == [EmptyLog EXCEPT !.fids = copy.fids]
             order == copies[l]
             rows == server[l].rows
  <2>1. Offline(l)' = Stored([fields |-> server[l].fields, rows |-> copy.rows], g, 0)
    BY <1>3, <1>5 DEF Offline
  <2>2. IsFiniteSet(DOMAIN rows) /\ order \in Orders(DOMAIN rows)
    BY <1>3 DEF TInv, IInv, ServerShape
  <2> HIDE DEF rows, order
  <2>3. /\ Rowids(DOMAIN copy.rows) /\ Rowids(DOMAIN copy.fids)
        /\ \A k \in DOMAIN copy.rows :
               order[k] \in DOMAIN rows /\ copy.rows[k] = rows[order[k]]
        /\ \A j, k \in DOMAIN copy.rows : order[j] = order[k] => j = k
    BY <2>2, CopyRows DEF rows, order
  <2> HIDE DEF copy
  <2>4. /\ LogTyped(g, server[l].fields) /\ g.fids = copy.fids
        /\ Cardinality(DOMAIN g.fields) = 0 /\ RowsIn(g.added) = {}
    BY <2>3, EmptyLogTyped
  <2> HIDE DEF g
  <2>5. ServerTyped(server[l])
    BY DEF TInv, LayerTyped
  <2>6. CopyTyped(Offline(l)')
    <3>1. \A k \in DOMAIN copy.rows : copy.rows[k] \in Row(server[l].fields)
      BY <2>3, <2>5 DEF ServerTyped, rows
    <3> QED BY <2>1, <2>4, <2>5, <3>1 DEF CopyTyped, Stored, ServerTyped
  <2>7. /\ table'[l].fields = server[l].fields /\ table'[l].rows = copy.rows
        /\ log'[l] = g
    BY <1>3, <1>5 DEF copy, g
  <2>8. FieldsLogged(l)'
    <3>1. server[l].fields \in Nat
      BY <2>5, OfflineAssumption DEF ServerTyped
    <3> QED BY <1>4, <2>4, <2>7, <3>1 DEF FieldsLogged
  <2>9. ASSUME LayerNames(l) PROVE LayerNames(l)'
    <3>1. NamesApart(server[l].rows, nextName)
      BY <2>9 DEF LayerNames
    <3>2. NamesApart(copy.rows, nextName)
      BY <2>3, <3>1 DEF NamesApart, rows
    <3>3. NotYetThere(Offline(l)', server'[l].rows)
      BY <2>1, <2>4 DEF NotYetThere, Stored
    <3> QED BY <1>4, <2>7, <3>1, <3>2, <3>3 DEF LayerNames
  <2> QED BY <2>6, <2>8, <2>9 DEF Taken
<1>6. ASSUME NEW l \in Layers, l \notin taken
      PROVE  /\ NotTaken(l)'
             /\ LayerNames(l) => LayerNames(l)'
  <2>1. NotTaken(l)'
    BY <1>3, <1>6 DEF NotTaken
  <2>2. DOMAIN table'[l].rows = {}
    BY <2>1, NoRowsTyped DEF NotTaken
  <2> QED BY <1>4, <2>1, <2>2 DEF LayerNames, NamesApart, NotYetThere, Offline, Stored
<1>7. ASSUME NEW l \in Layers PROVE LayerTyped(l)'
  <2>1. ServerTyped(server[l])'
    BY <1>4 DEF TInv, LayerTyped
  <2>2. TableTyped(table'[l])
    <3>1. CASE l \in taken
      <4>1. Good(Offline(l)') /\ CopyTyped(Offline(l)')
        BY <1>1, <1>5, <3>1 DEF IInv, OfflineShape, Taken
      <4> QED BY <4>1, CopyTable DEF Offline
    <3>2. CASE l \notin taken
      BY <1>6, <3>2, NoRowsTyped DEF NotTaken
    <3> QED BY <3>1, <3>2
  <2>3. base'[l] = table'[l]
    BY <1>3
  <2> QED BY <1>5, <1>6, <2>1, <2>2, <2>3 DEF LayerTyped
<1>8. OthersTyped'
  <2>1. /\ nextName \in Nat /\ saved \in Projects /\ saved.layers = {}
        /\ disconnected = {}
    BY <1>4 DEF TInv, OthersTyped, NothingOffline
  <2>2. /\ base' = [l \in Layers |-> base'[l]]
        /\ commitNo' = 0 /\ project' = [layers |-> taken, entry |-> TRUE]
    BY <1>3
  <2>3. <<>> \in Seq(taken) /\ DOMAIN <<>> = {}
    OBVIOUS
  <2> QED BY <1>4, <1>5, <2>1, <2>2, <2>3 DEF OthersTyped, Projects
<1>9. ASSUME NEW l \in Layers \ unlogged' PROVE LayerNames(l)'
  <2>1. LayerNames(l)
    BY <1>4, <1>9 DEF TInv
  <2> QED BY <1>5, <1>6, <2>1
<1> QED BY <1>1, <1>7, <1>8, <1>9 DEF TInv

\* What a commit of an offline layer stores is a session that fits the layer.
LEMMA CommitIsSession ==
    ASSUME NEW l \in Layers, Good(Offline(l)), CopyTyped(Offline(l)),
           nextName \in Nat, CommitOffline(l)
    PROVE  \E s : LET after == Committed(Offline(l), s, IsLogging(l)) IN
               /\ SessionTyped(s, table[l].fields)
               /\ \A i \in 1..Len(s.added) : s.added[i].name = nextName + i - 1
               /\ table' = [table EXCEPT ![l] =
                               [fields |-> after.fields, rows |-> after.rows]]
               /\ log' = [log EXCEPT ![l] = after.log]
               /\ commitNo' = after.commitNo
               /\ nextName' = nextName + Len(s.added)
<1> DEFINE F == table[l].fields
           Session(newFields, values, geoms, deleted, added) ==
             [newFields |-> newFields, values |-> values,
              deleted |-> deleted, geoms |-> geoms,
              added |-> [i \in 1..added |-> Feature(nextName + i - 1, F + newFields)]]
           before == [fields |-> table[l].fields, rows |-> table[l].rows,
                      log |-> log[l], commitNo |-> commitNo]
           Stores(s, added) ==
             LET after == Committed(before, s, IsLogging(l))
             IN  /\ table' = [table EXCEPT ![l] =
                                 [fields |-> after.fields, rows |-> after.rows]]
                 /\ log' = [log EXCEPT ![l] = after.log]
                 /\ commitNo' = after.commitNo
                 /\ nextName' = nextName + added
           Done(newFields, values, geoms, deleted, added) ==
             LET fields == table[l].fields + newFields
                 after == Committed(before,
                     [newFields |-> newFields, values |-> values,
                      deleted |-> deleted, geoms |-> geoms,
                      added |-> [i \in 1..added |->
                                   Feature(nextName + i - 1, fields)]],
                     IsLogging(l))
             IN  /\ after # before
                 /\ table' = [table EXCEPT ![l] =
                                 [fields |-> after.fields, rows |-> after.rows]]
                 /\ log' = [log EXCEPT ![l] = after.log]
                 /\ commitNo' = after.commitNo
                 /\ nextName' = nextName + added
<1>1. \E newFields \in 0..(IF table[l].fields < MaxFields THEN 1 ELSE 0) :
      \E edited \in {E \in SUBSET DOMAIN table[l].rows : Cardinality(E) <= MaxEdited} :
      \E values \in PartialFunctions(edited,
             [field : 1..(table[l].fields + newFields), value : Values \cup {Null}]),
         geoms \in PartialFunctions(edited, Geometries),
         deleted \in SUBSET edited,
         added \in 0..MaxAdded :
           Done(newFields, values, geoms, deleted, added)
  BY Zenon DEF CommitOffline
<1> HIDE DEF Done
<1>3. PICK newFields \in 0..(IF table[l].fields < MaxFields THEN 1 ELSE 0),
           edited \in {E \in SUBSET DOMAIN table[l].rows : Cardinality(E) <= MaxEdited} :
      \E values \in PartialFunctions(edited,
             [field : 1..(table[l].fields + newFields), value : Values \cup {Null}]),
         geoms \in PartialFunctions(edited, Geometries),
         deleted \in SUBSET edited,
         added \in 0..MaxAdded :
           Done(newFields, values, geoms, deleted, added)
  BY <1>1
<1>4. PICK values \in PartialFunctions(edited,
               [field : 1..(table[l].fields + newFields), value : Values \cup {Null}]),
           geoms \in PartialFunctions(edited, Geometries),
           deleted \in SUBSET edited,
           added \in 0..MaxAdded :
           Done(newFields, values, geoms, deleted, added)
  BY <1>3
<1> DEFINE s == Session(newFields, values, geoms, deleted, added)
<1>5. Stores(s, added)
  BY <1>4, Zenon DEF Done
<1> HIDE DEF Stores
<1>6. /\ s.newFields = newFields /\ s.values = values /\ s.geoms = geoms
      /\ s.added = [i \in 1..added |-> Feature(nextName + i - 1, F + newFields)]
  OBVIOUS
<1> HIDE DEF s, Session
<1>7. /\ newFields \in Nat /\ F \in Nat /\ F + newFields <= MaxFields
      /\ added \in Nat
  <2>1. F \in 1..MaxFields
    BY DEF CopyTyped, Offline, Stored
  <2> QED BY <2>1, OfflineAssumption
<1>8. /\ Rowids(DOMAIN values) /\ Rowids(DOMAIN geoms)
      /\ \A k \in DOMAIN values :
             values[k] \in [field : 1..(F + newFields), value : Values \cup {Null}]
      /\ \A k \in DOMAIN geoms : geoms[k] \in Geometries
  <2>1. Rowids(edited)
    BY SomeRowids DEF Good, Offline, Stored
  <2>2. PICK D \in SUBSET edited :
            values \in [D -> [field : 1..(F + newFields), value : Values \cup {Null}]]
    BY DEF PartialFunctions
  <2>3. PICK E \in SUBSET edited : geoms \in [E -> Geometries]
    BY DEF PartialFunctions
  <2>4. DOMAIN values \subseteq edited /\ DOMAIN geoms \subseteq edited
    BY <2>2, <2>3
  <2>5. Rowids(DOMAIN values) /\ Rowids(DOMAIN geoms)
    BY <2>1, <2>4, SomeRowids
  <2> QED BY <2>2, <2>3, <2>5
<1>9. /\ Len(s.added) = added
      /\ \A i \in 1..added : /\ s.added[i] \in Row(F + newFields)
                             /\ s.added[i].name = nextName + i - 1
  <2>1. \A i \in 1..added : /\ Feature(nextName + i - 1, F + newFields) \in Row(F + newFields)
                            /\ Feature(nextName + i - 1, F + newFields).name
                                   = nextName + i - 1
    <3> TAKE i \in 1..added
    <3>1. nextName + i - 1 \in Nat /\ F + newFields \in Nat
      BY <1>7
    <3> QED BY <3>1, FeatureTyped
  <2> QED BY <1>6, <1>7, <2>1
<1>10. SessionTyped(s, F)
  BY <1>6, <1>7, <1>8, <1>9 DEF SessionTyped
<1>11. before = Offline(l)
  BY DEF Offline, Stored
<1> HIDE DEF before
<1> WITNESS s
<1> QED BY <1>5, <1>9, <1>10, <1>11 DEF Stores

\* A commit of an offline layer keeps the invariant: the features it adds are
\* new, and there is room for what it logs.
LEMMA CommitTyped ==
    ASSUME NEW l \in Layers, TInv, CommitOffline(l)
    PROVE  TInv'
<1>1. IInv'
  BY CommitPreserves DEF TInv
<1>2. l \in project.layers /\ Taken(l) /\ Good(Offline(l)) /\ IsLogging(l) \in BOOLEAN
  BY DEF CommitOffline, TInv, OthersTyped, IInv, OfflineShape, IsLogging
<1>3. PICK s : LET after == Committed(Offline(l), s, IsLogging(l)) IN
               /\ SessionTyped(s, table[l].fields)
               /\ \A i \in 1..Len(s.added) : s.added[i].name = nextName + i - 1
               /\ table' = [table EXCEPT ![l] =
                               [fields |-> after.fields, rows |-> after.rows]]
               /\ log' = [log EXCEPT ![l] = after.log]
               /\ commitNo' = after.commitNo
               /\ nextName' = nextName + Len(s.added)
  BY <1>2, CommitIsSession DEF Taken, TInv, OthersTyped
<1> DEFINE t == Offline(l)
           after == Committed(t, s, IsLogging(l))
           n == Len(s.added)
<1>4. /\ UNCHANGED <<server, project, saved, syncing, base>>
      /\ unlogged' = IF IsLogging(l) THEN unlogged ELSE unlogged \cup {l}
      /\ disconnected' \subseteq disconnected
  BY DEF CommitOffline
<1>5. t.fields = table[l].fields /\ t.rows = table[l].rows /\ t.log = log[l]
  BY DEF Offline, Stored
<1>6. /\ CopyTyped(after)
      /\ after.fields = t.fields + s.newFields
      /\ Cardinality(DOMAIN after.log.fields)
             = Cardinality(DOMAIN t.log.fields)
                   + (IF IsLogging(l) THEN s.newFields ELSE 0)
      /\ \A N \in Nat : \A there :
             /\ \A i \in 1..n : s.added[i].name = N + i - 1
             /\ NamesApart(t.rows, N) /\ NotYetThere(t, there)
             /\ \A r \in DOMAIN there : there[r].name < N
             => NamesApart(after.rows, N + n) /\ NotYetThere(after, there)
  <2> HIDE DEF t
  <2>1. SessionTyped(s, t.fields)
    BY <1>3, <1>5
  <2> QED BY <1>2, <2>1, CommittedTyped DEF Taken, t
<1>7. n \in Nat /\ s.newFields \in Nat /\ nextName \in Nat
  BY <1>3 DEF SessionTyped, TInv, OthersTyped
<1>8. Good(after)
  BY <1>2, <1>7, CommittedPreserves
<1> HIDE DEF t, after, n
<1>9. /\ table'[l] = [fields |-> after.fields, rows |-> after.rows]
      /\ log'[l] = after.log /\ commitNo' = after.commitNo
      /\ Offline(l)' = after
  <2>1. /\ table'[l] = [fields |-> after.fields, rows |-> after.rows]
        /\ log'[l] = after.log /\ commitNo' = after.commitNo
    BY <1>3 DEF after, t, TInv, IInv, OfflineShape
  <2>2. after = [x \in {"fields", "rows", "log", "commitNo"} |-> after[x]]
    BY <1>8 DEF Good, Shaped
  <2>3. Offline(l)' = [fields |-> after.fields, rows |-> after.rows,
                       log |-> after.log, commitNo |-> after.commitNo]
    BY <2>1 DEF Offline, Stored
  <2> QED BY <2>1, <2>2, <2>3
<1>10. commitNo' \in Nat /\ nextName' = nextName + n /\ nextName' \in Nat
  BY <1>3, <1>6, <1>7, <1>9 DEF CopyTyped, n
<1>11. Taken(l)'
  <2>1. FieldsLogged(l)
    BY <1>2 DEF Taken
  <2>2. /\ server[l].fields \in Nat /\ table[l].fields \in Nat
    BY <1>2, OfflineAssumption
       DEF TInv, LayerTyped, ServerTyped, Taken, CopyTyped, Offline, Stored
  <2>3. Cardinality(DOMAIN t.log.fields) \in Nat
    BY <1>2, RowidsFinite DEF Taken, CopyTyped, LogTyped, t
  <2>4. server[l].fields + Cardinality(DOMAIN after.log.fields) <= after.fields
    BY <1>5, <1>6, <1>7, <2>1, <2>2, <2>3 DEF FieldsLogged
  <2>5. FieldsLogged(l)'
    BY <1>4, <1>9, <2>4 DEF FieldsLogged
  <2> QED BY <1>6, <1>9, <2>5 DEF Taken
<1>12. ASSUME NEW m \in Layers, m # l
       PROVE  /\ table'[m] = table[m] /\ log'[m] = log[m]
              /\ Taken(m) => Taken(m)'
              /\ NotTaken(m) => NotTaken(m)'
  <2>1. table'[m] = table[m] /\ log'[m] = log[m]
    BY <1>3, <1>12 DEF TInv, IInv, OfflineShape
  <2> QED BY <1>4, <1>10, <2>1
        DEF Taken, NotTaken, CopyTyped, FieldsLogged, Offline, Stored
<1>13. ASSUME NEW m \in Layers PROVE LayerTyped(m)'
  BY <1>4, <1>11, <1>12 DEF TInv, LayerTyped
<1>14. OthersTyped'
  <2>1. \A m \in project.layers \cup saved.layers : m \in Layers /\ Taken(m)
    BY DEF TInv, OthersTyped, Projects
  <2>2. \A m \in project'.layers \cup saved'.layers : Taken(m)'
    BY <1>4, <1>11, <1>12, <2>1
  <2> QED BY <1>4, <1>10, <2>2 DEF TInv, OthersTyped
<1>15. ASSUME NEW m \in Layers \ unlogged' PROVE LayerNames(m)'
  <2>1. LayerNames(m)
    BY <1>4, <1>15 DEF TInv
  <2>2. ASSUME NEW rows, NEW fields, NamesApart(rows, nextName),
               \A k \in DOMAIN rows : rows[k] \in Row(fields)
        PROVE  NamesApart(rows, nextName')
    BY <1>7, <1>10, <2>2 DEF NamesApart, Row
  <2>3. NamesApart(server[m].rows, nextName')
    <3>1. ServerTyped(server[m])
      BY DEF TInv, LayerTyped
    <3> QED BY <2>1, <2>2, <3>1 DEF LayerNames, ServerTyped
  <2>4. CASE m = l
    <3>1. /\ NamesApart(t.rows, nextName) /\ NotYetThere(t, server[l].rows)
          /\ \A r \in DOMAIN server[l].rows : server[l].rows[r].name < nextName
      BY <1>5, <2>1, <2>4 DEF LayerNames, NamesApart, t
    <3>2. NamesApart(after.rows, nextName + n) /\ NotYetThere(after, server[l].rows)
      BY <1>3, <1>6, <1>7, <3>1 DEF n
    <3> QED BY <1>4, <1>9, <1>10, <2>3, <2>4, <3>2 DEF LayerNames
  <2>5. CASE m # l
    <3>1. NamesApart(table[m].rows, nextName')
      <4>1. \A k \in DOMAIN table[m].rows : table[m].rows[k] \in Row(table[m].fields)
        <5>1. LayerTyped(m)
          BY DEF TInv
        <5> QED BY <5>1, NoRowsTyped
              DEF LayerTyped, Taken, NotTaken, CopyTyped, Offline, Stored
      <4> QED BY <2>1, <2>2, <4>1 DEF LayerNames
    <3> QED BY <1>4, <1>12, <2>1, <2>3, <2>5, <3>1
          DEF LayerNames, NotYetThere, Offline, Stored
  <2> QED BY <2>4, <2>5
<1> QED BY <1>1, <1>13, <1>14, <1>15 DEF TInv

\* What is still to be visited after a layer is done.
LEMMA RestToVisit ==
    ASSUME NEW S, syncing \in Seq(S), syncing # <<>>,
           \A i, j \in DOMAIN syncing : syncing[i] = syncing[j] => i = j
    PROVE  /\ Head(syncing) \in S
           /\ Tail(syncing) \in Seq(S) /\ Tail(syncing) \in Seq(S \ {Head(syncing)})
           /\ \A i, j \in DOMAIN Tail(syncing) :
                  Tail(syncing)[i] = Tail(syncing)[j] => i = j
<1> DEFINE rest == Tail(syncing)
<1>1. /\ Head(syncing) \in S /\ rest \in Seq(S)
      /\ Len(rest) = Len(syncing) - 1
      /\ \A i \in 1..Len(rest) : rest[i] = syncing[i + 1]
  BY HeadTailProperties
<1>2. Len(syncing) \in Nat /\ DOMAIN syncing = 1..Len(syncing) /\ Head(syncing) = syncing[1]
  OBVIOUS
<1>3. Len(rest) \in Nat /\ DOMAIN rest = 1..Len(rest) /\ rest \in [1..Len(rest) -> S]
  BY <1>1, LenProperties
<1> HIDE DEF rest
<1>4. ASSUME NEW i \in 1..Len(rest) PROVE i + 1 \in DOMAIN syncing /\ i + 1 # 1
  BY <1>1, <1>2, <1>3
<1>5. 1 \in DOMAIN syncing
  BY <1>2, EmptySeq
<1>6. \A i \in 1..Len(rest) : rest[i] # Head(syncing)
  BY <1>1, <1>2, <1>4, <1>5
<1>7. rest \in [1..Len(rest) -> S \ {Head(syncing)}]
  BY <1>3, <1>6
<1>8. rest \in Seq(S \ {Head(syncing)})
  BY <1>3, <1>7, SeqDef
<1>9. ASSUME NEW i \in DOMAIN rest, NEW j \in DOMAIN rest, rest[i] = rest[j]
      PROVE  i = j
  <2>1. syncing[i + 1] = syncing[j + 1] /\ i + 1 \in DOMAIN syncing /\ j + 1 \in DOMAIN syncing
    BY <1>1, <1>3, <1>4, <1>9
  <2>2. i + 1 = j + 1 /\ i \in Int /\ j \in Int
    BY <1>3, <2>1
  <2> QED BY <2>2
<1> QED BY <1>1, <1>8, <1>9 DEF rest

\* Synchronising a layer keeps the invariant: what it writes to the server fits
\* there, and adds no feature a second time.
LEMMA SynchronizedTyped ==
    ASSUME NEW l, l = Head(syncing), TInv, LayerSynchronized
    PROVE  TInv'
<1> DEFINE fids == LookupUpdated(log[l], DOMAIN Replayed(l).rows)
<1>1. /\ l \in project.layers
      /\ Tail(syncing) \in Seq(project.layers \ {l})
      /\ \A i, j \in DOMAIN Tail(syncing) :
             Tail(syncing)[i] = Tail(syncing)[j] => i = j
  BY RestToVisit DEF TInv, OthersTyped, LayerSynchronized
<1>2. l \in Layers /\ Taken(l)
  BY <1>1 DEF TInv, OthersTyped, Projects
<1>3. /\ server' = [server EXCEPT ![l] = Replayed(l)]
      /\ log' = [log EXCEPT ![l] = ClearedLog(log[l], fids)]
      /\ commitNo' = 0
      /\ project' = [layers |-> project.layers \ {l}, entry |-> FALSE]
      /\ syncing' = Tail(syncing)
      /\ base' = [base EXCEPT ![l] = table[l]]
      /\ disconnected' = disconnected \ {l}
      /\ UNCHANGED <<table, saved, nextName, unlogged>>
  BY DEF LayerSynchronized, LayerDone
<1> HIDE DEF fids
<1>4. IInv'
  BY <1>2, SynchronizedPreserves DEF TInv
<1>5. Replayable(l) /\ Good(Offline(l))
  BY <1>2 DEF TInv, IInv, OfflineShape, LayerTyped, Taken, Replayable
<1>6. /\ ServerTyped(Replayed(l))
      /\ Replayed(l).fields <= table[l].fields
      /\ \A N \in Nat :
             /\ InOrder(Offline(l))
             /\ NamesApart(server[l].rows, N)
             /\ NamesApart(table[l].rows, N)
             /\ NotYetThere(Offline(l), server[l].rows)
             => NamesApart(Replayed(l).rows, N)
  BY <1>2, <1>5, ReplayedTyped
<1>7. /\ server'[l] = Replayed(l) /\ base'[l] = table[l]
      /\ log'[l] = [EmptyLog EXCEPT !.fids = fids]
  BY <1>2, <1>3 DEF TInv, IInv, ServerShape, OfflineShape, OthersTyped, ClearedLog
<1>8. Rowids(DOMAIN fids)
  <2> DEFINE g == log[l]
             known == {g.fids[k].remote : k \in DOMAIN g.fids}
             remote == Ascending(DOMAIN Replayed(l).rows \ known)
             keys == Ascending(DOMAIN g.added)
             pairs == PairsInOrder([i \in DOMAIN keys |-> g.added[keys[i]]], remote)
  <2>1. Rowids(DOMAIN g.fids)
    BY <1>5 DEF Replayable, CopyTyped, LogTyped, Offline, Stored
  <2>2. Len(pairs) \in Nat
    <3>1. Rowids(DOMAIN Replayed(l).rows)
      <4>1. Replayed(l).nextFid \in Nat
        BY <1>6 DEF ServerTyped
      <4>2. \A r \in DOMAIN Replayed(l).rows : r \in 1..(Replayed(l).nextFid - 1)
        BY <1>6 DEF ServerTyped
      <4>3. \A r \in DOMAIN Replayed(l).rows : r \in Nat \ {0} /\ r <= Replayed(l).nextFid
        BY <4>1, <4>2
      <4> QED BY <4>1, <4>3 DEF Rowids
    <3>2. Rowids(DOMAIN Replayed(l).rows \ known)
      BY <3>1, SomeRowids
    <3>3. /\ DOMAIN remote = 1..Cardinality(DOMAIN Replayed(l).rows \ known)
          /\ Cardinality(DOMAIN Replayed(l).rows \ known) \in Nat
      BY <3>2, AscendingOrder
    <3> HIDE DEF remote, keys, known
    <3> QED BY <3>3 DEF PairsInOrder
  <2> HIDE DEF pairs
  <2>3. Rowids(DOMAIN InsertAll(g.fids, pairs))
    BY <2>1, <2>2, Inserted
  <2>4. fids \in {g.fids, InsertAll(g.fids, pairs)}
    BY DEF fids, LookupUpdated, pairs
  <2> QED BY <2>1, <2>3, <2>4
<1> DEFINE g == [EmptyLog EXCEPT !.fids = fids]
<1>9. /\ LogTyped(g, table[l].fields)
      /\ Cardinality(DOMAIN g.fields) = 0 /\ RowsIn(g.added) = {}
  BY <1>8, EmptyLogTyped
<1> HIDE DEF g
<1>10. Offline(l)' = Stored(table[l], g, 0)
  BY <1>3, <1>7 DEF Offline, g
<1>11. Taken(l)'
  <2>1. CopyTyped(Offline(l)')
    BY <1>2, <1>9, <1>10 DEF Taken, CopyTyped, Offline, Stored
  <2>2. Replayed(l).fields \in Nat
    BY <1>6, OfflineAssumption DEF ServerTyped
  <2>3. FieldsLogged(l)'
    <3>1. log'[l] = g /\ server'[l].fields = Replayed(l).fields /\ table' = table
      BY <1>3, <1>7 DEF g
    <3> QED BY <1>6, <1>9, <2>2, <3>1 DEF FieldsLogged
  <2> QED BY <2>1, <2>3 DEF Taken
<1>12. ASSUME NEW m \in Layers, m # l
       PROVE  /\ server'[m] = server[m] /\ log'[m] = log[m] /\ base'[m] = base[m]
              /\ Taken(m) => Taken(m)'
              /\ NotTaken(m) => NotTaken(m)'
  <2>1. server'[m] = server[m] /\ log'[m] = log[m] /\ base'[m] = base[m]
    BY <1>3, <1>12 DEF TInv, IInv, ServerShape, OfflineShape, OthersTyped
  <2> QED BY <1>3, <2>1
        DEF Taken, NotTaken, CopyTyped, FieldsLogged, Offline, Stored
<1>13. ASSUME NEW m \in Layers PROVE LayerTyped(m)'
  <2>1. CASE m = l
    <3>1. TableTyped(table[l])
      BY <1>2, <1>5, CopyTable DEF Taken, Offline
    <3> QED BY <1>3, <1>6, <1>7, <1>11, <2>1, <3>1 DEF LayerTyped
  <2>2. CASE m # l
    BY <1>3, <1>12, <2>2 DEF TInv, LayerTyped
  <2> QED BY <2>1, <2>2
<1>14. OthersTyped'
  <2>1. base' = [m \in Layers |-> base'[m]]
    BY <1>3 DEF TInv, OthersTyped
  <2>2. \A m \in project.layers \cup saved.layers : m \in Layers /\ Taken(m)'
    BY <1>11, <1>12 DEF TInv, OthersTyped, Projects
  <2>3. project' \in Projects /\ project'.layers \subseteq project.layers
    BY <1>3 DEF TInv, OthersTyped, Projects
  <2>4. project'.layers = project.layers \ {l}
    BY <1>3
  <2> QED BY <1>1, <1>3, <2>1, <2>2, <2>3, <2>4 DEF TInv, OthersTyped
<1>15. ASSUME NEW m \in Layers \ unlogged' PROVE LayerNames(m)'
  <2>1. LayerNames(m) /\ InOrder(Offline(m))
    BY <1>3, <1>15 DEF TInv, IInv
  <2>2. CASE m = l
    <3>1. NamesApart(Replayed(l).rows, nextName)
      BY <1>6, <2>1, <2>2 DEF LayerNames, TInv, OthersTyped
    <3>2. NotYetThere(Offline(l)', server'[l].rows)
      BY <1>9, <1>10 DEF NotYetThere, Stored
    <3> QED BY <1>3, <1>7, <2>1, <2>2, <3>1, <3>2 DEF LayerNames
  <2>3. CASE m # l
    BY <1>3, <1>12, <2>1, <2>3 DEF LayerNames, NotYetThere, Offline, Stored
  <2> QED BY <2>2, <2>3
<1> QED BY <1>4, <1>13, <1>14, <1>15 DEF TInv

\* What others do on the server keeps the invariant: what they add gets a new
\* name, and what they change stays the same feature.
LEMMA OthersTypedStill ==
    ASSUME NEW l \in Layers, TInv, OthersChange(l) \/ OthersDelete(l) \/ OthersAdd(l)
    PROVE  TInv'
<1>0. IInv'
  BY OthersPreserve DEF TInv
<1>1. /\ ServerTyped(server[l]) /\ nextName \in Nat
      /\ server[l] = [x \in {"fields", "nextFid", "rows"} |-> server[l][x]]
  BY DEF TInv, LayerTyped, OthersTyped, IInv, ServerShape
<1>2. server[l].fields \in Nat \ {0} /\ server[l].nextFid \in Nat \ {0}
  BY <1>1, OfflineAssumption DEF ServerTyped
<1>3. ASSUME NEW rows, NEW named \in Nat, NEW ids \in Nat,
             EditedByOthers(l, rows, named, ids),
             \A r \in DOMAIN rows : /\ r \in 1..(server[l].nextFid + ids - 1)
                                    /\ rows[r] \in Row(server[l].fields),
             LayerNames(l) =>
                 /\ NamesApart(rows, nextName + named)
                 /\ \A r \in DOMAIN rows :
                        \/ \E q \in DOMAIN server[l].rows :
                               rows[r].name = server[l].rows[q].name
                        \/ rows[r].name >= nextName
      PROVE  TInv'
  <2> DEFINE mine == [server[l] EXCEPT !.rows = rows, !.nextFid = @ + ids]
  <2>1. /\ server' = [server EXCEPT ![l] = mine]
        /\ nextName' = nextName + named
        /\ UNCHANGED <<table, log, commitNo, project, saved, syncing, base,
                       disconnected, unlogged>>
    <3>1. server' = [server EXCEPT ![l].rows = rows, ![l].nextFid = @ + ids]
      BY <1>3 DEF EditedByOthers
    <3>2. server' = [server EXCEPT ![l] = mine]
      BY <3>1 DEF TInv, IInv, ServerShape
    <3> QED BY <1>3, <3>2 DEF EditedByOthers
  <2>2. /\ mine.fields = server[l].fields /\ mine.rows = rows
        /\ mine.nextFid = server[l].nextFid + ids
    BY <1>1
  <2> HIDE DEF mine
  <2>3. server'[l] = mine /\ \A m \in Layers : m # l => server'[m] = server[m]
    BY <2>1 DEF TInv, IInv, ServerShape
  <2>4. ServerTyped(mine)
    BY <1>1, <1>2, <1>3, <2>2 DEF ServerTyped
  <2>5. \A m \in Layers : server'[m].fields = server[m].fields
    BY <2>2, <2>3
  <2>6. \A m \in Layers : /\ Taken(m) => Taken(m)'
                          /\ NotTaken(m) => NotTaken(m)'
    BY <2>1, <2>5 DEF Taken, NotTaken, CopyTyped, FieldsLogged, Offline, Stored
  <2>7. ASSUME NEW m \in Layers PROVE LayerTyped(m)'
    BY <2>1, <2>3, <2>4, <2>6 DEF TInv, LayerTyped
  <2>8. OthersTyped'
    <3>1. nextName' \in Nat
      BY <1>1, <1>3, <2>1
    <3>2. \A m \in project.layers \cup saved.layers : m \in Layers /\ Taken(m)'
      BY <2>6 DEF TInv, OthersTyped, Projects
    <3> QED BY <2>1, <3>1, <3>2 DEF TInv, OthersTyped
  <2>9. ASSUME NEW m \in Layers \ unlogged' PROVE LayerNames(m)'
    <3>1. LayerNames(m) /\ LayerTyped(m)
      BY <2>1, <2>9 DEF TInv
    <3>2. \A k \in DOMAIN table[m].rows :
              table[m].rows[k].name \in Nat /\ table[m].rows[k].name < nextName
      <4>1. \A k \in DOMAIN table[m].rows : table[m].rows[k] \in Row(table[m].fields)
        BY <3>1, NoRowsTyped
           DEF LayerTyped, Taken, NotTaken, CopyTyped, Offline, Stored
      <4> QED BY <3>1, <4>1 DEF LayerNames, NamesApart, Row
    <3>3. NamesApart(table[m].rows, nextName')
      BY <1>1, <1>3, <2>1, <3>1, <3>2 DEF LayerNames, NamesApart
    <3>4. CASE m = l
      <4>1. NamesApart(rows, nextName')
        BY <1>3, <2>1, <3>1, <3>4
      <4>2. NotYetThere(Offline(l), rows)
        <5> SUFFICES ASSUME NEW k \in DOMAIN table[l].rows, k \in RowsIn(log[l].added),
                            NEW r \in DOMAIN rows
                     PROVE  rows[r].name # table[l].rows[k].name
          BY DEF NotYetThere, Offline, Stored
        <5>1. CASE rows[r].name >= nextName
          BY <1>1, <3>2, <3>4, <5>1
        <5>2. CASE ~(rows[r].name >= nextName)
          <6>1. PICK q \in DOMAIN server[l].rows :
                    rows[r].name = server[l].rows[q].name
            BY <1>3, <3>1, <3>4, <5>2
          <6> QED BY <3>1, <3>4, <6>1 DEF LayerNames, NotYetThere, Offline, Stored
        <5> QED BY <5>1, <5>2
      <4> QED BY <2>1, <2>2, <2>3, <3>3, <3>4, <4>1, <4>2
            DEF LayerNames, NotYetThere, Offline, Stored
    <3>5. CASE m # l
      <4>1. server'[m] = server[m]
        BY <2>3, <3>5
      <4>2. NamesApart(server[m].rows, nextName')
        <5>1. \A r \in DOMAIN server[m].rows :
                  server[m].rows[r].name \in Nat /\ server[m].rows[r].name < nextName
          BY <3>1 DEF LayerTyped, ServerTyped, Row, LayerNames, NamesApart
        <5> QED BY <1>1, <1>3, <2>1, <3>1, <5>1 DEF LayerNames, NamesApart
      <4> QED BY <2>1, <3>1, <3>3, <4>1, <4>2
            DEF LayerNames, NotYetThere, Offline, Stored
    <3> QED BY <3>4, <3>5
  <2> QED BY <1>0, <2>7, <2>8, <2>9 DEF TInv
<1>4. /\ nextName + 0 = nextName /\ server[l].nextFid + 0 = server[l].nextFid
  BY <1>1, <1>2
<1>5. CASE OthersChange(l)
  <2>1. PICK r \in DOMAIN server[l].rows, v \in Values \cup {Null} :
            EditedByOthers(l, [server[l].rows EXCEPT ![r].attrs[1] = v], 0, 0)
    BY <1>5 DEF OthersChange
  <2> DEFINE rows == [server[l].rows EXCEPT ![r].attrs[1] = v]
             changed == [server[l].rows[r] EXCEPT !.attrs[1] = v]
  <2>2. changed \in Row(server[l].fields) /\ changed.name = server[l].rows[r].name
    <3>1. server[l].rows[r] \in Row(server[l].fields) /\ 1 \in 1..server[l].fields
      BY <1>1, <1>2 DEF ServerTyped
    <3>2. [server[l].rows[r].attrs EXCEPT ![1] = v]
              \in [1..server[l].fields -> Values \cup {Null, EmptyText}]
      BY <3>1 DEF Row
    <3>3. changed = [server[l].rows[r] EXCEPT !.attrs =
                        [server[l].rows[r].attrs EXCEPT ![1] = v]]
      OBVIOUS
    <3> HIDE DEF changed
    <3> QED BY <3>1, <3>2, <3>3 DEF Row
  <2>3. /\ DOMAIN rows = DOMAIN server[l].rows
        /\ \A q \in DOMAIN rows : rows[q] = IF q = r THEN changed ELSE server[l].rows[q]
    OBVIOUS
  <2> HIDE DEF rows, changed
  <2>4. \A q \in DOMAIN rows : /\ q \in 1..(server[l].nextFid + 0 - 1)
                               /\ rows[q] \in Row(server[l].fields)
                               /\ rows[q].name = server[l].rows[q].name
    BY <1>1, <1>4, <2>2, <2>3 DEF ServerTyped
  <2>5. LayerNames(l) => NamesApart(rows, nextName + 0)
    BY <1>4, <2>3, <2>4 DEF LayerNames, NamesApart
  <2> QED BY <1>3, <2>1, <2>3, <2>4, <2>5 DEF rows
<1>6. CASE OthersDelete(l)
  <2>1. PICK r \in DOMAIN server[l].rows :
            EditedByOthers(l, Without(server[l].rows, {r}), 0, 0)
    BY <1>6 DEF OthersDelete
  <2> DEFINE rows == Without(server[l].rows, {r})
  <2>2. /\ DOMAIN rows \subseteq DOMAIN server[l].rows
        /\ \A q \in DOMAIN rows : rows[q] = server[l].rows[q]
    BY DEF Without
  <2> HIDE DEF rows
  <2>3. \A q \in DOMAIN rows : /\ q \in 1..(server[l].nextFid + 0 - 1)
                               /\ rows[q] \in Row(server[l].fields)
    BY <1>1, <1>4, <2>2 DEF ServerTyped
  <2>4. LayerNames(l) => NamesApart(rows, nextName + 0)
    BY <1>4, <2>2 DEF LayerNames, NamesApart
  <2> QED BY <1>3, <2>1, <2>2, <2>3, <2>4 DEF rows
<1>7. CASE OthersAdd(l)
  <2> DEFINE next == server[l].nextFid
             new == Feature(nextName, server[l].fields)
             rows == [r \in DOMAIN server[l].rows \cup {next} |->
                         IF r = next THEN new ELSE server[l].rows[r]]
  <2>1. EditedByOthers(l, rows, 1, 1)
    BY <1>7 DEF OthersAdd
  <2>2. new \in Row(server[l].fields) /\ new.name = nextName
    BY <1>1, <1>2, FeatureTyped
  <2> HIDE DEF new
  <2>3. /\ DOMAIN rows = DOMAIN server[l].rows \cup {next}
        /\ rows[next] = new
        /\ \A r \in DOMAIN server[l].rows : r # next /\ rows[r] = server[l].rows[r]
    <3>1. \A r \in DOMAIN server[l].rows : r # next
      BY <1>1, <1>2 DEF ServerTyped
    <3> QED BY <3>1
  <2> HIDE DEF rows
  <2>4. \A q \in DOMAIN rows : /\ q \in 1..(server[l].nextFid + 1 - 1)
                               /\ rows[q] \in Row(server[l].fields)
    <3>1. \A q \in DOMAIN server[l].rows : /\ q \in 1..(next - 1)
                                           /\ rows[q] \in Row(server[l].fields)
      BY <1>1, <2>3 DEF ServerTyped
    <3> QED BY <1>2, <2>2, <2>3, <3>1
  <2>5. ASSUME LayerNames(l) PROVE NamesApart(rows, nextName + 1)
    <3>1. \A r \in DOMAIN server[l].rows :
              /\ server[l].rows[r].name \in Nat
              /\ server[l].rows[r].name < nextName
      BY <1>1, <2>5 DEF ServerTyped, Row, LayerNames, NamesApart
    <3>2. \A q, r \in DOMAIN server[l].rows :
              server[l].rows[q].name = server[l].rows[r].name => q = r
      BY <2>5 DEF LayerNames, NamesApart
    <3>3. \A r \in DOMAIN rows : rows[r].name < nextName + 1
      BY <1>1, <2>2, <2>3, <3>1
    <3>4. \A r \in DOMAIN server[l].rows : rows[r].name # rows[next].name
      BY <1>1, <2>2, <2>3, <3>1
    <3> QED BY <2>3, <3>2, <3>3, <3>4 DEF NamesApart
  <2>6. \A r \in DOMAIN rows :
            \/ \E q \in DOMAIN server[l].rows : rows[r].name = server[l].rows[q].name
            \/ rows[r].name >= nextName
    BY <1>1, <2>2, <2>3
  <2> QED BY <1>3, <2>1, <2>4, <2>5, <2>6
<1> QED BY <1>5, <1>6, <1>7

\* Steps that leave tables, logs and the server alone keep the invariant, if the
\* layers in the project were there before.
LEMMA DataStillTyped ==
    ASSUME TInv, UNCHANGED <<dataVars, historyVars>>,
           project' \in Projects, saved' \in Projects,
           project'.layers \subseteq project.layers \cup saved.layers,
           saved'.layers \subseteq project.layers \cup saved.layers,
           syncing' \in Seq(project'.layers),
           \A i, j \in DOMAIN syncing' : syncing'[i] = syncing'[j] => i = j,
           disconnected' \subseteq project'.layers
    PROVE  TInv'
<1>1. UNCHANGED <<server, table, log, commitNo, nextName, base, delivered, unlogged>>
  BY DEF dataVars, historyVars
<1>2. IInv'
  BY DataUnchanged DEF TInv, Projects, historyVars
<1>3. \A l \in Layers : /\ Taken(l) => Taken(l)'
                        /\ NotTaken(l) => NotTaken(l)'
                        /\ LayerNames(l) => LayerNames(l)'
  BY <1>1 DEF Taken, NotTaken, LayerNames, FieldsLogged, Offline
<1>4. \A l \in Layers : LayerTyped(l)'
  BY <1>1, <1>3 DEF TInv, LayerTyped
<1>5. \A l \in project.layers \cup saved.layers : l \in Layers /\ Taken(l)'
  BY <1>3 DEF TInv, OthersTyped, Projects
<1>6. OthersTyped'
  BY <1>1, <1>5 DEF TInv, OthersTyped
<1>7. \A l \in Layers \ unlogged' : LayerNames(l)'
  BY <1>1, <1>3 DEF TInv
<1> QED BY <1>2, <1>4, <1>6, <1>7 DEF TInv

\* Every step keeps the invariant.
LEMMA NextTInv == TInv /\ [Next]_vars => TInv'
<1> SUFFICES ASSUME TInv, [Next]_vars PROVE TInv'
  OBVIOUS
<1>0. /\ project \in Projects /\ saved \in Projects
      /\ syncing \in Seq(project.layers)
      /\ \A i, j \in DOMAIN syncing : syncing[i] = syncing[j] => i = j
      /\ disconnected \subseteq project.layers
  BY DEF TInv, OthersTyped
<1>1. CASE ConvertToOfflineProject
  BY <1>1, ConvertTyped
<1>2. ASSUME NEW l \in Layers, CommitOffline(l) PROVE TInv'
  BY <1>2, CommitTyped
<1>3. CASE SaveProject
  BY <1>0, <1>3, DataStillTyped DEF SaveProject
<1>4. CASE ReopenProject
  <2>1. <<>> \in Seq(saved.layers) /\ DOMAIN <<>> = {}
    OBVIOUS
  <2> QED BY <1>0, <1>4, <2>1, DataStillTyped DEF ReopenProject
<1>5. CASE StartSynchronize
  <2>1. /\ syncing' \in Orders(project.layers)
        /\ UNCHANGED <<dataVars, project, saved, disconnected, historyVars>>
    BY <1>5 DEF StartSynchronize
  <2>2. IsFiniteSet(project.layers)
    BY <1>0, OfflineAssumption, FS_Subset DEF Projects
  <2>3. Cardinality(project.layers) \in Nat
    BY <2>2, FS_CardinalityType
  <2>4. syncing' \in Seq(project.layers)
    BY <2>1, <2>3, SeqDef DEF Orders
  <2>5. \A i, j \in DOMAIN syncing' : syncing'[i] = syncing'[j] => i = j
    BY <2>1 DEF Orders
  <2> QED BY <1>0, <2>1, <2>4, <2>5, DataStillTyped
<1>6. ASSUME syncing # <<>>
      PROVE  /\ Head(syncing) \in project.layers
             /\ Tail(syncing) \in Seq(project.layers)
             /\ Tail(syncing) \in Seq(project.layers \ {Head(syncing)})
             /\ \A i, j \in DOMAIN Tail(syncing) :
                    Tail(syncing)[i] = Tail(syncing)[j] => i = j
  BY <1>0, <1>6, RestToVisit
<1>7. CASE RemoteInvalid
  BY <1>0, <1>6, <1>7, DataStillTyped DEF RemoteInvalid
<1>8. CASE CommitRefused
  <2>1. /\ project' = [layers |-> project.layers \ {Head(syncing)}, entry |-> FALSE]
        /\ syncing' = Tail(syncing) /\ syncing # <<>>
        /\ disconnected' = disconnected \ {Head(syncing)}
        /\ UNCHANGED <<dataVars, saved, historyVars>>
    BY <1>8 DEF CommitRefused, LayerDone
  <2>2. /\ project' \in Projects
        /\ project'.layers = project.layers \ {Head(syncing)}
    BY <1>0, <2>1 DEF Projects
  <2> QED BY <1>0, <1>6, <2>1, <2>2, DataStillTyped
<1>9. CASE LayerSynchronized
  BY <1>9, SynchronizedTyped
<1>10. ASSUME NEW l \in Layers, OthersChange(l) \/ OthersDelete(l) \/ OthersAdd(l)
       PROVE  TInv'
  BY <1>10, OthersTypedStill
<1>12. ASSUME NEW l \in Layers, RollBackKeepEditing(l) \/ CancelEdits(l) PROVE TInv'
  BY <1>0, <1>12, DataStillTyped DEF RollBackKeepEditing, CancelEdits
<1>11. CASE UNCHANGED vars
  BY <1>0, <1>11, DataStillTyped DEF vars, dataVars, historyVars
<1> QED
  BY <1>1, <1>2, <1>3, <1>4, <1>5, <1>7, <1>8, <1>9, <1>10, <1>11, <1>12 DEF Next

\* The invariant always holds.
THEOREM TypeInvariant == Spec => []TInv
<1>1. Init => TInv
  BY InitTInv
<1>2. TInv /\ [Next]_vars => TInv'
  BY NextTInv
<1> QED BY <1>1, <1>2, PTL DEF Spec

\* Tables, logs and the server's layers keep their types.  In particular the
\* replay of a log gives every row of the server's layer exactly as many values
\* as the layer then has fields, although fields are found there again by
\* counting, and synchronize() only visits layers that are in the project.
THEOREM Typing == Spec => []TypeOK
<1>1. TInv => TypeOK
  <2> SUFFICES ASSUME TInv PROVE TypeOK
    OBVIOUS
  <2>1. ASSUME NEW l \in Layers
        PROVE  /\ ServerTyped(server[l]) /\ TableTyped(base[l])
               /\ TableTyped(table[l])
               /\ DOMAIN log[l].fids \subseteq Nat \ {0}
               /\ \A k \in DOMAIN log[l].values :
                      log[l].values[k].field \in 1..table[l].fields
    <3>1. ServerTyped(server[l]) /\ TableTyped(base[l]) /\ Good(Offline(l))
      BY DEF TInv, LayerTyped, IInv, OfflineShape
    <3>2. CASE Taken(l)
      <4>1. TableTyped(table[l])
        BY <3>1, <3>2, CopyTable DEF Taken, Offline
      <4>2. LogTyped(log[l], table[l].fields)
        BY <3>2 DEF Taken, CopyTyped, Offline, Stored
      <4> QED BY <3>1, <4>1, <4>2 DEF LogTyped, ValueRow, Rowids
    <3>3. CASE NotTaken(l)
      BY <3>1, <3>3, NoRowsTyped DEF NotTaken
    <3> QED BY <3>2, <3>3 DEF TInv, LayerTyped
  <2>2. /\ commitNo \in Nat
        /\ project.layers \subseteq Layers /\ saved.layers \subseteq Layers
        /\ project.entry \in BOOLEAN /\ saved.entry \in BOOLEAN
        /\ \A i \in DOMAIN syncing : syncing[i] \in project.layers
        /\ disconnected \subseteq project.layers
    BY DEF TInv, OthersTyped, Projects
  <2> QED BY <2>1, <2>2 DEF TypeOK, ServerTyped, TableTyped
<1> QED BY <1>1, TypeInvariant, PTL

\* However often synchronising is refused, interrupted or repeated, and whatever
\* others do meanwhile: no feature of a layer is on the server twice, as long as
\* every commit of that layer was logged, whatever became of the other layers.
THEOREM FeaturesOnce == Spec => []NoFeatureTwice
<1>1. TInv => NoFeatureTwice
  BY DEF TInv, LayerNames, NamesApart, NoFeatureTwice
<1> QED BY <1>1, TypeInvariant, PTL

-----------------------------------------------------------------------------
(* One layer.  With several of them synchronize() removes the entry of the *)
(* database from the project with the first, and a layer that is passed    *)
(* over stays in a project that has no log.                                *)

OneLayer == \A l, m \in Layers : l = m

\* A project that has the layer has the entry.
LogInProject ==
    /\ TInv
    /\ project.layers # {} => project.entry
    /\ saved.layers # {} => saved.entry
    /\ unlogged \subseteq Layers

\* And no commit went past the log.
LogFound == LogInProject /\ EditsAreLogged

\* Every step keeps the log where the edits find it.
LEMMA NextLogInProject ==
    ASSUME OneLayer
    PROVE  LogInProject /\ [Next]_vars => LogInProject'
<1> SUFFICES ASSUME LogInProject, [Next]_vars PROVE LogInProject'
  OBVIOUS
<1>1. TInv'
  BY NextTInv DEF LogInProject
<1>2. /\ project.layers \subseteq Layers
      /\ syncing # <<>> => Head(syncing) \in project.layers
  BY RestToVisit DEF LogInProject, TInv, OthersTyped, Projects
<1>3. ASSUME LayerDone(Head(syncing)), syncing # <<>>
      PROVE  project'.layers = {}
  BY <1>2, <1>3 DEF LayerDone, OneLayer
<1>4. CASE ConvertToOfflineProject
  BY <1>1, <1>4 DEF ConvertToOfflineProject, LogInProject
<1>5. ASSUME NEW l \in Layers, CommitOffline(l) PROVE LogInProject'
  BY <1>1, <1>5 DEF CommitOffline, LogInProject
<1>6. CASE SaveProject
  BY <1>1, <1>6 DEF SaveProject, LogInProject, historyVars
<1>7. CASE ReopenProject
  BY <1>1, <1>7 DEF ReopenProject, LogInProject, historyVars
<1>8. CASE StartSynchronize \/ RemoteInvalid
  BY <1>1, <1>8 DEF StartSynchronize, RemoteInvalid, LogInProject, historyVars
<1>13. ASSUME NEW l \in Layers, RollBackKeepEditing(l) \/ CancelEdits(l)
       PROVE  LogInProject'
  BY <1>1, <1>13 DEF RollBackKeepEditing, CancelEdits, LogInProject, historyVars
<1>9. CASE CommitRefused
  BY <1>1, <1>3, <1>9 DEF CommitRefused, LogInProject, historyVars
<1>10. CASE LayerSynchronized
  BY <1>1, <1>3, <1>10 DEF LayerSynchronized, LogInProject
<1>11. ASSUME NEW l \in Layers, OthersChange(l) \/ OthersDelete(l) \/ OthersAdd(l)
       PROVE  LogInProject'
  BY <1>1, <1>11
     DEF OthersChange, OthersDelete, OthersAdd, EditedByOthers, LogInProject
<1>12. CASE UNCHANGED vars
  BY <1>1, <1>12 DEF vars, LogInProject
<1> QED
  BY <1>4, <1>5, <1>6, <1>7, <1>8, <1>9, <1>10, <1>11, <1>12, <1>13 DEF Next

\* A step past the log is the commit of a layer whose slots are disconnected.
LEMMA NextUnlogged ==
    ASSUME LogInProject, [Next]_vars, unlogged' # unlogged
    PROVE  \E l \in disconnected : unlogged' = unlogged \cup {l}
<1>1. PICK l \in Layers : CommitOffline(l)
  BY DEF Next, vars, historyVars, ConvertToOfflineProject, RollBackKeepEditing,
         CancelEdits, SaveProject, ReopenProject, StartSynchronize, RemoteInvalid,
         CommitRefused, LayerSynchronized, OthersChange, OthersDelete, OthersAdd,
         EditedByOthers
<1>2. /\ unlogged' = IF IsLogging(l) THEN unlogged ELSE unlogged \cup {l}
      /\ l \in project.layers
  BY <1>1 DEF CommitOffline
<1>3. project.entry
  BY <1>2 DEF LogInProject
<1> QED BY <1>2, <1>3 DEF IsLogging

\* As long as every commit is logged, the log stays what it is.
LEMMA NextLogFound ==
    ASSUME OneLayer
    PROVE  LogInProject /\ [Next]_vars /\ EditsAreLogged'
           => LogFound' /\ EditsAreLogged
<1> SUFFICES ASSUME LogInProject, [Next]_vars, EditsAreLogged'
             PROVE  LogFound' /\ EditsAreLogged
  OBVIOUS
<1>1. LogInProject'
  BY NextLogInProject
<1>2. unlogged = {}
  BY NextUnlogged DEF EditsAreLogged
<1> QED BY <1>1, <1>2 DEF LogFound, EditsAreLogged

\* With one layer, whatever is saved, reopened, refused, interrupted or repeated:
\* a commit goes past the log only in an edit session that went on after its
\* edits were rolled back.
THEOREM CommitsAreLogged ==
    ASSUME OneLayer
    PROVE  Spec => UnloggedOnlyIfDisconnected
<1>1. Init => LogInProject
  BY InitTInv DEF Init, LogInProject, NothingOffline
<1>2. LogInProject /\ [Next]_vars => LogInProject'
  BY NextLogInProject
<1>3. LogInProject /\ [Next]_vars
      => [unlogged' # unlogged =>
             \E l \in disconnected : unlogged' = unlogged \cup {l}]_vars
  BY NextUnlogged
<1> QED BY <1>1, <1>2, <1>3, PTL DEF Spec, UnloggedOnlyIfDisconnected

\* No edit session goes on after its edits were rolled back.
NoRollBackKeepsEditing == [][\A l \in Layers : ~RollBackKeepEditing(l)]_vars

\* With one layer, and as long as nobody goes on editing after "Rollback edits":
\* no edit is committed without being logged, whatever is saved, reopened,
\* refused, interrupted or repeated.
THEOREM EditsAlwaysLogged ==
    ASSUME OneLayer
    PROVE  Spec /\ NoRollBackKeepsEditing => []EditsAreLogged
<1> DEFINE I == LogInProject /\ EditsAreLogged /\ disconnected = {}
<1>1. Init => I
  BY InitTInv DEF Init, LogInProject, NothingOffline, EditsAreLogged
<1>2. I /\ [Next]_vars /\ [\A l \in Layers : ~RollBackKeepEditing(l)]_vars => I'
  <2> SUFFICES ASSUME I, [Next]_vars,
                      [\A l \in Layers : ~RollBackKeepEditing(l)]_vars
               PROVE  I'
    OBVIOUS
  <2>1. LogInProject'
    BY NextLogInProject
  <2>2. EditsAreLogged'
    BY NextUnlogged DEF EditsAreLogged
  <2>3. disconnected' = {}
    BY DEF Next, vars, ConvertToOfflineProject, CommitOffline, CancelEdits,
           SaveProject, ReopenProject, StartSynchronize, RemoteInvalid,
           CommitRefused, LayerSynchronized, LayerDone, OthersChange, OthersDelete,
           OthersAdd, EditedByOthers, RollBackKeepEditing
  <2> QED BY <2>1, <2>2, <2>3
<1>3. I => EditsAreLogged
  OBVIOUS
<1> QED BY <1>1, <1>2, <1>3, PTL DEF Spec, NoRollBackKeepsEditing

-----------------------------------------------------------------------------
(* What the log says of the rows that were copied: b is the copy as it was *)
(* made, t the copy with what was logged since.                            *)

Originals(t) == DOMAIN t.rows \ RowsIn(t.log.added)

\* A row of the log that LastReplayed finds among some.
IsLast(rows, keys, m) ==
    /\ m \in keys
    /\ \A i \in keys : \/ rows[i].commit < rows[m].commit
                       \/ rows[i].commit = rows[m].commit /\ i <= m

ValueRows(g, k, f) ==
    {i \in DOMAIN g.values : g.values[i].fid = k /\ g.values[i].field = f}

GeomRows(g, k) == {i \in DOMAIN g.geoms : g.geoms[i].fid = k}

\* The last value logged is the one the row has; without one it has the value
\* it was copied with.
ValueTold(t, b, k, f) ==
    LET logged == ValueRows(t.log, k, f)
        value == t.rows[k].attrs[f]
    IN  IF logged = {}
        THEN value = IF f <= b.fields THEN b.rows[k].attrs[f] ELSE Null
        ELSE \E m \in logged : /\ IsLast(t.log.values, logged, m)
                               /\ t.log.values[m].value = Logged(value)

GeomTold(t, b, k) ==
    LET logged == GeomRows(t.log, k)
    IN  IF logged = {} THEN t.rows[k].geom = b.rows[k].geom
        ELSE \E m \in logged : /\ IsLast(t.log.geoms, logged, m)
                               /\ t.log.geoms[m].geom = t.rows[k].geom

RowsTold(t, b) ==
    \A k \in Originals(t) :
        /\ k \in DOMAIN b.rows /\ t.rows[k].name = b.rows[k].name
        /\ QuotedValues = {} => \A f \in 1..t.fields : ValueTold(t, b, k, f)
        /\ GeomTold(t, b, k)

\* What was logged was logged by commits of the past.
CommitsPast(t) ==
    /\ \A i \in DOMAIN t.log.fields : t.log.fields[i] < t.commitNo
    /\ \A i \in DOMAIN t.log.values : t.log.values[i].commit < t.commitNo
    /\ \A i \in DOMAIN t.log.geoms : t.log.geoms[i].commit < t.commitNo

FieldsBy(g, commit) == {i \in DOMAIN g.fields : g.fields[i] <= commit}

\* Counting the fields that were logged gives all of them, and those that a
\* value may be for when it was logged.
FieldsTold(t, b) ==
    /\ t.fields = b.fields + Cardinality(DOMAIN t.log.fields)
    /\ \A i \in DOMAIN t.log.values :
           t.log.values[i].field
               <= b.fields + Cardinality(FieldsBy(t.log, t.log.values[i].commit))

Told(t, b) == RowsTold(t, b) /\ CommitsPast(t) /\ FieldsTold(t, b)

\* There is one last row.
LEMMA LastIsReplayed ==
    ASSUME NEW rows, NEW keys, Rowids(keys), \A i \in keys : rows[i].commit \in Nat,
           NEW m, IsLast(rows, keys, m)
    PROVE  LastReplayed(rows, keys) = rows[m]
<1> DEFINE P(k) == \A i \in keys : \/ rows[i].commit < rows[k].commit
                                   \/ rows[i].commit = rows[k].commit /\ i <= k
<1>1. m \in keys /\ P(m)
  BY DEF IsLast
<1>2. ASSUME NEW k \in keys, P(k) PROVE k = m
  <2>1. k \in Nat /\ m \in Nat /\ rows[k].commit \in Nat /\ rows[m].commit \in Nat
    BY <1>1 DEF Rowids
  <2> QED BY <1>1, <1>2, <2>1
<1> HIDE DEF P
<1>3. (CHOOSE k \in keys : P(k)) = m
  BY <1>1, <1>2
<1> QED BY <1>3 DEF LastReplayed, P

\* A table with n rows inserted, one after the other from a rowid that is
\* above all that were in use.
Longer(t, rows, n, all, next) ==
    /\ next \in Nat \ {0}
    /\ DOMAIN all = DOMAIN t \cup next..(next + n - 1)
    /\ \A k \in DOMAIN t : k < next /\ all[k] = t[k]
    /\ \A k \in next..(next + n - 1) :
           k \notin DOMAIN t /\ k - next + 1 \in 1..n /\ all[k] = rows[k - next + 1]

\* This is how rows are inserted.
LEMMA InsertedAbove ==
    ASSUME NEW t, Rowids(DOMAIN t), NEW n \in Nat, NEW rows, Len(rows) = n
    PROVE  Longer(t, rows, n, InsertAll(t, rows), NextRowid(t))
<1> DEFINE next == NextRowid(t)
           all == InsertAll(t, rows)
<1>1. next \in Nat \ {0} /\ \A k \in DOMAIN t : k < next
  BY NextRowidIsAbove
<1>2. /\ DOMAIN all = DOMAIN t \cup next..(next + n - 1)
      /\ \A k \in DOMAIN t : all[k] = t[k]
      /\ \A k \in next..(next + n - 1) : all[k] = rows[k - next + 1]
  <2>1. all = [k \in DOMAIN t \cup next..(next + n - 1) |->
                 IF k \in DOMAIN t THEN t[k] ELSE rows[k - next + 1]]
    BY DEF InsertAll
  <2> HIDE DEF all, next
  <2>2. \A k \in next..(next + n - 1) : k \notin DOMAIN t
    BY <1>1 DEF Rowids
  <2> QED BY <2>1, <2>2
<1> HIDE DEF all, next
<1>3. \A k \in next..(next + n - 1) : k \notin DOMAIN t /\ k - next + 1 \in 1..n
  BY <1>1 DEF Rowids
<1> QED BY <1>1, <1>2, <1>3 DEF all, next, Longer

\* New fields are null in every row, and are logged as one more commit.
LEMMA FieldsTell ==
    ASSUME NEW t, Good(t), CopyTyped(t), NEW b, b.fields \in Nat, Told(t, b),
           NEW n \in Nat, t.fields + n <= MaxFields
    PROVE  Told(CommitFields(t, n, TRUE), b)
<1> DEFINE w == AddFields(t, n)
           new == [i \in 1..n |-> t.commitNo]
           v == CommittedAttributesAdded(w, n)
           A == Values \cup {Null, EmptyText}
<1>0. /\ t.fields \in Nat /\ t.commitNo \in Nat
      /\ Rowids(DOMAIN t.log.fields)
      /\ \A i \in DOMAIN t.log.values : t.log.values[i] \in ValueRow(t.fields)
      /\ \A i \in DOMAIN t.log.fields : t.log.fields[i] \in Nat
  BY DEF CopyTyped, LogTyped
<1>1. /\ Shaped(w) /\ w.fields = t.fields + n /\ w.log = t.log
      /\ w.commitNo = t.commitNo
      /\ w.rows = [k \in DOMAIN t.rows |->
            [t.rows[k] EXCEPT !.attrs = @ \o [i \in 1..n |-> Null]]]
  <2>1. Shaped(t)
    BY DEF Good
  <2> DEFINE longer == [k \in DOMAIN t.rows |->
                [t.rows[k] EXCEPT !.attrs = @ \o [i \in 1..n |-> Null]]]
  <2>2. w = [t EXCEPT !.fields = @ + n, !.rows = longer]
    BY DEF AddFields
  <2> HIDE DEF w, longer
  <2>3. /\ Shaped(w) /\ w.fields = t.fields + n /\ w.log = t.log
        /\ w.commitNo = t.commitNo /\ w.rows = longer
    BY <2>1, <2>2 DEF Shaped
  <2> QED BY <2>3 DEF longer
<1>2. ASSUME NEW k \in DOMAIN t.rows
      PROVE  /\ w.rows[k].name = t.rows[k].name /\ w.rows[k].geom = t.rows[k].geom
             /\ \A f \in 1..t.fields : w.rows[k].attrs[f] = t.rows[k].attrs[f]
             /\ \A f \in 1..(t.fields + n) :
                    f > t.fields => w.rows[k].attrs[f] = Null
  <2> DEFINE row == t.rows[k]
             more == [i \in 1..n |-> Null]
  <2>1. row \in Row(t.fields)
    BY DEF CopyTyped
  <2>2. row.attrs \in Seq(A) /\ Len(row.attrs) = t.fields
    BY <1>0, <2>1 DEF Row
  <2>3. more \in Seq(A) /\ Len(more) = n
    OBVIOUS
  <2>4. w.rows[k] = [row EXCEPT !.attrs = @ \o more]
    BY <1>1 DEF row, more
  <2>5. \A i \in 1..n : more[i] = Null
    OBVIOUS
  <2> HIDE DEF row, more, A
  <2>6. /\ \A f \in 1..t.fields : (row.attrs \o more)[f] = row.attrs[f]
        /\ \A f \in 1..(t.fields + n) :
               f > t.fields => (row.attrs \o more)[f] = more[f - t.fields]
    <3>1. \A f \in 1..(Len(row.attrs) + Len(more)) :
              (row.attrs \o more)[f] = IF f <= Len(row.attrs) THEN row.attrs[f]
                                       ELSE more[f - Len(row.attrs)]
      BY <2>2, <2>3, ConcatProperties
    <3>2. \A f \in 1..(t.fields + n) :
              (row.attrs \o more)[f] = IF f <= t.fields THEN row.attrs[f]
                                       ELSE more[f - t.fields]
      BY <2>2, <2>3, <3>1
    <3>3. \A f \in 1..t.fields : f \in 1..(t.fields + n) /\ f <= t.fields
      BY <1>0
    <3>4. \A f \in 1..(t.fields + n) : f > t.fields => ~(f <= t.fields)
      BY <1>0
    <3> QED BY <3>2, <3>3, <3>4
  <2>7. /\ w.rows[k].name = row.name /\ w.rows[k].geom = row.geom
        /\ w.rows[k].attrs = row.attrs \o more
    BY <2>1, <2>4 DEF Row
  <2> HIDE DEF w
  <2>8. \A f \in 1..(t.fields + n) : f > t.fields => more[f - t.fields] = Null
    <3>1. \A f \in 1..(t.fields + n) : f > t.fields => f - t.fields \in 1..n
      BY <1>0
    <3> QED BY <2>5, <3>1
  <2> QED BY <2>6, <2>7, <2>8 DEF row
<1>6. /\ v.fields = w.fields /\ v.rows = w.rows /\ v.commitNo = t.commitNo + 1
      /\ v.log.added = t.log.added
      /\ v.log.values = t.log.values /\ v.log.geoms = t.log.geoms
      /\ v.log.fields = InsertAll(t.log.fields, new)
  <2> HIDE DEF w
  <2> QED BY <1>1 DEF Shaped, LogShaped, LogTables, CommittedAttributesAdded
<1>7. DOMAIN w.rows = DOMAIN t.rows
  BY <1>1
<1> HIDE DEF w, v
<1>8. /\ \A i \in DOMAIN t.log.fields :
             i \in DOMAIN v.log.fields /\ v.log.fields[i] = t.log.fields[i]
      /\ \A i \in DOMAIN v.log.fields :
             i \in DOMAIN t.log.fields \/ v.log.fields[i] = t.commitNo
      /\ Cardinality(DOMAIN v.log.fields) = Cardinality(DOMAIN t.log.fields) + n
  <2>1. Len(new) = n /\ \A i \in 1..n : new[i] = t.commitNo
    OBVIOUS
  <2> HIDE DEF new
  <2>2. PICK next : Longer(t.log.fields, new, n, v.log.fields, next)
    BY <1>0, <1>6, <2>1, InsertedAbove
  <2>3. Cardinality(DOMAIN InsertAll(t.log.fields, new))
            = Cardinality(DOMAIN t.log.fields) + n
    BY <1>0, <2>1, InsertedRows
  <2> QED BY <1>6, <2>1, <2>2, <2>3 DEF Longer
<1>9. ASSUME NEW commit \in Nat, commit < t.commitNo
      PROVE  FieldsBy(v.log, commit) = FieldsBy(t.log, commit)
  BY <1>0, <1>8, <1>9 DEF FieldsBy
<1>10. CommitsPast(v)
  <2>1. \A i \in DOMAIN v.log.fields : v.log.fields[i] < t.commitNo + 1
    BY <1>0, <1>8 DEF Told, CommitsPast
  <2>2. \A i \in DOMAIN t.log.values : t.log.values[i].commit < t.commitNo + 1
    BY <1>0 DEF Told, CommitsPast, ValueRow
  <2>3. \A i \in DOMAIN t.log.geoms : t.log.geoms[i].commit < t.commitNo + 1
    BY <1>0 DEF Told, CommitsPast, CopyTyped, LogTyped, GeomRow
  <2> QED BY <1>6, <2>1, <2>2, <2>3 DEF CommitsPast
<1>11. FieldsTold(v, b)
  <2>1. Cardinality(DOMAIN t.log.fields) \in Nat
    BY <1>0, RowidsFinite
  <2>2. v.fields = b.fields + Cardinality(DOMAIN v.log.fields)
    BY <1>0, <1>1, <1>6, <1>8, <2>1 DEF Told, FieldsTold
  <2>3. \A i \in DOMAIN t.log.values :
            t.log.values[i].commit \in Nat /\ t.log.values[i].commit < t.commitNo
    BY <1>0 DEF Told, CommitsPast, ValueRow
  <2> QED BY <1>6, <1>9, <2>2, <2>3 DEF Told, FieldsTold
<1>12. RowsTold(v, b)
  <2> SUFFICES ASSUME NEW k \in Originals(v)
               PROVE  /\ k \in DOMAIN b.rows /\ v.rows[k].name = b.rows[k].name
                      /\ QuotedValues = {} => \A f \in 1..v.fields : ValueTold(v, b, k, f)
                      /\ GeomTold(v, b, k)
    BY DEF RowsTold
  <2>1. k \in Originals(t) /\ k \in DOMAIN t.rows
    BY <1>6, <1>7 DEF Originals
  <2>2. GeomTold(v, b, k)
    <3>1. GeomRows(v.log, k) = GeomRows(t.log, k)
      BY <1>6 DEF GeomRows
    <3>2. v.rows[k].geom = t.rows[k].geom
      BY <1>2, <1>6, <2>1
    <3>3. GeomTold(t, b, k)
      BY <2>1 DEF Told, RowsTold
    <3> QED BY <1>6, <3>1, <3>2, <3>3 DEF GeomTold
  <2>3. ASSUME QuotedValues = {}, NEW f \in 1..v.fields
        PROVE  ValueTold(v, b, k, f)
    <3>1. ValueRows(v.log, k, f) = ValueRows(t.log, k, f)
      BY <1>6 DEF ValueRows
    <3>2. CASE f <= t.fields
      <4>1. f \in 1..t.fields
        BY <1>0, <1>1, <1>6, <3>2
      <4>2. v.rows[k].attrs[f] = t.rows[k].attrs[f]
        BY <1>2, <1>6, <2>1, <4>1
      <4> QED BY <1>6, <2>1, <2>3, <3>1, <4>1, <4>2 DEF Told, RowsTold, ValueTold
    <3>3. CASE ~(f <= t.fields)
      <4>1. f \in 1..(t.fields + n) /\ f > t.fields
        BY <1>0, <1>1, <1>6, <3>3
      <4>2. v.rows[k].attrs[f] = Null
        BY <1>2, <1>6, <2>1, <4>1
      <4>3. ValueRows(t.log, k, f) = {}
        BY <1>0, <4>1 DEF ValueRows, ValueRow
      <4>4. ~(f <= b.fields)
        <5>1. Cardinality(DOMAIN t.log.fields) \in Nat
          BY <1>0, RowidsFinite
        <5> QED BY <1>0, <4>1, <5>1 DEF Told, FieldsTold
      <4> QED BY <3>1, <4>2, <4>3, <4>4 DEF ValueTold
    <3> QED BY <3>2, <3>3
  <2> QED BY <1>2, <1>6, <2>1, <2>2, <2>3 DEF Told, RowsTold
<1>13. CommitFields(t, n, TRUE) \in {t, v}
  BY DEF CommitFields, Stage, v, w
<1> QED BY <1>10, <1>11, <1>12, <1>13 DEF Told

\* Ascending(S) has all of S.
LEMMA AscendingOnto ==
    ASSUME NEW S, Rowids(S), NEW x \in S
    PROVE  \E i \in 1..Cardinality(S) : Ascending(S)[i] = x
<1> DEFINE n == Cardinality(S)
           f == Ascending(S)
<1>1. /\ DOMAIN f = 1..n /\ n \in Nat
      /\ \A i \in 1..n : f[i] \in S
      /\ \A i, j \in 1..n : i < j => f[i] < f[j]
  BY AscendingOrder
<1>2. IsFiniteSet(S) /\ IsFiniteSet(1..n) /\ Cardinality(1..n) = n
  <2>1. IsFiniteSet(S)
    BY RowidsFinite
  <2> HIDE DEF n
  <2>2. 1 \in Int /\ n \in Int /\ n \in Nat
    BY <1>1
  <2>3. /\ IsFiniteSet(1..n)
        /\ Cardinality(1..n) = (IF 1 > n THEN 0 ELSE n - 1 + 1)
    BY <2>2, FS_Interval
  <2> QED BY <2>1, <2>2, <2>3
<1>3. f = [i \in DOMAIN f |-> f[i]]
  <2> DEFINE e(i) == CHOOSE z \in S : Cardinality({y \in S : y < z}) = i - 1
  <2>1. f = [i \in 1..n |-> e(i)]
    BY Zenon DEF Ascending
  <2> HIDE DEF e, f, n
  <2> QED BY <2>1
<1>4. S \subseteq Nat
  BY DEF Rowids
<1> HIDE DEF f
<1>5. \A i, j \in 1..n : f[i] = f[j] => i = j
  <2> TAKE i, j \in 1..n
  <2>1. f[i] \in Nat /\ f[j] \in Nat
    BY <1>1, <1>4
  <2>2. i < j \/ j < i \/ i = j
    BY <1>1
  <2> QED BY <1>1, <2>1, <2>2
<1> HIDE DEF n
<1>6. f \in [1..n -> S]
  BY <1>1, <1>3
<1>7. f \in Injection(1..n, S)
  BY <1>5, <1>6 DEF Injection, IsInjective
<1>8. f \in Surjection(1..n, S)
  BY <1>2, <1>7, FS_Injection DEF n
<1> QED BY <1>8 DEF Surjection, f, n

\* The last row of a table for some keys depends on these rows alone.
LEMMA SameLast ==
    ASSUME NEW rows, NEW all, NEW keys, \A i \in keys : all[i] = rows[i],
           NEW m, IsLast(rows, keys, m)
    PROVE  IsLast(all, keys, m)
BY DEF IsLast

\* A row that was inserted by the last commit is the last one, if it is the
\* only such row there is.
LEMMA LastInserted ==
    ASSUME NEW t, Rowids(DOMAIN t), NEW c \in Nat,
           \A i \in DOMAIN t : t[i].commit < c,
           NEW new, NEW n \in Nat, NEW all, NEW next, Longer(t, new, n, all, next),
           NEW keys, NEW m \in keys, m \in Nat, all[m].commit = c,
           \A i \in keys : i \in DOMAIN t \/ i = m
    PROVE  IsLast(all, keys, m)
<1>1. ASSUME NEW i \in keys
      PROVE  \/ all[i].commit < all[m].commit
             \/ all[i].commit = all[m].commit /\ i <= m
  <2>1. CASE i \in DOMAIN t
    BY <2>1 DEF Longer
  <2>2. CASE i = m
    BY <2>2
  <2> QED BY <2>1, <2>2
<1> QED BY <1>1 DEF IsLast

\* What the slot logs of changed values tells which values were changed.
LEMMA ValuesTell ==
    ASSUME NEW t, Good(t), CopyTyped(t), NEW b, b.fields \in Nat, Told(t, b),
           NEW values, Rowids(DOMAIN values),
           \A k \in DOMAIN values :
               values[k] \in [field : 1..t.fields, value : Values \cup {Null}]
    PROVE  Told(CommitValues(t, values, TRUE), b)
<1> DEFINE w == ChangeValues(t, values)
           keys == {k \in DOMAIN values :
                       /\ ~IsAddedFeature(w.log, k)
                       /\ values[k].value \notin QuotedValues}
           new == [i \in DOMAIN Ascending(keys) |->
                     [commit |-> w.commitNo, fid |-> Ascending(keys)[i],
                      field |-> values[Ascending(keys)[i]].field,
                      value |-> Logged(values[Ascending(keys)[i]].value)]]
           n == Cardinality(keys)
           c == t.commitNo
           v == CommittedAttributeValuesChanges(w, values)
           Changed(k) == IF k \in DOMAIN values
                         THEN [t.rows[k] EXCEPT
                                 !.attrs[values[k].field] = values[k].value]
                         ELSE t.rows[k]
<1>0. /\ t.fields \in Nat /\ c \in Nat
      /\ Rowids(DOMAIN t.log.values)
      /\ \A i \in DOMAIN t.log.values : t.log.values[i] \in ValueRow(t.fields)
      /\ \A i \in DOMAIN t.log.values : t.log.values[i].commit < c
      /\ \A i \in DOMAIN t.log.fields : t.log.fields[i] < c
      /\ \A i \in DOMAIN t.log.geoms : t.log.geoms[i].commit < c
  BY DEF CopyTyped, LogTyped, Told, CommitsPast
<1>1. /\ Shaped(w) /\ w.fields = t.fields /\ w.log = t.log
      /\ w.commitNo = c
      /\ w.rows = [k \in DOMAIN t.rows |-> Changed(k)]
  <2> DEFINE rows == [k \in DOMAIN t.rows |-> Changed(k)]
  <2>1. w = [t EXCEPT !.rows = rows]
    BY DEF ChangeValues
  <2> HIDE DEF w, rows
  <2>2. /\ Shaped(w) /\ w.fields = t.fields /\ w.log = t.log
        /\ w.commitNo = c /\ w.rows = rows
    BY <2>1 DEF Good, Shaped
  <2> QED BY <2>2 DEF rows
<1>2. ASSUME NEW k \in DOMAIN t.rows
      PROVE  /\ Changed(k).name = t.rows[k].name
             /\ Changed(k).geom = t.rows[k].geom
             /\ \A f \in 1..t.fields :
                    Changed(k).attrs[f] = IF k \in DOMAIN values /\ values[k].field = f
                                          THEN values[k].value
                                          ELSE t.rows[k].attrs[f]
  <2>1. t.rows[k] \in Row(t.fields)
    BY DEF CopyTyped
  <2>2. CASE k \in DOMAIN values
    <3>1. values[k].field \in 1..t.fields
      BY <2>2
    <3>2. Changed(k) = [t.rows[k] EXCEPT !.attrs =
              [t.rows[k].attrs EXCEPT ![values[k].field] = values[k].value]]
      BY <2>2
    <3> HIDE DEF Changed
    <3> QED BY <2>1, <2>2, <3>1, <3>2 DEF Row
  <2>3. CASE k \notin DOMAIN values
    BY <2>3
  <2> QED BY <2>2, <2>3
<1>3. ASSUME NEW k \in DOMAIN t.rows
      PROVE  w.rows[k] = Changed(k)
  BY <1>1
<1> HIDE DEF Changed, w
<1>4. /\ Rowids(keys)
      /\ \A k \in keys : k \in DOMAIN values /\ k \notin RowsIn(t.log.added)
      /\ QuotedValues = {} => \A k \in DOMAIN values :
             k \notin RowsIn(t.log.added) => k \in keys
  BY <1>1, SomeRowids DEF IsAddedFeature
<1>6. v = [w EXCEPT !.log.values = InsertAll(@, new), !.commitNo = @ + 1]
  BY DEF CommittedAttributeValuesChanges
<1> HIDE DEF keys
<1>7. /\ DOMAIN Ascending(keys) = 1..n /\ n \in Nat
      /\ \A i \in 1..n : Ascending(keys)[i] \in keys
      /\ \A i, j \in 1..n : i < j => Ascending(keys)[i] < Ascending(keys)[j]
  BY <1>4, AscendingOrder
<1>8. /\ Len(new) = n
      /\ \A i \in 1..n : new[i] =
            [commit |-> c, fid |-> Ascending(keys)[i],
             field |-> values[Ascending(keys)[i]].field,
             value |-> Logged(values[Ascending(keys)[i]].value)]
  BY <1>1, <1>7
<1>9. \A i \in 1..n : /\ new[i].commit = c /\ new[i].fid \in keys
                      /\ new[i].field = values[new[i].fid].field
                      /\ new[i].value = Logged(values[new[i].fid].value)
  BY <1>7, <1>8
<1>10. \A i, j \in 1..n : new[i].fid = new[j].fid => i = j
  <2> TAKE i, j \in 1..n
  <2>1. Ascending(keys)[i] \in Nat /\ Ascending(keys)[j] \in Nat
    BY <1>4, <1>7 DEF Rowids
  <2>2. i < j \/ j < i \/ i = j
    BY <1>7
  <2> QED BY <1>7, <1>8, <2>1, <2>2
<1>11. \A k \in keys : \E i \in 1..n : new[i].fid = k
  <2> TAKE k \in keys
  <2>1. PICK i \in 1..n : Ascending(keys)[i] = k
    BY <1>4, AscendingOnto
  <2> QED BY <1>8, <2>1
<1> HIDE DEF new, v, n
<1>12. /\ v.fields = t.fields /\ v.rows = w.rows /\ v.commitNo = c + 1
       /\ v.log.added = t.log.added
       /\ v.log.fields = t.log.fields /\ v.log.geoms = t.log.geoms
       /\ v.log.values = InsertAll(t.log.values, new)
  BY <1>1, <1>6 DEF Shaped, LogShaped, LogTables
<1>13. PICK next : Longer(t.log.values, new, n, v.log.values, next)
  BY <1>0, <1>7, <1>8, <1>12, InsertedAbove
<1> DEFINE old == DOMAIN t.log.values
           fresh == next..(next + n - 1)
<1>14. /\ DOMAIN v.log.values = old \cup fresh
       /\ \A i \in old : i \in Nat /\ v.log.values[i] = t.log.values[i]
       /\ \A i \in fresh : /\ i \in Nat /\ i \notin old
                           /\ i - next + 1 \in 1..n
                           /\ v.log.values[i] = new[i - next + 1]
  BY <1>0, <1>7, <1>13 DEF Longer, Rowids
<1>15. \A i \in 1..n : \E j \in fresh : j - next + 1 = i
  <2> TAKE i \in 1..n
  <2>1. next \in Nat /\ i \in Nat
    BY <1>7, <1>13 DEF Longer
  <2>2. next + i - 1 \in fresh
    BY <1>7, <2>1
  <2> WITNESS next + i - 1 \in fresh
  <2> QED BY <2>1
<1>16. \A i, j \in fresh : i - next + 1 = j - next + 1 => i = j
  BY <1>13 DEF Longer
<1> HIDE DEF old, fresh
<1>17. CommitsPast(v)
  <2>1. \A i \in fresh : v.log.values[i].commit < c + 1
    BY <1>0, <1>9, <1>14
  <2>2. \A i \in old : v.log.values[i].commit < c + 1
    <3> TAKE i \in old
    <3>1. t.log.values[i].commit \in Nat /\ t.log.values[i].commit < c
      BY <1>0 DEF ValueRow, old
    <3> QED BY <1>0, <1>14, <3>1
  <2>3. \A i \in DOMAIN t.log.fields : t.log.fields[i] < c + 1
    <3> TAKE i \in DOMAIN t.log.fields
    <3>1. t.log.fields[i] \in Nat /\ t.log.fields[i] < c
      BY <1>0 DEF CopyTyped, LogTyped
    <3> QED BY <1>0, <3>1
  <2>4. \A i \in DOMAIN t.log.geoms : t.log.geoms[i].commit < c + 1
    <3> TAKE i \in DOMAIN t.log.geoms
    <3>1. t.log.geoms[i].commit \in Nat /\ t.log.geoms[i].commit < c
      BY <1>0 DEF CopyTyped, LogTyped, GeomRow
    <3> QED BY <1>0, <3>1
  <2> QED BY <1>12, <1>14, <2>1, <2>2, <2>3, <2>4 DEF CommitsPast
<1>18. FieldsTold(v, b)
  <2>1. \A i \in fresh :
            v.log.values[i].field
                <= b.fields + Cardinality(FieldsBy(v.log, v.log.values[i].commit))
    <3> TAKE i \in fresh
    <3>1. /\ v.log.values[i].commit = c
          /\ v.log.values[i].field \in 1..t.fields
      BY <1>4, <1>9, <1>14
    <3>2. FieldsBy(v.log, c) = DOMAIN t.log.fields
      <4>1. \A j \in DOMAIN t.log.fields : t.log.fields[j] <= c
        BY <1>0 DEF CopyTyped, LogTyped
      <4> QED BY <1>12, <4>1 DEF FieldsBy
    <3>3. t.fields = b.fields + Cardinality(DOMAIN t.log.fields)
      BY DEF Told, FieldsTold
    <3>4. v.log.values[i].field <= t.fields
      BY <1>0, <3>1
    <3> QED BY <3>1, <3>2, <3>3, <3>4
  <2>2. \A i \in old :
            v.log.values[i].field
                <= b.fields + Cardinality(FieldsBy(v.log, v.log.values[i].commit))
    <3> TAKE i \in old
    <3>1. FieldsBy(v.log, t.log.values[i].commit)
              = FieldsBy(t.log, t.log.values[i].commit)
      BY <1>12 DEF FieldsBy
    <3> QED BY <1>14, <3>1 DEF Told, FieldsTold, old
  <2> QED BY <1>12, <1>14, <2>1, <2>2 DEF Told, FieldsTold
<1>19. RowsTold(v, b)
  <2> SUFFICES ASSUME NEW k \in Originals(v)
               PROVE  /\ k \in DOMAIN b.rows /\ v.rows[k].name = b.rows[k].name
                      /\ QuotedValues = {} => \A f \in 1..v.fields : ValueTold(v, b, k, f)
                      /\ GeomTold(v, b, k)
    BY DEF RowsTold
  <2>1. /\ k \in Originals(t) /\ k \in DOMAIN t.rows /\ k \notin RowsIn(t.log.added)
        /\ v.rows[k] = Changed(k)
    BY <1>1, <1>3, <1>12 DEF Originals
  <2>2. GeomTold(v, b, k)
    <3>1. GeomRows(v.log, k) = GeomRows(t.log, k)
      BY <1>12 DEF GeomRows
    <3>2. v.rows[k].geom = t.rows[k].geom
      BY <1>2, <2>1
    <3>3. GeomTold(t, b, k)
      BY <2>1 DEF Told, RowsTold
    <3> QED BY <1>12, <3>1, <3>2, <3>3 DEF GeomTold
  <2>3. ASSUME QuotedValues = {}, NEW f \in 1..v.fields
        PROVE  ValueTold(v, b, k, f)
    <3> DEFINE logged == ValueRows(v.log, k, f)
    <3>0. f \in 1..t.fields
      BY <1>12
    <3>1. CASE k \in DOMAIN values /\ values[k].field = f
      <4>1. k \in keys
        BY <1>4, <2>1, <2>3, <3>1
      <4>2. PICK i \in 1..n : new[i].fid = k
        BY <1>11, <4>1
      <4>3. PICK m \in fresh : m - next + 1 = i
        BY <1>15
      <4>4. /\ v.log.values[m] = new[i] /\ m \in Nat /\ m \in logged
        BY <1>9, <1>14, <3>1, <4>2, <4>3 DEF ValueRows
      <4>5. \A j \in logged : j \in old \/ j = m
        <5> SUFFICES ASSUME NEW j \in logged, j \notin old PROVE j = m
          OBVIOUS
        <5>1. j \in fresh /\ v.log.values[j].fid = k
          BY <1>14 DEF ValueRows
        <5>2. j - next + 1 \in 1..n /\ new[j - next + 1].fid = k
          BY <1>14, <5>1
        <5>3. j - next + 1 = i
          BY <1>10, <4>2, <5>2
        <5> QED BY <1>16, <4>3, <5>1, <5>3
      <4>6. IsLast(v.log.values, logged, m)
        <5>1. v.log.values[m].commit = c
          BY <1>9, <4>4
        <5> HIDE DEF logged
        <5> QED BY <1>0, <1>7, <1>13, <4>4, <4>5, <5>1, LastInserted DEF old
      <4>7. v.log.values[m].value = Logged(v.rows[k].attrs[f])
        BY <1>2, <1>9, <2>1, <3>0, <3>1, <4>2, <4>4
      <4> QED BY <4>4, <4>6, <4>7 DEF ValueTold
    <3>2. CASE ~(k \in DOMAIN values /\ values[k].field = f)
      <4>1. v.rows[k].attrs[f] = t.rows[k].attrs[f]
        BY <1>2, <2>1, <3>0, <3>2
      <4>2. \A j \in fresh : ~(v.log.values[j].fid = k /\ v.log.values[j].field = f)
        BY <1>4, <1>9, <1>14, <3>2
      <4>3. logged = ValueRows(t.log, k, f)
        BY <1>14, <4>2 DEF ValueRows, old
      <4>4. \A i \in logged : v.log.values[i] = t.log.values[i]
        BY <1>14, <4>3 DEF ValueRows, old
      <4>5. ValueTold(t, b, k, f)
        BY <2>1, <2>3, <3>0 DEF Told, RowsTold
      <4> HIDE DEF logged
      <4>6. CASE logged = {}
        BY <4>1, <4>3, <4>5, <4>6 DEF ValueTold, logged
      <4>7. CASE logged # {}
        <5>1. PICK m \in logged : /\ IsLast(t.log.values, logged, m)
                                  /\ t.log.values[m].value = Logged(t.rows[k].attrs[f])
          BY <4>3, <4>5, <4>7 DEF ValueTold
        <5>2. IsLast(v.log.values, logged, m)
          BY <4>4, <5>1, SameLast
        <5> QED BY <4>1, <4>4, <4>7, <5>1, <5>2 DEF ValueTold, logged
      <4> QED BY <4>6, <4>7
    <3> QED BY <3>1, <3>2
  <2>4. k \in DOMAIN b.rows /\ v.rows[k].name = b.rows[k].name
    BY <1>2, <2>1 DEF Told, RowsTold
  <2> QED BY <2>2, <2>3, <2>4
<1>20. CommitValues(t, values, TRUE) \in {t, v}
  BY DEF CommitValues, Stage, v, w
<1> QED BY <1>17, <1>18, <1>19, <1>20 DEF Told

\* What the slot logs of changed geometries tells which ones were changed.
LEMMA GeometriesTell ==
    ASSUME NEW t, Good(t), CopyTyped(t), NEW b, b.fields \in Nat, Told(t, b),
           NEW geoms, Rowids(DOMAIN geoms)
    PROVE  Told(CommitGeometries(t, geoms, TRUE), b)
<1> DEFINE w == ChangeGeometries(t, geoms)
           keys == {k \in DOMAIN geoms : ~IsAddedFeature(w.log, k)}
           new == [i \in DOMAIN Ascending(keys) |->
                     [commit |-> w.commitNo, fid |-> Ascending(keys)[i],
                      geom |-> geoms[Ascending(keys)[i]]]]
           n == Cardinality(keys)
           c == t.commitNo
           v == CommittedGeometriesChanges(w, geoms)
           Changed(k) == IF k \in DOMAIN geoms
                         THEN [t.rows[k] EXCEPT !.geom = geoms[k]]
                         ELSE t.rows[k]
<1>0. /\ c \in Nat
      /\ Rowids(DOMAIN t.log.geoms)
      /\ \A i \in DOMAIN t.log.values : t.log.values[i].commit < c
      /\ \A i \in DOMAIN t.log.fields : t.log.fields[i] < c
      /\ \A i \in DOMAIN t.log.geoms : t.log.geoms[i].commit < c
  BY DEF CopyTyped, LogTyped, Told, CommitsPast
<1>1. /\ Shaped(w) /\ w.fields = t.fields /\ w.log = t.log
      /\ w.commitNo = c
      /\ w.rows = [k \in DOMAIN t.rows |-> Changed(k)]
  <2> DEFINE rows == [k \in DOMAIN t.rows |-> Changed(k)]
  <2>1. w = [t EXCEPT !.rows = rows]
    BY DEF ChangeGeometries
  <2> HIDE DEF w, rows
  <2>2. /\ Shaped(w) /\ w.fields = t.fields /\ w.log = t.log
        /\ w.commitNo = c /\ w.rows = rows
    BY <2>1 DEF Good, Shaped
  <2> QED BY <2>2 DEF rows
<1>2. ASSUME NEW k \in DOMAIN t.rows
      PROVE  /\ Changed(k).name = t.rows[k].name
             /\ Changed(k).attrs = t.rows[k].attrs
             /\ Changed(k).geom = IF k \in DOMAIN geoms THEN geoms[k]
                                  ELSE t.rows[k].geom
  <2>1. t.rows[k] \in Row(t.fields)
    BY DEF CopyTyped
  <2> QED BY <2>1 DEF Row
<1>3. ASSUME NEW k \in DOMAIN t.rows
      PROVE  w.rows[k] = Changed(k)
  BY <1>1
<1> HIDE DEF Changed, w
<1>4. /\ Rowids(keys)
      /\ \A k : k \in keys <=> k \in DOMAIN geoms /\ k \notin RowsIn(t.log.added)
  BY <1>1, SomeRowids DEF IsAddedFeature
<1>6. v = [w EXCEPT !.log.geoms = InsertAll(@, new), !.commitNo = @ + 1]
  BY DEF CommittedGeometriesChanges
<1> HIDE DEF keys
<1>7. /\ DOMAIN Ascending(keys) = 1..n /\ n \in Nat
      /\ \A i \in 1..n : Ascending(keys)[i] \in keys
      /\ \A i, j \in 1..n : i < j => Ascending(keys)[i] < Ascending(keys)[j]
  BY <1>4, AscendingOrder
<1>8. /\ Len(new) = n
      /\ \A i \in 1..n : new[i] =
            [commit |-> c, fid |-> Ascending(keys)[i],
             geom |-> geoms[Ascending(keys)[i]]]
  BY <1>1, <1>7
<1>9. \A i \in 1..n : /\ new[i].commit = c /\ new[i].fid \in keys
                      /\ new[i].geom = geoms[new[i].fid]
  BY <1>7, <1>8
<1>10. \A i, j \in 1..n : new[i].fid = new[j].fid => i = j
  <2> TAKE i, j \in 1..n
  <2>1. Ascending(keys)[i] \in Nat /\ Ascending(keys)[j] \in Nat
    BY <1>4, <1>7 DEF Rowids
  <2>2. i < j \/ j < i \/ i = j
    BY <1>7
  <2> QED BY <1>7, <1>8, <2>1, <2>2
<1>11. \A k \in keys : \E i \in 1..n : new[i].fid = k
  <2> TAKE k \in keys
  <2>1. PICK i \in 1..n : Ascending(keys)[i] = k
    BY <1>4, AscendingOnto
  <2> QED BY <1>8, <2>1
<1> HIDE DEF new, v, n
<1>12. /\ v.fields = t.fields /\ v.rows = w.rows /\ v.commitNo = c + 1
       /\ v.log.added = t.log.added
       /\ v.log.fields = t.log.fields /\ v.log.values = t.log.values
       /\ v.log.geoms = InsertAll(t.log.geoms, new)
  BY <1>1, <1>6 DEF Shaped, LogShaped, LogTables
<1>13. PICK next : Longer(t.log.geoms, new, n, v.log.geoms, next)
  BY <1>0, <1>7, <1>8, <1>12, InsertedAbove
<1> DEFINE old == DOMAIN t.log.geoms
           fresh == next..(next + n - 1)
<1>14. /\ DOMAIN v.log.geoms = old \cup fresh
       /\ \A i \in old : i \in Nat /\ v.log.geoms[i] = t.log.geoms[i]
       /\ \A i \in fresh : /\ i \in Nat /\ i \notin old
                           /\ i - next + 1 \in 1..n
                           /\ v.log.geoms[i] = new[i - next + 1]
  BY <1>0, <1>7, <1>13 DEF Longer, Rowids
<1>15. \A i \in 1..n : \E j \in fresh : j - next + 1 = i
  <2> TAKE i \in 1..n
  <2>1. next \in Nat /\ i \in Nat
    BY <1>7, <1>13 DEF Longer
  <2>2. next + i - 1 \in fresh
    BY <1>7, <2>1
  <2> WITNESS next + i - 1 \in fresh
  <2> QED BY <2>1
<1>16. \A i, j \in fresh : i - next + 1 = j - next + 1 => i = j
  BY <1>13 DEF Longer
<1> HIDE DEF old, fresh
<1>17. CommitsPast(v)
  <2>1. \A i \in fresh : v.log.geoms[i].commit < c + 1
    BY <1>0, <1>9, <1>14
  <2>2. \A i \in old : v.log.geoms[i].commit < c + 1
    <3> TAKE i \in old
    <3>1. t.log.geoms[i].commit \in Nat /\ t.log.geoms[i].commit < c
      BY <1>0 DEF CopyTyped, LogTyped, GeomRow, old
    <3> QED BY <1>0, <1>14, <3>1
  <2>3. \A i \in DOMAIN t.log.fields : t.log.fields[i] < c + 1
    <3> TAKE i \in DOMAIN t.log.fields
    <3>1. t.log.fields[i] \in Nat /\ t.log.fields[i] < c
      BY <1>0 DEF CopyTyped, LogTyped
    <3> QED BY <1>0, <3>1
  <2>4. \A i \in DOMAIN t.log.values : t.log.values[i].commit < c + 1
    <3> TAKE i \in DOMAIN t.log.values
    <3>1. t.log.values[i].commit \in Nat /\ t.log.values[i].commit < c
      BY <1>0 DEF CopyTyped, LogTyped, ValueRow
    <3> QED BY <1>0, <3>1
  <2> QED BY <1>12, <1>14, <2>1, <2>2, <2>3, <2>4 DEF CommitsPast
<1>18. FieldsTold(v, b)
  BY <1>12 DEF Told, FieldsTold, FieldsBy
<1>19. RowsTold(v, b)
  <2> SUFFICES ASSUME NEW k \in Originals(v)
               PROVE  /\ k \in DOMAIN b.rows /\ v.rows[k].name = b.rows[k].name
                      /\ QuotedValues = {} => \A f \in 1..v.fields : ValueTold(v, b, k, f)
                      /\ GeomTold(v, b, k)
    BY DEF RowsTold
  <2>1. /\ k \in Originals(t) /\ k \in DOMAIN t.rows /\ k \notin RowsIn(t.log.added)
        /\ v.rows[k] = Changed(k)
    BY <1>1, <1>3, <1>12 DEF Originals
  <2>2. ASSUME QuotedValues = {}, NEW f \in 1..v.fields
        PROVE  ValueTold(v, b, k, f)
    <3>1. ValueRows(v.log, k, f) = ValueRows(t.log, k, f)
      BY <1>12 DEF ValueRows
    <3>2. v.rows[k].attrs = t.rows[k].attrs
      BY <1>2, <2>1
    <3>3. ValueTold(t, b, k, f)
      BY <1>12, <2>1, <2>2 DEF Told, RowsTold
    <3> QED BY <1>12, <3>1, <3>2, <3>3 DEF ValueTold
  <2>3. GeomTold(v, b, k)
    <3> DEFINE logged == GeomRows(v.log, k)
    <3>1. CASE k \in DOMAIN geoms
      <4>1. k \in keys
        BY <1>4, <2>1, <3>1
      <4>2. PICK i \in 1..n : new[i].fid = k
        BY <1>11, <4>1
      <4>3. PICK m \in fresh : m - next + 1 = i
        BY <1>15
      <4>4. /\ v.log.geoms[m] = new[i] /\ m \in Nat /\ m \in logged
        BY <1>9, <1>14, <3>1, <4>2, <4>3 DEF GeomRows
      <4>5. \A j \in logged : j \in old \/ j = m
        <5> SUFFICES ASSUME NEW j \in logged, j \notin old PROVE j = m
          OBVIOUS
        <5>1. j \in fresh /\ v.log.geoms[j].fid = k
          BY <1>14 DEF GeomRows
        <5>2. j - next + 1 \in 1..n /\ new[j - next + 1].fid = k
          BY <1>14, <5>1
        <5>3. j - next + 1 = i
          BY <1>10, <4>2, <5>2
        <5> QED BY <1>16, <4>3, <5>1, <5>3
      <4>6. IsLast(v.log.geoms, logged, m)
        <5>1. v.log.geoms[m].commit = c
          BY <1>9, <4>4
        <5> HIDE DEF logged
        <5> QED BY <1>0, <1>7, <1>13, <4>4, <4>5, <5>1, LastInserted DEF old
      <4>7. v.log.geoms[m].geom = v.rows[k].geom
        BY <1>2, <1>9, <2>1, <3>1, <4>2, <4>4
      <4> QED BY <4>4, <4>6, <4>7 DEF GeomTold
    <3>2. CASE k \notin DOMAIN geoms
      <4>1. v.rows[k].geom = t.rows[k].geom
        BY <1>2, <2>1, <3>2
      <4>2. \A j \in fresh : v.log.geoms[j].fid # k
        BY <1>4, <1>9, <1>14, <3>2
      <4>3. logged = GeomRows(t.log, k)
        BY <1>14, <4>2 DEF GeomRows, old
      <4>4. \A i \in logged : v.log.geoms[i] = t.log.geoms[i]
        BY <1>14, <4>3 DEF GeomRows, old
      <4>5. GeomTold(t, b, k)
        BY <2>1 DEF Told, RowsTold
      <4> HIDE DEF logged
      <4>6. CASE logged = {}
        BY <4>1, <4>3, <4>5, <4>6 DEF GeomTold, logged
      <4>7. CASE logged # {}
        <5>1. PICK m \in logged : /\ IsLast(t.log.geoms, logged, m)
                                  /\ t.log.geoms[m].geom = t.rows[k].geom
          BY <4>3, <4>5, <4>7 DEF GeomTold
        <5>2. IsLast(v.log.geoms, logged, m)
          BY <4>4, <5>1, SameLast
        <5> QED BY <4>1, <4>4, <4>7, <5>1, <5>2 DEF GeomTold, logged
      <4> QED BY <4>6, <4>7
    <3> QED BY <3>1, <3>2
  <2>4. k \in DOMAIN b.rows /\ v.rows[k].name = b.rows[k].name
    BY <1>2, <2>1 DEF Told, RowsTold
  <2> QED BY <2>2, <2>3, <2>4
<1>20. CommitGeometries(t, geoms, TRUE) \in {t, v}
  BY DEF CommitGeometries, Stage, v, w
<1> QED BY <1>17, <1>18, <1>19, <1>20 DEF Told

\* The rows that were copied are those not logged as added, and are those that
\* the lookup has and that are not logged as removed.
LEMMA OriginalsAreKept ==
    ASSUME NEW t, Accounted(t)
    PROVE  Originals(t) = CopiedRows(t.log) \ t.log.removed
BY DEF Accounted, Originals

\* What a stage logs that changes no row which was copied.
SameTales(t, u) ==
    /\ u.fields = t.fields /\ u.commitNo = t.commitNo
    /\ u.log.fields = t.log.fields /\ u.log.values = t.log.values
    /\ u.log.geoms = t.log.geoms /\ u.log.fids = t.log.fids
    /\ t.log.removed \subseteq u.log.removed

\* Such a stage leaves the log as true as it was.
LEMMA StillTold ==
    ASSUME NEW t, Accounted(t), NEW u, Accounted(u), SameTales(t, u),
           \A k \in DOMAIN t.rows \cap DOMAIN u.rows : u.rows[k] = t.rows[k],
           NEW b, Told(t, b)
    PROVE  Told(u, b)
<1>1. Originals(u) \subseteq Originals(t)
  BY OriginalsAreKept DEF SameTales, CopiedRows
<1>2. RowsTold(u, b)
  <2> SUFFICES ASSUME NEW k \in Originals(u)
               PROVE  /\ k \in DOMAIN b.rows /\ u.rows[k].name = b.rows[k].name
                      /\ QuotedValues = {} => \A f \in 1..u.fields : ValueTold(u, b, k, f)
                      /\ GeomTold(u, b, k)
    BY DEF RowsTold
  <2>1. k \in Originals(t) /\ u.rows[k] = t.rows[k]
    BY <1>1 DEF Originals
  <2>2. \A f : ValueTold(t, b, k, f) => ValueTold(u, b, k, f)
    BY <2>1 DEF ValueTold, ValueRows, SameTales
  <2>3. GeomTold(t, b, k) => GeomTold(u, b, k)
    BY <2>1 DEF GeomTold, GeomRows, SameTales
  <2> QED BY <2>1, <2>2, <2>3 DEF Told, RowsTold, SameTales
<1>3. CommitsPast(u) /\ FieldsTold(u, b)
  BY DEF Told, CommitsPast, FieldsTold, FieldsBy, SameTales
<1> QED BY <1>2, <1>3 DEF Told

\* Deleted rows are not logged as changed.
LEMMA DeletionsTell ==
    ASSUME NEW t, Good(t), NEW fids
    PROVE  SameTales(t, CommitDeletions(t, fids, TRUE))
<1> DEFINE w == DeleteRows(t, fids)
           gone == {k \in fids : IsAddedFeature(w.log, k)}
           v == CommittedFeaturesRemoved(w, fids)
<1>1. /\ Shaped(w) /\ w.fields = t.fields /\ w.log = t.log
      /\ w.commitNo = t.commitNo
  BY DEF Good, Shaped, DeleteRows
<1>2. v = [w EXCEPT
            !.log.added = Without(w.log.added,
                {k \in DOMAIN w.log.added : w.log.added[k] \in gone}),
            !.log.removed = @ \cup (fids \ gone)]
  BY DEF CommittedFeaturesRemoved
<1> HIDE DEF gone, w, v
<1>3. SameTales(t, v)
  BY <1>1, <1>2 DEF Shaped, LogShaped, LogTables, SameTales
<1>4. SameTales(t, t)
  BY DEF SameTales
<1>5. CommitDeletions(t, fids, TRUE) \in {t, v}
  BY DEF CommitDeletions, Stage, v, w
<1> QED BY <1>3, <1>4, <1>5

\* Nor are added rows.
LEMMA AdditionsTell ==
    ASSUME NEW t, Good(t), NEW rows
    PROVE  SameTales(t, CommitAdditions(t, rows, TRUE))
<1> DEFINE w == AddRows(t, rows)
           n == Len(rows)
           ids == NewestRowids(w.rows, n)
           v == CommittedFeaturesAdded(w, n)
<1>1. /\ Shaped(w) /\ w.fields = t.fields /\ w.log = t.log
      /\ w.commitNo = t.commitNo
  BY DEF Good, Shaped, AddRows
<1>2. v = [w EXCEPT !.log.added = InsertAll(@, ids)]
  BY DEF CommittedFeaturesAdded
<1> HIDE DEF ids, w, v
<1>3. SameTales(t, v)
  BY <1>1, <1>2 DEF Shaped, LogShaped, LogTables, SameTales
<1>4. SameTales(t, t)
  BY DEF SameTales
<1>5. CommitAdditions(t, rows, TRUE) \in {t, v}
  BY DEF CommitAdditions, Stage, v, w
<1> QED BY <1>3, <1>4, <1>5

\* A commit leaves a log that tells what became of the copy.
LEMMA CommittedTells ==
    ASSUME NEW t, Good(t), CopyTyped(t), Accounted(t), NEW s,
           SessionTyped(s, t.fields), NEW b, b.fields \in Nat, Told(t, b)
    PROVE  LET u == Committed(t, s, TRUE)
           IN  Told(u, b) /\ u.log.fids = t.log.fids
<1> DEFINE t1 == CommitFields(t, s.newFields, TRUE)
           t2 == CommitValues(t1, s.values, TRUE)
           t3 == CommitDeletions(t2, s.deleted, TRUE)
           t4 == CommitAdditions(t3, s.added, TRUE)
           geoms == Without(s.geoms, s.deleted)
           t5 == CommitGeometries(t4, geoms, TRUE)
<1>1. Committed(t, s, TRUE) = t5
  BY DEF Committed
<1>2. /\ CopyTyped(t1) /\ t1.fields = t.fields + s.newFields /\ Told(t1, b)
  BY FieldsTyped, FieldsTell DEF SessionTyped
<1>3. Good(t1) /\ Accounted(t1) /\ t1.log.fids = t.log.fids
  <2>1. SameRows(t, t1)
    BY FieldsKeepRows DEF Good
  <2>2. Preserves(t, t1, TRUE)
    BY <2>1, SameRowsPreserves
  <2> QED BY <2>1, <2>2 DEF Preserves, SameRows
<1> HIDE DEF t1
<1>4. CopyTyped(t2) /\ SameFieldLog(t1, t2) /\ Told(t2, b)
  BY <1>2, <1>3, ValuesTyped, ValuesTell DEF SessionTyped
<1>5. Good(t2) /\ Accounted(t2) /\ t2.log.fids = t.log.fids
  <2>1. SameRows(t1, t2)
    BY <1>3, ValuesKeepRows DEF Good
  <2>2. Preserves(t1, t2, TRUE)
    BY <2>1, SameRowsPreserves
  <2> QED BY <1>3, <2>1, <2>2 DEF Preserves, SameRows
<1> HIDE DEF t2
<1>6. /\ CopyTyped(t3) /\ SameFieldLog(t2, t3)
      /\ \A k \in DOMAIN t2.rows \cap DOMAIN t3.rows : t3.rows[k] = t2.rows[k]
  BY <1>4, <1>5, DeletionsTyped
<1>7. Good(t3) /\ Accounted(t3)
  BY <1>5, DeletionsPreserve DEF Preserves
<1>8. SameTales(t2, t3)
  BY <1>5, DeletionsTell
<1> HIDE DEF t3
<1>9. Told(t3, b) /\ t3.log.fids = t.log.fids
  BY <1>4, <1>5, <1>6, <1>7, <1>8, StillTold DEF SameTales
<1>10. /\ Len(s.added) \in Nat
       /\ \A i \in 1..Len(s.added) : s.added[i] \in Row(t3.fields)
  BY <1>2, <1>4, <1>6 DEF SessionTyped, SameFieldLog
<1>11. /\ CopyTyped(t4)
       /\ \A k \in DOMAIN t3.rows : t4.rows[k] = t3.rows[k]
  BY <1>6, <1>7, <1>10, AdditionsTyped
<1>12. Good(t4) /\ Accounted(t4)
  BY <1>7, <1>10, AdditionsPreserve DEF Preserves
<1>13. SameTales(t3, t4)
  BY <1>7, AdditionsTell
<1> HIDE DEF t4
<1>14. Told(t4, b) /\ t4.log.fids = t.log.fids
  BY <1>7, <1>9, <1>11, <1>12, <1>13, StillTold DEF SameTales
<1>15. Rowids(DOMAIN geoms)
  BY SomeRowids DEF SessionTyped, Without
<1> HIDE DEF geoms
<1>16. Told(t5, b)
  BY <1>11, <1>12, <1>14, <1>15, GeometriesTell
<1>17. t5.log.fids = t.log.fids
  BY <1>12, <1>14, GeometriesKeepRows DEF Good, SameRows
<1> QED BY <1>1, <1>16, <1>17

-----------------------------------------------------------------------------
(* The lookup.                                                             *)

IsFirst(g, k, j) ==
    /\ j \in DOMAIN g.fids /\ g.fids[j].offline = k
    /\ \A i \in DOMAIN g.fids : g.fids[i].offline = k => j <= i

\* A row that the lookup has leads to the id of the first pair found.
LEMMA FirstFound ==
    ASSUME NEW g, Rowids(DOMAIN g.fids), NEW k, NEW j, IsFirst(g, k, j)
    PROVE  RemoteFid(g, k) = g.fids[j].remote
<1> DEFINE found == {i \in DOMAIN g.fids : g.fids[i].offline = k}
           P(i) == \A m \in found : i <= m
<1>1. j \in found /\ P(j)
  BY DEF IsFirst
<1>2. ASSUME NEW i \in found, P(i) PROVE i = j
  <2>1. i \in Nat /\ j \in Nat
    BY <1>1 DEF Rowids
  <2> QED BY <1>1, <1>2, <2>1
<1>3. RemoteFid(g, k) = IF found = {} THEN -1 ELSE g.fids[CHOOSE i \in found : P(i)].remote
  BY DEF RemoteFid
<1> HIDE DEF found, P
<1>4. (CHOOSE i \in found : P(i)) = j
  BY <1>1, <1>2
<1> QED BY <1>1, <1>3, <1>4

\* There is a first pair.
LEMMA SomeFirst ==
    ASSUME NEW g, Rowids(DOMAIN g.fids), NEW k \in CopiedRows(g)
    PROVE  \E j : IsFirst(g, k, j)
<1> DEFINE found == {i \in DOMAIN g.fids : g.fids[i].offline = k}
<1>1. found \subseteq Nat /\ found # {}
  BY DEF CopiedRows, Rowids
<1>2. PICK j \in found : \A i \in found : ~(<<i, j>> \in OpToRel(<, Nat))
  <2> HIDE DEF found
  <2> QED BY <1>1, NatLessThanWellFounded, WFMin
<1>3. \A i \in found : j <= i
  <2> TAKE i \in found
  <2>1. i \in Nat /\ j \in Nat /\ ~(i < j)
    BY <1>1, <1>2 DEF OpToRel
  <2> QED BY <2>1
<1> QED BY <1>3 DEF IsFirst

\* A row without a pair leads nowhere.
LEMMA NotFound ==
    ASSUME NEW g, NEW k, k \notin CopiedRows(g)
    PROVE  RemoteFid(g, k) = -1
BY DEF RemoteFid, CopiedRows

\* Pairs that are appended change nothing for the rows that had one.
LEMMA AppendedLater ==
    ASSUME NEW g, Rowids(DOMAIN g.fids), NEW h, NEW pairs, NEW n \in Nat, NEW next,
           Longer(g.fids, pairs, n, h.fids, next), Rowids(DOMAIN h.fids),
           NEW k \in CopiedRows(g)
    PROVE  RemoteFid(h, k) = RemoteFid(g, k)
<1>1. PICK j : IsFirst(g, k, j)
  BY SomeFirst
<1>2. IsFirst(h, k, j)
  <2>1. /\ j \in DOMAIN g.fids /\ g.fids[j].offline = k /\ j \in Nat
        /\ \A i \in DOMAIN g.fids : g.fids[i].offline = k => j <= i
    BY <1>1 DEF IsFirst, Rowids
  <2>2. \A i \in next..(next + n - 1) : j <= i
    BY <2>1 DEF Longer
  <2> QED BY <2>1, <2>2 DEF Longer, IsFirst
<1>3. h.fids[j] = g.fids[j]
  BY <1>1 DEF IsFirst, Longer
<1> QED BY <1>1, <1>2, <1>3, FirstFound

\* The pairs of a new copy.
LEMMA CopyPairs ==
    ASSUME NEW S, IsFiniteSet(S), NEW rows, NEW order \in Orders(S), NEW g,
           g.fids = CopyOf(rows, order).fids
    PROVE  LET n == Cardinality(S) IN
           /\ n \in Nat /\ DOMAIN order = 1..n
           /\ CopiedRows(g) = 1..n
           /\ \A k \in 1..n : RemoteFid(g, k) = order[n + 1 - k]
           /\ \A k \in DOMAIN g.fids : g.fids[k].remote \in S
<1> DEFINE n == Len(order)
           pairs == PairsInOrder([i \in 1..n |-> i],
                                 [i \in 1..n |-> order[n + 1 - i]])
<1>1. /\ n \in Nat /\ n = Cardinality(S) /\ DOMAIN order = 1..n
      /\ \A i \in 1..n : order[i] \in S
  <2>1. Cardinality(S) \in Nat
    BY FS_CardinalityType
  <2>2. order \in [1..Cardinality(S) -> S]
    BY DEF Orders
  <2> QED BY <2>1, <2>2
<1>2. g.fids = InsertAll(EmptyTable, pairs)
  BY DEF CopyOf
<1> HIDE DEF n
<1>3. /\ Len(pairs) = n
      /\ \A i \in 1..n : /\ pairs[i].offline = i
                         /\ pairs[i].remote = order[n + 1 - i]
  BY <1>1 DEF PairsInOrder
<1>4. DOMAIN EmptyTable = {} /\ Rowids({})
  BY DEF EmptyTable, Rowids
<1>5. NextRowid(EmptyTable) = 1
  BY <1>4 DEF NextRowid
<1> HIDE DEF pairs
<1>6. /\ DOMAIN g.fids = 1..n /\ Rowids(DOMAIN g.fids)
      /\ \A i \in 1..n : g.fids[i] = pairs[i]
  <2>1. Longer(EmptyTable, pairs, n, g.fids, 1)
    BY <1>1, <1>2, <1>3, <1>4, <1>5, InsertedAbove
  <2>2. 1..(1 + n - 1) = 1..n /\ \A i \in 1..n : i - 1 + 1 = i
    BY <1>1
  <2>3. \A i \in 1..n : i \in Nat \ {0} /\ i <= n
    BY <1>1
  <2>4. Rowids(1..n)
    BY <1>1, <2>3 DEF Rowids
  <2> QED BY <1>4, <2>1, <2>2, <2>4 DEF Longer
<1>7. \A i \in 1..n : g.fids[i].offline = i /\ g.fids[i].remote = order[n + 1 - i]
  BY <1>3, <1>6
<1>8. ASSUME NEW k \in 1..n PROVE RemoteFid(g, k) = order[n + 1 - k]
  <2>1. IsFirst(g, k, k)
    BY <1>1, <1>6, <1>7 DEF IsFirst
  <2> QED BY <1>6, <1>7, <2>1, FirstFound
<1>9. \A k \in DOMAIN g.fids : g.fids[k].remote \in S
  <2>1. \A k \in 1..n : n + 1 - k \in 1..n
    BY <1>1
  <2> QED BY <1>1, <1>6, <1>7, <2>1
<1>10. CopiedRows(g) = 1..n
  BY <1>6, <1>7 DEF CopiedRows
<1> QED BY <1>1, <1>8, <1>9, <1>10

-----------------------------------------------------------------------------
(* A layer that is offline, before and after it was synchronised.          *)

\* The lookup leads from the rows that were copied to the same features, and
\* to no id that is not given yet.
Paired(g, rows, remote) ==
    /\ \A k \in DOMAIN g.fids : g.fids[k].remote \in 1..(remote.nextFid - 1)
    /\ \A k \in DOMAIN rows :
           /\ RemoteFid(g, k) \in 1..(remote.nextFid - 1)
           /\ \A r \in DOMAIN remote.rows :
                  RemoteFid(g, k) = r <=> remote.rows[r].name = rows[k].name

Ready(l) ==
    /\ CopiedRows(log[l]) = DOMAIN base[l].rows
    /\ Told(Offline(l), base[l])
    /\ NotYetThere(Offline(l), base[l].rows)
    /\ NamesApart(base[l].rows, nextName)
    /\ server[l].fields = base[l].fields
    /\ Paired(log[l], base[l].rows, server[l])

Done(l) ==
    /\ base[l] = table[l]
    /\ server[l].fields = table[l].fields
    /\ log[l] = [EmptyLog EXCEPT !.fids = log[l].fids]
    /\ \A k \in DOMAIN table[l].rows :
           LET r == RemoteFid(log[l], k)
           IN  /\ r \in -1..(server[l].nextFid - 1)
               /\ r \in DOMAIN server[l].rows =>
                      server[l].rows[r].name = table[l].rows[k].name

LayerReady(l) ==
    \/ NotTaken(l) /\ base[l] = NoRows /\ l \notin delivered
    \/ Taken(l) /\ l \notin delivered /\ Ready(l)
    \/ Taken(l) /\ l \in delivered /\ Done(l)

\* The inductive invariant.
ReplayInv == LogFound /\ \A l \in Layers : LayerReady(l)

\* A layer is taken offline or it is not.
LEMMA TakenOrNot ==
    ASSUME NEW l
    PROVE  ~(Taken(l) /\ NotTaken(l))
BY OfflineAssumption DEF Taken, NotTaken, CopyTyped, Offline, Stored, NoRows

\* The lookup is right, whether the log was replayed or not.
LEMMA ReplayInvFinds == ReplayInv => LookupFindsFeature
<1> SUFFICES ASSUME ReplayInv, NEW l \in Layers \ unlogged, NEW k \in DOMAIN table[l].rows,
                    ~IsAddedFeature(log[l], k),
                    RemoteFid(log[l], k) \in DOMAIN server[l].rows
             PROVE  server[l].rows[RemoteFid(log[l], k)].name = table[l].rows[k].name
  BY DEF LookupFindsFeature
<1>1. CASE NotTaken(l)
  BY <1>1, NoRowsTyped DEF NotTaken
<1>2. CASE Ready(l)
  <2>1. k \in Originals(Offline(l))
    BY DEF IsAddedFeature, Originals, Offline, Stored
  <2>2. k \in DOMAIN base[l].rows /\ table[l].rows[k].name = base[l].rows[k].name
    BY <1>2, <2>1 DEF Ready, Told, RowsTold, Offline, Stored
  <2> QED BY <1>2, <2>2 DEF Ready, Paired
<1>3. CASE Done(l)
  BY <1>3 DEF Done
<1> QED BY <1>1, <1>2, <1>3 DEF ReplayInv, LayerReady

\* At first no layer is offline.
LEMMA InitReplayInv == Init => ReplayInv
BY InitTInv
   DEF Init, LogFound, LogInProject, EditsAreLogged, NothingOffline, ReplayInv,
       LayerReady, NotTaken

\* A layer that is taken is copied, in one order or another.
CopiesMade(taken, copies) ==
    /\ \A m \in taken : copies[m] \in Orders(DOMAIN server[m].rows)
    /\ table' = [m \in Layers |->
          IF m \in taken THEN [fields |-> server[m].fields,
                               rows |-> CopyOf(server[m].rows, copies[m]).rows]
          ELSE NoRows]
    /\ log' = [m \in Layers |->
          IF m \in taken
          THEN [EmptyLog EXCEPT !.fids = CopyOf(server[m].rows, copies[m]).fids]
          ELSE EmptyLog]
    /\ project' = [layers |-> taken, entry |-> TRUE]
    /\ base' = table'

\* Converting a project copies the layers that are taken.
LEMMA ConvertCopies ==
    ASSUME ConvertToOfflineProject
    PROVE  \E taken \in SUBSET Layers \ {{}} : \E copies : CopiesMade(taken, copies)
<1>1. PICK taken \in SUBSET Layers \ {{}} :
      \E copies \in [taken -> UNION {Orders(DOMAIN server[m].rows) : m \in taken}] :
          LET CopyOfLayer(m) == CopyOf(server[m].rows, copies[m])
          IN  /\ \A m \in taken : copies[m] \in Orders(DOMAIN server[m].rows)
              /\ table' = [m \in Layers |->
                    IF m \in taken THEN [fields |-> server[m].fields,
                                         rows |-> CopyOfLayer(m).rows]
                    ELSE NoRows]
              /\ log' = [m \in Layers |->
                    IF m \in taken
                    THEN [EmptyLog EXCEPT !.fids = CopyOfLayer(m).fids]
                    ELSE EmptyLog]
              /\ project' = [layers |-> taken, entry |-> TRUE]
              /\ base' = table'
  BY DEF ConvertToOfflineProject
<1>2. \E copies : CopiesMade(taken, copies)
  BY <1>1 DEF CopiesMade
<1> QED BY <1>2

\* Taking a layer offline makes it ready, if the lookup is right then.
LEMMA ConvertReady ==
    ASSUME ReplayInv, ConvertToOfflineProject, LogFound', LookupFindsFeature',
           NEW l \in Layers
    PROVE  LayerReady(l)'
<1>1. PICK taken \in SUBSET Layers \ {{}} : \E copies : CopiesMade(taken, copies)
  BY ConvertCopies
<1>2. PICK copies : CopiesMade(taken, copies)
  BY <1>1
<1> USE DEF CopiesMade
<1>3. /\ UNCHANGED <<server, nextName, delivered, unlogged>>
      /\ table[l] = NoRows
  BY DEF ConvertToOfflineProject
<1>4. l \notin delivered /\ unlogged' = {}
  <2>1. ~Taken(l)
    BY <1>3, OfflineAssumption DEF Taken, CopyTyped, Offline, Stored, NoRows
  <2> QED BY <1>3, <2>1
             DEF ReplayInv, LayerReady, LogFound, LogInProject, EditsAreLogged
<1>5. CASE l \notin taken
  BY <1>2, <1>3, <1>4, <1>5 DEF LayerReady, NotTaken
<1>6. CASE l \in taken
  <2> DEFINE rows == server[l].rows
             order == copies[l]
             copy == CopyOf(rows, order)
             g == [EmptyLog EXCEPT !.fids = copy.fids]
             n == Cardinality(DOMAIN rows)
  <2>1. /\ log'[l] = g /\ base'[l] = table'[l]
        /\ table'[l] = [fields |-> server[l].fields, rows |-> copy.rows]
    BY <1>2, <1>6
  <2>2. IsFiniteSet(DOMAIN rows) /\ order \in Orders(DOMAIN rows)
    BY <1>2, <1>6
       DEF ReplayInv, LogFound, LogInProject, EditsAreLogged, TInv, IInv,
           ServerShape
  <2>3. g.fids = copy.fids /\ g.added = EmptyTable /\ g.removed = {}
        /\ g.values = EmptyTable /\ g.geoms = EmptyTable /\ g.fields = EmptyTable
    BY DEF EmptyLog
  <2> HIDE DEF rows, order, g, copy
  <2>4. /\ n \in Nat /\ DOMAIN order = 1..n
        /\ CopiedRows(g) = 1..n
        /\ \A k \in 1..n : RemoteFid(g, k) = order[n + 1 - k]
        /\ \A k \in DOMAIN g.fids : g.fids[k].remote \in DOMAIN rows
        /\ \A i \in 1..n : order[i] \in DOMAIN rows
    <3>1. order \in [1..n -> DOMAIN rows]
      BY <2>2 DEF Orders
    <3>2. g.fids = CopyOf(rows, order).fids
      BY <2>3 DEF copy
    <3>3. /\ n \in Nat /\ DOMAIN order = 1..n
          /\ CopiedRows(g) = 1..n
          /\ \A k \in 1..n : RemoteFid(g, k) = order[n + 1 - k]
          /\ \A k \in DOMAIN g.fids : g.fids[k].remote \in DOMAIN rows
      BY <2>2, <3>2, CopyPairs
    <3> QED BY <3>1, <3>3
  <2> HIDE DEF n
  <2>5. Taken(l)'
    BY <1>2, <1>6 DEF LogFound, LogInProject, EditsAreLogged, TInv, OthersTyped
  <2>6. DOMAIN EmptyTable = {} /\ RowsIn(EmptyTable) = {} /\ Cardinality({}) = 0
    BY FS_EmptySet DEF EmptyTable, RowsIn
  <2>7. /\ Offline(l)'.rows = base'[l].rows /\ Offline(l)'.log = g
        /\ Offline(l)'.fields = base'[l].fields
    BY <2>1 DEF Offline, Stored
  <2>8. CopiedRows(g) = DOMAIN base'[l].rows
    <3>1. Accounted(Offline(l)')
      BY <1>3, <1>4 DEF LogFound, LogInProject, EditsAreLogged, TInv, IInv
    <3> QED BY <2>3, <2>6, <2>7, <3>1 DEF Accounted
  <2>9. Told(Offline(l)', base'[l])
    <3> DEFINE u == Offline(l)'
               b == base'[l]
    <3>1. /\ u.rows = b.rows /\ u.fields = b.fields /\ b.fields \in Nat
          /\ u.log = g
      <4>1. TableTyped(base'[l])
        BY DEF LogFound, LogInProject, EditsAreLogged, TInv, LayerTyped
      <4> QED BY <2>7, <4>1, OfflineAssumption DEF TableTyped
    <3> HIDE DEF u, b
    <3>2. RowsTold(u, b)
      <4>1. \A k, f : ValueRows(g, k, f) = {} /\ GeomRows(g, k) = {}
        BY <2>3, <2>6 DEF ValueRows, GeomRows
      <4>2. \A f \in 1..u.fields : f <= b.fields
        BY <3>1
      <4>3. \A k, f : f \in 1..u.fields => ValueTold(u, b, k, f)
        BY <3>1, <4>1, <4>2 DEF ValueTold
      <4>4. \A k : GeomTold(u, b, k)
        BY <3>1, <4>1 DEF GeomTold
      <4> QED BY <3>1, <4>3, <4>4 DEF RowsTold, Originals
    <3>3. CommitsPast(u) /\ FieldsTold(u, b)
      <4>1. /\ DOMAIN u.log.fields = {} /\ DOMAIN u.log.values = {}
            /\ DOMAIN u.log.geoms = {}
        BY <2>3, <2>6, <3>1
      <4>2. u.fields = b.fields + Cardinality(DOMAIN u.log.fields)
        BY <2>6, <3>1, <4>1
      <4> QED BY <4>1, <4>2 DEF CommitsPast, FieldsTold
    <3> QED BY <3>2, <3>3 DEF Told, u, b
  <2>10. NotYetThere(Offline(l)', base'[l].rows)
    BY <2>3, <2>6, <2>7 DEF NotYetThere
  <2>11. NamesApart(base'[l].rows, nextName') /\ NamesApart(rows, nextName)
    BY <1>3, <1>4, <2>1
       DEF LogFound, LogInProject, EditsAreLogged, TInv, LayerNames, rows
  <2>12. server'[l].fields = base'[l].fields
    BY <1>3, <2>1
  <2>13. Paired(g, base'[l].rows, server[l])
    <3>1. \A r \in DOMAIN rows : r \in 1..(server[l].nextFid - 1)
      BY DEF ReplayInv, LogFound, LogInProject, EditsAreLogged, TInv,
             LayerTyped, ServerTyped, rows
    <3>2. \A k \in 1..n : RemoteFid(g, k) \in DOMAIN rows
      <4>1. \A k \in 1..n : n + 1 - k \in 1..n
        BY <2>4
      <4> QED BY <2>4, <4>1
    <3>3. \A k \in 1..n : rows[RemoteFid(g, k)].name = base'[l].rows[k].name
      <4> TAKE k \in 1..n
      <4>1. k \in DOMAIN table'[l].rows /\ ~IsAddedFeature(log'[l], k)
        BY <2>1, <2>3, <2>4, <2>6, <2>8 DEF IsAddedFeature
      <4>2. RemoteFid(log'[l], k) \in DOMAIN server'[l].rows
        BY <1>3, <2>1, <3>2 DEF rows
      <4>3. server'[l].rows[RemoteFid(log'[l], k)].name = table'[l].rows[k].name
        BY <1>4, <4>1, <4>2 DEF LookupFindsFeature
      <4> QED BY <1>3, <2>1, <4>3 DEF rows
    <3>4. \A k \in 1..n, r \in DOMAIN rows :
              RemoteFid(g, k) = r <=> rows[r].name = base'[l].rows[k].name
      BY <2>11, <3>2, <3>3 DEF NamesApart
    <3> QED BY <2>4, <2>8, <3>1, <3>2, <3>4 DEF Paired, rows
  <2>14. Ready(l)'
    BY <1>3, <2>1, <2>8, <2>9, <2>10, <2>11, <2>12, <2>13 DEF Ready
  <2> QED BY <1>3, <1>4, <2>5, <2>14 DEF LayerReady
<1> QED BY <1>5, <1>6

-----------------------------------------------------------------------------
(* What a replay does, with a log that tells what happened to the copy.    *)

\* Where no commit is to come, all fields that were logged are found, by a
\* commit as well as in all.
LEMMA FieldsFound ==
    ASSUME NEW l, CopyTyped(Offline(l)), CommitsPast(Offline(l))
    PROVE  /\ \A c : FieldsAt(l, c) = server[l].fields
                                         + Cardinality(FieldsBy(log[l], c))
           /\ FieldsAt(l, commitNo) = server[l].fields
                                         + Cardinality(DOMAIN log[l].fields)
<1>1. /\ \A k \in DOMAIN log[l].fields : log[l].fields[k] \in Nat
      /\ \A k \in DOMAIN log[l].fields : log[l].fields[k] < commitNo
      /\ commitNo \in Nat
  BY DEF CopyTyped, LogTyped, CommitsPast, Offline, Stored
<1>2. ASSUME NEW c
      PROVE  FieldsAt(l, c) = server[l].fields + Cardinality(FieldsBy(log[l], c))
  <2>1. {k \in DOMAIN log[l].fields :
             log[l].fields[k] <= c /\ log[l].fields[k] < commitNo}
            = FieldsBy(log[l], c)
    BY <1>1 DEF FieldsBy
  <2> QED BY <2>1 DEF FieldsAt
<1>3. FieldsBy(log[l], commitNo) = DOMAIN log[l].fields
  BY <1>1 DEF FieldsBy
<1> QED BY <1>2, <1>3

\* The rows that the log has as added, in its order.
NewRow(g, i) == g.added[Ascending(DOMAIN g.added)[i]]

\* They are rows of the copy, and each of them is there once.
LEMMA NewRowsInOrder ==
    ASSUME NEW t, Good(t), InOrder(t), NEW n, n = Cardinality(DOMAIN t.log.added)
    PROVE  /\ n \in Nat /\ DOMAIN Ascending(DOMAIN t.log.added) = 1..n
           /\ Len(Ascending(DOMAIN t.log.added)) = n
           /\ \A i \in 1..n : /\ NewRow(t.log, i) \in RowsIn(t.log.added)
                              /\ NewRow(t.log, i) \in DOMAIN t.rows
           /\ \A k \in RowsIn(t.log.added) : \E i \in 1..n : NewRow(t.log, i) = k
           /\ \A i, j \in 1..n : NewRow(t.log, i) = NewRow(t.log, j) => i = j
<1> DEFINE S == DOMAIN t.log.added
           f == Ascending(S)
<1>1. Rowids(S)
  BY DEF Good
<1>2. /\ n \in Nat /\ DOMAIN f = 1..n /\ Len(f) = n
      /\ \A i \in 1..n : f[i] \in S
      /\ \A i, j \in 1..n : i < j => f[i] < f[j]
  <2> HIDE DEF S
  <2> QED BY <1>1, AscendingOrder DEF S
<1>3. \A i \in 1..n : NewRow(t.log, i) = t.log.added[f[i]]
  BY DEF NewRow
<1>4. \A k \in S : \E i \in 1..n : f[i] = k
  BY <1>1, AscendingOnto
<1> HIDE DEF f
<1>5. \A k \in RowsIn(t.log.added) : \E i \in 1..n : NewRow(t.log, i) = k
  <2> TAKE k \in RowsIn(t.log.added)
  <2>1. PICK j \in S : t.log.added[j] = k
    BY DEF RowsIn
  <2>2. PICK i \in 1..n : f[i] = j
    BY <1>4
  <2> QED BY <1>3, <2>1, <2>2
<1>6. \A i \in 1..n : /\ NewRow(t.log, i) \in RowsIn(t.log.added)
                      /\ NewRow(t.log, i) \in DOMAIN t.rows
  BY <1>2, <1>3 DEF RowsIn, InOrder
<1>7. \A i, j \in 1..n : i < j => NewRow(t.log, i) < NewRow(t.log, j)
  BY <1>2, <1>3 DEF InOrder
<1>8. \A i, j \in 1..n : NewRow(t.log, i) = NewRow(t.log, j) => i = j
  <2> SUFFICES ASSUME NEW i \in 1..n, NEW j \in 1..n,
                      NewRow(t.log, i) = NewRow(t.log, j)
               PROVE  ~(i < j) /\ ~(j < i)
    BY <1>2
  <2>1. NewRow(t.log, i) \in Nat
    BY <1>6 DEF Good, Rowids
  <2> QED BY <1>7, <2>1
<1> QED BY <1>2, <1>5, <1>6, <1>8 DEF f

\* With all fields found, the features that are added are the new rows of the
\* copy as they are.
LEMMA RowsAreAdded ==
    ASSUME NEW l \in Layers, Replayable(l), InOrder(Offline(l)),
           FieldsAt(l, commitNo) = table[l].fields,
           NEW n, n = Cardinality(DOMAIN log[l].added)
    PROVE  /\ Len(RowsToAdd(l)) = n
           /\ \A i \in 1..n : RowsToAdd(l)[i] = table[l].rows[NewRow(log[l], i)]
<1> DEFINE g == log[l]
           rows == table[l].rows
           S == {k \in DOMAIN g.added : g.added[k] \in DOMAIN rows}
           keys == Ascending(S)
           F == FieldsAt(l, commitNo)
           Attrs(row) == [f \in 1..F |->
                LET from == {h \in DOMAIN row.attrs : AttributeLookup(F, h) = f}
                IN  IF from = {} THEN Null
                    ELSE row.attrs[CHOOSE h \in from : \A i \in from : i <= h]]
           Copied(row) == [row EXCEPT !.attrs = Attrs(row)]
<1>1. RowsToAdd(l) = [i \in DOMAIN keys |-> Copied(rows[g.added[keys[i]]])]
  BY DEF RowsToAdd
<1>2. /\ n \in Nat /\ DOMAIN Ascending(DOMAIN g.added) = 1..n
      /\ \A i \in 1..n : NewRow(g, i) \in DOMAIN rows
  BY NewRowsInOrder DEF Replayable, Offline, Stored
<1>3. S = DOMAIN g.added
  BY DEF InOrder, Offline, Stored, RowsIn
<1>4. F \in Nat /\ F = table[l].fields
  BY FieldsReplayed
<1>5. ASSUME NEW row \in Row(table[l].fields) PROVE Copied(row) = row
  <2>1. DOMAIN row.attrs = 1..F
    BY <1>4 DEF Row
  <2>2. ASSUME NEW f \in 1..F PROVE Attrs(row)[f] = row.attrs[f]
    <3> DEFINE from == {h \in DOMAIN row.attrs : AttributeLookup(F, h) = f}
    <3>1. Attrs(row)[f] = IF from = {} THEN Null
              ELSE row.attrs[CHOOSE h \in from : \A i \in from : i <= h]
      OBVIOUS
    <3>2. from = {f}
      BY <1>4, <2>1 DEF AttributeLookup
    <3> HIDE DEF from, Attrs
    <3>3. (CHOOSE h \in from : \A i \in from : i <= h) = f
      BY <1>4, <3>2
    <3> QED BY <3>1, <3>2, <3>3
  <2>3. Attrs(row) = row.attrs
    <3>1. Attrs(row) = [f \in 1..F |-> Attrs(row)[f]]
      OBVIOUS
    <3>2. row.attrs = [f \in 1..F |-> row.attrs[f]]
      BY <1>4 DEF Row
    <3> HIDE DEF Attrs, F
    <3> QED BY <2>2, <3>1, <3>2
  <2> HIDE DEF Attrs
  <2> QED BY <2>3 DEF Row
<1>6. \A k \in DOMAIN rows : rows[k] \in Row(table[l].fields)
  BY DEF Replayable, CopyTyped, Offline, Stored
<1> HIDE DEF Copied, S
<1>7. DOMAIN RowsToAdd(l) = 1..n /\ Len(RowsToAdd(l)) = n
  <2>1. DOMAIN keys = 1..n
    BY <1>2, <1>3
  <2> HIDE DEF keys
  <2> QED BY <1>1, <1>2, <2>1
<1>8. ASSUME NEW i \in 1..n
      PROVE  RowsToAdd(l)[i] = rows[NewRow(g, i)]
  <2>1. g.added[keys[i]] = NewRow(g, i)
    BY <1>3 DEF NewRow
  <2>2. RowsToAdd(l)[i] = Copied(rows[NewRow(g, i)])
    BY <1>1, <1>2, <1>3, <2>1
  <2> QED BY <1>2, <1>5, <1>6, <2>2
<1> QED BY <1>7, <1>8

\* What a layer of the server is like after the replay.
Arrived(l, remote) ==
    LET next == server[l].nextFid
        n == Cardinality(DOMAIN log[l].added)
        kept == DOMAIN server[l].rows \ RemovedOnServer(l)
    IN  /\ n \in Nat /\ next \in Nat \ {0}
        /\ remote.fields = table[l].fields
        /\ remote.nextFid = next + n
        /\ DOMAIN remote.rows = kept \cup next..(next + n - 1)
        /\ \A r \in kept : /\ r \in 1..(next - 1)
                           /\ remote.rows[r] = ReplayedRow(l, r)
                           /\ remote.rows[r].name = server[l].rows[r].name
        /\ \A i \in 1..n : /\ next + i - 1 \in next..(next + n - 1)
                           /\ remote.rows[next + i - 1]
                                  = table[l].rows[NewRow(log[l], i)]

\* Where all fields are found, this is what Replayed() gives.
LEMMA ReplayedArrived ==
    ASSUME NEW l \in Layers, Replayable(l), InOrder(Offline(l)),
           FieldsAt(l, commitNo) = table[l].fields
    PROVE  Arrived(l, Replayed(l))
<1> DEFINE new == RowsToAdd(l)
           next == server[l].nextFid
           n == Cardinality(DOMAIN log[l].added)
           kept == DOMAIN server[l].rows \ RemovedOnServer(l)
           ids == next..(next + n - 1)
           rows == [r \in kept \cup ids |->
                      IF r \in kept THEN ReplayedRow(l, r) ELSE new[r - next + 1]]
<1>1. /\ Len(new) = n
      /\ \A i \in 1..n : new[i] = table[l].rows[NewRow(log[l], i)]
  BY RowsAreAdded
<1>2. n \in Nat
  <2>1. Good(Offline(l)) /\ Offline(l).log = log[l]
    BY DEF Replayable, Offline, Stored
  <2> QED BY <2>1, NewRowsInOrder
<1>3. /\ next \in Nat \ {0}
      /\ \A r \in DOMAIN server[l].rows : r \in 1..(next - 1)
  BY DEF Replayable, ServerTyped
<1>4. /\ Replayed(l).fields = table[l].fields
      /\ Replayed(l).nextFid = next + n
      /\ Replayed(l).rows = rows
  BY <1>1 DEF Replayed
<1>5. \A r \in kept : /\ r \in DOMAIN server[l].rows
                      /\ ReplayedRow(l, r).name = server[l].rows[r].name
  BY ReplayedRowTyped
<1> HIDE DEF new, next, n, kept
<1>6. ASSUME NEW i \in 1..n
      PROVE  /\ next + i - 1 \in ids /\ next + i - 1 \notin kept
             /\ (next + i - 1) - next + 1 = i
  BY <1>2, <1>3, <1>5
<1>7. ASSUME NEW i \in 1..n
      PROVE  rows[next + i - 1] = new[i]
  <2> DEFINE r == next + i - 1
  <2>1. r \in ids /\ r \notin kept /\ r - next + 1 = i
    BY <1>6
  <2> HIDE DEF r, ids
  <2>2. rows[r] = new[r - next + 1]
    BY <2>1
  <2> QED BY <2>1, <2>2 DEF r
<1>8. DOMAIN rows = kept \cup ids /\ \A r \in kept : rows[r] = ReplayedRow(l, r)
  OBVIOUS
<1> HIDE DEF rows
<1> QED BY <1>1, <1>2, <1>3, <1>4, <1>5, <1>6, <1>7, <1>8
      DEF Arrived, next, n, kept, ids

-----------------------------------------------------------------------------
(* The lookup after the replay, and the steps of the invariant.            *)

\* A row that was paired stays so, and a new row that gets a pair gets the id
\* its feature was given: if as many ids are without a pair as rows were added,
\* they are those that the server has just given.
LEMMA LookupAfter ==
    ASSUME NEW t, Good(t), InOrder(t), Rowids(DOMAIN t.log.fids),
           NEW next \in Nat \ {0}, NEW n, n = Cardinality(DOMAIN t.log.added),
           NEW F, Rowids(F), next..(next + n - 1) \subseteq F,
           \A k \in DOMAIN t.log.fids :
               t.log.fids[k].remote \notin next..(next + n - 1),
           NEW h, h.fids = LookupUpdated(t.log, F)
    PROVE  /\ \A k \in CopiedRows(t.log) : RemoteFid(h, k) = RemoteFid(t.log, k)
           /\ \A k : k \notin CopiedRows(t.log) =>
                \/ RemoteFid(h, k) = -1
                \/ \E i \in 1..n : /\ NewRow(t.log, i) = k
                                   /\ RemoteFid(h, k) = next + i - 1
<1> DEFINE g == t.log
           known == {g.fids[k].remote : k \in DOMAIN g.fids}
           ids == next..(next + n - 1)
           remote == Ascending(F \ known)
           keys == Ascending(DOMAIN g.added)
           pairs == PairsInOrder([i \in DOMAIN keys |-> g.added[keys[i]]], remote)
<1>1. /\ n \in Nat /\ DOMAIN keys = 1..n /\ Len(keys) = n
      /\ \A i, j \in 1..n : NewRow(g, i) = NewRow(g, j) => i = j
  BY NewRowsInOrder
<1>2. h.fids = IF Len(remote) # Len(keys) THEN g.fids ELSE InsertAll(g.fids, pairs)
  BY DEF LookupUpdated
<1>3. Rowids(F \ known)
  BY SomeRowids
<1>4. Len(remote) = Cardinality(F \ known) /\ Len(remote) \in Nat
  BY <1>3, AscendingLength
<1>5. CASE Len(remote) # n
  <2>1. h.fids = g.fids
    BY <1>1, <1>2, <1>5
  <2>2. \A k : RemoteFid(h, k) = RemoteFid(g, k)
    BY <2>1 DEF RemoteFid
  <2> QED BY <2>2, NotFound
<1>6. CASE Len(remote) = n
  <2>1. F \ known = ids
    <3>1. ids \subseteq F \ known
      OBVIOUS
    <3>2. IsFiniteSet(F \ known)
      BY <1>3, RowidsFinite
    <3>3. IsFiniteSet(ids) /\ Cardinality(ids) = n
      <4>1. next \in Int /\ next + n - 1 \in Int
        BY <1>1
      <4>2. /\ IsFiniteSet(ids)
            /\ Cardinality(ids) = IF next > next + n - 1 THEN 0
                                  ELSE (next + n - 1) - next + 1
        BY <4>1, FS_Interval
      <4>3. (IF next > next + n - 1 THEN 0 ELSE (next + n - 1) - next + 1) = n
        BY <1>1
      <4> QED BY <4>2, <4>3
    <3> HIDE DEF ids, known
    <3> QED BY <1>4, <1>6, <3>1, <3>2, <3>3, FS_Subset
  <2>2. remote = Ascending(ids)
    BY <2>1
  <2>3. DOMAIN remote = 1..n /\ \A i \in 1..n : remote[i] = next + i - 1
    <3>1. /\ Len(Ascending(ids)) = n
          /\ \A i \in 1..n : Ascending(ids)[i] = next + i - 1
      BY <1>1, AscendingInterval
    <3>2. DOMAIN Ascending(F \ known) = 1..Cardinality(F \ known)
      BY <1>3, AscendingOrder
    <3> QED BY <1>4, <1>6, <2>2, <3>1, <3>2
  <2> HIDE DEF remote, known
  <2>4. /\ Len(pairs) = n
        /\ \A i \in 1..n : /\ pairs[i].offline = NewRow(g, i)
                           /\ pairs[i].remote = next + i - 1
    <3>1. /\ DOMAIN pairs = 1..n
          /\ \A i \in 1..n : pairs[i] = [offline |-> g.added[keys[i]],
                                         remote |-> remote[i]]
      BY <1>1, <2>3 DEF PairsInOrder
    <3>2. \A i \in 1..n : g.added[keys[i]] = NewRow(g, i)
      BY DEF NewRow
    <3>3. Len(pairs) = n
      BY <1>1, <3>1 DEF PairsInOrder
    <3> HIDE DEF pairs, keys
    <3> QED BY <2>3, <3>1, <3>2, <3>3
  <2> HIDE DEF pairs, keys
  <2> DEFINE nx == NextRowid(g.fids)
  <2>5. h.fids = InsertAll(g.fids, pairs)
    BY <1>1, <1>2, <1>6
  <2>6. Longer(g.fids, pairs, n, h.fids, nx)
    BY <1>1, <2>4, <2>5, InsertedAbove
  <2>7. Rowids(DOMAIN h.fids)
    BY <1>1, <2>4, <2>5, InsertedRowids
  <2> HIDE DEF nx
  <2>8. \A k \in CopiedRows(g) : RemoteFid(h, k) = RemoteFid(g, k)
    BY <1>1, <2>6, <2>7, AppendedLater
  <2>9. ASSUME NEW k, k \notin CopiedRows(g)
        PROVE  \/ RemoteFid(h, k) = -1
               \/ \E i \in 1..n : /\ NewRow(g, i) = k
                                  /\ RemoteFid(h, k) = next + i - 1
    <3>1. CASE k \notin CopiedRows(h)
      BY <3>1, NotFound
    <3>2. CASE k \in CopiedRows(h)
      <4>1. PICK j : IsFirst(h, k, j)
        BY <2>7, <3>2, SomeFirst
      <4>2. j \in DOMAIN h.fids /\ h.fids[j].offline = k
        BY <4>1 DEF IsFirst
      <4>3. j \notin DOMAIN g.fids
        <5>1. j \in DOMAIN g.fids => h.fids[j] = g.fids[j]
          BY <2>6 DEF Longer
        <5>2. j \in DOMAIN g.fids => g.fids[j].offline \in CopiedRows(g)
          BY DEF CopiedRows
        <5> QED BY <2>9, <4>2, <5>1, <5>2
      <4>4. PICK i \in 1..n : h.fids[j] = pairs[i]
        <5>1. j \in nx..(nx + n - 1)
          BY <2>6, <4>2, <4>3 DEF Longer
        <5> QED BY <2>6, <5>1 DEF Longer
      <4>5. RemoteFid(h, k) = next + i - 1 /\ NewRow(g, i) = k
        <5>1. RemoteFid(h, k) = h.fids[j].remote
          BY <2>7, <4>1, FirstFound
        <5> QED BY <2>4, <4>2, <4>4, <5>1
      <4> QED BY <4>5
    <3> QED BY <3>1, <3>2
  <2> QED BY <2>8, <2>9
<1> QED BY <1>5, <1>6

\* The lookup reads nothing but the pairs.
LEMMA PairedStill ==
    ASSUME NEW g, NEW h, h.fids = g.fids, NEW rows, NEW remote,
           Paired(g, rows, remote)
    PROVE  Paired(h, rows, remote) /\ CopiedRows(h) = CopiedRows(g)
<1>1. \A k : RemoteFid(h, k) = RemoteFid(g, k)
  BY DEF RemoteFid
<1> QED BY <1>1 DEF Paired, CopiedRows

\* Rows that are told apart by names below a bound are so below a greater one.
LEMMA ApartLater ==
    ASSUME NEW t, TableTyped(t), NEW N \in Nat, NEW M \in Nat, N <= M,
           NamesApart(t.rows, N)
    PROVE  NamesApart(t.rows, M)
BY DEF NamesApart, TableTyped, Row

\* A layer that is ready to be synchronised is still so after a commit.
LEMMA CommitReady ==
    ASSUME OneLayer, ~EditsAfterSync, NEW l \in Layers, ReplayInv, LogFound',
           CommitOffline(l)
    PROVE  LayerReady(l)'
<1>1. /\ TInv /\ LayerReady(l)
      /\ UNCHANGED <<server, project, base, delivered>>
      /\ l \in project.layers /\ l \notin delivered
  BY DEF CommitOffline, ReplayInv, LogFound, LogInProject, EditsAreLogged
<1>2. Taken(l) /\ IsLogging(l) = TRUE
  <2>1. unlogged' = IF IsLogging(l) THEN unlogged ELSE unlogged \cup {l}
    BY DEF CommitOffline
  <2>2. IsLogging(l) /\ IsLogging(l) \in BOOLEAN
    BY <1>1, <2>1
       DEF LogFound, EditsAreLogged, IsLogging, TInv, OthersTyped, Projects
  <2> QED BY <1>1, <2>2 DEF TInv, OthersTyped, Projects
<1>3. Ready(l)
  BY <1>1, <1>2, TakenOrNot DEF LayerReady
<1>4. Good(Offline(l)) /\ Accounted(Offline(l))
  BY <1>1
     DEF TInv, IInv, OfflineShape, ReplayInv, LogFound, LogInProject,
         EditsAreLogged
<1> DEFINE t == Offline(l)
<1>5. PICK s : LET after == Committed(t, s, TRUE) IN
               /\ SessionTyped(s, table[l].fields)
               /\ \A i \in 1..Len(s.added) : s.added[i].name = nextName + i - 1
               /\ table' = [table EXCEPT ![l] =
                               [fields |-> after.fields, rows |-> after.rows]]
               /\ log' = [log EXCEPT ![l] = after.log]
               /\ commitNo' = after.commitNo
               /\ nextName' = nextName + Len(s.added)
  BY <1>1, <1>2, <1>4, CommitIsSession DEF Taken, TInv, OthersTyped
<1> DEFINE after == Committed(t, s, TRUE)
           n == Len(s.added)
<1>6. t.fields = table[l].fields /\ t.rows = table[l].rows /\ t.log = log[l]
  BY DEF Offline, Stored
<1>7. n \in Nat /\ nextName \in Nat
  BY <1>1, <1>5 DEF SessionTyped, TInv, OthersTyped
<1>8. Good(after)
  BY <1>4, <1>7, CommittedPreserves
<1>9. TableTyped(base[l]) /\ base[l].fields \in Nat
  BY <1>1, OfflineAssumption DEF TInv, LayerTyped, TableTyped
<1> HIDE DEF t
<1>10. SessionTyped(s, t.fields) /\ CopyTyped(t) /\ Good(t) /\ Accounted(t)
  BY <1>2, <1>4, <1>5, <1>6 DEF Taken, t
<1>11. Told(after, base[l]) /\ after.log.fids = t.log.fids
  <2>1. Told(t, base[l])
    BY <1>3 DEF Ready, t
  <2> QED BY <1>9, <1>10, <2>1, CommittedTells
<1>12. NotYetThere(after, base[l].rows)
  <2>1. \A N \in Nat : \A there :
             /\ \A i \in 1..n : s.added[i].name = N + i - 1
             /\ NamesApart(t.rows, N) /\ NotYetThere(t, there)
             /\ \A r \in DOMAIN there : there[r].name < N
             => NotYetThere(after, there)
    BY <1>10, CommittedTyped
  <2>2. NamesApart(t.rows, nextName)
    BY <1>1, <1>6
       DEF TInv, LayerNames, ReplayInv, LogFound, LogInProject, EditsAreLogged
  <2>3. NotYetThere(t, base[l].rows) /\ NamesApart(base[l].rows, nextName)
    BY <1>3 DEF Ready, t
  <2> HIDE DEF after
  <2> QED BY <1>5, <1>7, <2>1, <2>2, <2>3 DEF NamesApart
<1> HIDE DEF after, n
<1>13. /\ table'[l] = [fields |-> after.fields, rows |-> after.rows]
       /\ log'[l] = after.log /\ commitNo' = after.commitNo
  BY <1>1, <1>5 DEF after, t, TInv, IInv, OfflineShape
<1>14. Offline(l)' = after
  <2>1. after = [x \in {"fields", "rows", "log", "commitNo"} |-> after[x]]
    BY <1>8 DEF Good, Shaped
  <2>2. Offline(l)' = [fields |-> after.fields, rows |-> after.rows,
                       log |-> after.log, commitNo |-> after.commitNo]
    BY <1>13 DEF Offline, Stored
  <2> QED BY <2>1, <2>2
<1>15. NamesApart(base[l].rows, nextName')
  <2>1. nextName' \in Nat /\ nextName <= nextName'
    BY <1>5, <1>7 DEF n
  <2> QED BY <1>3, <1>7, <1>9, <2>1, ApartLater DEF Ready
<1>16. /\ Paired(log'[l], base[l].rows, server[l])
       /\ CopiedRows(log'[l]) = DOMAIN base[l].rows
  BY <1>3, <1>6, <1>11, <1>13, PairedStill DEF Ready
<1>17. Ready(l)'
  BY <1>1, <1>3, <1>11, <1>12, <1>14, <1>15, <1>16 DEF Ready
<1>18. Taken(l)'
  BY <1>1 DEF LogFound, LogInProject, EditsAreLogged, TInv, OthersTyped
<1> QED BY <1>1, <1>17, <1>18 DEF LayerReady

\* What a layer has to offer the replay.
LEMMA ReadyToReplay ==
    ASSUME ReplayInv, NEW l \in Layers, Taken(l)
    PROVE  /\ (Ready(l) /\ l \notin delivered) \/ (Done(l) /\ l \in delivered)
           /\ Replayable(l) /\ InOrder(Offline(l))
           /\ l \notin delivered => Accounted(Offline(l))
           /\ FieldsAt(l, commitNo) = table[l].fields
           /\ Arrived(l, Replayed(l))
<1>1. (Ready(l) /\ l \notin delivered) \/ (Done(l) /\ l \in delivered)
  BY TakenOrNot DEF ReplayInv, LayerReady
<1>2. /\ Replayable(l) /\ InOrder(Offline(l))
      /\ l \notin delivered => Accounted(Offline(l))
  BY DEF ReplayInv, LogFound, LogInProject, EditsAreLogged, TInv, IInv,
         OfflineShape, LayerTyped, Taken, Replayable
<1>3. FieldsAt(l, commitNo) = table[l].fields
  <2>1. CopyTyped(Offline(l))
    BY DEF Taken
  <2>2. CASE Ready(l)
    <3>1. /\ CommitsPast(Offline(l))
          /\ table[l].fields = base[l].fields + Cardinality(DOMAIN log[l].fields)
      BY <2>2 DEF Ready, Told, FieldsTold, Offline, Stored
    <3>2. server[l].fields = base[l].fields
      BY <2>2 DEF Ready
    <3> QED BY <2>1, <3>1, <3>2, FieldsFound
  <2>3. CASE Done(l)
    <3>1. /\ DOMAIN log[l].fields = {} /\ DOMAIN log[l].values = {}
          /\ DOMAIN log[l].geoms = {}
      BY <2>3 DEF Done, EmptyLog, EmptyTable
    <3>2. CommitsPast(Offline(l))
      BY <3>1 DEF CommitsPast, Offline, Stored
    <3>3. Cardinality(DOMAIN log[l].fields) = 0
      BY <3>1, FS_EmptySet
    <3>4. server[l].fields \in Nat /\ server[l].fields = table[l].fields
      BY <1>2, <2>3, OfflineAssumption DEF Replayable, ServerTyped, Done
    <3>5. FieldsAt(l, commitNo) = server[l].fields + Cardinality(DOMAIN log[l].fields)
      BY <2>1, <3>2, FieldsFound
    <3> QED BY <3>3, <3>4, <3>5
  <2> QED BY <1>1, <2>2, <2>3
<1> QED BY <1>1, <1>2, <1>3, ReplayedArrived

\* After the replay the lookup leads to no id that is not given yet, and to no
\* feature but the one that the row is.
LEMMA SynchronizedFinds ==
    ASSUME ReplayInv, NEW l \in Layers, Taken(l), NEW remote, remote = Replayed(l),
           NEW h, h.fids = LookupUpdated(log[l], DOMAIN remote.rows),
           NEW k \in DOMAIN table[l].rows
    PROVE  /\ RemoteFid(h, k) \in -1..(remote.nextFid - 1)
           /\ RemoteFid(h, k) \in DOMAIN remote.rows =>
                  remote.rows[RemoteFid(h, k)].name = table[l].rows[k].name
<1> DEFINE g == log[l]
           next == server[l].nextFid
           n == Cardinality(DOMAIN g.added)
           kept == DOMAIN server[l].rows \ RemovedOnServer(l)
           ids == next..(next + n - 1)
<1>1. /\ (Ready(l) /\ l \notin delivered) \/ (Done(l) /\ l \in delivered)
      /\ Replayable(l) /\ InOrder(Offline(l))
      /\ l \notin delivered => Accounted(Offline(l))
      /\ Arrived(l, remote)
  BY ReadyToReplay
<1>2. /\ n \in Nat /\ next \in Nat \ {0}
      /\ remote.nextFid = next + n
      /\ DOMAIN remote.rows = kept \cup ids
      /\ \A r \in kept : /\ r \in 1..(next - 1)
                         /\ remote.rows[r].name = server[l].rows[r].name
      /\ \A i \in 1..n : remote.rows[next + i - 1] = table[l].rows[NewRow(g, i)]
  BY <1>1 DEF Arrived
<1>3. /\ Good(Offline(l)) /\ Rowids(DOMAIN g.fids)
      /\ Offline(l).log = g /\ Offline(l).rows = table[l].rows
  BY <1>1 DEF Replayable, CopyTyped, LogTyped, Offline, Stored
<1> HIDE DEF next, n
<1>4. Rowids(DOMAIN remote.rows)
  <2>1. \A r \in kept \cup ids : r \in Nat \ {0} /\ r <= next + n
    BY <1>2
  <2>2. next + n \in Nat
    BY <1>2
  <2> QED BY <1>2, <2>1, <2>2 DEF Rowids
<1>5. \A j \in DOMAIN g.fids : g.fids[j].remote \notin ids
  <2>1. CASE Ready(l)
    <3>1. \A j \in DOMAIN g.fids : g.fids[j].remote \in 1..(next - 1)
      BY <2>1 DEF Ready, Paired, next
    <3> QED BY <1>2, <3>1
  <2>2. CASE Done(l)
    <3>1. DOMAIN g.added = {}
      BY <2>2 DEF Done, EmptyLog, EmptyTable
    <3>2. n = 0
      BY <3>1, FS_EmptySet DEF n
    <3> QED BY <1>2, <3>2
  <2> QED BY <1>1, <2>1, <2>2
<1>6. /\ \A j \in CopiedRows(g) : RemoteFid(h, j) = RemoteFid(g, j)
      /\ \A j : j \notin CopiedRows(g) =>
            \/ RemoteFid(h, j) = -1
            \/ \E i \in 1..n : /\ NewRow(g, i) = j
                               /\ RemoteFid(h, j) = next + i - 1
  <2>1. ids \subseteq DOMAIN remote.rows
    BY <1>2
  <2>2. n = Cardinality(DOMAIN g.added)
    BY DEF n
  <2> HIDE DEF g
  <2> QED BY <1>1, <1>2, <1>3, <1>4, <1>5, <2>1, <2>2, LookupAfter DEF g
<1> DEFINE r == RemoteFid(h, k)
<1> HIDE DEF r, ids, kept
<1>7. CASE k \notin CopiedRows(g)
  <2>1. CASE r = -1
    <3>1. -1 \notin DOMAIN remote.rows
      BY <1>4 DEF Rowids
    <3>2. -1 \in -1..(remote.nextFid - 1)
      BY <1>2
    <3> QED BY <2>1, <3>1, <3>2 DEF r
  <2>2. CASE \E i \in 1..n : NewRow(g, i) = k /\ r = next + i - 1
    <3>1. PICK i \in 1..n : NewRow(g, i) = k /\ r = next + i - 1
      BY <2>2
    <3>2. r \in -1..(next + n - 1)
      BY <1>2, <3>1
    <3>3. remote.rows[r] = table[l].rows[k]
      BY <1>2, <3>1
    <3> QED BY <1>2, <3>2, <3>3 DEF r
  <2> QED BY <1>6, <1>7, <2>1, <2>2 DEF r
<1>8. CASE k \in CopiedRows(g)
  <2>1. r = RemoteFid(g, k)
    BY <1>6, <1>8 DEF r
  <2>2. CASE Done(l)
    <3>1. DOMAIN g.added = {}
      BY <2>2 DEF Done, EmptyLog, EmptyTable
    <3>2. n = 0
      BY <3>1, FS_EmptySet DEF n
    <3>3. /\ r \in -1..(next - 1)
          /\ r \in DOMAIN server[l].rows =>
                 server[l].rows[r].name = table[l].rows[k].name
      BY <2>1, <2>2 DEF Done, next
    <3>4. ids = {} /\ next + n = next
      BY <1>2, <3>2 DEF ids
    <3>5. r \in DOMAIN remote.rows => r \in kept /\ r \in DOMAIN server[l].rows
      BY <1>2, <3>4 DEF kept
    <3> QED BY <1>2, <3>3, <3>4, <3>5 DEF r
  <2>3. CASE Ready(l) /\ l \notin delivered
    <3>1. k \in DOMAIN base[l].rows
      BY <1>8, <2>3 DEF Ready
    <3>2. /\ r \in 1..(next - 1)
          /\ \A q \in DOMAIN server[l].rows :
                r = q <=> server[l].rows[q].name = base[l].rows[k].name
      BY <2>1, <2>3, <3>1 DEF Ready, Paired, next
    <3>3. r \in -1..(remote.nextFid - 1)
      BY <1>2, <3>2
    <3>4. r \in DOMAIN remote.rows => r \in kept
      BY <1>2, <3>2 DEF ids
    <3>5. CASE k \in RowsIn(g.added)
      <4>1. k \in g.removed
        BY <1>1, <1>3, <1>8, <2>3, <3>5 DEF Accounted
      <4>2. r \in RemovedOnServer(l)
        BY <2>1, <4>1 DEF RemovedOnServer
      <4> QED BY <3>3, <3>4, <4>2 DEF r, kept
    <3>6. CASE k \notin RowsIn(g.added)
      <4>1. k \in Originals(Offline(l))
        BY <1>3, <3>6 DEF Originals
      <4>2. base[l].rows[k].name = table[l].rows[k].name
        BY <1>3, <2>3, <4>1 DEF Ready, Told, RowsTold
      <4> QED BY <1>2, <3>2, <3>3, <3>4, <4>2 DEF r, kept
    <3> QED BY <3>5, <3>6
  <2> QED BY <1>1, <2>2, <2>3
<1> QED BY <1>7, <1>8

\* Synchronising leaves a layer done.
LEMMA SynchronizedReady ==
    ASSUME OneLayer, ReplayInv, LogFound', LayerSynchronized, NEW l \in Layers
    PROVE  /\ Taken(l) /\ l = Head(syncing)
           /\ LayerReady(l)'
<1> DEFINE fids == LookupUpdated(log[l], DOMAIN Replayed(l).rows)
<1>1. TInv
  BY DEF ReplayInv, LogFound, LogInProject, EditsAreLogged
<1>2. Head(syncing) \in project.layers
  BY <1>1, RestToVisit DEF TInv, OthersTyped, LayerSynchronized
<1>3. l = Head(syncing) /\ l \in project.layers /\ Taken(l)
  BY <1>1, <1>2 DEF OneLayer, TInv, OthersTyped, Projects
<1>4. /\ server' = [server EXCEPT ![l] = Replayed(l)]
      /\ log' = [log EXCEPT ![l] = ClearedLog(log[l], fids)]
      /\ base' = [base EXCEPT ![l] = table[l]]
      /\ delivered' = delivered \cup {l}
      /\ UNCHANGED table
  BY <1>3 DEF LayerSynchronized
<1> HIDE DEF fids
<1>5. /\ server'[l] = Replayed(l) /\ base'[l] = table'[l] /\ table'[l] = table[l]
      /\ log'[l] = [EmptyLog EXCEPT !.fids = fids]
      /\ l \in delivered'
  BY <1>1, <1>4 DEF TInv, IInv, ServerShape, OfflineShape, OthersTyped, ClearedLog
<1>6. log'[l].fids = fids
  BY <1>5 DEF EmptyLog
<1>7. ASSUME NEW k \in DOMAIN table[l].rows
      PROVE  /\ RemoteFid(log'[l], k) \in -1..(server'[l].nextFid - 1)
             /\ RemoteFid(log'[l], k) \in DOMAIN server'[l].rows =>
                    server'[l].rows[RemoteFid(log'[l], k)].name
                        = table[l].rows[k].name
  <2> DEFINE remote == server'[l]
             h == log'[l]
  <2>1. remote = Replayed(l) /\ h.fids = LookupUpdated(log[l], DOMAIN remote.rows)
    BY <1>5, <1>6 DEF fids
  <2> HIDE DEF remote, h
  <2>2. /\ RemoteFid(h, k) \in -1..(remote.nextFid - 1)
        /\ RemoteFid(h, k) \in DOMAIN remote.rows =>
               remote.rows[RemoteFid(h, k)].name = table[l].rows[k].name
    BY <1>3, <2>1, SynchronizedFinds
  <2> QED BY <2>2 DEF remote, h
<1>8. server'[l].fields = table'[l].fields
  BY <1>3, <1>5, ReadyToReplay DEF Arrived
<1>9. Done(l)'
  BY <1>5, <1>6, <1>7, <1>8 DEF Done
<1>10. Taken(l)'
  <2>1. ~NotTaken(l)'
    <3>1. table[l] # NoRows
      BY <1>3, OfflineAssumption DEF Taken, CopyTyped, Offline, Stored, NoRows
    <3> QED BY <1>5, <3>1 DEF NotTaken
  <2> QED BY <2>1 DEF LogFound, LogInProject, EditsAreLogged, TInv, LayerTyped
<1> QED BY <1>3, <1>5, <1>9, <1>10 DEF LayerReady

\* Others change no names, and a feature they add has a new one.
OthersEdited(old, new, name) ==
    /\ new.fields = old.fields
    /\ new.nextFid \in Nat /\ old.nextFid <= new.nextFid
    /\ \A r \in DOMAIN new.rows :
           \/ r \in DOMAIN old.rows /\ new.rows[r].name = old.rows[r].name
           \/ r = old.nextFid /\ new.rows[r].name = name

\* So does each of the edits of others, and it leaves all else alone.
LEMMA OthersEdit ==
    ASSUME TInv, NEW l \in Layers, OthersChange(l) \/ OthersDelete(l) \/ OthersAdd(l)
    PROVE  /\ OthersEdited(server[l], server'[l], nextName)
           /\ nextName <= nextName'
           /\ \A m \in Layers \ {l} : server'[m] = server[m]
           /\ UNCHANGED <<table, log, commitNo, base, delivered>>
           /\ table[l] # NoRows /\ theirs' = theirs + 1
<1>0. /\ ServerTyped(server[l]) /\ nextName \in Nat
      /\ server[l] = [x \in {"fields", "nextFid", "rows"} |-> server[l][x]]
      /\ server = [m \in Layers |-> server[m]]
  BY DEF TInv, LayerTyped, OthersTyped, IInv, ServerShape
<1>1. ASSUME NEW some, NEW m \in Nat, NEW more \in Nat,
             EditedByOthers(l, some, m, more)
      PROVE  /\ server'[l].rows = some /\ server'[l].fields = server[l].fields
             /\ server'[l].nextFid = server[l].nextFid + more
             /\ nextName' = nextName + m
             /\ \A k \in Layers \ {l} : server'[k] = server[k]
  <2> DEFINE mine == [server[l] EXCEPT !.rows = some, !.nextFid = @ + more]
  <2>1. /\ server' = [server EXCEPT ![l].rows = some, ![l].nextFid = @ + more]
        /\ nextName' = nextName + m
    BY <1>1 DEF EditedByOthers
  <2>2. server' = [server EXCEPT ![l] = mine]
    BY <1>0, <2>1
  <2>3. /\ mine.fields = server[l].fields /\ mine.rows = some
        /\ mine.nextFid = server[l].nextFid + more
    BY <1>0
  <2> HIDE DEF mine
  <2> QED BY <1>0, <2>1, <2>2, <2>3
<1>2. server[l].nextFid \in Nat
  BY <1>0 DEF ServerTyped
<1>3. /\ UNCHANGED <<table, log, commitNo, base, delivered>>
      /\ table[l] # NoRows /\ theirs' = theirs + 1
  BY DEF OthersChange, OthersDelete, OthersAdd, EditedByOthers
<1>4. CASE OthersChange(l)
  <2>1. PICK r \in DOMAIN server[l].rows, v \in Values \cup {Null} :
            EditedByOthers(l, [server[l].rows EXCEPT ![r].attrs[1] = v], 0, 0)
    BY <1>4 DEF OthersChange
  <2> DEFINE some == [server[l].rows EXCEPT ![r].attrs[1] = v]
  <2>2. \A q \in DOMAIN some : /\ q \in DOMAIN server[l].rows
                               /\ some[q].name = server[l].rows[q].name
    <3>1. server[l].rows[r] \in Row(server[l].fields)
      BY <1>0 DEF ServerTyped
    <3> QED BY <3>1 DEF Row
  <2> HIDE DEF some
  <2>3. EditedByOthers(l, some, 0, 0)
    BY <2>1 DEF some
  <2>4. /\ server'[l].rows = some /\ server'[l].fields = server[l].fields
        /\ server'[l].nextFid = server[l].nextFid + 0
        /\ nextName' = nextName + 0
        /\ \A k \in Layers \ {l} : server'[k] = server[k]
    BY <1>1, <2>3
  <2> QED BY <1>0, <1>2, <1>3, <2>2, <2>4 DEF OthersEdited
<1>5. CASE OthersDelete(l)
  <2>1. PICK r \in DOMAIN server[l].rows :
            EditedByOthers(l, Without(server[l].rows, {r}), 0, 0)
    BY <1>5 DEF OthersDelete
  <2> DEFINE some == Without(server[l].rows, {r})
  <2>2. \A q \in DOMAIN some : /\ q \in DOMAIN server[l].rows
                               /\ some[q].name = server[l].rows[q].name
    BY DEF Without
  <2> HIDE DEF some
  <2>3. EditedByOthers(l, some, 0, 0)
    BY <2>1 DEF some
  <2>4. /\ server'[l].rows = some /\ server'[l].fields = server[l].fields
        /\ server'[l].nextFid = server[l].nextFid + 0
        /\ nextName' = nextName + 0
        /\ \A k \in Layers \ {l} : server'[k] = server[k]
    BY <1>1, <2>3
  <2> QED BY <1>0, <1>2, <1>3, <2>2, <2>4 DEF OthersEdited
<1>6. CASE OthersAdd(l)
  <2> DEFINE next == server[l].nextFid
             some == [r \in DOMAIN server[l].rows \cup {next} |->
                        IF r = next THEN Feature(nextName, server[l].fields)
                        ELSE server[l].rows[r]]
  <2>1. EditedByOthers(l, some, 1, 1)
    BY <1>6 DEF OthersAdd
  <2>2. \A r \in DOMAIN some :
            \/ r \in DOMAIN server[l].rows /\ some[r].name = server[l].rows[r].name
            \/ r = next /\ some[r].name = nextName
    BY DEF Feature
  <2> HIDE DEF some
  <2>4. /\ server'[l].rows = some /\ server'[l].fields = server[l].fields
        /\ server'[l].nextFid = server[l].nextFid + 1
        /\ nextName' = nextName + 1
        /\ \A k \in Layers \ {l} : server'[k] = server[k]
    BY <1>1, <2>1
  <2> QED BY <1>0, <1>2, <1>3, <2>2, <2>4 DEF OthersEdited
<1> QED BY <1>4, <1>5, <1>6

\* What others do leaves a layer ready, and done: a feature they add has a new
\* name and an id that no row leads to.
LEMMA OthersReady ==
    ASSUME ReplayInv, LogFound', NEW l \in Layers,
           OthersChange(l) \/ OthersDelete(l) \/ OthersAdd(l)
    PROVE  /\ LayerReady(l)'
           /\ \A m \in Layers \ {l} : server'[m] = server[m]
           /\ Taken(l)
<1> DEFINE old == server[l]
           new == server'[l]
<1>1. TInv
  BY DEF ReplayInv, LogFound, LogInProject, EditsAreLogged
<1>2. /\ ServerTyped(server[l]) /\ TableTyped(base[l])
      /\ nextName \in Nat /\ nextName' \in Nat
      /\ server[l] = [x \in {"fields", "nextFid", "rows"} |-> server[l][x]]
      /\ server = [m \in Layers |-> server[m]]
      /\ Taken(l) \/ NotTaken(l)
  BY <1>1
     DEF TInv, LayerTyped, OthersTyped, IInv, ServerShape, LogFound,
         LogInProject, EditsAreLogged
<1>3. PICK rows, named, ids : EditedByOthers(l, rows, named, ids)
  BY DEF OthersChange, OthersDelete, OthersAdd
<1>4. /\ UNCHANGED <<table, log, commitNo, base, delivered>>
      /\ table[l] # NoRows
  BY <1>3 DEF EditedByOthers
<1>5. Taken(l) /\ ~NotTaken(l)
  BY <1>2, <1>4 DEF NotTaken
<1>6. /\ OthersEdited(old, new, nextName)
      /\ nextName <= nextName'
      /\ \A m \in Layers \ {l} : server'[m] = server[m]
  BY <1>1, OthersEdit
<1>7. CASE Ready(l) /\ l \notin delivered
  <2>1. Paired(log[l], base[l].rows, old)
    BY <1>7 DEF Ready
  <2>2. old.nextFid \in Nat
    BY <1>2 DEF ServerTyped
  <2>3. Paired(log[l], base[l].rows, new)
    <3> SUFFICES ASSUME NEW k \in DOMAIN base[l].rows, NEW r \in DOMAIN new.rows
                 PROVE  RemoteFid(log[l], k) = r
                            <=> new.rows[r].name = base[l].rows[k].name
      BY <1>6, <2>1, <2>2 DEF Paired, OthersEdited
    <3>1. CASE r \in DOMAIN old.rows /\ new.rows[r].name = old.rows[r].name
      BY <2>1, <3>1 DEF Paired
    <3>2. CASE r = old.nextFid /\ new.rows[r].name = nextName
      <4>1. base[l].rows[k].name < nextName /\ base[l].rows[k].name \in Nat
        BY <1>2, <1>7 DEF Ready, NamesApart, TableTyped, Row
      <4>2. RemoteFid(log[l], k) \in 1..(old.nextFid - 1)
        BY <2>1 DEF Paired
      <4> QED BY <1>2, <2>2, <3>2, <4>1, <4>2
    <3> QED BY <1>6, <3>1, <3>2 DEF OthersEdited
  <2>4. NamesApart(base[l].rows, nextName')
    BY <1>2, <1>6, <1>7, ApartLater DEF Ready
  <2>5. Offline(l)' = Offline(l)
    BY <1>4 DEF Offline
  <2>6. new.fields = base[l].fields
    BY <1>6, <1>7 DEF Ready, OthersEdited
  <2>7. Ready(l)'
    BY <1>4, <1>7, <2>3, <2>4, <2>5, <2>6 DEF Ready
  <2>8. Taken(l)'
    BY <1>4, <1>5
       DEF LogFound, LogInProject, EditsAreLogged, TInv, LayerTyped, NotTaken
  <2> QED BY <1>4, <1>5, <1>6, <1>7, <2>7, <2>8 DEF LayerReady
<1>8. CASE Done(l) /\ l \in delivered
  <2>1. old.nextFid \in Nat
    BY <1>2 DEF ServerTyped
  <2>2. ASSUME NEW k \in DOMAIN table[l].rows
        PROVE  /\ RemoteFid(log[l], k) \in -1..(new.nextFid - 1)
               /\ RemoteFid(log[l], k) \in DOMAIN new.rows =>
                      new.rows[RemoteFid(log[l], k)].name = table[l].rows[k].name
    <3> DEFINE r == RemoteFid(log[l], k)
    <3>1. /\ r \in -1..(old.nextFid - 1)
          /\ r \in DOMAIN old.rows => old.rows[r].name = table[l].rows[k].name
      BY <1>8 DEF Done
    <3> HIDE DEF r
    <3>2. r \in -1..(new.nextFid - 1) /\ r # old.nextFid
      BY <1>6, <2>1, <3>1 DEF OthersEdited
    <3> QED BY <1>6, <3>1, <3>2 DEF r, OthersEdited
  <2>3. new.fields = table[l].fields
    BY <1>6, <1>8 DEF Done, OthersEdited
  <2>4. Done(l)'
    BY <1>4, <1>8, <2>2, <2>3 DEF Done
  <2>5. Taken(l)'
    BY <1>4, <1>5
       DEF LogFound, LogInProject, EditsAreLogged, TInv, LayerTyped, NotTaken
  <2> QED BY <1>4, <1>5, <1>6, <1>8, <2>4, <2>5 DEF LayerReady
<1> QED BY <1>5, <1>7, <1>8 DEF ReplayInv, LayerReady

\* Steps that leave tables, logs and the server alone keep layers ready.
LEMMA DataStillReady ==
    ASSUME ReplayInv, LogFound', UNCHANGED <<dataVars, historyVars>>
    PROVE  ReplayInv'
<1>1. UNCHANGED <<server, table, log, commitNo, nextName, base, delivered>>
  BY DEF dataVars, historyVars
<1>2. ASSUME NEW l \in Layers PROVE LayerReady(l)'
  <2>1. Offline(l)' = Offline(l)
    BY <1>1 DEF Offline
  <2>2. /\ Ready(l) => Ready(l)'
        /\ Done(l) => Done(l)'
    BY <1>1, <2>1 DEF Ready, Done
  <2>3. /\ NotTaken(l) => NotTaken(l)'
        /\ Taken(l) => Taken(l)'
    <3>1. CopyTyped(Offline(l)) => CopyTyped(Offline(l)')
      BY <2>1
    <3>2. FieldsLogged(l) => FieldsLogged(l)'
      BY <1>1 DEF FieldsLogged
    <3> QED BY <1>1, <3>1, <3>2 DEF Taken, NotTaken
  <2> QED BY <1>1, <2>2, <2>3 DEF ReplayInv, LayerReady
<1> QED BY <1>2 DEF ReplayInv

\* Every step that does not go past the log keeps the invariant, if the lookup
\* of a new copy is right.
LEMMA NextReplayInv ==
    ASSUME OneLayer, ~EditsAfterSync
    PROVE  /\ ReplayInv /\ [Next]_vars /\ EditsAreLogged'
           /\ [ConvertToOfflineProject => LookupFindsFeature']_vars
           => ReplayInv'
<1> SUFFICES ASSUME ReplayInv, [Next]_vars, EditsAreLogged',
                    [ConvertToOfflineProject => LookupFindsFeature']_vars
             PROVE  ReplayInv'
  OBVIOUS
<1>1. LogFound'
  BY NextLogFound DEF ReplayInv, LogFound
<1>2. CASE UNCHANGED vars
  BY <1>1, <1>2, DataStillReady DEF vars, dataVars, historyVars
<1>3. CASE ConvertToOfflineProject /\ ~UNCHANGED vars
  BY <1>1, <1>3, ConvertReady DEF ReplayInv
<1>4. ASSUME NEW l \in Layers, CommitOffline(l) PROVE ReplayInv'
  <2>1. LayerReady(l)'
    BY <1>1, <1>4, CommitReady
  <2> QED BY <1>1, <2>1 DEF OneLayer, ReplayInv
<1>5. CASE SaveProject \/ ReopenProject \/ StartSynchronize \/ RemoteInvalid \/ CommitRefused
  BY <1>1, <1>5, DataStillReady
     DEF SaveProject, ReopenProject, StartSynchronize, RemoteInvalid, CommitRefused
<1>6. CASE LayerSynchronized
  BY <1>1, <1>6, SynchronizedReady DEF ReplayInv
<1>7. ASSUME NEW l \in Layers, OthersChange(l) \/ OthersDelete(l) \/ OthersAdd(l)
      PROVE  ReplayInv'
  <2>1. LayerReady(l)'
    BY <1>1, <1>7, OthersReady
  <2> QED BY <1>1, <2>1 DEF OneLayer, ReplayInv
<1>8. ASSUME NEW l \in Layers, RollBackKeepEditing(l) \/ CancelEdits(l)
      PROVE  ReplayInv'
  BY <1>1, <1>8, DataStillReady DEF RollBackKeepEditing, CancelEdits
<1> QED BY <1>2, <1>3, <1>4, <1>5, <1>6, <1>7, <1>8 DEF Next

\* The invariant of any state: it holds as long as every commit was logged.
LoggedInv == LogInProject /\ (EditsAreLogged => ReplayInv)

LEMMA NextLoggedInv ==
    ASSUME OneLayer, ~EditsAfterSync
    PROVE  /\ LoggedInv /\ [Next]_vars
           /\ [ConvertToOfflineProject => LookupFindsFeature']_vars
           => LoggedInv'
<1> SUFFICES ASSUME LoggedInv, [Next]_vars,
                    [ConvertToOfflineProject => LookupFindsFeature']_vars
             PROVE  LoggedInv'
  OBVIOUS
<1>1. LogInProject'
  BY NextLogInProject DEF LoggedInv
<1>2. ASSUME EditsAreLogged' PROVE ReplayInv'
  <2>1. EditsAreLogged
    BY <1>2, NextLogFound DEF LoggedInv
  <2> QED BY <1>2, <2>1, NextReplayInv DEF LoggedInv
<1> QED BY <1>1, <1>2 DEF LoggedInv

\* The one layer is exempt as soon as a commit of it was not logged.
LEMMA LoggedInvFinds ==
    ASSUME OneLayer
    PROVE  LoggedInv => LookupFindsFeature
<1> SUFFICES ASSUME LoggedInv PROVE LookupFindsFeature
  OBVIOUS
<1>1. CASE EditsAreLogged
  BY <1>1, ReplayInvFinds DEF LoggedInv
<1>2. CASE ~EditsAreLogged
  <2>1. Layers \ unlogged = {}
    BY <1>2 DEF LoggedInv, LogInProject, EditsAreLogged, OneLayer
  <2> QED BY <2>1 DEF LookupFindsFeature
<1> QED BY <1>1, <1>2

\* What copyVectorLayer() should see to: the lookup of a new copy is right.  It is
\* for at most one feature; the rows of two or more are paired in reverse.
CopiesRight == [][ConvertToOfflineProject => LookupFindsFeature']_vars

\* With one layer, and as long as a copy is not edited again after it was
\* synchronised: from any state in which the layers that are offline have a right
\* lookup, and as many features as they may, the lookup stays right, whatever is
\* edited here and elsewhere, removed, refused or replayed again, and although
\* the new rows are paired with ids that are found by subtraction.  It may be
\* wrong from the first commit on that is not logged (CommitsAreLogged).
THEOREM LookupStaysRight ==
    ASSUME OneLayer, ~EditsAfterSync
    PROVE  ReplayInv /\ [][Next]_vars /\ CopiesRight => []LookupFindsFeature
<1>1. /\ LoggedInv /\ [Next]_vars
      /\ [ConvertToOfflineProject => LookupFindsFeature']_vars
      => LoggedInv'
  BY NextLoggedInv
<1>2. LoggedInv => LookupFindsFeature
  BY LoggedInvFinds
<1>3. ReplayInv => LoggedInv
  BY DEF ReplayInv, LogFound, LoggedInv
<1> QED BY <1>1, <1>2, <1>3, PTL DEF CopiesRight

-----------------------------------------------------------------------------
(* Layers of at most one feature: there is one order to copy it in.        *)

Uncopied(l) == table[l] = NoRows => DOMAIN server[l].rows \subseteq 1..StoredRows

UncopiedInv == TInv /\ \A l \in Layers : Uncopied(l)

\* Until a layer is copied its features are those that it had at first.
LEMMA UncopiedAlways == Spec => []UncopiedInv
<1>1. Init => UncopiedInv
  <2> SUFFICES ASSUME Init, NEW l \in Layers PROVE DOMAIN server[l].rows = 1..StoredRows
    BY InitTInv DEF UncopiedInv, Uncopied
  <2> QED BY DEF Init
<1>2. UncopiedInv /\ [Next]_vars => UncopiedInv'
  <2> SUFFICES ASSUME UncopiedInv, [Next]_vars PROVE UncopiedInv'
    OBVIOUS
  <2>1. TInv /\ TInv'
    BY NextTInv DEF UncopiedInv
  <2>2. \A l \in Layers : Taken(l) => table[l] # NoRows
    BY OfflineAssumption DEF Taken, CopyTyped, Offline, Stored, NoRows
  <2>3. \A l \in Layers : Taken(l)' => table'[l] # NoRows
    BY OfflineAssumption DEF Taken, CopyTyped, Offline, Stored, NoRows
  <2>4. CASE ConvertToOfflineProject
    BY <2>1, <2>4 DEF ConvertToOfflineProject, UncopiedInv, Uncopied
  <2>5. ASSUME NEW l \in Layers, CommitOffline(l) PROVE UncopiedInv'
    <3>1. Taken(l)'
      BY <2>1, <2>5 DEF CommitOffline, TInv, OthersTyped
    <3>2. ASSUME NEW m \in Layers, m # l PROVE table'[m] = table[m]
      <4>1. Taken(l) /\ Good(Offline(l)) /\ nextName \in Nat
        BY <2>1, <2>5 DEF CommitOffline, TInv, OthersTyped, IInv, OfflineShape
      <4>2. \E t : table' = [table EXCEPT ![l] = t]
        BY <2>5, <4>1, CommitIsSession DEF Taken
      <4> QED BY <2>1, <3>2, <4>2 DEF TInv, IInv, OfflineShape
    <3>3. server' = server
      BY <2>5 DEF CommitOffline
    <3> QED BY <2>1, <2>3, <3>1, <3>2, <3>3 DEF UncopiedInv, Uncopied
  <2>6. CASE SaveProject \/ ReopenProject \/ StartSynchronize \/ RemoteInvalid \/ CommitRefused
    BY <2>1, <2>6 DEF SaveProject, ReopenProject, StartSynchronize, RemoteInvalid,
                      CommitRefused, dataVars, UncopiedInv, Uncopied
  <2>7. CASE LayerSynchronized
    <3> DEFINE l == Head(syncing)
    <3>1. l \in Layers /\ Taken(l)
      BY <2>1, <2>7, RestToVisit DEF TInv, OthersTyped, LayerSynchronized, Projects
    <3>2. server' = [server EXCEPT ![l] = Replayed(l)] /\ table' = table
      BY <2>7 DEF LayerSynchronized
    <3> HIDE DEF l
    <3>3. \A m \in Layers : m # l => server'[m] = server[m]
      BY <2>1, <3>2 DEF TInv, IInv, ServerShape
    <3> QED BY <2>1, <2>2, <3>1, <3>2, <3>3 DEF UncopiedInv, Uncopied
  <2>8. ASSUME NEW l \in Layers, OthersChange(l) \/ OthersDelete(l) \/ OthersAdd(l)
        PROVE  UncopiedInv'
    <3>1. /\ \A m \in Layers \ {l} : server'[m] = server[m]
          /\ table' = table /\ table[l] # NoRows
      BY <2>1, <2>8, OthersEdit
    <3> QED BY <2>1, <3>1 DEF UncopiedInv, Uncopied
  <2>10. ASSUME NEW l \in Layers, RollBackKeepEditing(l) \/ CancelEdits(l)
         PROVE  UncopiedInv'
    BY <2>1, <2>10
       DEF RollBackKeepEditing, CancelEdits, dataVars, UncopiedInv, Uncopied
  <2>9. CASE UNCHANGED vars
    BY <2>1, <2>9 DEF vars, UncopiedInv, Uncopied
  <2> QED BY <2>4, <2>5, <2>6, <2>7, <2>8, <2>9, <2>10 DEF Next
<1> QED BY <1>1, <1>2, PTL DEF Spec

\* The lookup of a copy of one feature is right, from whichever end it is built.
LEMMA OneRowCopied ==
    ASSUME StoredRows <= 1, UncopiedInv, ConvertToOfflineProject
    PROVE  LookupFindsFeature'
<1>1. PICK taken \in SUBSET Layers \ {{}} : \E copies : CopiesMade(taken, copies)
  BY ConvertCopies
<1>2. PICK copies : CopiesMade(taken, copies)
  BY <1>1
<1> USE DEF CopiesMade
<1>3. server' = server /\ \A l \in Layers : table[l] = NoRows
  BY DEF ConvertToOfflineProject
<1> SUFFICES ASSUME NEW l \in Layers, NEW k \in DOMAIN table'[l].rows,
                    RemoteFid(log'[l], k) \in DOMAIN server'[l].rows
             PROVE  server'[l].rows[RemoteFid(log'[l], k)].name
                        = table'[l].rows[k].name
  BY DEF LookupFindsFeature
<1>4. l \in taken
  BY <1>2, NoRowsTyped
<1> DEFINE rows == server[l].rows
           S == DOMAIN rows
           order == copies[l]
           copy == CopyOf(rows, order)
           g == [EmptyLog EXCEPT !.fids = copy.fids]
           n == Cardinality(S)
<1>5. IsFiniteSet(S) /\ order \in Orders(S)
  BY <1>2, <1>4 DEF UncopiedInv, TInv, IInv, ServerShape
<1>6. n \in Nat /\ n <= 1
  <2>1. S \subseteq 1..StoredRows
    BY <1>3 DEF UncopiedInv, Uncopied
  <2>2. S \subseteq {1}
    BY <2>1, OfflineAssumption
  <2> HIDE DEF S
  <2>3. Cardinality(S) <= Cardinality({1}) /\ Cardinality({1}) = 1
    BY <2>2, FS_Subset, FS_Singleton
  <2> QED BY <1>5, <2>3, FS_CardinalityType
<1>7. table'[l].rows = copy.rows /\ log'[l] = g /\ g.fids = copy.fids
  BY <1>2, <1>4 DEF EmptyLog
<1>8. /\ CopiedRows(g) = 1..n
      /\ \A j \in 1..n : RemoteFid(g, j) = order[n + 1 - j]
  <2> HIDE DEF S, g
  <2> QED BY <1>5, <1>7, CopyPairs
<1>9. DOMAIN copy.rows = CopiedRows(g)
  <2> DEFINE t == [fields |-> 0, rows |-> copy.rows]
             u == Stored(t, g, 0)
  <2>1. Accounted(u)
    <3> HIDE DEF S, rows, order
    <3> QED BY <1>5, CopyAccounted
  <2>2. u.rows = copy.rows /\ u.log = g
    BY DEF Stored
  <2>3. g.removed = {} /\ RowsIn(g.added) = {}
    BY DEF EmptyLog, EmptyTable, RowsIn
  <2> HIDE DEF u, g, copy
  <2> QED BY <2>1, <2>2, <2>3 DEF Accounted
<1>10. copy.rows[k] = rows[order[k]]
  <2> HIDE DEF S, rows, order
  <2> QED BY <1>5, <1>7, CopyRows
<1> HIDE DEF n, g, copy, order
<1>11. k = n /\ n + 1 - k = k
  BY <1>6, <1>7, <1>8, <1>9
<1> QED BY <1>3, <1>7, <1>8, <1>9, <1>10, <1>11

\* One layer of at most one feature, which is not edited again after it was
\* synchronised: the lookup always leads to the right feature, as long as every
\* commit was logged.
THEOREM LookupAlwaysFindsFeature ==
    ASSUME OneLayer, ~EditsAfterSync, StoredRows <= 1
    PROVE  Spec => []LookupFindsFeature
<1>1. Spec => []UncopiedInv
  BY UncopiedAlways
<1>2. UncopiedInv => [ConvertToOfflineProject => LookupFindsFeature']_vars
  BY OneRowCopied
<1>3. Init => ReplayInv
  BY InitReplayInv
<1>4. ReplayInv /\ [][Next]_vars /\ CopiesRight => []LookupFindsFeature
  BY LookupStaysRight
<1> QED BY <1>1, <1>2, <1>3, <1>4, PTL DEF Spec, CopiesRight

-----------------------------------------------------------------------------
(* What the replay makes of one row of the server's layer.                 *)

\* What the row has where nothing is replayed.
Kept(row, f) == IF f \in DOMAIN row.attrs THEN row.attrs[f] ELSE Null

\* The rows of the log that are replayed on row r.
ValuesFor(l, r, f) ==
    {k \in RowsToReplay(log[l].values) :
        /\ RemoteFid(log[l], log[l].values[k].fid) = r
        /\ AttributeLookup(FieldsAt(l, log[l].values[k].commit),
                           log[l].values[k].field) = f}

GeomsFor(l, r) ==
    {k \in RowsToReplay(log[l].geoms) : RemoteFid(log[l], log[l].geoms[k].fid) = r}

\* ReplayedRow() by its parts.
LEMMA ReplayedParts ==
    ASSUME NEW l \in Layers, Replayable(l), NEW r \in DOMAIN server[l].rows,
           FieldsAt(l, commitNo) = table[l].fields
    PROVE  LET row == server[l].rows[r]
               new == ReplayedRow(l, r)
           IN  /\ DOMAIN new.attrs = 1..table[l].fields
               /\ \A f \in 1..table[l].fields :
                     /\ ValuesFor(l, r, f) = {} => new.attrs[f] = Kept(row, f)
                     /\ ValuesFor(l, r, f) # {} =>
                           new.attrs[f] = LastReplayed(log[l].values,
                                                       ValuesFor(l, r, f)).value
               /\ GeomsFor(l, r) = {} => new.geom = row.geom
               /\ GeomsFor(l, r) # {} =>
                     new.geom = LastReplayed(log[l].geoms, GeomsFor(l, r)).geom
<1> DEFINE row == server[l].rows[r]
           F == table[l].fields
           attrs == [f \in 1..F |->
                IF ValuesFor(l, r, f) # {}
                THEN LastReplayed(log[l].values, ValuesFor(l, r, f)).value
                ELSE Kept(row, f)]
           geom == IF GeomsFor(l, r) # {}
                   THEN LastReplayed(log[l].geoms, GeomsFor(l, r)).geom
                   ELSE row.geom
<1>1. ReplayedRow(l, r) = [row EXCEPT !.attrs = attrs, !.geom = geom]
  BY DEF ReplayedRow, ValuesFor, GeomsFor, Kept
<1>2. row \in Row(server[l].fields)
  BY DEF Replayable, ServerTyped
<1>3. /\ DOMAIN attrs = 1..F
      /\ \A f \in 1..F :
            attrs[f] = IF ValuesFor(l, r, f) # {}
                       THEN LastReplayed(log[l].values, ValuesFor(l, r, f)).value
                       ELSE Kept(row, f)
  OBVIOUS
<1> HIDE DEF attrs, row, F
<1>4. /\ [row EXCEPT !.attrs = attrs, !.geom = geom].attrs = attrs
      /\ [row EXCEPT !.attrs = attrs, !.geom = geom].geom = geom
  BY <1>2 DEF Row
<1>5. ReplayedRow(l, r).attrs = attrs /\ ReplayedRow(l, r).geom = geom
  BY <1>1, <1>4
<1> QED BY <1>3, <1>5 DEF row, F

\* What is logged for no row of the copy that leads to r leaves r as it was.
LEMMA NothingReplayed ==
    ASSUME NEW l \in Layers, Replayable(l), NEW r \in DOMAIN server[l].rows,
           FieldsAt(l, commitNo) = table[l].fields,
           \A i \in DOMAIN log[l].values : RemoteFid(log[l], log[l].values[i].fid) # r,
           \A i \in DOMAIN log[l].geoms : RemoteFid(log[l], log[l].geoms[i].fid) # r
    PROVE  LET row == server[l].rows[r]
               new == ReplayedRow(l, r)
           IN  /\ DOMAIN new.attrs = 1..table[l].fields
               /\ \A f \in 1..table[l].fields : new.attrs[f] = Kept(row, f)
               /\ new.geom = row.geom
<1>1. \A f : ValuesFor(l, r, f) = {}
  BY DEF ValuesFor, RowsToReplay
<1>2. GeomsFor(l, r) = {}
  BY DEF GeomsFor, RowsToReplay
<1> QED BY <1>1, <1>2, ReplayedParts

\* A row of the copy is the only one of those copied that leads to its feature.
LEMMA OneLeads ==
    ASSUME NEW l \in Layers, Replayable(l), Ready(l), NEW k \in DOMAIN base[l].rows,
           RemoteFid(log[l], k) \in DOMAIN server[l].rows, NEW j
    PROVE  RemoteFid(log[l], j) = RemoteFid(log[l], k) <=> j = k
<1> DEFINE g == log[l]
           r == RemoteFid(g, k)
<1>1. r \in 1..(server[l].nextFid - 1)
  BY DEF Replayable, ServerTyped
<1>2. CASE j \notin DOMAIN base[l].rows
  <2>1. RemoteFid(g, j) = -1
    BY <1>2, NotFound DEF Ready
  <2>2. r # -1
    BY <1>1 DEF Replayable, ServerTyped
  <2> QED BY <1>2, <2>1, <2>2
<1>3. CASE j \in DOMAIN base[l].rows
  <2>1. RemoteFid(g, j) = r <=> server[l].rows[r].name = base[l].rows[j].name
    BY <1>3 DEF Ready, Paired
  <2>2. server[l].rows[r].name = base[l].rows[k].name
    BY DEF Ready, Paired
  <2>3. base[l].rows[j].name = base[l].rows[k].name => j = k
    BY <1>3 DEF Ready, NamesApart
  <2> HIDE DEF r
  <2> QED BY <2>1, <2>2, <2>3 DEF r
<1> QED BY <1>2, <1>3

\* A feature that was copied, and is in the copy still, gets there what the copy
\* has, where it was changed, and keeps what it has, where it was not.
LEMMA OriginalReplayed ==
    ASSUME NEW l \in Layers, Replayable(l), Ready(l), QuotedValues = {},
           FieldsAt(l, commitNo) = table[l].fields,
           NEW k \in Originals(Offline(l)), NEW r, RemoteFid(log[l], k) = r,
           r \in DOMAIN server[l].rows
    PROVE  LET original == base[l].rows[k]
               edited == table[l].rows[k]
               row == server[l].rows[r]
               new == ReplayedRow(l, r)
           IN  /\ DOMAIN new.attrs = 1..table[l].fields
               /\ \A f \in 1..table[l].fields :
                     \/ new.attrs[f] = Logged(edited.attrs[f])
                     \/ /\ edited.attrs[f] = IF f <= base[l].fields
                                             THEN original.attrs[f] ELSE Null
                        /\ new.attrs[f] = Kept(row, f)
               /\ \/ new.geom = edited.geom
                  \/ edited.geom = original.geom /\ new.geom = row.geom
<1> DEFINE g == log[l]
           t == Offline(l)
           b == base[l]
<1>1. /\ t.fields = table[l].fields /\ t.rows = table[l].rows /\ t.log = g
      /\ t.commitNo = commitNo
  BY DEF Offline, Stored
<1>2. /\ CopyTyped(t) /\ Told(t, b)
  BY DEF Replayable, Ready
<1>3. /\ Rowids(DOMAIN g.values) /\ Rowids(DOMAIN g.geoms)
      /\ \A i \in DOMAIN g.values : g.values[i] \in ValueRow(table[l].fields)
      /\ \A i \in DOMAIN g.geoms : g.geoms[i] \in GeomRow
      /\ table[l].fields \in Nat
  BY <1>1, <1>2, OfflineAssumption DEF CopyTyped, LogTyped
<1>4. /\ k \in DOMAIN b.rows
      /\ \A f \in 1..t.fields : ValueTold(t, b, k, f)
      /\ GeomTold(t, b, k)
  BY <1>2 DEF Told, RowsTold
<1>5. /\ RowsToReplay(g.values) = DOMAIN g.values
      /\ RowsToReplay(g.geoms) = DOMAIN g.geoms
  BY <1>1, <1>2 DEF Told, CommitsPast, RowsToReplay
<1>6. \A j : RemoteFid(g, j) = r <=> j = k
  BY <1>4, OneLeads
<1>7. ASSUME NEW i \in DOMAIN g.values
      PROVE  AttributeLookup(FieldsAt(l, g.values[i].commit), g.values[i].field)
                 = g.values[i].field
  <2>1. FieldsAt(l, g.values[i].commit)
            = b.fields + Cardinality(FieldsBy(g, g.values[i].commit))
    <3>1. FieldsAt(l, g.values[i].commit)
            = server[l].fields + Cardinality(FieldsBy(g, g.values[i].commit))
      BY <1>2, FieldsFound DEF Told
    <3> QED BY <3>1 DEF Ready
  <2>2. g.values[i].field <= b.fields + Cardinality(FieldsBy(g, g.values[i].commit))
    BY <1>1, <1>2 DEF Told, FieldsTold
  <2> QED BY <2>1, <2>2 DEF AttributeLookup
<1>8. \A f : ValuesFor(l, r, f) = ValueRows(g, k, f)
  BY <1>5, <1>6, <1>7 DEF ValuesFor, ValueRows
<1>9. GeomsFor(l, r) = GeomRows(g, k)
  BY <1>5, <1>6 DEF GeomsFor, GeomRows
<1> DEFINE row == server[l].rows[r]
           new == ReplayedRow(l, r)
<1>10. /\ DOMAIN new.attrs = 1..table[l].fields
       /\ \A f \in 1..table[l].fields :
             /\ ValueRows(g, k, f) = {} => new.attrs[f] = Kept(row, f)
             /\ ValueRows(g, k, f) # {} =>
                   new.attrs[f] = LastReplayed(g.values, ValueRows(g, k, f)).value
       /\ GeomRows(g, k) = {} => new.geom = row.geom
       /\ GeomRows(g, k) # {} =>
             new.geom = LastReplayed(g.geoms, GeomRows(g, k)).geom
  BY <1>8, <1>9, ReplayedParts
<1> HIDE DEF t, g, new
<1>11. ASSUME NEW f \in 1..table[l].fields
       PROVE  \/ new.attrs[f] = Logged(table[l].rows[k].attrs[f])
              \/ /\ table[l].rows[k].attrs[f] = IF f <= b.fields
                                                THEN b.rows[k].attrs[f] ELSE Null
                 /\ new.attrs[f] = Kept(row, f)
  <2> DEFINE keys == ValueRows(g, k, f)
  <2>1. ValueTold(t, b, k, f)
    BY <1>1, <1>4
  <2>2. CASE keys = {}
    BY <1>1, <1>10, <2>1, <2>2 DEF ValueTold
  <2>3. CASE keys # {}
    <3>1. PICK m \in keys : /\ IsLast(g.values, keys, m)
                            /\ g.values[m].value = Logged(table[l].rows[k].attrs[f])
      BY <1>1, <2>1, <2>3 DEF ValueTold
    <3>2. Rowids(keys) /\ \A i \in keys : g.values[i].commit \in Nat
      <4>1. keys \subseteq DOMAIN g.values
        BY DEF ValueRows
      <4> QED BY <1>3, <4>1, SomeRowids DEF ValueRow
    <3> HIDE DEF keys
    <3>3. LastReplayed(g.values, keys) = g.values[m]
      BY <3>1, <3>2, LastIsReplayed
    <3> QED BY <1>10, <2>3, <3>1, <3>3 DEF keys
  <2> QED BY <2>2, <2>3
<1>12. \/ new.geom = table[l].rows[k].geom
       \/ table[l].rows[k].geom = b.rows[k].geom /\ new.geom = row.geom
  <2> DEFINE keys == GeomRows(g, k)
  <2>1. CASE keys = {}
    BY <1>1, <1>4, <1>10, <2>1 DEF GeomTold
  <2>2. CASE keys # {}
    <3>1. PICK m \in keys : /\ IsLast(g.geoms, keys, m)
                            /\ g.geoms[m].geom = table[l].rows[k].geom
      BY <1>1, <1>4, <2>2 DEF GeomTold
    <3>2. Rowids(keys) /\ \A i \in keys : g.geoms[i].commit \in Nat
      <4>1. keys \subseteq DOMAIN g.geoms
        BY DEF GeomRows
      <4> QED BY <1>3, <4>1, SomeRowids DEF GeomRow
    <3> HIDE DEF keys
    <3>3. LastReplayed(g.geoms, keys) = g.geoms[m]
      BY <3>1, <3>2, LastIsReplayed
    <3> QED BY <1>10, <2>2, <3>1, <3>3 DEF keys
  <2> QED BY <2>1, <2>2
<1> QED BY <1>10, <1>11, <1>12 DEF new

\* What was removed from the copy is what is removed from the server's layer,
\* and no feature that was added to the copy is there.
LEMMA RemovedByName ==
    ASSUME NEW l \in Layers, Replayable(l), Ready(l), Accounted(Offline(l)),
           NEW r \in DOMAIN server[l].rows
    PROVE  r \in RemovedOnServer(l) <=>
               \E k \in DOMAIN base[l].rows :
                   /\ server[l].rows[r].name = base[l].rows[k].name
                   /\ \A j \in DOMAIN table[l].rows :
                          table[l].rows[j].name # base[l].rows[k].name
<1> DEFINE g == log[l]
           t == Offline(l)
           b == base[l]
<1>1. t.rows = table[l].rows /\ t.log = g
  BY DEF Offline, Stored
<1>2. /\ CopiedRows(g) = DOMAIN b.rows
      /\ Originals(t) = CopiedRows(g) \ g.removed
      /\ Originals(t) = DOMAIN t.rows \ RowsIn(g.added)
  BY <1>1, OriginalsAreKept DEF Ready, Originals
<1>3. \A k \in Originals(t) : k \in DOMAIN b.rows /\ t.rows[k].name = b.rows[k].name
  BY DEF Ready, Told, RowsTold
<1>4. \A k \in DOMAIN t.rows : k \notin Originals(t) =>
          \A i \in DOMAIN b.rows : b.rows[i].name # t.rows[k].name
  BY <1>1, <1>2 DEF Ready, NotYetThere
<1>5. r \in 1..(server[l].nextFid - 1) /\ r # -1
  BY DEF Replayable, ServerTyped
<1>6. \A k \in DOMAIN b.rows : RemoteFid(g, k) = r <=> server[l].rows[r].name = b.rows[k].name
  BY DEF Ready, Paired
<1>7. \A i, j \in DOMAIN b.rows : b.rows[i].name = b.rows[j].name => i = j
  BY DEF Ready, NamesApart
<1> HIDE DEF t
<1>8. ASSUME r \in RemovedOnServer(l)
      PROVE  \E k \in DOMAIN b.rows :
                 /\ server[l].rows[r].name = b.rows[k].name
                 /\ \A j \in DOMAIN t.rows : t.rows[j].name # b.rows[k].name
  <2>1. PICK k \in g.removed : RemoteFid(g, k) = r
    BY <1>8 DEF RemovedOnServer
  <2>2. k \in DOMAIN b.rows
    BY <1>2, <1>5, <2>1, NotFound
  <2>3. \A j \in DOMAIN t.rows : t.rows[j].name # b.rows[k].name
    <3> SUFFICES ASSUME NEW j \in DOMAIN t.rows, t.rows[j].name = b.rows[k].name
                 PROVE  FALSE
      OBVIOUS
    <3>1. j \in Originals(t)
      BY <1>4, <2>2
    <3>2. j = k
      BY <1>3, <1>7, <2>2, <3>1
    <3> QED BY <1>2, <2>1, <3>1, <3>2
  <2> QED BY <1>6, <2>1, <2>2, <2>3
<1>9. ASSUME NEW k \in DOMAIN b.rows, server[l].rows[r].name = b.rows[k].name,
             \A j \in DOMAIN t.rows : t.rows[j].name # b.rows[k].name
      PROVE  r \in RemovedOnServer(l)
  <2>1. RemoteFid(g, k) = r
    BY <1>6, <1>9
  <2>2. k \notin Originals(t)
    BY <1>2, <1>3, <1>9
  <2>3. k \in g.removed
    BY <1>2, <2>2
  <2> QED BY <2>1, <2>3 DEF RemovedOnServer
<1> QED BY <1>1, <1>8, <1>9

-----------------------------------------------------------------------------
(* Layers by the names of their features.                                  *)

Names(rows) == {rows[k].name : k \in DOMAIN rows}

FeatureView(row) ==
    [attrs |-> [f \in DOMAIN row.attrs |-> Logged(row.attrs[f])], geom |-> row.geom]

View(t) ==
    LET Of(name) == t.rows[CHOOSE k \in DOMAIN t.rows : t.rows[k].name = name]
    IN  [fields |-> t.fields,
         rows |-> [name \in Names(t.rows) |-> FeatureView(Of(name))]]

\* ByName() shows the view of each layer.
LEMMA ByNameViews ==
    ASSUME NEW layers
    PROVE  ByName(layers) = [l \in Layers |-> View(layers[l])]
BY DEF ByName, View, FeatureView, Names

\* Where names are told apart, the view of a layer has each feature under its
\* name.
LEMMA ViewRows ==
    ASSUME NEW t, NEW N, NamesApart(t.rows, N)
    PROVE  /\ View(t).fields = t.fields
           /\ DOMAIN View(t).rows = Names(t.rows)
           /\ \A k \in DOMAIN t.rows :
                  /\ t.rows[k].name \in Names(t.rows)
                  /\ View(t).rows[t.rows[k].name] = FeatureView(t.rows[k])
<1> DEFINE Of(name) == t.rows[CHOOSE k \in DOMAIN t.rows : t.rows[k].name = name]
           rows == [name \in Names(t.rows) |-> FeatureView(Of(name))]
<1>1. View(t) = [fields |-> t.fields, rows |-> rows]
  BY DEF View
<1>2. ASSUME NEW k \in DOMAIN t.rows
      PROVE  t.rows[k].name \in Names(t.rows) /\ Of(t.rows[k].name) = t.rows[k]
  <2>1. \A j \in DOMAIN t.rows : t.rows[j].name = t.rows[k].name => j = k
    BY DEF NamesApart
  <2> QED BY <2>1 DEF Names
<1> HIDE DEF Of
<1>3. /\ DOMAIN rows = Names(t.rows)
      /\ \A k \in DOMAIN t.rows : rows[t.rows[k].name] = FeatureView(t.rows[k])
  BY <1>2
<1> HIDE DEF rows
<1> QED BY <1>1, <1>2, <1>3

\* Layers whose features are the same look the same.
LEMMA SameViews ==
    ASSUME NEW t, NEW u, NEW N, NamesApart(t.rows, N), NamesApart(u.rows, N),
           t.fields = u.fields,
           \A k \in DOMAIN t.rows : \E j \in DOMAIN u.rows : t.rows[k] = u.rows[j],
           \A j \in DOMAIN u.rows : \E k \in DOMAIN t.rows : t.rows[k] = u.rows[j]
    PROVE  View(t) = View(u)
<1>1. Names(t.rows) = Names(u.rows)
  BY DEF Names
<1>2. /\ View(t) = [fields |-> t.fields, rows |-> View(t).rows]
      /\ View(u) = [fields |-> u.fields, rows |-> View(u).rows]
      /\ View(t).rows = [name \in Names(t.rows) |-> View(t).rows[name]]
      /\ View(u).rows = [name \in Names(u.rows) |-> View(u).rows[name]]
  BY DEF View
<1>3. ASSUME NEW name \in Names(t.rows) PROVE View(t).rows[name] = View(u).rows[name]
  <2>1. PICK k \in DOMAIN t.rows : t.rows[k].name = name
    BY DEF Names
  <2>2. PICK j \in DOMAIN u.rows : t.rows[k] = u.rows[j]
    OBVIOUS
  <2>3. View(t).rows[t.rows[k].name] = FeatureView(t.rows[k])
    BY ViewRows
  <2>4. View(u).rows[u.rows[j].name] = FeatureView(u.rows[j])
    BY ViewRows
  <2> QED BY <2>1, <2>2, <2>3, <2>4
<1>4. View(t).rows = View(u).rows
  BY <1>1, <1>2, <1>3, Zenon
<1> QED BY <1>2, <1>4

-----------------------------------------------------------------------------
(* What the replay does is a merge.                                        *)

\* A feature that gets what the copy has, or keeps what it has where the copy
\* has what it was made with.
LEMMA FeatureMerged ==
    ASSUME NEW b, NEW c, NEW s, NEW m, NEW B \in Nat, NEW F \in Nat,
           DOMAIN b.attrs = 1..B, DOMAIN c.attrs = 1..F, DOMAIN m.attrs = 1..F,
           \A f \in 1..F :
               \/ m.attrs[f] = Logged(c.attrs[f])
               \/ /\ c.attrs[f] = IF f <= B THEN b.attrs[f] ELSE Null
                  /\ m.attrs[f] = Kept(s, f),
           m.geom = c.geom \/ (c.geom = b.geom /\ m.geom = s.geom)
    PROVE  Merge!IsMergeOfFeature(FeatureView(b), FeatureView(c), FeatureView(s),
                                  FeatureView(m), F)
<1>1. /\ FeatureView(b).geom = b.geom /\ FeatureView(c).geom = c.geom
      /\ FeatureView(s).geom = s.geom /\ FeatureView(m).geom = m.geom
  BY DEF FeatureView
<1>2. Logged(Null) = EmptyText /\ \A v : Logged(Logged(v)) = Logged(v)
  BY OfflineAssumption DEF Logged
<1>3. ASSUME NEW f \in 1..F
      PROVE  FeatureView(m).attrs[f] \in
                 Merge!Merged(Merge!Attribute(FeatureView(b), f),
                              Merge!Attribute(FeatureView(c), f),
                              Merge!Attribute(FeatureView(s), f))
  <2>1. FeatureView(m).attrs[f] = Logged(m.attrs[f])
    BY DEF FeatureView
  <2>2. Merge!Attribute(FeatureView(c), f) = Logged(c.attrs[f])
    BY DEF FeatureView, Merge!Attribute
  <2>3. Merge!Attribute(FeatureView(s), f) = Logged(Kept(s, f))
    BY <1>2 DEF FeatureView, Merge!Attribute, Kept
  <2>4. Merge!Attribute(FeatureView(b), f)
            = Logged(IF f <= B THEN b.attrs[f] ELSE Null)
    <3>1. f \in 1..B <=> f <= B
      OBVIOUS
    <3> QED BY <1>2, <3>1 DEF FeatureView, Merge!Attribute
  <2>5. CASE m.attrs[f] = Logged(c.attrs[f])
    BY <1>2, <2>1, <2>2, <2>5 DEF Merge!Merged
  <2>6. CASE /\ c.attrs[f] = IF f <= B THEN b.attrs[f] ELSE Null
             /\ m.attrs[f] = Kept(s, f)
    BY <2>1, <2>2, <2>3, <2>4, <2>6 DEF Merge!Merged
  <2> QED BY <2>5, <2>6
<1>4. FeatureView(m).geom \in Merge!Merged(FeatureView(b).geom, FeatureView(c).geom,
                                          FeatureView(s).geom)
  BY <1>1 DEF Merge!Merged
<1> QED BY <1>3, <1>4 DEF Merge!IsMergeOfFeature

\* A feature of others that stays what it is, but for the fields it gets.
StaysFeature(row, new) ==
    /\ FeatureView(new).geom = FeatureView(row).geom
    /\ \A f \in DOMAIN FeatureView(row).attrs :
           FeatureView(new).attrs[f] = FeatureView(row).attrs[f]

\* A feature of others stays what it is: it may get fields, and loses none.
LEMMA FeatureKept ==
    ASSUME NEW s, NEW m, m.geom = s.geom, DOMAIN s.attrs \subseteq DOMAIN m.attrs,
           \A f \in DOMAIN m.attrs : m.attrs[f] = Kept(s, f)
    PROVE  StaysFeature(s, m)
BY DEF StaysFeature, FeatureView, Kept

\* One row after the replay: a feature added to the copy, one that was copied
\* and is merged, or one of others.
RowMerged(b, c, s, m, q) ==
    \/ \E k \in DOMAIN c.rows :
           /\ c.rows[k].name = m.rows[q].name
           /\ c.rows[k].name \notin Names(b.rows)
           /\ FeatureView(m.rows[q]) = FeatureView(c.rows[k])
    \/ \E i \in DOMAIN b.rows, k \in DOMAIN c.rows, r \in DOMAIN s.rows :
           /\ b.rows[i].name = m.rows[q].name
           /\ c.rows[k].name = m.rows[q].name
           /\ s.rows[r].name = m.rows[q].name
           /\ Merge!IsMergeOfFeature(
                  FeatureView(b.rows[i]), FeatureView(c.rows[k]),
                  FeatureView(s.rows[r]), FeatureView(m.rows[q]), c.fields)
    \/ \E r \in DOMAIN s.rows :
           /\ s.rows[r].name = m.rows[q].name
           /\ s.rows[r].name \notin Names(b.rows) \cup Names(c.rows)
           /\ StaysFeature(s.rows[r], m.rows[q])

\* The names that are in a merge.
NamesMerged(b, c, s, m) ==
    Names(m.rows) = (Names(s.rows) \ (Names(b.rows) \ Names(c.rows)))
                        \cup (Names(c.rows) \ Names(b.rows))

\* A layer is a merge if its features are those that a merge has, and each of
\* them is what a merge makes of it.
LEMMA MergedByName ==
    ASSUME NEW b, NEW c, NEW s, NEW m, NEW N,
           NamesApart(b.rows, N), NamesApart(c.rows, N),
           NamesApart(s.rows, N), NamesApart(m.rows, N),
           m.fields = c.fields, NamesMerged(b, c, s, m),
           \A q \in DOMAIN m.rows : RowMerged(b, c, s, m, q)
    PROVE  Merge!IsMerge(View(b), View(c), View(s), View(m))
<1> DEFINE new == Names(c.rows) \ Names(b.rows)
           Expected(n) ==
               IF n \in new THEN View(m).rows[n] = View(c).rows[n]
               ELSE IF n \in Names(b.rows)
               THEN Merge!IsMergeOfFeature(View(b).rows[n], View(c).rows[n],
                                           View(s).rows[n], View(m).rows[n], c.fields)
               ELSE /\ View(m).rows[n].geom = View(s).rows[n].geom
                    /\ \A f \in DOMAIN View(s).rows[n].attrs :
                           View(m).rows[n].attrs[f] = View(s).rows[n].attrs[f]
<1>1. /\ DOMAIN View(b).rows = Names(b.rows)
      /\ \A k \in DOMAIN b.rows : /\ b.rows[k].name \in Names(b.rows)
                                  /\ View(b).rows[b.rows[k].name] = FeatureView(b.rows[k])
  BY ViewRows
<1>2. /\ View(c).fields = c.fields /\ DOMAIN View(c).rows = Names(c.rows)
      /\ \A k \in DOMAIN c.rows : /\ c.rows[k].name \in Names(c.rows)
                                  /\ View(c).rows[c.rows[k].name] = FeatureView(c.rows[k])
  BY ViewRows
<1>3. /\ DOMAIN View(s).rows = Names(s.rows)
      /\ \A k \in DOMAIN s.rows : View(s).rows[s.rows[k].name] = FeatureView(s.rows[k])
  BY ViewRows
<1>4. /\ View(m).fields = m.fields /\ DOMAIN View(m).rows = Names(m.rows)
      /\ \A k \in DOMAIN m.rows : View(m).rows[m.rows[k].name] = FeatureView(m.rows[k])
  BY ViewRows
<1>5. ASSUME NEW n \in Names(m.rows) PROVE Expected(n)
  <2>1. PICK q \in DOMAIN m.rows : m.rows[q].name = n
    BY DEF Names
  <2>2. View(m).rows[n] = FeatureView(m.rows[q])
    BY <1>4, <2>1
  <2>3. CASE \E k \in DOMAIN c.rows :
                 /\ c.rows[k].name = m.rows[q].name
                 /\ c.rows[k].name \notin Names(b.rows)
                 /\ FeatureView(m.rows[q]) = FeatureView(c.rows[k])
    BY <1>2, <2>1, <2>2, <2>3
  <2>4. CASE \E i \in DOMAIN b.rows, k \in DOMAIN c.rows, r \in DOMAIN s.rows :
                 /\ b.rows[i].name = m.rows[q].name
                 /\ c.rows[k].name = m.rows[q].name
                 /\ s.rows[r].name = m.rows[q].name
                 /\ Merge!IsMergeOfFeature(
                        FeatureView(b.rows[i]), FeatureView(c.rows[k]),
                        FeatureView(s.rows[r]), FeatureView(m.rows[q]), c.fields)
    BY <1>1, <1>2, <1>3, <2>1, <2>2, <2>4
  <2>5. CASE \E r \in DOMAIN s.rows :
                 /\ s.rows[r].name = m.rows[q].name
                 /\ s.rows[r].name \notin Names(b.rows) \cup Names(c.rows)
                 /\ StaysFeature(s.rows[r], m.rows[q])
    BY <1>3, <2>1, <2>2, <2>5 DEF StaysFeature
  <2> QED BY <2>3, <2>4, <2>5 DEF RowMerged
<1> QED BY <1>1, <1>2, <1>3, <1>4, <1>5 DEF Merge!IsMerge, NamesMerged

\* A layer whose copy can be merged into it.
Mergeable(l) ==
    /\ Replayable(l) /\ InOrder(Offline(l))
    /\ FieldsAt(l, commitNo) = table[l].fields
    /\ LayerNames(l)
    /\ TableTyped(base[l])

\* The rows of the copy that were copied, and those that were added: by name, the
\* former are in the base, the latter neither there nor on the server.
LEMMA RowsByName ==
    ASSUME NEW l \in Layers, Mergeable(l), Ready(l)
    PROVE  /\ \A k \in Originals(Offline(l)) :
                  /\ k \in DOMAIN table[l].rows /\ k \in DOMAIN base[l].rows
                  /\ table[l].rows[k].name = base[l].rows[k].name
           /\ \A k \in DOMAIN table[l].rows :
                  k \in RowsIn(log[l].added) =>
                      /\ table[l].rows[k].name \notin Names(base[l].rows)
                      /\ table[l].rows[k].name \notin Names(server[l].rows)
           /\ \A k \in DOMAIN table[l].rows :
                  k \in Originals(Offline(l)) \/ k \in RowsIn(log[l].added)
<1>1. Offline(l).rows = table[l].rows /\ Offline(l).log = log[l]
  BY DEF Offline, Stored
<1>2. \A k \in Originals(Offline(l)) :
          /\ k \in DOMAIN table[l].rows /\ k \in DOMAIN base[l].rows
          /\ table[l].rows[k].name = base[l].rows[k].name
  BY <1>1 DEF Ready, Told, RowsTold, Originals
<1>3. ASSUME NEW k \in DOMAIN table[l].rows, k \in RowsIn(log[l].added)
      PROVE  /\ table[l].rows[k].name \notin Names(base[l].rows)
             /\ table[l].rows[k].name \notin Names(server[l].rows)
  BY <1>1, <1>3 DEF Ready, Mergeable, LayerNames, NotYetThere, Names
<1> QED BY <1>1, <1>2, <1>3 DEF Originals

\* The features on the server after the replay: those it had without those the
\* user removed, and those the user added.
LEMMA ReadyNames ==
    ASSUME NEW l \in Layers, Mergeable(l), Ready(l), Accounted(Offline(l)),
           NEW m, Arrived(l, m)
    PROVE  NamesMerged(base[l], table[l], server[l], m)
<1> DEFINE b == base[l]
           c == table[l]
           s == server[l]
           g == log[l]
           next == s.nextFid
           n == Cardinality(DOMAIN g.added)
           kept == DOMAIN s.rows \ RemovedOnServer(l)
<1>1. /\ n \in Nat /\ next \in Nat \ {0}
      /\ DOMAIN m.rows = kept \cup next..(next + n - 1)
      /\ \A r \in kept : m.rows[r].name = s.rows[r].name
      /\ \A i \in 1..n : /\ next + i - 1 \in DOMAIN m.rows
                         /\ m.rows[next + i - 1] = c.rows[NewRow(g, i)]
  BY DEF Arrived
<1>2. /\ \A i \in 1..n : /\ NewRow(g, i) \in RowsIn(g.added)
                         /\ NewRow(g, i) \in DOMAIN c.rows
      /\ \A k \in RowsIn(g.added) : \E i \in 1..n : NewRow(g, i) = k
  <2>1. Offline(l).rows = c.rows /\ Offline(l).log = g
    BY DEF Offline, Stored
  <2>2. Good(Offline(l)) /\ InOrder(Offline(l))
    BY DEF Mergeable, Replayable
  <2> HIDE DEF g, c
  <2>3. n = Cardinality(DOMAIN Offline(l).log.added)
    BY <2>1
  <2> HIDE DEF n
  <2>4. /\ \A i \in 1..n : /\ NewRow(Offline(l).log, i) \in RowsIn(Offline(l).log.added)
                           /\ NewRow(Offline(l).log, i) \in DOMAIN Offline(l).rows
        /\ \A k \in RowsIn(Offline(l).log.added) :
               \E i \in 1..n : NewRow(Offline(l).log, i) = k
    BY <2>2, <2>3, NewRowsInOrder
  <2> QED BY <2>1, <2>4
<1>3. \A r \in DOMAIN s.rows :
          r \in RemovedOnServer(l) <=> s.rows[r].name \in Names(b.rows) \ Names(c.rows)
  <2>1. Replayable(l)
    BY DEF Mergeable
  <2> QED BY <2>1, RemovedByName DEF Names
<1>4. /\ \A k \in Originals(Offline(l)) :
             /\ k \in DOMAIN c.rows /\ k \in DOMAIN b.rows
             /\ c.rows[k].name = b.rows[k].name
      /\ \A k \in DOMAIN c.rows :
             k \in RowsIn(g.added) => c.rows[k].name \notin Names(b.rows)
      /\ \A k \in DOMAIN c.rows :
             k \in Originals(Offline(l)) \/ k \in RowsIn(g.added)
  BY RowsByName
<1>5. ASSUME NEW q \in DOMAIN m.rows
      PROVE  \/ q \in kept
             \/ \E i \in 1..n : m.rows[q] = c.rows[NewRow(g, i)]
  <2>1. CASE q \in next..(next + n - 1)
    <3>1. q - next + 1 \in 1..n /\ next + (q - next + 1) - 1 = q
      BY <1>1, <2>1
    <3> QED BY <1>1, <3>1
  <2> QED BY <1>1, <2>1
<1> HIDE DEF b, c, s, g, n, next
<1>6. ASSUME NEW x \in Names(m.rows)
      PROVE  x \in (Names(s.rows) \ (Names(b.rows) \ Names(c.rows)))
                       \cup (Names(c.rows) \ Names(b.rows))
  <2>1. PICK q \in DOMAIN m.rows : m.rows[q].name = x
    BY DEF Names
  <2>2. CASE q \in kept
    BY <1>1, <1>3, <2>1, <2>2 DEF Names
  <2>3. CASE \E i \in 1..n : m.rows[q] = c.rows[NewRow(g, i)]
    BY <1>2, <1>4, <2>1, <2>3 DEF Names
  <2> QED BY <1>5, <2>2, <2>3
<1>7. ASSUME NEW x \in Names(s.rows) \ (Names(b.rows) \ Names(c.rows))
      PROVE  x \in Names(m.rows)
  <2>1. PICK r \in DOMAIN s.rows : s.rows[r].name = x
    BY DEF Names
  <2>2. r \in kept
    BY <1>3, <2>1
  <2> HIDE DEF kept
  <2> QED BY <1>1, <2>1, <2>2 DEF Names
<1>8. ASSUME NEW x \in Names(c.rows) \ Names(b.rows)
      PROVE  x \in Names(m.rows)
  <2>1. PICK k \in DOMAIN c.rows : c.rows[k].name = x
    BY DEF Names
  <2>2. k \in RowsIn(g.added)
    BY <1>4, <2>1 DEF Names
  <2>3. PICK i \in 1..n : NewRow(g, i) = k
    BY <1>2, <2>2
  <2> QED BY <1>1, <2>1, <2>3 DEF Names
<1>9. Names(m.rows) = (Names(s.rows) \ (Names(b.rows) \ Names(c.rows)))
                          \cup (Names(c.rows) \ Names(b.rows))
  BY <1>6, <1>7, <1>8
<1> QED BY <1>9 DEF NamesMerged, b, c, s

\* A feature that was copied and is still on the server is merged.
LEMMA OriginalMerged ==
    ASSUME NEW l \in Layers, Mergeable(l), Ready(l), QuotedValues = {},
           NEW m, Arrived(l, m), NEW k \in Originals(Offline(l)),
           NEW q \in DOMAIN server[l].rows, q \notin RemovedOnServer(l),
           server[l].rows[q].name = base[l].rows[k].name
    PROVE  /\ m.rows[q].name = server[l].rows[q].name
           /\ Merge!IsMergeOfFeature(
                  FeatureView(base[l].rows[k]), FeatureView(table[l].rows[k]),
                  FeatureView(server[l].rows[q]), FeatureView(m.rows[q]),
                  table[l].fields)
<1> DEFINE b == base[l].rows[k]
           c == table[l].rows[k]
           s == server[l].rows[q]
           new == m.rows[q]
           B == base[l].fields
           F == table[l].fields
<1>1. m.rows[q] = ReplayedRow(l, q) /\ m.rows[q].name = server[l].rows[q].name
  BY DEF Arrived
<1>2. /\ k \in DOMAIN table[l].rows /\ k \in DOMAIN base[l].rows
      /\ RemoteFid(log[l], k) = q
  BY RowsByName DEF Ready, Paired
<1>3. /\ DOMAIN new.attrs = 1..F
      /\ \A f \in 1..F :
            \/ new.attrs[f] = Logged(c.attrs[f])
            \/ /\ c.attrs[f] = IF f <= B THEN b.attrs[f] ELSE Null
               /\ new.attrs[f] = Kept(s, f)
      /\ new.geom = c.geom \/ (c.geom = b.geom /\ new.geom = s.geom)
  <2>1. Replayable(l) /\ FieldsAt(l, commitNo) = table[l].fields
    BY DEF Mergeable
  <2> QED BY <1>1, <1>2, <2>1, OriginalReplayed
<1>4. B \in Nat /\ DOMAIN b.attrs = 1..B
  <2>1. B \in 0..MaxFields /\ b \in Row(B)
    BY <1>2 DEF Mergeable, TableTyped
  <2> QED BY <2>1, OfflineAssumption DEF Row
<1>5. F \in Nat /\ DOMAIN c.attrs = 1..F
  <2>1. F \in 1..MaxFields /\ c \in Row(F)
    BY <1>2 DEF Mergeable, Replayable, CopyTyped, Offline, Stored
  <2> QED BY <2>1, OfflineAssumption DEF Row
<1> HIDE DEF b, c, s, new, B, F
<1>6. Merge!IsMergeOfFeature(FeatureView(b), FeatureView(c), FeatureView(s),
                             FeatureView(new), F)
  BY <1>3, <1>4, <1>5, FeatureMerged
<1> QED BY <1>1, <1>6 DEF b, c, s, new, F

\* A feature to which no row leads that the log has values or geometries for
\* stays what it is.
LEMMA OtherKept ==
    ASSUME NEW l \in Layers, Mergeable(l), NEW m, Arrived(l, m),
           NEW q \in DOMAIN server[l].rows, q \notin RemovedOnServer(l),
           \A i \in DOMAIN log[l].values : RemoteFid(log[l], log[l].values[i].fid) # q,
           \A i \in DOMAIN log[l].geoms : RemoteFid(log[l], log[l].geoms[i].fid) # q
    PROVE  /\ m.rows[q].name = server[l].rows[q].name
           /\ DOMAIN m.rows[q].attrs = 1..table[l].fields
           /\ \A f \in 1..table[l].fields : m.rows[q].attrs[f] = Kept(server[l].rows[q], f)
           /\ m.rows[q].geom = server[l].rows[q].geom
           /\ StaysFeature(server[l].rows[q], m.rows[q])
<1> DEFINE s == server[l].rows[q]
           new == m.rows[q]
           F == table[l].fields
<1>1. new = ReplayedRow(l, q) /\ new.name = s.name
  BY DEF Arrived
<1>2. /\ DOMAIN new.attrs = 1..F
      /\ \A f \in 1..F : new.attrs[f] = Kept(s, f)
      /\ new.geom = s.geom
  <2>1. Replayable(l) /\ FieldsAt(l, commitNo) = table[l].fields
    BY DEF Mergeable
  <2> QED BY <1>1, <2>1, NothingReplayed
<1>3. DOMAIN s.attrs \subseteq 1..F
  <2>1. server[l].fields <= F /\ F \in Nat
    BY FieldsReplayed, OfflineAssumption DEF Mergeable
  <2>2. DOMAIN s.attrs = 1..server[l].fields /\ server[l].fields \in 1..MaxFields
    BY DEF Mergeable, Replayable, ServerTyped, Row
  <2> QED BY <2>1, <2>2
<1> HIDE DEF s, new, F
<1>4. StaysFeature(s, new)
  BY <1>2, <1>3, FeatureKept
<1> QED BY <1>1, <1>2, <1>4 DEF s, new, F

\* Every row is what a merge makes of it, when the log is replayed.
LEMMA ReadyRows ==
    ASSUME NEW l \in Layers, Mergeable(l), Ready(l), Accounted(Offline(l)),
           QuotedValues = {}, NEW m, Arrived(l, m), NEW q \in DOMAIN m.rows
    PROVE  RowMerged(base[l], table[l], server[l], m, q)
<1> DEFINE b == base[l]
           c == table[l]
           s == server[l]
           g == log[l]
           next == s.nextFid
           n == Cardinality(DOMAIN g.added)
           kept == DOMAIN s.rows \ RemovedOnServer(l)
<1> SUFFICES RowMerged(b, c, s, m, q)
  OBVIOUS
<1>1. /\ n \in Nat /\ next \in Nat \ {0}
      /\ DOMAIN m.rows = kept \cup next..(next + n - 1)
      /\ \A i \in 1..n : m.rows[next + i - 1] = c.rows[NewRow(g, i)]
      /\ \A r \in kept : r \in 1..(next - 1) /\ m.rows[r].name = s.rows[r].name
  BY DEF Arrived
<1>2. \A i \in 1..n : /\ NewRow(g, i) \in RowsIn(g.added)
                      /\ NewRow(g, i) \in DOMAIN c.rows
  <2>1. Offline(l).rows = c.rows /\ Offline(l).log = g
    BY DEF Offline, Stored
  <2>2. Good(Offline(l)) /\ InOrder(Offline(l))
    BY DEF Mergeable, Replayable
  <2> HIDE DEF g, c
  <2>3. n = Cardinality(DOMAIN Offline(l).log.added)
    BY <2>1
  <2> HIDE DEF n
  <2> QED BY <2>1, <2>2, <2>3, NewRowsInOrder
<1>3. /\ \A k \in Originals(Offline(l)) :
             /\ k \in DOMAIN c.rows /\ k \in DOMAIN b.rows
             /\ c.rows[k].name = b.rows[k].name
      /\ \A k \in DOMAIN c.rows :
             k \in RowsIn(g.added) => /\ c.rows[k].name \notin Names(b.rows)
                                      /\ c.rows[k].name \notin Names(s.rows)
      /\ \A k \in DOMAIN c.rows :
             k \in Originals(Offline(l)) \/ k \in RowsIn(g.added)
  BY RowsByName
<1>4. CASE q \in next..(next + n - 1)
  <2> DEFINE i == q - next + 1
  <2>1. i \in 1..n /\ next + i - 1 = q
    BY <1>1, <1>4
  <2> HIDE DEF i, n, next
  <2>2. m.rows[q] = c.rows[NewRow(g, i)]
    BY <1>1, <2>1
  <2> QED BY <1>2, <1>3, <2>1, <2>2 DEF RowMerged
<1>5. CASE q \in kept /\ s.rows[q].name \in Names(b.rows)
  <2>1. PICK k \in DOMAIN b.rows : b.rows[k].name = s.rows[q].name
    BY <1>5 DEF Names
  <2>2. PICK j \in DOMAIN c.rows : c.rows[j].name = b.rows[k].name
    <3>1. Replayable(l)
      BY DEF Mergeable
    <3> QED BY <1>5, <2>1, <3>1, RemovedByName
  <2>3. j \in Originals(Offline(l))
    BY <1>3, <2>1, <2>2 DEF Names
  <2>4. b.rows[j].name = s.rows[q].name /\ j \in DOMAIN b.rows
    BY <1>3, <2>1, <2>2, <2>3
  <2>5. /\ m.rows[q].name = s.rows[q].name
        /\ Merge!IsMergeOfFeature(FeatureView(b.rows[j]), FeatureView(c.rows[j]),
                                  FeatureView(s.rows[q]), FeatureView(m.rows[q]), c.fields)
    BY <1>5, <2>3, <2>4, OriginalMerged
  <2> HIDE DEF b, c, s
  <2> QED BY <1>5, <2>1, <2>2, <2>4, <2>5 DEF RowMerged
<1>6. CASE q \in kept /\ s.rows[q].name \notin Names(b.rows)
  <2>1. \A k : RemoteFid(g, k) # q
    <3> SUFFICES ASSUME NEW k, RemoteFid(g, k) = q PROVE FALSE
      OBVIOUS
    <3>1. q # -1
      BY <1>1, <1>6
    <3>2. k \in DOMAIN b.rows
      BY <3>1, NotFound DEF Ready
    <3>3. s.rows[q].name = b.rows[k].name
      BY <1>6, <3>2 DEF Ready, Paired
    <3> QED BY <1>6, <3>2, <3>3 DEF Names
  <2>2. s.rows[q].name \notin Names(c.rows)
    <3> SUFFICES ASSUME NEW k \in DOMAIN c.rows, c.rows[k].name = s.rows[q].name
                 PROVE  FALSE
      BY DEF Names
    <3> QED BY <1>3, <1>6 DEF Names
  <2>3. /\ m.rows[q].name = s.rows[q].name
        /\ StaysFeature(s.rows[q], m.rows[q])
    <3>1. q \in DOMAIN s.rows /\ q \notin RemovedOnServer(l)
      BY <1>6
    <3>2. /\ \A i \in DOMAIN g.values : RemoteFid(g, g.values[i].fid) # q
          /\ \A i \in DOMAIN g.geoms : RemoteFid(g, g.geoms[i].fid) # q
      BY <2>1
    <3>3. /\ q \in DOMAIN server[l].rows
          /\ \A i \in DOMAIN log[l].values : RemoteFid(log[l], log[l].values[i].fid) # q
          /\ \A i \in DOMAIN log[l].geoms : RemoteFid(log[l], log[l].geoms[i].fid) # q
      BY <3>1, <3>2
    <3> QED BY <3>1, <3>3, OtherKept
  <2> HIDE DEF b, c, s
  <2> QED BY <1>6, <2>2, <2>3 DEF RowMerged
<1> QED BY <1>1, <1>4, <1>5, <1>6

\* Where all was replayed already, nothing is replayed again, and every feature
\* stays what it is.
LEMMA DoneMerged ==
    ASSUME NEW l \in Layers, Mergeable(l), Done(l), NEW m, Arrived(l, m)
    PROVE  /\ NamesMerged(base[l], table[l], server[l], m)
           /\ \A q \in DOMAIN m.rows : RowMerged(base[l], table[l], server[l], m, q)
<1> DEFINE b == base[l]
           c == table[l]
           s == server[l]
           g == log[l]
<1>1. /\ b = c /\ g.removed = {} /\ DOMAIN g.added = {}
      /\ DOMAIN g.values = {} /\ DOMAIN g.geoms = {}
  BY DEF Done, EmptyLog, EmptyTable
<1>2. RemovedOnServer(l) = {}
  BY <1>1 DEF RemovedOnServer
<1>3. Cardinality(DOMAIN g.added) = 0
  BY <1>1, FS_EmptySet
<1>4. /\ DOMAIN m.rows = DOMAIN s.rows
      /\ \A r \in DOMAIN s.rows : m.rows[r].name = s.rows[r].name
  BY <1>2, <1>3 DEF Arrived
<1>5. NamesMerged(b, c, s, m)
  <2>1. Names(m.rows) = Names(s.rows)
    BY <1>4 DEF Names
  <2> QED BY <1>1, <2>1 DEF NamesMerged
<1>6. ASSUME NEW q \in DOMAIN m.rows PROVE RowMerged(b, c, s, m, q)
  <2>1. /\ m.rows[q].name = s.rows[q].name
        /\ DOMAIN m.rows[q].attrs = 1..c.fields
        /\ \A f \in 1..c.fields : m.rows[q].attrs[f] = Kept(s.rows[q], f)
        /\ m.rows[q].geom = s.rows[q].geom
        /\ StaysFeature(s.rows[q], m.rows[q])
    <3>1. q \in DOMAIN s.rows /\ q \notin RemovedOnServer(l)
      BY <1>2, <1>4
    <3>2. /\ \A i \in DOMAIN g.values : RemoteFid(g, g.values[i].fid) # q
          /\ \A i \in DOMAIN g.geoms : RemoteFid(g, g.geoms[i].fid) # q
      BY <1>1
    <3> QED BY <3>1, <3>2, OtherKept
  <2>2. CASE s.rows[q].name \notin Names(c.rows)
    <3> HIDE DEF b, c, s
    <3> QED BY <1>1, <1>4, <2>1, <2>2 DEF RowMerged
  <2>3. CASE s.rows[q].name \in Names(c.rows)
    <3>1. PICK k \in DOMAIN c.rows : c.rows[k].name = s.rows[q].name
      BY <2>3 DEF Names
    <3> DEFINE row == c.rows[k]
               F == c.fields
    <3>2. F \in Nat /\ DOMAIN row.attrs = 1..F
      <4>1. F \in 1..MaxFields /\ row \in Row(F)
        BY DEF Mergeable, Replayable, CopyTyped, Offline, Stored
      <4> QED BY <4>1, OfflineAssumption DEF Row
    <3>3. \A f \in 1..F : row.attrs[f] = IF f <= F THEN row.attrs[f] ELSE Null
      BY <3>2
    <3>4. Merge!IsMergeOfFeature(FeatureView(row), FeatureView(row),
                                 FeatureView(s.rows[q]), FeatureView(m.rows[q]), F)
      <4> HIDE DEF row, F, s
      <4> QED BY <2>1, <3>2, <3>3, FeatureMerged DEF F
    <3> HIDE DEF b, c, s
    <3> QED BY <1>1, <1>4, <2>1, <3>1, <3>4 DEF RowMerged
  <2> QED BY <2>2, <2>3
<1> QED BY <1>5, <1>6

\* Replaying the log merges the copy into the server's layer.
LEMMA ReplayMerges ==
    ASSUME ReplayInv, NEW l \in Layers, Taken(l), QuotedValues = {},
           NEW m, m = Replayed(l), NamesApart(m.rows, nextName)
    PROVE  Merge!IsMerge(View(base[l]), View(table[l]), View(server[l]), View(m))
<1>1. /\ (Ready(l) /\ l \notin delivered) \/ (Done(l) /\ l \in delivered)
      /\ Replayable(l) /\ InOrder(Offline(l))
      /\ l \notin delivered => Accounted(Offline(l))
      /\ FieldsAt(l, commitNo) = table[l].fields
      /\ Arrived(l, m)
  BY ReadyToReplay
<1>2. LayerNames(l) /\ TableTyped(base[l])
  BY DEF ReplayInv, LogFound, LogInProject, EditsAreLogged, TInv, LayerTyped
<1>3. Mergeable(l)
  BY <1>1, <1>2 DEF Mergeable
<1>4. /\ NamesMerged(base[l], table[l], server[l], m)
      /\ \A q \in DOMAIN m.rows : RowMerged(base[l], table[l], server[l], m, q)
  BY <1>1, <1>3, ReadyNames, ReadyRows, DoneMerged
<1>5. /\ NamesApart(server[l].rows, nextName)
      /\ NamesApart(table[l].rows, nextName)
      /\ NamesApart(base[l].rows, nextName)
  BY <1>1, <1>2 DEF LayerNames, Ready, Done
<1>6. m.fields = table[l].fields
  BY <1>1 DEF Arrived
<1> QED BY <1>4, <1>5, <1>6, MergedByName

-----------------------------------------------------------------------------
(* Synchronising is a merge.                                               *)

\* A copy has the rows it was made of, each of them.
LEMMA CopyHasAll ==
    ASSUME NEW rows, IsFiniteSet(DOMAIN rows), NEW order \in Orders(DOMAIN rows)
    PROVE  LET copy == CopyOf(rows, order) IN
           /\ \A k \in DOMAIN copy.rows : \E r \in DOMAIN rows : copy.rows[k] = rows[r]
           /\ \A r \in DOMAIN rows : \E k \in DOMAIN copy.rows : copy.rows[k] = rows[r]
<1> DEFINE S == DOMAIN rows
           copy == CopyOf(rows, order)
           g == [EmptyLog EXCEPT !.fids = copy.fids]
           n == Cardinality(S)
<1>1. g.fids = copy.fids
  BY DEF EmptyLog
<1> HIDE DEF S
<1>2. n \in Nat /\ DOMAIN order = 1..n /\ CopiedRows(g) = 1..n
  <2> HIDE DEF g
  <2> QED BY <1>1, CopyPairs DEF S
<1>3. DOMAIN copy.rows = 1..n
  <2> DEFINE t == [fields |-> 0, rows |-> copy.rows]
             u == Stored(t, g, 0)
  <2>1. Accounted(u)
    BY CopyAccounted DEF S
  <2>2. u.rows = copy.rows /\ u.log = g
    BY DEF Stored
  <2>3. g.removed = {} /\ RowsIn(g.added) = {}
    BY DEF EmptyLog, EmptyTable, RowsIn
  <2> HIDE DEF u, g, copy
  <2> QED BY <1>2, <2>1, <2>2, <2>3 DEF Accounted
<1>4. /\ \A k \in 1..n : order[k] \in S /\ copy.rows[k] = rows[order[k]]
      /\ \A j, k \in 1..n : order[j] = order[k] => j = k
  <2>1. /\ \A k \in DOMAIN copy.rows : order[k] \in S /\ copy.rows[k] = rows[order[k]]
        /\ \A j, k \in DOMAIN copy.rows : order[j] = order[k] => j = k
    BY CopyRows DEF S
  <2> HIDE DEF copy, n
  <2> QED BY <1>3, <2>1
<1>5. \A r \in S : \E k \in 1..n : order[k] = r
  <2>1. IsFiniteSet(1..n) /\ Cardinality(1..n) = n
    <3> HIDE DEF n
    <3>1. 1 \in Int /\ n \in Int /\ n \in Nat
      BY <1>2
    <3>2. /\ IsFiniteSet(1..n)
          /\ Cardinality(1..n) = (IF 1 > n THEN 0 ELSE n - 1 + 1)
      BY <3>1, FS_Interval
    <3> QED BY <3>1, <3>2
  <2>2. order \in [1..n -> S]
    BY DEF Orders, S
  <2>3. order \in Injection(1..n, S)
    BY <1>4, <2>2 DEF Injection, IsInjective
  <2>4. IsFiniteSet(S) /\ Cardinality(1..n) = Cardinality(S)
    BY <2>1 DEF S
  <2> HIDE DEF n
  <2>5. order \in Surjection(1..n, S)
    BY <2>1, <2>3, <2>4, FS_Injection
  <2> QED BY <2>5 DEF Surjection
<1> HIDE DEF copy, n
<1> QED BY <1>3, <1>4, <1>5 DEF S, copy

ServerView == ByName(server)
CopyView == ByName(table)
BaseView == ByName(base)

\* The steps of a merge are steps of what is seen of the layers.
LEMMA MergeSteps ==
    /\ \A taken \in SUBSET Layers :
           /\ \A l \in taken : CopyView'[l] = ServerView[l]
           /\ \A l \in Layers \ taken : CopyView'[l] = CopyView[l]
           /\ BaseView' = CopyView'
           /\ UNCHANGED <<ServerView, theirs>>
           => Merge!Next
    /\ \A l \in Layers :
           /\ \A m \in Layers \ {l} : CopyView'[m] = CopyView[m]
           /\ UNCHANGED <<ServerView, BaseView, theirs>>
           => Merge!Next
    /\ \A l \in Layers :
           /\ theirs' = theirs + 1
           /\ \A m \in Layers \ {l} : ServerView'[m] = ServerView[m]
           /\ UNCHANGED <<CopyView, BaseView>>
           => Merge!Next
    /\ \A l \in Layers :
           /\ Merge!IsMerge(BaseView[l], CopyView[l], ServerView[l], ServerView'[l])
           /\ \A m \in Layers \ {l} : ServerView'[m] = ServerView[m]
           /\ BaseView' = [BaseView EXCEPT ![l] = CopyView[l]]
           /\ UNCHANGED <<CopyView, theirs>>
           => Merge!Next
    /\ UNCHANGED <<server, table, base, theirs>>
           => UNCHANGED <<ByName(server), ByName(table), ByName(base), theirs>>
<1>1. ASSUME NEW taken \in SUBSET Layers,
             \A l \in taken : CopyView'[l] = ServerView[l],
             \A l \in Layers \ taken : CopyView'[l] = CopyView[l],
             BaseView' = CopyView', UNCHANGED <<ServerView, theirs>>
      PROVE  Merge!Next
  <2>1. Merge!TakeOffline(taken)
    BY <1>1 DEF Merge!TakeOffline, ServerView, CopyView, BaseView
  <2> QED BY <2>1 DEF Merge!Next
<1>2. ASSUME NEW l \in Layers, \A m \in Layers \ {l} : CopyView'[m] = CopyView[m],
             UNCHANGED <<ServerView, BaseView, theirs>>
      PROVE  Merge!Next
  <2>1. Merge!EditCopy(l)
    BY <1>2 DEF Merge!EditCopy, Merge!Others, ServerView, CopyView, BaseView
  <2> QED BY <2>1 DEF Merge!Next
<1>3. ASSUME NEW l \in Layers, theirs' = theirs + 1,
             \A m \in Layers \ {l} : ServerView'[m] = ServerView[m],
             UNCHANGED <<CopyView, BaseView>>
      PROVE  Merge!Next
  <2>1. Merge!EditServer(l)
    BY <1>3 DEF Merge!EditServer, Merge!Others, ServerView, CopyView, BaseView
  <2> QED BY <2>1 DEF Merge!Next
<1>4. ASSUME NEW l \in Layers,
             Merge!IsMerge(BaseView[l], CopyView[l], ServerView[l], ServerView'[l]),
             \A m \in Layers \ {l} : ServerView'[m] = ServerView[m],
             BaseView' = [BaseView EXCEPT ![l] = CopyView[l]],
             UNCHANGED <<CopyView, theirs>>
      PROVE  Merge!Next
  <2>1. Merge!Synchronize(l)
    BY <1>4 DEF Merge!Synchronize, Merge!Others, ServerView, CopyView, BaseView
  <2> QED BY <2>1 DEF Merge!Next
<1>5. UNCHANGED <<server, table, base, theirs>>
          => UNCHANGED <<ByName(server), ByName(table), ByName(base), theirs>>
  OBVIOUS
<1> QED BY <1>1, <1>2, <1>3, <1>4, <1>5

\* What is seen of a layer.
LEMMA LayerViews ==
    /\ ServerView = [l \in Layers |-> View(server[l])]
    /\ CopyView = [l \in Layers |-> View(table[l])]
    /\ BaseView = [l \in Layers |-> View(base[l])]
BY ByNameViews DEF ServerView, CopyView, BaseView

\* And after a step.
LEMMA NextLayerViews ==
    /\ ServerView' = [l \in Layers |-> View(server'[l])]
    /\ CopyView' = [l \in Layers |-> View(table'[l])]
    /\ BaseView' = [l \in Layers |-> View(base'[l])]
BY ByNameViews DEF ServerView, CopyView, BaseView

\* Taking layers offline gives copies that look like them.
LEMMA ConvertTakes ==
    ASSUME ReplayInv, LogFound', ConvertToOfflineProject
    PROVE  Merge!Next
<1>1. PICK taken \in SUBSET Layers \ {{}} : \E copies : CopiesMade(taken, copies)
  BY ConvertCopies
<1>2. PICK copies : CopiesMade(taken, copies)
  BY <1>1
<1>3. /\ UNCHANGED <<server, theirs, nextName, unlogged>>
      /\ \A l \in Layers : table[l] = NoRows
      /\ base' = table'
  BY <1>2 DEF ConvertToOfflineProject, CopiesMade
<1>4. ASSUME NEW l \in taken PROVE View(table'[l]) = View(server[l])
  <2> DEFINE copy == CopyOf(server[l].rows, copies[l])
  <2>1. table'[l] = [fields |-> server[l].fields, rows |-> copy.rows]
    BY <1>2 DEF CopiesMade
  <2>2. /\ IsFiniteSet(DOMAIN server[l].rows)
        /\ copies[l] \in Orders(DOMAIN server[l].rows)
    BY <1>2
       DEF CopiesMade, ReplayInv, LogFound, LogInProject, EditsAreLogged, TInv,
           IInv, ServerShape
  <2>3. /\ \A k \in DOMAIN copy.rows :
               \E r \in DOMAIN server[l].rows : copy.rows[k] = server[l].rows[r]
        /\ \A r \in DOMAIN server[l].rows :
               \E k \in DOMAIN copy.rows : copy.rows[k] = server[l].rows[r]
    BY <2>2, CopyHasAll
  <2>4. /\ NamesApart(table'[l].rows, nextName)
        /\ NamesApart(server[l].rows, nextName)
    BY <1>3
       DEF ReplayInv, LogFound, LogInProject, EditsAreLogged, TInv, LayerNames
  <2> HIDE DEF copy
  <2>5. table'[l].fields = server[l].fields /\ table'[l].rows = copy.rows
    BY <2>1
  <2> QED BY <2>3, <2>4, <2>5, SameViews
<1>5. ASSUME NEW l \in Layers \ taken PROVE table'[l] = table[l]
  BY <1>2, <1>3 DEF CopiesMade
<1>6. /\ \A l \in taken : CopyView'[l] = ServerView[l]
      /\ \A l \in Layers \ taken : CopyView'[l] = CopyView[l]
  BY <1>4, <1>5, LayerViews, NextLayerViews
<1>7. BaseView' = CopyView' /\ UNCHANGED <<ServerView, theirs>>
  BY <1>3 DEF ServerView, CopyView, BaseView
<1> QED BY <1>6, <1>7, MergeSteps

\* Replaying the log of a layer merges it.
LEMMA LayerSynchronizedMerges ==
    ASSUME OneLayer, QuotedValues = {}, ReplayInv, LogFound', LayerSynchronized
    PROVE  Merge!Next
<1> DEFINE l == Head(syncing)
<1>1. l \in Layers
  BY RestToVisit
     DEF ReplayInv, LogFound, LogInProject, EditsAreLogged, TInv, OthersTyped,
         LayerSynchronized, Projects
<1>2. /\ server' = [server EXCEPT ![l] = Replayed(l)]
      /\ base' = [base EXCEPT ![l] = table[l]]
      /\ UNCHANGED <<table, theirs, nextName, unlogged>>
  BY DEF LayerSynchronized
<1>3. Taken(l)
  BY <1>1, SynchronizedReady
<1> HIDE DEF l
<1>4. /\ server'[l] = Replayed(l) /\ base'[l] = table[l]
      /\ \A m \in Layers \ {l} : server'[m] = server[m] /\ base'[m] = base[m]
  BY <1>1, <1>2
     DEF ReplayInv, LogFound, LogInProject, EditsAreLogged, TInv, IInv,
         ServerShape, OthersTyped
<1>5. NamesApart(server'[l].rows, nextName)
  BY <1>1, <1>2 DEF LogFound, LogInProject, EditsAreLogged, TInv, LayerNames
<1>6. Merge!IsMerge(View(base[l]), View(table[l]), View(server[l]), View(server'[l]))
  BY <1>1, <1>3, <1>4, <1>5, ReplayMerges
<1>7. Merge!IsMerge(BaseView[l], CopyView[l], ServerView[l], ServerView'[l])
  <2>1. /\ BaseView[l] = View(base[l]) /\ CopyView[l] = View(table[l])
        /\ ServerView[l] = View(server[l]) /\ ServerView'[l] = View(server'[l])
    BY <1>1, LayerViews, NextLayerViews
  <2> QED BY <1>6, <2>1
<1>8. \A m \in Layers \ {l} : ServerView'[m] = ServerView[m]
  BY <1>4, LayerViews, NextLayerViews
<1>9. BaseView' = [BaseView EXCEPT ![l] = CopyView[l]]
  BY <1>1, <1>4, LayerViews, NextLayerViews
<1>10. UNCHANGED <<CopyView, theirs>>
  BY <1>2 DEF CopyView
<1> QED BY <1>1, <1>7, <1>8, <1>9, <1>10, MergeSteps

\* Every step is a step of a merge, or none.
LEMMA NextMerges ==
    ASSUME OneLayer, ~EditsAfterSync, QuotedValues = {}, ReplayInv, LogInProject',
           [Next]_vars
    PROVE  [Merge!Next]_<<ByName(server), ByName(table), ByName(base), theirs>>
<1>1. TInv
  BY DEF ReplayInv, LogFound, LogInProject, EditsAreLogged
<1>0. LogFound' \/ unlogged' # unlogged
  BY DEF ReplayInv, LogFound, EditsAreLogged
<1>2. CASE ConvertToOfflineProject
  BY <1>0, <1>2, ConvertTakes DEF ConvertToOfflineProject
<1>3. ASSUME NEW l \in Layers, CommitOffline(l) PROVE Merge!Next
  <2>1. /\ \A m \in Layers \ {l} : CopyView'[m] = CopyView[m]
    BY DEF OneLayer
  <2>2. UNCHANGED <<ServerView, BaseView, theirs>>
    BY <1>3 DEF CommitOffline, ServerView, BaseView
  <2> QED BY <2>1, <2>2, MergeSteps
<1>4. CASE SaveProject \/ ReopenProject \/ StartSynchronize \/ RemoteInvalid
           \/ CommitRefused \/ UNCHANGED vars
  <2>1. UNCHANGED <<server, table, base, theirs>>
    BY <1>4 DEF SaveProject, ReopenProject, StartSynchronize, RemoteInvalid,
                CommitRefused, vars, dataVars, historyVars
  <2> QED BY <2>1, MergeSteps
<1>5. CASE LayerSynchronized
  BY <1>0, <1>5, LayerSynchronizedMerges DEF LayerSynchronized
<1>6. ASSUME NEW l \in Layers, OthersChange(l) \/ OthersDelete(l) \/ OthersAdd(l)
      PROVE  Merge!Next
  <2>1. /\ \A m \in Layers \ {l} : server'[m] = server[m]
        /\ UNCHANGED <<table, base>> /\ theirs' = theirs + 1
    BY <1>1, <1>6, OthersEdit
  <2>2. \A m \in Layers \ {l} : ServerView'[m] = ServerView[m]
    BY <2>1, LayerViews, NextLayerViews
  <2>3. UNCHANGED <<CopyView, BaseView>>
    BY <2>1 DEF CopyView, BaseView
  <2> QED BY <2>1, <2>2, <2>3, MergeSteps
<1>7. ASSUME NEW l \in Layers, RollBackKeepEditing(l) \/ CancelEdits(l)
      PROVE  UNCHANGED <<ByName(server), ByName(table), ByName(base), theirs>>
  <2>1. UNCHANGED <<server, table, base, theirs>>
    BY <1>7 DEF RollBackKeepEditing, CancelEdits, dataVars, historyVars
  <2> QED BY <2>1, MergeSteps
<1> QED BY <1>2, <1>3, <1>4, <1>5, <1>6, <1>7 DEF Next

\* With one layer that is not edited again after it was synchronised, and values
\* without apostrophes: from any state in which layers that are offline have a
\* right lookup, every step is a step of a merge, up to the first commit that is
\* not logged.  All that was done offline, in any number of sessions, arrives;
\* nothing is lost that others did, although the program knows features by ids
\* that SQLite gives a second time and fields by counting, and though
\* synchronising is refused, interrupted and repeated.
THEOREM StepsMerge ==
    ASSUME OneLayer, ~EditsAfterSync, QuotedValues = {}
    PROVE  ReplayInv /\ [][Next]_vars /\ CopiesRight
           => [][EditsAreLogged => Merge!Next]_<<ByName(server), ByName(table),
                                               ByName(base), theirs>>
<1>1. /\ LoggedInv /\ [Next]_vars
      /\ [ConvertToOfflineProject => LookupFindsFeature']_vars
      => LoggedInv'
  BY NextLoggedInv
<1>2. LoggedInv /\ LoggedInv' /\ [Next]_vars
      => [EditsAreLogged => Merge!Next]_<<ByName(server), ByName(table),
                                        ByName(base), theirs>>
  BY NextMerges DEF LoggedInv
<1>3. ReplayInv => LoggedInv
  BY DEF ReplayInv, LogFound, LoggedInv
<1> QED BY <1>1, <1>2, <1>3, PTL DEF CopiesRight

\* One layer of at most one feature when it is taken offline, and any number of
\* features that are added on both sides: synchronising it implements LayerMerge,
\* unless a commit of the copy was not logged.
THEOREM SynchronizingMerges ==
    ASSUME OneLayer, ~EditsAfterSync, QuotedValues = {}, StoredRows <= 1
    PROVE  Spec => SynchronizeMerges
<1>1. Spec => []UncopiedInv
  BY UncopiedAlways
<1>2. UncopiedInv => [ConvertToOfflineProject => LookupFindsFeature']_vars
  BY OneRowCopied
<1>3. Init => ReplayInv /\ Merge!Init
  <2>1. Init => Merge!Init
    BY DEF Init, Merge!Init
  <2> QED BY <2>1, InitReplayInv
<1>4. ReplayInv /\ [][Next]_vars /\ CopiesRight
      => [][EditsAreLogged => Merge!Next]_<<ByName(server), ByName(table),
                                          ByName(base), theirs>>
  BY StepsMerge
<1> QED BY <1>1, <1>2, <1>3, <1>4, PTL DEF Spec, CopiesRight, SynchronizeMerges

\* Under the same conditions, and as long as nobody goes on editing after
\* "Rollback edits": offline editing implements LayerMerge without exception.
THEOREM OfflineImplementsMerge ==
    ASSUME OneLayer, ~EditsAfterSync, QuotedValues = {}, StoredRows <= 1
    PROVE  Spec /\ NoRollBackKeepsEditing => Merge!Spec
<1>1. Spec /\ NoRollBackKeepsEditing => []EditsAreLogged
  BY EditsAlwaysLogged
<1>2. Spec => SynchronizeMerges
  BY SynchronizingMerges
<1>3. EditsAreLogged
      /\ [EditsAreLogged => Merge!Next]_<<ByName(server), ByName(table),
                                         ByName(base), theirs>>
      => [Merge!Next]_<<ByName(server), ByName(table), ByName(base), theirs>>
  OBVIOUS
<1> QED BY <1>1, <1>2, <1>3, PTL DEF SynchronizeMerges, Merge!Spec
=============================================================================
