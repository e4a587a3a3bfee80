----------------------- MODULE VectorLayerEditingProofs -----------------------
(***************************************************************************)
(* Proofs about VectorLayerEditing for any layer, values and bounds: a     *)
(* temporary id names one feature for ever; and, while only features are   *)
(* edited, values keep their types, undo and redo restore what a reader of *)
(* the layer saw, a commit keeps the content of the layer, and a session   *)
(* implements EditHistory.                                                 *)
(***************************************************************************)
EXTENDS VectorLayerEditing, SequenceTheorems, FiniteSetTheorems, TLAPS

-----------------------------------------------------------------------------
(* Sequences of anything.                                                  *)

IsSeq(s) == \E S : s \in Seq(S)

LEMMA SeqShape ==
    ASSUME NEW s, IsSeq(s)
    PROVE  /\ Len(s) \in Nat
           /\ s = [i \in 1..Len(s) |-> s[i]]
           /\ DOMAIN s = 1..Len(s)
BY LenProperties DEF IsSeq

LEMMA NoElements ==
    IsSeq(<<>>) /\ Len(<<>>) = 0
BY EmptySeq DEF IsSeq

LEMMA OneElement ==
    ASSUME NEW e
    PROVE  IsSeq(<<e>>) /\ Len(<<e>>) = 1 /\ <<e>>[1] = e
<1>1. <<e>> \in Seq({e})
  OBVIOUS
<1> QED BY <1>1 DEF IsSeq

LEMMA Appended ==
    ASSUME NEW s, IsSeq(s), NEW e
    PROVE  /\ IsSeq(Append(s, e))
           /\ Len(Append(s, e)) = Len(s) + 1
           /\ \A i \in 1..Len(s) : Append(s, e)[i] = s[i]
           /\ Append(s, e)[Len(s) + 1] = e
<1>1. PICK S : s \in Seq(S)
  BY DEF IsSeq
<1>2. s \in Seq(S \cup {e})
  BY <1>1, SeqMonotonic
<1> QED BY <1>2, AppendProperties DEF IsSeq

LEMMA Prefix ==
    ASSUME NEW s, IsSeq(s), NEW n \in 0..Len(s)
    PROVE  /\ IsSeq(SubSeq(s, 1, n))
           /\ Len(SubSeq(s, 1, n)) = n
           /\ \A i \in 1..n : SubSeq(s, 1, n)[i] = s[i]
<1>1. PICK S : s \in Seq(S)
  BY DEF IsSeq
<1>2. \A i \in 1..n : s[i] \in S
  BY <1>1, ElementOfSeq, LenProperties
<1>3. Len(s) \in Nat
  BY <1>1, LenProperties
<1>4. /\ SubSeq(s, 1, n) \in Seq(S)
      /\ Len(SubSeq(s, 1, n)) = IF 1 <= n THEN n - 1 + 1 ELSE 0
      /\ \A i \in 1..(n - 1 + 1) : SubSeq(s, 1, n)[i] = s[1 + i - 1]
  BY <1>2, <1>3, SubSeqProperties
<1> HIDE DEF IsSeq
<1> DEFINE p == SubSeq(s, 1, n)
<1>5. IsSeq(p)
  BY <1>4 DEF IsSeq
<1>6. Len(p) = n /\ \A i \in 1..n : p[i] = s[i]
  <2> HIDE DEF p
  <2>1. /\ Len(p) = IF 1 <= n THEN n - 1 + 1 ELSE 0
        /\ \A i \in 1..(n - 1 + 1) : p[i] = s[1 + i - 1]
    BY <1>4 DEF p
  <2> QED BY <2>1, <1>3
<1> QED BY <1>5, <1>6

LEMMA Replaced ==
    ASSUME NEW s, IsSeq(s), NEW i \in 1..Len(s), NEW e
    PROVE  /\ IsSeq([s EXCEPT ![i] = e])
           /\ Len([s EXCEPT ![i] = e]) = Len(s)
           /\ \A j \in 1..Len(s) :
                 [s EXCEPT ![i] = e][j] = IF j = i THEN e ELSE s[j]
<1>1. PICK S : s \in Seq(S)
  BY DEF IsSeq
<1>2. s \in Seq(S \cup {e})
  BY <1>1, SeqMonotonic
<1> QED BY <1>2, ExceptSeq DEF IsSeq

LEMMA SeqExtensional ==
    ASSUME NEW s, NEW t, IsSeq(s), IsSeq(t), Len(s) = Len(t),
           \A i \in 1..Len(s) : s[i] = t[i]
    PROVE  s = t
<1>1. s = [i \in 1..Len(s) |-> s[i]] /\ t = [i \in 1..Len(s) |-> t[i]]
  BY SeqShape
<1>2. [i \in 1..Len(s) |-> s[i]] = [i \in 1..Len(s) |-> t[i]]
  OBVIOUS
<1> QED BY <1>1, <1>2

-----------------------------------------------------------------------------
(* Induction over the natural numbers, from the well-foundedness of the    *)
(* inclusion of finite sets, and the walks of the model that recursive     *)
(* functions define.                                                       *)

LEMMA NatInd ==
    ASSUME NEW S, 0 \in S, \A n \in Nat : n \in S => n + 1 \in S
    PROVE  Nat \subseteq S
<1> SUFFICES ASSUME NEW m \in Nat, m \notin S PROVE FALSE
  OBVIOUS
<1> DEFINE Bad == {n \in Nat : n \notin S}
           T == {1..n : n \in Bad}
<1>1. T \subseteq FiniteSubsetsOf(Nat)
  <2>1. ASSUME NEW n \in Nat PROVE 1..n \subseteq Nat /\ IsFiniteSet(1..n)
    BY FS_Interval
  <2> QED BY <2>1 DEF FiniteSubsetsOf
<1>2. T # {}
  OBVIOUS
<1>3. PICK x \in T : \A y \in T : <<y, x>> \notin StrictSubsetOrdering(Nat)
  <2> HIDE DEF T
  <2> QED BY <1>1, <1>2, FS_StrictSubsetOrderingWellFounded, WFMin
<1>4. PICK n \in Bad : x = 1..n
  OBVIOUS
<1>5. n # 0 /\ n - 1 \in Nat /\ n - 1 \in Bad
  OBVIOUS
<1>6. 1..(n - 1) \in T
  BY <1>5
<1>7. <<1..(n - 1), x>> \in StrictSubsetOrdering(Nat)
  BY <1>4, <1>5 DEF StrictSubsetOrdering
<1> QED BY <1>3, <1>6, <1>7

\* What holds at one end of a walk and is kept by each step holds at the other.
LEMMA Upward ==
    ASSUME NEW L \in Nat, NEW S, 0 \in S,
           \A n \in 1..L : n - 1 \in S => n \in S
    PROVE  L \in S
<1> DEFINE T == {k \in Nat : k <= L => k \in S}
<1>1. 0 \in T
  OBVIOUS
<1>2. ASSUME NEW k \in Nat, k \in T PROVE k + 1 \in T
  <2>1. CASE k + 1 <= L
    BY <1>2, <2>1
  <2> QED BY <2>1
<1>3. Nat \subseteq T
  <2> HIDE DEF T
  <2> QED BY <1>1, <1>2, NatInd
<1> QED BY <1>3

LEMMA Downward ==
    ASSUME NEW L \in Nat, NEW S, L \in S,
           \A n \in 1..L : n \in S => n - 1 \in S
    PROVE  0 \in S
<1> DEFINE T == {k \in Nat : k <= L => L - k \in S}
<1>1. 0 \in T
  OBVIOUS
<1>2. ASSUME NEW k \in Nat, k \in T PROVE k + 1 \in T
  <2>1. CASE k + 1 <= L
    <3>1. L - k \in S /\ L - k \in 1..L /\ L - (k + 1) = (L - k) - 1
      BY <1>2, <2>1
    <3> QED BY <3>1
  <2> QED BY <2>1
<1>3. Nat \subseteq T
  <2> HIDE DEF T
  <2> QED BY <1>1, <1>2, NatInd
<1>4. L - L = 0
  OBVIOUS
<1> QED BY <1>3, <1>4

\* w are the states on the way from one end to the other.
RedoneBy(w, commands, s) ==
    /\ w[0] = s
    /\ \A n \in 1..Len(commands) : w[n] = Redone(commands[n], w[n - 1])
    /\ AllRedone(commands, s) = w[Len(commands)]

UndoneBy(w, commands, s) ==
    /\ w[Len(commands)] = s
    /\ \A n \in 1..Len(commands) : w[n - 1] = Undone(commands[n], w[n])
    /\ AllUndone(commands, s) = w[0]

BottomBy(w, entries, s) ==
    /\ w[Len(entries)] = s
    /\ \A n \in 1..Len(entries) :
          w[n - 1] = AllUndone(entries[n].commands, w[n])
    /\ UndoneToBottom(entries, s) = w[0]

LEMMA RedoneWalk ==
    ASSUME NEW commands, Len(commands) \in Nat, NEW s
    PROVE  \E w : RedoneBy(w, commands, s)
<1> DEFINE L == Len(commands)
           Walk(k, w) == w = [n \in 0..k |->
                              IF n = 0 THEN s ELSE Redone(commands[n], w[n - 1])]
           T == {k \in Nat : \E w : Walk(k, w)}
<1>1. 0 \in T
  <2>1. Walk(0, [n \in 0..0 |-> s])
    OBVIOUS
  <2> QED BY <2>1
<1>2. ASSUME NEW k \in Nat, k \in T PROVE k + 1 \in T
  <2>1. PICK w : Walk(k, w)
    BY <1>2
  <2> DEFINE v == [n \in 0..(k + 1) |->
                    IF n = k + 1 THEN Redone(commands[k + 1], w[k]) ELSE w[n]]
  <2>2. \A n \in 0..(k + 1) :
            v[n] = IF n = 0 THEN s ELSE Redone(commands[n], v[n - 1])
    <3> SUFFICES ASSUME NEW n \in 0..(k + 1)
                 PROVE  v[n] = IF n = 0 THEN s
                               ELSE Redone(commands[n], v[n - 1])
      OBVIOUS
    <3>1. CASE n = k + 1
      <4>1. k # k + 1 /\ k \in 0..(k + 1) /\ n - 1 = k /\ n # 0
        BY <3>1
      <4>2. v[n - 1] = w[k]
        BY <4>1
      <4> QED BY <3>1, <4>1, <4>2
    <3>2. CASE n # k + 1 /\ n # 0
      <4>1. n \in 0..k /\ n - 1 \in 0..k /\ n - 1 # k + 1
        BY <3>2
      <4>2. w[n] = Redone(commands[n], w[n - 1])
        BY <2>1, <3>2, <4>1
      <4> QED BY <3>2, <4>1, <4>2
    <3>3. CASE n = 0
      <4>1. 0 \in 0..k /\ 0 # k + 1
        OBVIOUS
      <4>2. w[0] = s
        BY <2>1, <4>1
      <4> QED BY <3>3, <4>1, <4>2
    <3> QED BY <3>1, <3>2, <3>3
  <2>3. Walk(k + 1, v)
    BY <2>2
  <2>4. \E u : Walk(k + 1, u)
    BY <2>3
  <2> QED BY <2>4
<1>3. \E w : Walk(L, w)
  <2>1. Nat \subseteq T
    <3> HIDE DEF T
    <3> QED BY <1>1, <1>2, NatInd
  <2> QED BY <2>1
<1> DEFINE w == CHOOSE u : Walk(L, u)
<1>4. Walk(L, w)
  BY <1>3
<1>5. AllRedone(commands, s) = w[L]
  BY DEF AllRedone
<1>6. \A n \in 0..L : w[n] = IF n = 0 THEN s ELSE Redone(commands[n], w[n - 1])
  <2> HIDE DEF w
  <2> QED BY <1>4
<1> HIDE DEF w
<1>7. RedoneBy(w, commands, s)
  BY <1>5, <1>6 DEF RedoneBy
<1> QED BY <1>7

LEMMA UndoneWalk ==
    ASSUME NEW commands, Len(commands) \in Nat, NEW s
    PROVE  \E w : UndoneBy(w, commands, s)
<1> DEFINE L == Len(commands)
           Walk(k, w) == w = [n \in k..L |->
                              IF n = L THEN s
                              ELSE Undone(commands[n + 1], w[n + 1])]
           T == {k \in Nat : k <= L => \E w : Walk(L - k, w)}
<1>1. 0 \in T
  <2>1. Walk(L - 0, [n \in (L - 0)..L |-> s])
    OBVIOUS
  <2> QED BY <2>1
<1>2. ASSUME NEW k \in Nat, k \in T PROVE k + 1 \in T
  <2> SUFFICES ASSUME k + 1 <= L PROVE \E w : Walk(L - (k + 1), w)
    OBVIOUS
  <2>1. PICK w : Walk(L - k, w)
    BY <1>2
  <2> DEFINE m == L - (k + 1)
             v == [n \in m..L |-> IF n = m THEN Undone(commands[n + 1], w[n + 1])
                                  ELSE w[n]]
  <2>2. m \in 0..(L - 1) /\ L - k = m + 1
    OBVIOUS
  <2>3. Walk(m + 1, w)
    BY <2>1, <2>2
  <2> HIDE DEF m
  <2>4. \A n \in m..L :
            v[n] = IF n = L THEN s ELSE Undone(commands[n + 1], v[n + 1])
    <3> SUFFICES ASSUME NEW n \in m..L
                 PROVE  v[n] = IF n = L THEN s
                               ELSE Undone(commands[n + 1], v[n + 1])
      OBVIOUS
    <3>1. CASE n = m
      <4>1. n # L /\ n + 1 \in m..L /\ n + 1 # m
        BY <3>1, <2>2
      <4>2. v[n + 1] = w[n + 1]
        BY <4>1
      <4> QED BY <3>1, <4>1, <4>2
    <3>2. CASE n # m /\ n # L
      <4>1. n \in (m + 1)..L /\ n + 1 \in m..L /\ n + 1 # m
        BY <3>2, <2>2
      <4>2. w[n] = Undone(commands[n + 1], w[n + 1])
        BY <2>3, <3>2, <4>1
      <4> QED BY <3>2, <4>1, <4>2
    <3>3. CASE n = L
      <4>1. L \in (m + 1)..L /\ L # m
        BY <2>2
      <4>2. w[L] = s
        BY <2>3, <4>1
      <4> QED BY <3>3, <4>1, <4>2
    <3> QED BY <3>1, <3>2, <3>3
  <2>5. Walk(m, v)
    BY <2>4
  <2> QED BY <2>5 DEF m
<1>3. \E w : Walk(0, w)
  <2>1. Nat \subseteq T
    <3> HIDE DEF T
    <3> QED BY <1>1, <1>2, NatInd
  <2>2. L \in T /\ L - L = 0
    BY <2>1
  <2> QED BY <2>2
<1> DEFINE w == CHOOSE u : Walk(0, u)
<1>4. Walk(0, w)
  BY <1>3
<1>5. AllUndone(commands, s) = w[0]
  BY DEF AllUndone
<1>6. \A n \in 0..L : w[n] = IF n = L THEN s ELSE Undone(commands[n + 1], w[n + 1])
  <2> HIDE DEF w
  <2> QED BY <1>4
<1> HIDE DEF w
<1>7. \A n \in 1..L : n - 1 \in 0..L /\ n - 1 # L /\ (n - 1) + 1 = n
  OBVIOUS
<1>8. UndoneBy(w, commands, s)
  BY <1>5, <1>6, <1>7 DEF UndoneBy
<1> QED BY <1>8

LEMMA BottomWalk ==
    ASSUME NEW entries, Len(entries) \in Nat, NEW s
    PROVE  \E w : BottomBy(w, entries, s)
<1> DEFINE L == Len(entries)
           Walk(k, w) == w = [n \in k..L |->
                              IF n = L THEN s
                              ELSE AllUndone(entries[n + 1].commands, w[n + 1])]
           T == {k \in Nat : k <= L => \E w : Walk(L - k, w)}
<1>1. 0 \in T
  <2>1. Walk(L - 0, [n \in (L - 0)..L |-> s])
    OBVIOUS
  <2> QED BY <2>1
<1>2. ASSUME NEW k \in Nat, k \in T PROVE k + 1 \in T
  <2> SUFFICES ASSUME k + 1 <= L PROVE \E w : Walk(L - (k + 1), w)
    OBVIOUS
  <2>1. PICK w : Walk(L - k, w)
    BY <1>2
  <2> DEFINE m == L - (k + 1)
             v == [n \in m..L |->
                    IF n = m THEN AllUndone(entries[n + 1].commands, w[n + 1])
                    ELSE w[n]]
  <2>2. m \in 0..(L - 1) /\ L - k = m + 1
    OBVIOUS
  <2>3. Walk(m + 1, w)
    BY <2>1, <2>2
  <2> HIDE DEF m
  <2>4. \A n \in m..L :
            v[n] = IF n = L THEN s
                   ELSE AllUndone(entries[n + 1].commands, v[n + 1])
    <3> SUFFICES ASSUME NEW n \in m..L
                 PROVE  v[n] = IF n = L THEN s
                               ELSE AllUndone(entries[n + 1].commands, v[n + 1])
      OBVIOUS
    <3>1. CASE n = m
      <4>1. n # L /\ n + 1 \in m..L /\ n + 1 # m
        BY <3>1, <2>2
      <4>2. v[n + 1] = w[n + 1]
        BY <4>1
      <4> QED BY <3>1, <4>1, <4>2
    <3>2. CASE n # m /\ n # L
      <4>1. n \in (m + 1)..L /\ n + 1 \in m..L /\ n + 1 # m
        BY <3>2, <2>2
      <4>2. w[n] = AllUndone(entries[n + 1].commands, w[n + 1])
        BY <2>3, <3>2, <4>1
      <4> QED BY <3>2, <4>1, <4>2
    <3>3. CASE n = L
      <4>1. L \in (m + 1)..L /\ L # m
        BY <2>2
      <4>2. w[L] = s
        BY <2>3, <4>1
      <4> QED BY <3>3, <4>1, <4>2
    <3> QED BY <3>1, <3>2, <3>3
  <2>5. Walk(m, v)
    BY <2>4
  <2> QED BY <2>5 DEF m
<1>3. \E w : Walk(0, w)
  <2>1. Nat \subseteq T
    <3> HIDE DEF T
    <3> QED BY <1>1, <1>2, NatInd
  <2>2. L \in T /\ L - L = 0
    BY <2>1
  <2> QED BY <2>2
<1> DEFINE w == CHOOSE u : Walk(0, u)
<1>4. Walk(0, w)
  BY <1>3
<1>5. UndoneToBottom(entries, s) = w[0]
  BY DEF UndoneToBottom
<1>6. \A n \in 0..L : w[n] = IF n = L THEN s
                             ELSE AllUndone(entries[n + 1].commands, w[n + 1])
  <2> HIDE DEF w
  <2> QED BY <1>4
<1> HIDE DEF w
<1>7. \A n \in 1..L : n - 1 \in 0..L /\ n - 1 # L /\ (n - 1) + 1 = n
  OBVIOUS
<1>8. BottomBy(w, entries, s)
  BY <1>5, <1>6, <1>7 DEF BottomBy
<1> QED BY <1>8

-----------------------------------------------------------------------------
(* Temporary ids.                                                          *)

BufferFields == {"deletedFeatureIds", "addedFeatures", "changedAttributeValues",
                 "changedGeometries", "deletedAttributeIds", "addedAttributes"}

IsBuffer(b) == b = [k \in BufferFields |-> b[k]]

IsWorkspace(s) ==
    /\ DOMAIN s = {"provider", "buffer", "cache", "alive"}
    /\ IsBuffer(s.buffer)
    /\ s.alive \in BOOLEAN

CommandOps == {"addFeature", "deleteFeature", "changeGeometry",
               "changeAttribute", "addAttribute", "deleteAttribute"}

FieldOps == {"addAttribute", "deleteAttribute"}

\* The added features have ids that were handed out.
IdsWithin(b, low) == DOMAIN b.addedFeatures \subseteq low..(-1)

KnownCommand(c, low) ==
    /\ c.op \in CommandOps
    /\ c.op \notin FieldOps => c.fid \in Int /\ c.fid >= low
    /\ c.op \in {"addFeature", "deleteFeature"} => {"op", "fid"} \subseteq DOMAIN c
    /\ c.op = "addFeature" => c.fid < 0
    /\ c.op = "changeGeometry" => {"op", "fid", "new"} \subseteq DOMAIN c

KnownCommands(commands, low) ==
    /\ IsSeq(commands)
    /\ \A n \in 1..Len(commands) : KnownCommand(commands[n], low)

KnownEntry(e, low) ==
    /\ DOMAIN e = {"macro", "commands"}
    /\ e.macro \in BOOLEAN
    /\ KnownCommands(e.commands, low)
    /\ ~e.macro => Len(e.commands) = 1

KnownStack(entries, low) ==
    /\ IsSeq(entries)
    /\ \A i \in 1..Len(entries) : KnownEntry(entries[i], low)

\* Keeping the buffer's indices in step changes no feature id.
LEMMA IndicesKeepIds ==
    ASSUME NEW b, IsBuffer(b), NEW i
    PROVE  /\ IsBuffer(HandleAttributeAdded(b, i))
           /\ DOMAIN HandleAttributeAdded(b, i).addedFeatures
                = DOMAIN b.addedFeatures
           /\ IsBuffer(HandleAttributeDeleted(b, i))
           /\ DOMAIN HandleAttributeDeleted(b, i).addedFeatures
                = DOMAIN b.addedFeatures
BY DEF IsBuffer, HandleAttributeAdded, HandleAttributeDeleted, BufferFields

\* A command writes new features under no other id than its own.
LEMMA CommandKeepsIds ==
    ASSUME NEW s, IsWorkspace(s), NEW low \in Int, IdsWithin(s.buffer, low),
           NEW c, KnownCommand(c, low), NEW r, r \in {Redone(c, s), Undone(c, s)}
    PROVE  /\ IsWorkspace(r) /\ IdsWithin(r.buffer, low)
           /\ r.provider = s.provider
<1> DEFINE Goal == /\ IsWorkspace(r) /\ IdsWithin(r.buffer, low)
                   /\ r.provider = s.provider
<1> USE DEF IsWorkspace, IsBuffer, BufferFields
<1>1. CASE c.op = "addFeature"
  <2>1. r \in {RedoAddFeature(c, s), UndoAddFeature(c, s)}
    BY <1>1 DEF Redone, Undone
  <2>2. c.fid \in low..(-1)
    BY <1>1 DEF KnownCommand, FieldOps
  <2>3. CASE r = RedoAddFeature(c, s)
    BY <2>2, <2>3 DEF RedoAddFeature, IdsWithin, Put
  <2>4. CASE r = UndoAddFeature(c, s)
    BY <2>4 DEF UndoAddFeature, Asserting, IdsWithin, Without, Restrict
  <2> QED BY <2>1, <2>3, <2>4
<1>2. CASE c.op = "deleteFeature"
  <2>1. r \in {RedoDeleteFeature(c, s), UndoDeleteFeature(c, s)}
    BY <1>2 DEF Redone, Undone
  <2>2. IsNew(c.fid) => c.fid \in low..(-1)
    BY <1>2 DEF KnownCommand, FieldOps, IsNew
  <2> QED BY <2>1, <2>2
          DEF RedoDeleteFeature, UndoDeleteFeature, IdsWithin, Put, Without, Restrict
<1>3. CASE c.op = "changeGeometry"
  <2>1. r \in {RedoChangeGeometry(c, s), UndoChangeGeometry(c, s)}
    BY <1>3 DEF Redone, Undone
  <2>2. ASSUME NEW g, r = GeometrySet(s, c.fid, g) PROVE Goal
    BY <2>2 DEF GeometrySet, Asserting, IdsWithin
  <2>3. CASE r = UndoChangeGeometry(c, s) /\ c.old = NoGeometry
    BY <2>3 DEF UndoChangeGeometry, IdsWithin
  <2> QED BY <2>1, <2>2, <2>3 DEF RedoChangeGeometry, UndoChangeGeometry
<1>4. CASE c.op = "changeAttribute"
  <2>1. r \in {RedoChangeAttribute(c, s), UndoChangeAttribute(c, s)}
    BY <1>4 DEF Redone, Undone
  <2>2. ASSUME NEW v, r = AttributeSet(s, c, v) PROVE Goal
    <3>1. Holds(s, c.fid) => DOMAIN s.buffer.addedFeatures \cup {c.fid}
                              = DOMAIN s.buffer.addedFeatures
      BY DEF Holds
    <3> QED BY <2>2, <3>1 DEF AttributeSet, Asserting, IdsWithin, Put
  <2>3. CASE /\ r = UndoChangeAttribute(c, s)
             /\ ~(IsNew(c.fid) \/ ~c.firstChange)
    BY <2>3 DEF UndoChangeAttribute, IdsWithin
  <2> QED BY <2>1, <2>2, <2>3 DEF RedoChangeAttribute, UndoChangeAttribute
<1>5. CASE c.op = "addAttribute"
  <2>1. r \in {RedoAddAttribute(c, s), UndoAddAttribute(c, s)}
    BY <1>5 DEF Redone, Undone
  <2>2. ASSUME NEW list, NEW h,
               h \in {HandleAttributeAdded(
                        [s.buffer EXCEPT !.addedAttributes = list], c.field),
                      HandleAttributeDeleted(
                        [s.buffer EXCEPT !.addedAttributes = list], c.field)}
        PROVE  IsBuffer(h) /\ IdsWithin(h, low)
    <3> DEFINE b == [s.buffer EXCEPT !.addedAttributes = list]
    <3>1. IsBuffer(b) /\ DOMAIN b.addedFeatures = DOMAIN s.buffer.addedFeatures
      OBVIOUS
    <3>2. h \in {HandleAttributeAdded(b, c.field), HandleAttributeDeleted(b, c.field)}
      BY <2>2
    <3> HIDE DEF b, IsBuffer
    <3>3. IsBuffer(h) /\ DOMAIN h.addedFeatures = DOMAIN s.buffer.addedFeatures
      BY <3>1, <3>2, IndicesKeepIds
    <3> QED BY <3>3 DEF IdsWithin
  <2> HIDE DEF IsBuffer
  <2>3. CASE r = RedoAddAttribute(c, s)
    BY <2>3, <2>2 DEF RedoAddAttribute, Asserting
  <2>4. CASE r = UndoAddAttribute(c, s)
    BY <2>4, <2>2 DEF UndoAddAttribute
  <2> QED BY <2>1, <2>3, <2>4
<1>6. CASE c.op = "deleteAttribute"
  <2>1. r \in {RedoDeleteAttribute(c, s), UndoDeleteAttribute(c, s)}
    BY <1>6 DEF Redone, Undone
  <2>2. ASSUME NEW b, \/ \E list : b = [s.buffer EXCEPT !.addedAttributes = list]
                      \/ \E list : b = [s.buffer EXCEPT !.deletedAttributeIds = list]
        PROVE  IsBuffer(b) /\ DOMAIN b.addedFeatures = DOMAIN s.buffer.addedFeatures
    BY <2>2
  <2>3. CASE r = RedoDeleteAttribute(c, s)
    <3> DEFINE b == IF c.providerField
                    THEN [s.buffer EXCEPT !.deletedAttributeIds =
                            SortSeq(Append(s.buffer.deletedAttributeIds, c.originIndex), <)]
                    ELSE [s.buffer EXCEPT !.addedAttributes =
                            ListRemoveAt(s.buffer.addedAttributes, c.originIndex)]
               h == HandleAttributeDeleted(b, c.field)
    <3>1. IsBuffer(b) /\ DOMAIN b.addedFeatures = DOMAIN s.buffer.addedFeatures
      BY <2>2
    <3>2. IsBuffer(h) /\ DOMAIN h.addedFeatures = DOMAIN s.buffer.addedFeatures
      <4> HIDE DEF b, IsBuffer
      <4> QED BY <3>1, IndicesKeepIds
    <3>3. r \in {[s EXCEPT !.buffer = h], [s EXCEPT !.alive = FALSE]}
      BY <2>3 DEF RedoDeleteAttribute, Asserting
    <3> HIDE DEF h, IsBuffer
    <3> QED BY <3>2, <3>3 DEF IdsWithin
  <2>4. CASE r = UndoDeleteAttribute(c, s)
    <3> DEFINE b == IF c.providerField
                    THEN [s.buffer EXCEPT !.deletedAttributeIds =
                            RemoveFirst(s.buffer.deletedAttributeIds, c.originIndex)]
                    ELSE [s.buffer EXCEPT !.addedAttributes =
                            ListInsert(s.buffer.addedAttributes, c.originIndex, c.name)]
               h == HandleAttributeAdded(b, c.field)
    <3>1. IsBuffer(b) /\ DOMAIN b.addedFeatures = DOMAIN s.buffer.addedFeatures
      BY <2>2
    <3>2. IsBuffer(h) /\ DOMAIN h.addedFeatures = DOMAIN s.buffer.addedFeatures
      <4> HIDE DEF b, IsBuffer
      <4> QED BY <3>1, IndicesKeepIds
    <3>3. PICK x, y : r \in {[s EXCEPT !.buffer =
                               [h EXCEPT !.addedFeatures =
                                           [fid \in DOMAIN h.addedFeatures |-> x[fid]],
                                         !.changedAttributeValues = y]],
                             [s EXCEPT !.alive = FALSE]}
      <4> DEFINE x == [fid \in DOMAIN h.addedFeatures |->
                        SetAttribute(h.addedFeatures[fid], c.field,
                            IF fid \in DOMAIN c.deletedValues
                            THEN c.deletedValues[fid] ELSE Null)]
                 kept == {fid \in DOMAIN c.deletedValues : ~IsNew(fid)}
                 y == [fid \in DOMAIN h.changedAttributeValues \cup kept |->
                        LET map == IF fid \in DOMAIN h.changedAttributeValues
                                   THEN h.changedAttributeValues[fid] ELSE EmptyMap
                        IN  IF fid \in kept
                            THEN Put(map, c.field, c.deletedValues[fid])
                            ELSE map]
      <4>1. r \in {[s EXCEPT !.buffer = [h EXCEPT !.addedFeatures = x,
                                                 !.changedAttributeValues = y]],
                   [s EXCEPT !.alive = FALSE]}
        BY <2>4 DEF UndoDeleteAttribute, Asserting
      <4>2. x = [fid \in DOMAIN h.addedFeatures |-> x[fid]]
        BY Zenon
      <4> HIDE DEF x, y, h
      <4> QED BY <4>1, <4>2
    <3> DEFINE e == [h EXCEPT !.addedFeatures =
                                [fid \in DOMAIN h.addedFeatures |-> x[fid]],
                              !.changedAttributeValues = y]
    <3>4. IsBuffer(e) /\ DOMAIN e.addedFeatures = DOMAIN s.buffer.addedFeatures
      <4> HIDE DEF h
      <4> QED BY <3>2
    <3>5. r \in {[s EXCEPT !.buffer = e], [s EXCEPT !.alive = FALSE]}
      BY <3>3
    <3> HIDE DEF e, IsBuffer
    <3> QED BY <3>4, <3>5 DEF IdsWithin
  <2> QED BY <2>1, <2>3, <2>4
<1> QED BY <1>1, <1>2, <1>3, <1>4, <1>5, <1>6 DEF KnownCommand, CommandOps

\* An addition on the stack is the only one with its id.
AdditionAt(st, i, m, fid) ==
    /\ i \in 1..Len(st) /\ m \in 1..Len(st[i].commands)
    /\ st[i].commands[m].op = "addFeature" /\ st[i].commands[m].fid = fid

AdditionsApart(st) ==
    \A i, j, m, n, fid :
        AdditionAt(st, i, m, fid) /\ AdditionAt(st, j, n, fid) => i = j /\ m = n

Foreign(st, c) ==
    c.op = "addFeature" =>
        \A i \in 1..Len(st) : \A m \in 1..Len(st[i].commands) :
            st[i].commands[m].op = "addFeature" => st[i].commands[m].fid # c.fid

\* A command that joins others is appended, or replaces the value of the last.
LEMMA JoinedAtEnd ==
    ASSUME NEW cs, IsSeq(cs), NEW c, ~(cs # <<>> /\ Mergeable(Last(cs), c))
    PROVE  WithCommand(cs, c) = Append(cs, c)
BY DEF WithCommand

LEMMA JoinedInto ==
    ASSUME NEW cs, IsSeq(cs), NEW c, cs # <<>>, Mergeable(Last(cs), c)
    PROVE  LET w == WithCommand(cs, c) IN
           /\ Len(cs) \in Nat \ {0}
           /\ IsSeq(w) /\ Len(w) = Len(cs)
           /\ \A n \in 1..(Len(cs) - 1) : w[n] = cs[n]
           /\ w[Len(cs)] = [cs[Len(cs)] EXCEPT !.new = c.new]
<1> DEFINE e == [cs[Len(cs)] EXCEPT !.new = c.new]
           L == Len(cs)
           f == Front(cs)
<1>1. L \in Nat \ {0}
  BY EmptySeq DEF IsSeq
<1>2. IsSeq(f) /\ Len(f) = L - 1 /\ \A n \in 1..(L - 1) : f[n] = cs[n]
  <2>1. L - 1 \in 0..L
    BY <1>1
  <2> QED BY <2>1, Prefix DEF Front
<1>3. WithCommand(cs, c) = f \o <<e>>
  BY DEF WithCommand, Last
<1>4. f \o <<e>> = Append(f, e)
  <2>1. PICK S : f \in Seq(S)
    BY <1>2 DEF IsSeq
  <2>2. f \in Seq(S \cup {e})
    BY <2>1, SeqMonotonic
  <2> HIDE DEF f, e
  <2> QED BY <2>2, AppendIsConcat
<1>5. /\ IsSeq(Append(f, e)) /\ Len(Append(f, e)) = Len(f) + 1
      /\ \A i \in 1..Len(f) : Append(f, e)[i] = f[i]
      /\ Append(f, e)[Len(f) + 1] = e
  BY <1>2, Appended
<1> HIDE DEF f, e, L
<1>6. Len(f) + 1 = L
  BY <1>1, <1>2
<1> DEFINE w == WithCommand(cs, c)
<1>7. /\ IsSeq(w) /\ Len(w) = L /\ w[L] = e
      /\ \A i \in 1..(L - 1) : w[i] = f[i]
  BY <1>2, <1>3, <1>4, <1>5, <1>6
<1> HIDE DEF w
<1>8. /\ IsSeq(w) /\ Len(w) = L /\ w[L] = e
      /\ \A i \in 1..(L - 1) : w[i] = cs[i]
  BY <1>7, <1>2
<1> QED BY <1>1, <1>8 DEF w, L, e

\* What an entry's list of commands is after a command joined it.
LEMMA EntryGains ==
    ASSUME NEW e, NEW low, KnownEntry(e, low), NEW c, KnownCommand(c, low),
           ~e.macro => Mergeable(e.commands[1], c)
    PROVE  LET d == [e EXCEPT !.commands = WithCommand(e.commands, c)] IN
           /\ KnownEntry(d, low)
           /\ d.macro = e.macro
           /\ \A m \in 1..Len(d.commands) :
                 d.commands[m].op = "addFeature" =>
                    \/ d.commands[m] = c /\ m = Len(e.commands) + 1
                    \/ m \in 1..Len(e.commands) /\ d.commands[m] = e.commands[m]
<1> DEFINE cs == e.commands
           w == WithCommand(cs, c)
           d == [e EXCEPT !.commands = w]
<1>1. IsSeq(cs) /\ Len(cs) \in Nat /\ DOMAIN e = {"macro", "commands"} /\ e.macro \in BOOLEAN
  BY SeqShape DEF KnownEntry, KnownCommands
<1>2. DOMAIN d = {"macro", "commands"} /\ d.commands = w /\ d.macro = e.macro
  BY <1>1
<1>3. \A n \in 1..Len(cs) : KnownCommand(cs[n], low)
  BY DEF KnownEntry, KnownCommands
<1>4. ~e.macro => Len(cs) = 1 /\ Mergeable(Last(cs), c) /\ cs # <<>>
  BY NoElements DEF KnownEntry, Last
<1> DEFINE Good(v) ==
        /\ IsSeq(v)
        /\ \A m \in 1..Len(v) :
              /\ KnownCommand(v[m], low)
              /\ v[m].op = "addFeature" =>
                    \/ v[m] = c /\ m = Len(cs) + 1
                    \/ m \in 1..Len(cs) /\ v[m] = cs[m]
        /\ ~e.macro => Len(v) = 1
<1>5. ASSUME cs # <<>> /\ Mergeable(Last(cs), c) PROVE Good(w)
  <2> DEFINE x == [cs[Len(cs)] EXCEPT !.new = c.new]
  <2>1. /\ Len(cs) \in Nat \ {0} /\ IsSeq(w) /\ Len(w) = Len(cs)
        /\ \A n \in 1..(Len(cs) - 1) : w[n] = cs[n]
        /\ w[Len(cs)] = x
    BY <1>1, <1>5, JoinedInto
  <2>2. KnownCommand(cs[Len(cs)], low) /\ cs[Len(cs)].op = "changeGeometry"
    BY <1>3, <1>5, <2>1 DEF Mergeable, Last
  <2>3. KnownCommand(x, low) /\ x.op = "changeGeometry"
    BY <2>2 DEF KnownCommand, FieldOps, CommandOps
  <2> HIDE DEF w, x, cs
  <2>4. ASSUME NEW m \in 1..Len(w)
        PROVE  /\ KnownCommand(w[m], low)
               /\ w[m].op = "addFeature" => m \in 1..Len(cs) /\ w[m] = cs[m]
    <3>1. CASE m = Len(cs)
      BY <3>1, <2>1, <2>3
    <3>2. CASE m # Len(cs)
      BY <3>2, <2>1, <1>3
    <3> QED BY <3>1, <3>2
  <2>5. Good(w)
    BY <2>1, <2>4, <1>4
  <2> QED BY <2>5
<1>6. ASSUME ~(cs # <<>> /\ Mergeable(Last(cs), c)) PROVE Good(w)
  <2>1. w = Append(cs, c)
    BY <1>1, <1>6, JoinedAtEnd
  <2>2. /\ IsSeq(Append(cs, c)) /\ Len(Append(cs, c)) = Len(cs) + 1
        /\ \A i \in 1..Len(cs) : Append(cs, c)[i] = cs[i]
        /\ Append(cs, c)[Len(cs) + 1] = c
    BY <1>1, Appended
  <2>3. e.macro
    BY <1>1, <1>4, <1>6
  <2>4. /\ IsSeq(w) /\ Len(w) = Len(cs) + 1
        /\ \A i \in 1..Len(cs) : w[i] = cs[i]
        /\ w[Len(cs) + 1] = c
    BY <2>1, <2>2
  <2> HIDE DEF w, cs
  <2>5. Good(w)
    BY <2>3, <2>4, <1>3, <1>1
  <2> QED BY <2>5
<1>7. Good(w)
  BY <1>5, <1>6
<1> HIDE DEF w, cs, d
<1>8. KnownEntry(d, low)
  BY <1>1, <1>2, <1>7 DEF KnownEntry, KnownCommands
<1>9. \A m \in 1..Len(d.commands) :
         d.commands[m].op = "addFeature" =>
            \/ d.commands[m] = c /\ m = Len(cs) + 1
            \/ m \in 1..Len(cs) /\ d.commands[m] = cs[m]
  BY <1>2, <1>7
<1> QED BY <1>2, <1>8, <1>9 DEF d, w, cs

\* A stack whose entry at i gains the command c.
Gained(st, i, c) ==
    [st EXCEPT ![i] = [st[i] EXCEPT !.commands = WithCommand(st[i].commands, c)]]

LEMMA StackGains ==
    ASSUME NEW st, NEW low, KnownStack(st, low), AdditionsApart(st),
           NEW i \in 1..Len(st), NEW c, KnownCommand(c, low), Foreign(st, c),
           ~st[i].macro => Mergeable(st[i].commands[1], c)
    PROVE  LET after == Gained(st, i, c) IN
           /\ KnownStack(after, low) /\ AdditionsApart(after)
           /\ Len(after) = Len(st)
           /\ \A j \in 1..Len(st) : after[j].macro = st[j].macro
<1> DEFINE d == [st[i] EXCEPT !.commands = WithCommand(st[i].commands, c)]
           after == [st EXCEPT ![i] = d]
<1>1. KnownEntry(st[i], low) /\ IsSeq(st)
  BY DEF KnownStack
<1>2. /\ KnownEntry(d, low) /\ d.macro = st[i].macro
      /\ \A m \in 1..Len(d.commands) :
            d.commands[m].op = "addFeature" =>
               \/ d.commands[m] = c /\ m = Len(st[i].commands) + 1
               \/ m \in 1..Len(st[i].commands) /\ d.commands[m] = st[i].commands[m]
  BY <1>1, EntryGains
<1> HIDE DEF d
<1>3. /\ IsSeq(after) /\ Len(after) = Len(st)
      /\ \A j \in 1..Len(st) : after[j] = IF j = i THEN d ELSE st[j]
  BY <1>1, Replaced
<1> HIDE DEF after
<1>4. KnownStack(after, low)
  BY <1>2, <1>3 DEF KnownStack
<1>5. \A j \in 1..Len(st) : after[j].macro = st[j].macro
  BY <1>2, <1>3
<1>6. AdditionsApart(after)
  <2> SUFFICES ASSUME NEW j, NEW k, NEW m, NEW n, NEW fid,
                      AdditionAt(after, j, m, fid), AdditionAt(after, k, n, fid)
               PROVE  j = k /\ m = n
    BY DEF AdditionsApart
  <2> DEFINE Mine(x, y) == x = i /\ y = Len(st[i].commands) + 1 /\ c.op = "addFeature"
                           /\ c.fid = fid
  <2>1. ASSUME NEW x, NEW y, AdditionAt(after, x, y, fid)
        PROVE  Mine(x, y) \/ AdditionAt(st, x, y, fid)
    BY <1>2, <1>3, <2>1 DEF AdditionAt
  <2>2. ASSUME NEW x, NEW y, AdditionAt(st, x, y, fid), c.op = "addFeature", c.fid = fid
        PROVE  FALSE
    BY <2>2 DEF AdditionAt, Foreign
  <2> QED BY <2>1, <2>2 DEF AdditionsApart
<1> QED BY <1>3, <1>4, <1>5, <1>6 DEF Gained, after, d

\* A stack on which an entry is put.
LEMMA StackGrows ==
    ASSUME NEW st, NEW low, KnownStack(st, low), AdditionsApart(st),
           NEW e, KnownEntry(e, low), NEW c, Foreign(st, c),
           e.commands = <<>> \/ e.commands = <<c>>
    PROVE  /\ KnownStack(Append(st, e), low) /\ AdditionsApart(Append(st, e))
           /\ Len(Append(st, e)) = Len(st) + 1
<1> DEFINE after == Append(st, e)
<1>1. IsSeq(st) /\ Len(st) \in Nat
  BY SeqShape DEF KnownStack
<1>2. /\ IsSeq(after) /\ Len(after) = Len(st) + 1
      /\ \A j \in 1..Len(st) : after[j] = st[j]
      /\ after[Len(st) + 1] = e
  BY <1>1, Appended
<1> HIDE DEF after
<1>3. KnownStack(after, low)
  BY <1>1, <1>2 DEF KnownStack
<1>4. \A m \in 1..Len(e.commands) : m = 1 /\ e.commands[m] = c
  <2>1. CASE e.commands = <<>>
    BY <2>1
  <2>2. CASE e.commands = <<c>>
    BY <2>2
  <2> QED BY <2>1, <2>2
<1>5. AdditionsApart(after)
  <2> SUFFICES ASSUME NEW j, NEW k, NEW m, NEW n, NEW fid,
                      AdditionAt(after, j, m, fid), AdditionAt(after, k, n, fid)
               PROVE  j = k /\ m = n
    BY DEF AdditionsApart
  <2> DEFINE Mine(x, y) == x = Len(st) + 1 /\ y = 1 /\ c.op = "addFeature"
                           /\ c.fid = fid
  <2>1. ASSUME NEW x, NEW y, AdditionAt(after, x, y, fid)
        PROVE  Mine(x, y) \/ AdditionAt(st, x, y, fid)
    <3>1. CASE x = Len(st) + 1
      BY <1>2, <1>4, <2>1, <3>1 DEF AdditionAt
    <3>2. CASE x \in 1..Len(st)
      BY <1>2, <2>1, <3>2 DEF AdditionAt
    <3> QED BY <1>1, <1>2, <2>1, <3>1, <3>2 DEF AdditionAt
  <2>2. ASSUME NEW x, NEW y, AdditionAt(st, x, y, fid), c.op = "addFeature", c.fid = fid
        PROVE  FALSE
    BY <2>2 DEF AdditionAt, Foreign
  <2> QED BY <2>1, <2>2 DEF AdditionsApart
<1> QED BY <1>2, <1>3, <1>5 DEF after

\* The entries in effect; ids handed out later.
LEMMA StackPrefix ==
    ASSUME NEW st, NEW low, KnownStack(st, low), AdditionsApart(st),
           NEW k \in 0..Len(st)
    PROVE  LET p == SubSeq(st, 1, k) IN
           /\ KnownStack(p, low) /\ AdditionsApart(p)
           /\ Len(p) = k /\ \A j \in 1..k : p[j] = st[j]
<1> DEFINE p == SubSeq(st, 1, k)
<1>1. IsSeq(st) /\ Len(st) \in Nat
  BY SeqShape DEF KnownStack
<1>2. IsSeq(p) /\ Len(p) = k /\ \A j \in 1..k : p[j] = st[j]
  BY <1>1, Prefix
<1> HIDE DEF p
<1>3. KnownStack(p, low)
  BY <1>1, <1>2 DEF KnownStack
<1>4. AdditionsApart(p)
  <2>1. ASSUME NEW i, NEW m, NEW fid, AdditionAt(p, i, m, fid)
        PROVE  AdditionAt(st, i, m, fid)
    BY <1>1, <1>2, <2>1 DEF AdditionAt
  <2> QED BY <2>1 DEF AdditionsApart
<1> QED BY <1>2, <1>3, <1>4 DEF p

LEMMA StackLower ==
    ASSUME NEW st, NEW low \in Int, NEW below \in Int, below <= low, KnownStack(st, low)
    PROVE  KnownStack(st, below)
<1>1. \A c : KnownCommand(c, low) => KnownCommand(c, below)
  BY DEF KnownCommand
<1> QED BY <1>1 DEF KnownStack, KnownEntry, KnownCommands


-----------------------------------------------------------------------------
(* A commit hands out ids from the provider's next one, and brings no new  *)
(* feature into the buffer.                                                *)

ProviderShape(p) ==
    /\ DOMAIN p = {"fields", "rows", "nextFid"}
    /\ p.nextFid \in Nat
    /\ DOMAIN p.rows \subseteq 0..(p.nextFid - 1)

CommitShape(t, S) ==
    /\ DOMAIN t = {"provider", "buffer", "selected", "success", "attributesChanged"}
    /\ t.success \in BOOLEAN
    /\ ProviderShape(t.provider) /\ IsBuffer(t.buffer)
    /\ DOMAIN t.buffer.addedFeatures \subseteq S
    /\ IsFiniteSet(S) /\ S \subseteq Int

LEMMA CommitFieldsShape ==
    ASSUME NEW S, NEW t, CommitShape(t, S), NEW fails
    PROVE  /\ CommitShape(CommitDeletedAttributes(t, fails), S)
           /\ CommitShape(CommitAddedAttributes(t, fails), S)
<1> USE DEF CommitShape, ProviderShape, IsBuffer, BufferFields, Failed
<1>1. CommitShape(CommitDeletedAttributes(t, fails), S)
  BY DEF CommitDeletedAttributes
<1>2. CommitShape(CommitAddedAttributes(t, fails), S)
  BY DEF CommitAddedAttributes
<1> QED BY <1>1, <1>2

LEMMA CommitRowsShape ==
    ASSUME NEW S, NEW t, CommitShape(t, S), NEW fails
    PROVE  /\ CommitShape(CommitChangedAttributes(t, fails), S)
           /\ CommitShape(CommitDeletedFeatures(t, fails), S)
           /\ CommitShape(CommitChangedGeometries(t, fails), S)
           /\ CommitShape(Failed(t), S)
<1> USE DEF CommitShape, ProviderShape, IsBuffer, BufferFields, Failed
<1>1. CommitShape(CommitChangedAttributes(t, fails), S)
  BY DEF CommitChangedAttributes
<1>2. CommitShape(CommitDeletedFeatures(t, fails), S)
  BY DEF CommitDeletedFeatures, Without, Restrict
<1>3. CommitShape(CommitChangedGeometries(t, fails), S)
  BY DEF CommitChangedGeometries
<1>4. CommitShape(Failed(t), S)
  OBVIOUS
<1> QED BY <1>1, <1>2, <1>3, <1>4

\* The place of a new feature among the new features is below their number.
LEMMA PlaceAmongAdded ==
    ASSUME NEW A, IsFiniteSet(A), A \subseteq Int, NEW f \in A
    PROVE  /\ Cardinality({g \in A : g > f}) \in Nat
           /\ Cardinality({g \in A : g > f}) < Cardinality(A)
<1> DEFINE B == {g \in A : g > f}
<1>1. B \subseteq A /\ f \notin B
  OBVIOUS
<1>2. IsFiniteSet(B) /\ Cardinality(B) <= Cardinality(A)
      /\ (Cardinality(B) = Cardinality(A) => B = A)
  BY <1>1, FS_Subset
<1>3. Cardinality(B) \in Nat /\ Cardinality(A) \in Nat
  BY <1>2, FS_CardinalityType
<1> HIDE DEF B
<1>4. Cardinality(B) < Cardinality(A)
  BY <1>1, <1>2, <1>3
<1> QED BY <1>3, <1>4 DEF B

LEMMA CommitFeaturesShape ==
    ASSUME NEW S, NEW t, CommitShape(t, S), NEW fails
    PROVE  CommitShape(CommitAddedFeatures(t, fails), S)
<1> DEFINE added == t.buffer.addedFeatures
           A == DOMAIN added
           Permanent(fid) == t.provider.nextFid + Cardinality({g \in A : g > fid})
           u == CommitAddedFeatures(t, fails)
<1> USE DEF CommitShape, ProviderShape, IsBuffer, BufferFields
<1>1. CASE ~t.success \/ added = EmptyMap
  BY <1>1 DEF CommitAddedFeatures
<1>2. CASE ~(~t.success \/ added = EmptyMap) /\ "addFeatures" \in fails
  BY <1>2 DEF CommitAddedFeatures, Failed
<1>3. CASE ~(~t.success \/ added = EmptyMap) /\ "addFeatures" \notin fails
  <2>1. PICK rows, sel :
          /\ DOMAIN rows = DOMAIN t.provider.rows \cup {Permanent(g) : g \in A}
          /\ u = [t EXCEPT
                    !.provider.rows = rows,
                    !.provider.nextFid = t.provider.nextFid + Cardinality(A),
                    !.selected = sel,
                    !.buffer.addedFeatures = EmptyMap]
    <3> DEFINE Stored(feature) ==
                 [feature EXCEPT !.attrs =
                    [i \in 1..Len(t.provider.fields) |-> Attribute(feature, i)]]
               stored == [fid \in {Permanent(g) : g \in A} |->
                    Stored(added[CHOOSE g \in A : Permanent(g) = fid])]
               sel == {IF fid \in A THEN Permanent(fid) ELSE fid : fid \in t.selected}
               rows == [fid \in DOMAIN t.provider.rows \cup DOMAIN stored |->
                            IF fid \in DOMAIN stored THEN stored[fid]
                            ELSE t.provider.rows[fid]]
    <3>1. u = [t EXCEPT
                    !.provider.rows = rows,
                    !.provider.nextFid = t.provider.nextFid + Cardinality(A),
                    !.selected = sel,
                    !.buffer.addedFeatures = EmptyMap]
      BY <1>3 DEF CommitAddedFeatures
    <3>2. DOMAIN rows = DOMAIN t.provider.rows \cup {Permanent(g) : g \in A}
      OBVIOUS
    <3> HIDE DEF rows, sel, u, Permanent
    <3> QED BY <3>1, <3>2
  <2>2. A \subseteq Int /\ IsFiniteSet(A) /\ Cardinality(A) \in Nat
    BY FS_Subset, FS_CardinalityType
  <2>3. \A g \in A : /\ Permanent(g) \in Nat
                     /\ Permanent(g) < t.provider.nextFid + Cardinality(A)
    BY <2>2, PlaceAmongAdded
  <2>4. DOMAIN u = DOMAIN t /\ u.success = t.success
    BY <2>1
  <2>5. IsBuffer(u.buffer) /\ DOMAIN u.buffer.addedFeatures = {}
    BY <2>1 DEF EmptyMap
  <2> HIDE DEF Permanent, A
  <2>6. u.provider = [t.provider EXCEPT
                        !.rows = rows,
                        !.nextFid = t.provider.nextFid + Cardinality(A)]
    <3> HIDE DEF u
    <3> QED BY <2>1
  <2> HIDE DEF u
  <2>7. /\ DOMAIN u.provider = {"fields", "rows", "nextFid"}
        /\ u.provider.nextFid = t.provider.nextFid + Cardinality(A)
        /\ u.provider.rows = rows
    BY <2>6
  <2>8. ASSUME NEW fid \in DOMAIN rows
        PROVE  fid \in 0..(t.provider.nextFid + Cardinality(A) - 1)
    BY <2>1, <2>2, <2>3
  <2>9. ProviderShape(u.provider)
    BY <2>2, <2>7, <2>8
  <2> QED BY <2>4, <2>5, <2>9 DEF u
<1> QED BY <1>1, <1>2, <1>3

LEMMA CommittedShape ==
    ASSUME NEW p, ProviderShape(p), NEW b, IsBuffer(b),
           NEW low \in Int, IdsWithin(b, low), NEW sel, NEW fails
    PROVE  LET t == Committed(p, b, sel, fails) IN
           /\ ProviderShape(t.provider) /\ IsBuffer(t.buffer)
           /\ IdsWithin(t.buffer, low)
           /\ t.success \in BOOLEAN
<1> DEFINE S == low..(-1)
           start == [provider |-> p, buffer |-> b, selected |-> sel,
                     success |-> TRUE, attributesChanged |-> FALSE]
           t1 == CommitDeletedAttributes(start, fails)
           t2 == CommitAddedAttributes(t1, fails)
           t3 == CommitChangedAttributes(t2, fails)
           t4 == CommitDeletedFeatures(t3, fails)
           t5 == CommitAddedFeatures(t4, fails)
           t6 == IF FieldsAsExpected(t2, FieldNames(p, b)) THEN t5 ELSE Failed(t2)
           t == CommitChangedGeometries(t6, fails)
<1>1. t = Committed(p, b, sel, fails)
  BY DEF Committed
<1>2. CommitShape(start, S)
  BY FS_Interval DEF CommitShape, IdsWithin
<1> HIDE DEF start, S
<1>3. CommitShape(t1, S)
  BY <1>2, CommitFieldsShape
<1> HIDE DEF t1
<1>4. CommitShape(t2, S)
  BY <1>3, CommitFieldsShape
<1> HIDE DEF t2
<1>5. CommitShape(t3, S)
  BY <1>4, CommitRowsShape
<1> HIDE DEF t3
<1>6. CommitShape(t4, S)
  BY <1>5, CommitRowsShape
<1> HIDE DEF t4
<1>7. CommitShape(t5, S) /\ CommitShape(Failed(t2), S)
  BY <1>4, <1>6, CommitFeaturesShape, CommitRowsShape
<1> HIDE DEF t5
<1>8. CommitShape(t6, S)
  BY <1>7
<1> HIDE DEF t6
<1>9. CommitShape(t, S)
  BY <1>8, CommitRowsShape
<1> HIDE DEF t
<1> QED BY <1>1, <1>9 DEF CommitShape, IdsWithin, S

\* Redoing and undoing keeps the ids within those that were handed out.
LEMMA CommandsKeepIds ==
    ASSUME NEW s, IsWorkspace(s), NEW low \in Int, IdsWithin(s.buffer, low),
           NEW cs, KnownCommands(cs, low),
           NEW r, r \in {AllRedone(cs, s), AllUndone(cs, s)}
    PROVE  /\ IsWorkspace(r) /\ IdsWithin(r.buffer, low)
           /\ r.provider = s.provider
<1> DEFINE L == Len(cs)
           Fine(x) == /\ IsWorkspace(x) /\ IdsWithin(x.buffer, low)
                      /\ x.provider = s.provider
<1>1. L \in Nat /\ \A n \in 1..L : KnownCommand(cs[n], low)
  BY SeqShape DEF KnownCommands
<1>2. \A x, c : Fine(x) /\ KnownCommand(c, low) =>
                  Fine(Redone(c, x)) /\ Fine(Undone(c, x))
  BY CommandKeepsIds
<1>3. CASE r = AllRedone(cs, s)
  <2> PICK w : RedoneBy(w, cs, s)
    BY <1>1, RedoneWalk
  <2>1. /\ w[0] = s /\ AllRedone(cs, s) = w[L]
        /\ \A n \in 1..L : w[n] = Redone(cs[n], w[n - 1])
    BY DEF RedoneBy
  <2> DEFINE T == {n \in 0..L : Fine(w[n])}
  <2>2. 0 \in T
    BY <1>1, <2>1
  <2>3. \A n \in 1..L : n - 1 \in T => n \in T
    <3> HIDE DEF Fine, L
    <3> QED BY <1>1, <1>2, <2>1
  <2>4. L \in T
    <3> HIDE DEF T, L
    <3> QED BY <1>1, <2>2, <2>3, Upward
  <2> QED BY <1>3, <2>1, <2>4
<1>4. CASE r = AllUndone(cs, s)
  <2> PICK w : UndoneBy(w, cs, s)
    BY <1>1, UndoneWalk
  <2>1. /\ w[L] = s /\ AllUndone(cs, s) = w[0]
        /\ \A n \in 1..L : w[n - 1] = Undone(cs[n], w[n])
    BY DEF UndoneBy
  <2> DEFINE T == {n \in 0..L : Fine(w[n])}
  <2>2. L \in T
    BY <1>1, <2>1
  <2>3. \A n \in 1..L : n \in T => n - 1 \in T
    <3> HIDE DEF Fine, L
    <3> QED BY <1>1, <1>2, <2>1
  <2>4. 0 \in T
    <3> HIDE DEF T, L
    <3> QED BY <1>1, <2>2, <2>3, Downward
  <2> QED BY <1>4, <2>1, <2>4
<1> QED BY <1>3, <1>4

LEMMA BottomKeepsIds ==
    ASSUME NEW s, IsWorkspace(s), NEW low \in Int, IdsWithin(s.buffer, low),
           NEW st, KnownStack(st, low)
    PROVE  LET r == UndoneToBottom(st, s) IN
           /\ IsWorkspace(r) /\ IdsWithin(r.buffer, low)
           /\ r.provider = s.provider
<1> DEFINE L == Len(st)
           Fine(x) == /\ IsWorkspace(x) /\ IdsWithin(x.buffer, low)
                      /\ x.provider = s.provider
<1>1. L \in Nat /\ \A n \in 1..L : KnownCommands(st[n].commands, low)
  BY SeqShape DEF KnownStack, KnownEntry
<1>2. \A x, cs : Fine(x) /\ KnownCommands(cs, low) => Fine(AllUndone(cs, x))
  BY CommandsKeepIds
<1> PICK w : BottomBy(w, st, s)
  BY <1>1, BottomWalk
<1>3. /\ w[L] = s /\ UndoneToBottom(st, s) = w[0]
      /\ \A n \in 1..L : w[n - 1] = AllUndone(st[n].commands, w[n])
  BY DEF BottomBy
<1> DEFINE T == {n \in 0..L : Fine(w[n])}
<1>4. L \in T
  BY <1>1, <1>3
<1>5. \A n \in 1..L : n \in T => n - 1 \in T
  <2> HIDE DEF Fine, L
  <2> QED BY <1>1, <1>2, <1>3
<1>6. 0 \in T
  <2> HIDE DEF T, L
  <2> QED BY <1>1, <1>4, <1>5, Downward
<1> QED BY <1>3, <1>6

-----------------------------------------------------------------------------
(* The state of a session, whatever is edited, drawn or refused.           *)

Flags ==
    /\ alive \in BOOLEAN /\ editing \in BOOLEAN
    /\ macroOpen \in BOOLEAN /\ damaged \in BOOLEAN
    /\ job.running \in BOOLEAN

SInv ==
    /\ lowWaterMark \in Int /\ lowWaterMark < 0
    /\ ProviderShape(provider)
    /\ IsBuffer(buffer) /\ IdsWithin(buffer, lowWaterMark)
    /\ Flags
    /\ KnownStack(stack, lowWaterMark) /\ AdditionsApart(stack)
    /\ index \in 0..Len(stack)
    /\ macroOpen => editing /\ Len(stack) = index + 1 /\ stack[index + 1].macro
    /\ ~editing => stack = <<>> /\ buffer = EmptyBuffer /\ ~damaged

LEMMA EmptyBufferShape ==
    ASSUME NEW low
    PROVE  IsBuffer(EmptyBuffer) /\ IdsWithin(EmptyBuffer, low)
BY DEF IsBuffer, EmptyBuffer, BufferFields, IdsWithin, EmptyMap

LEMMA EmptyStackShape ==
    ASSUME NEW low
    PROVE  KnownStack(<<>>, low) /\ AdditionsApart(<<>>) /\ Len(<<>>) = 0
BY NoElements DEF KnownStack, AdditionsApart, AdditionAt

LEMMA InitSession == Init => SInv
<1> SUFFICES ASSUME Init PROVE SInv
  OBVIOUS
<1>1. ProviderShape(provider)
  BY ProviderAssumption DEF Init, ProviderShape
<1>2. KnownStack(stack, lowWaterMark) /\ AdditionsApart(stack) /\ index \in 0..Len(stack)
  BY EmptyStackShape DEF Init
<1>3. IsBuffer(buffer) /\ IdsWithin(buffer, lowWaterMark)
  BY EmptyBufferShape DEF Init
<1>4. Flags
  BY DEF Init, NoJob, Flags
<1>5. /\ ~macroOpen /\ lowWaterMark \in Int /\ lowWaterMark < 0
      /\ stack = <<>> /\ buffer = EmptyBuffer /\ ~damaged
  BY DEF Init
<1> QED BY <1>1, <1>2, <1>3, <1>4, <1>5 DEF SInv

\* Who pushes a command has handed out its id.
LEMMA PushSession ==
    ASSUME SInv, editing, NEW c, Push(c),
           lowWaterMark' \in Int, lowWaterMark' <= lowWaterMark,
           KnownCommand(c, lowWaterMark'),
           Foreign(stack, c)
    PROVE  SInv'
<1> DEFINE low == lowWaterMark'
           s == Redone(c, Workspace)
           kept == SubSeq(stack, 1, index)
<1>1. IsWorkspace(Workspace) /\ IdsWithin(Workspace.buffer, low)
  BY DEF SInv, Flags, IsWorkspace, Workspace, IdsWithin
<1>2. IsWorkspace(s) /\ IdsWithin(s.buffer, low)
  BY <1>1, CommandKeepsIds
<1>3. KnownStack(stack, low) /\ AdditionsApart(stack)
  BY StackLower DEF SInv
<1>4. /\ KnownStack(kept, low) /\ AdditionsApart(kept)
      /\ Len(kept) = index /\ \A j \in 1..index : kept[j] = stack[j]
  BY <1>3, StackPrefix DEF SInv
<1>5. Foreign(kept, c)
  <2>1. \A i \in 1..index : i \in 1..Len(stack)
    BY <1>3, SeqShape DEF SInv, KnownStack
  <2> HIDE DEF kept
  <2> QED BY <1>4, <2>1 DEF Foreign
<1>6. index \in Nat
  BY <1>3, SeqShape DEF SInv, KnownStack
<1> DEFINE StackFine == /\ KnownStack(stack', low) /\ AdditionsApart(stack')
                        /\ index' \in 0..Len(stack')
                        /\ macroOpen' => /\ Len(stack') = index' + 1
                                         /\ stack'[index' + 1].macro
<1>7. ASSUME macroOpen, UNCHANGED <<index, macroOpen>>,
             stack' = [stack EXCEPT ![index + 1].commands = WithCommand(@, c)]
      PROVE  StackFine
  <2> DEFINE after == Gained(stack, index + 1, c)
  <2>1. stack' = after
    BY <1>7 DEF Gained
  <2>2. /\ index + 1 \in 1..Len(stack) /\ stack[index + 1].macro
        /\ Len(stack) = index + 1
    BY <1>6, <1>7 DEF SInv
  <2>3. /\ KnownStack(after, low) /\ AdditionsApart(after)
        /\ Len(after) = Len(stack)
        /\ \A j \in 1..Len(stack) : after[j].macro = stack[j].macro
    BY <1>3, <2>2, StackGains
  <2> HIDE DEF after
  <2>4. /\ index' \in 0..Len(stack') /\ Len(stack') = index' + 1
        /\ stack'[index' + 1].macro
    BY <1>6, <1>7, <2>1, <2>2, <2>3
  <2> QED BY <2>1, <2>3, <2>4
<1>8. ASSUME ~macroOpen, index > 0, ~kept[index].macro,
             Mergeable(kept[index].commands[1], c), UNCHANGED <<index, macroOpen>>,
             stack' = [kept EXCEPT ![index].commands = WithCommand(@, c)]
      PROVE  StackFine
  <2> DEFINE after == Gained(kept, index, c)
  <2>1. stack' = after
    BY <1>8 DEF Gained
  <2>2. index \in 1..Len(kept)
    BY <1>4, <1>6, <1>8
  <2>3. /\ KnownStack(after, low) /\ AdditionsApart(after)
        /\ Len(after) = Len(kept)
    <3> HIDE DEF kept
    <3> QED BY <1>4, <1>5, <1>8, <2>2, StackGains
  <2> HIDE DEF after, kept
  <2>4. index' \in 0..Len(stack')
    BY <1>4, <1>6, <1>8, <2>1, <2>3
  <2>5. ~macroOpen'
    BY <1>8
  <2> QED BY <2>1, <2>3, <2>4, <2>5
<1>9. ASSUME ~macroOpen, UNCHANGED macroOpen, index' = index + 1,
             stack' = Append(kept, SingleEntry(c))
      PROVE  StackFine
  <2>1. KnownEntry(SingleEntry(c), low) /\ SingleEntry(c).commands = <<c>>
    BY OneElement DEF SingleEntry, KnownEntry, KnownCommands
  <2>2. /\ KnownStack(stack', low) /\ AdditionsApart(stack')
        /\ Len(stack') = Len(kept) + 1
    <3> HIDE DEF kept
    <3> QED BY <1>4, <1>5, <1>9, <2>1, StackGrows
  <2> HIDE DEF kept
  <2> QED BY <1>4, <1>6, <1>9, <2>2
<1>10. StackFine
  <2> HIDE DEF StackFine
  <2>1. UNCHANGED macroOpen
    BY DEF Push
  <2> QED BY <1>7, <1>8, <1>9, <2>1 DEF Push
<1>11. /\ buffer' = s.buffer /\ alive' = s.alive
       /\ UNCHANGED <<provider, editing, macroOpen, job, damaged>>
  BY DEF Push, BecomesWorkspace
<1> HIDE DEF s, kept
<1>12. IsBuffer(buffer') /\ IdsWithin(buffer', low) /\ alive' \in BOOLEAN
  BY <1>2, <1>11 DEF IsWorkspace
<1>13. Flags' /\ editing'
  BY <1>11, <1>12 DEF SInv, Flags
<1>14. ProviderShape(provider') /\ lowWaterMark' < 0
  BY <1>11 DEF SInv
<1> HIDE DEF low
<1> QED BY <1>10, <1>12, <1>13, <1>14 DEF SInv, low

\* A visible feature is stored or added.
LEMMA VisibleIds ==
    ASSUME SInv, NEW fid \in VisibleFids(provider, buffer)
    PROVE  fid \in Int /\ fid >= lowWaterMark
BY DEF SInv, VisibleFids, ProviderShape, IdsWithin

LEMMA AddFeatureSession ==
    ASSUME SInv, NEW value, NEW geom, AddFeature(value, geom)
    PROVE  SInv'
<1>1. PICK feature : Push(AddFeatureCommand(lowWaterMark - 1, feature))
  BY DEF AddFeature, TemporaryId
<1> DEFINE c == AddFeatureCommand(lowWaterMark - 1, feature)
<1>2. lowWaterMark' = lowWaterMark - 1 /\ editing
  BY DEF AddFeature, TemporaryId, Editable
<1>3. lowWaterMark \in Int /\ lowWaterMark < 0
  BY DEF SInv
<1>4. KnownCommand(c, lowWaterMark')
  BY <1>2, <1>3 DEF AddFeatureCommand, KnownCommand, CommandOps, FieldOps
<1>5. Foreign(stack, c)
  <2> SUFFICES ASSUME NEW i \in 1..Len(stack), NEW m \in 1..Len(stack[i].commands),
                      stack[i].commands[m].op = "addFeature"
               PROVE  stack[i].commands[m].fid # lowWaterMark - 1
    BY DEF Foreign, AddFeatureCommand
  <2>1. KnownCommand(stack[i].commands[m], lowWaterMark)
    BY DEF SInv, KnownStack, KnownEntry, KnownCommands
  <2> QED BY <2>1, <1>3 DEF KnownCommand, FieldOps
<1> HIDE DEF c
<1>6. Push(c)
  BY <1>1 DEF c
<1> QED BY <1>2, <1>3, <1>4, <1>5, <1>6, PushSession

LEMMA PushOfVisible ==
    ASSUME SInv, editing, NEW c, Push(c), UNCHANGED lowWaterMark,
           c.op \in CommandOps \ {"addFeature"},
           c.op \notin FieldOps => c.fid \in VisibleFids(provider, buffer),
           c.op = "deleteFeature" => {"op", "fid"} \subseteq DOMAIN c,
           c.op = "changeGeometry" => {"op", "fid", "new"} \subseteq DOMAIN c
    PROVE  SInv'
<1>1. KnownCommand(c, lowWaterMark')
  BY VisibleIds DEF KnownCommand
<1>2. Foreign(stack, c)
  BY DEF Foreign
<1>3. lowWaterMark' \in Int /\ lowWaterMark' <= lowWaterMark
  BY DEF SInv
<1> QED BY <1>1, <1>2, <1>3, PushSession

LEMMA EditFeatureSession ==
    ASSUME SInv, EditFeature
    PROVE  SInv'
<1> USE DEF CommandOps, FieldOps
<1>1. ASSUME NEW fid \in VisibleFids(provider, buffer), DeleteFeature(fid)
      PROVE  SInv'
  <2>1. /\ editing /\ UNCHANGED lowWaterMark
        /\ Push(DeleteFeatureCommand(Workspace, fid))
    BY <1>1 DEF DeleteFeature, Editable
  <2>2. PICK c : /\ Push(c) /\ c.op = "deleteFeature" /\ c.fid = fid
                 /\ {"op", "fid"} \subseteq DOMAIN c
    BY <2>1 DEF DeleteFeatureCommand
  <2> QED BY <2>1, <2>2, PushOfVisible
<1>2. ASSUME NEW fid \in VisibleFids(provider, buffer), NEW geom, ChangeGeometry(fid, geom)
      PROVE  SInv'
  <2>1. /\ editing /\ UNCHANGED lowWaterMark
        /\ Push(ChangeGeometryCommand(Workspace, fid, geom))
    BY <1>2 DEF ChangeGeometry, Editable
  <2>2. PICK c : /\ Push(c) /\ c.op = "changeGeometry" /\ c.fid = fid
                 /\ {"op", "fid", "new"} \subseteq DOMAIN c
    BY <2>1 DEF ChangeGeometryCommand
  <2> QED BY <2>1, <2>2, PushOfVisible
<1>3. ASSUME NEW fid \in VisibleFids(provider, buffer), NEW field, NEW value,
             ChangeAttributeValue(fid, field, value)
      PROVE  SInv'
  <2>1. /\ editing /\ UNCHANGED lowWaterMark
        /\ Push(ChangeAttributeCommand(Workspace, fid, field, value))
    BY <1>3 DEF ChangeAttributeValue, Editable
  <2>2. PICK c : Push(c) /\ c.op = "changeAttribute" /\ c.fid = fid
    BY <2>1 DEF ChangeAttributeCommand
  <2> QED BY <2>1, <2>2, PushOfVisible
<1> QED BY <1>1, <1>2, <1>3, AddFeatureSession DEF EditFeature

LEMMA EditFieldsSession ==
    ASSUME SInv, EditFields
    PROVE  SInv'
<1> USE DEF CommandOps, FieldOps
<1>1. ASSUME NEW name, AddAttribute(name)
      PROVE  SInv'
  <2>1. /\ editing /\ UNCHANGED lowWaterMark
        /\ Push(AddAttributeCommand(Workspace, name))
    BY <1>1 DEF AddAttribute, Editable
  <2>2. PICK c : Push(c) /\ c.op = "addAttribute"
    BY <2>1 DEF AddAttributeCommand
  <2> QED BY <2>1, <2>2, PushOfVisible
<1>2. ASSUME NEW field, DeleteAttribute(field)
      PROVE  SInv'
  <2>1. /\ editing /\ UNCHANGED lowWaterMark
        /\ Push(DeleteAttributeCommand(Workspace, field))
    BY <1>2 DEF DeleteAttribute, Editable
  <2>2. PICK c : Push(c) /\ c.op = "deleteAttribute"
    BY <2>1 DEF DeleteAttributeCommand
  <2> QED BY <2>1, <2>2, PushOfVisible
<1> QED BY <1>1, <1>2 DEF EditFields

LEMMA UndoStackSession ==
    ASSUME SInv, UseUndoStack
    PROVE  SInv'
<1>1. IsWorkspace(Workspace) /\ IdsWithin(Workspace.buffer, lowWaterMark)
  BY DEF SInv, Flags, IsWorkspace, Workspace, IdsWithin
<1>2. Len(stack) \in Nat /\ index \in Nat
  BY SeqShape DEF SInv, KnownStack
<1>3. ASSUME NEW i \in 1..Len(stack)
      PROVE  KnownCommands(stack[i].commands, lowWaterMark)
  BY DEF SInv, KnownStack, KnownEntry
<1> DEFINE Kept(r) == /\ buffer' = r.buffer /\ alive' = r.alive
                      /\ UNCHANGED <<provider, editing, stack, lowWaterMark, job, damaged>>
           Fine(r) == IsWorkspace(r) /\ IdsWithin(r.buffer, lowWaterMark)
<1>4. ASSUME NEW r, Kept(r), Fine(r), editing, macroOpen' = FALSE, index' \in 0..Len(stack)
      PROVE  SInv'
  <2>1. IsBuffer(buffer') /\ IdsWithin(buffer', lowWaterMark) /\ alive' \in BOOLEAN
    BY <1>4 DEF IsWorkspace
  <2>2. Flags'
    BY <1>4, <2>1 DEF SInv, Flags
  <2> QED BY <1>4, <2>1, <2>2 DEF SInv
<1>5. CASE BeginEditCommand
  <2> DEFINE kept == SubSeq(stack, 1, index)
             e == [macro |-> TRUE, commands |-> <<>>]
             c == [op |-> "none"]
  <2>1. /\ KnownStack(kept, lowWaterMark) /\ AdditionsApart(kept)
        /\ Len(kept) = index
    BY StackPrefix DEF SInv
  <2>2. KnownEntry(e, lowWaterMark) /\ e.commands = <<>> /\ e.macro
    BY NoElements DEF KnownEntry, KnownCommands
  <2>3. Foreign(kept, c)
    BY DEF Foreign
  <2> HIDE DEF kept, e, c
  <2>4. /\ KnownStack(Append(kept, e), lowWaterMark) /\ AdditionsApart(Append(kept, e))
        /\ Len(Append(kept, e)) = index + 1
    BY <2>1, <2>2, <2>3, StackGrows
  <2>5. Append(kept, e)[index + 1] = e
    BY <2>1, Appended DEF KnownStack
  <2>6. stack' = Append(kept, e)
    BY <1>5 DEF BeginEditCommand, kept, e
  <2>7. /\ macroOpen' /\ editing /\ editing' = editing
        /\ UNCHANGED <<provider, buffer, index, lowWaterMark, alive, job, damaged>>
    BY <1>5 DEF BeginEditCommand
  <2>8. Flags'
    BY <1>5 DEF BeginEditCommand, SInv, Flags
  <2>9. index' \in 0..Len(stack') /\ Len(stack') = index' + 1 /\ stack'[index' + 1].macro
    BY <2>2, <2>4, <2>5, <2>6, <2>7, <1>2
  <2> QED BY <2>4, <2>6, <2>7, <2>8, <2>9 DEF SInv
<1>6. CASE EndEditCommand
  <2>1. Kept(Workspace) /\ editing /\ macroOpen' = FALSE
    BY <1>6 DEF EndEditCommand, Workspace
  <2>2. index' \in 0..Len(stack)
    BY <1>2, <1>6 DEF EndEditCommand, SInv
  <2> QED BY <1>1, <1>4, <2>1, <2>2
<1>7. CASE DestroyEditCommand
  <2>1. index + 1 \in 1..Len(stack)
    BY <1>2, <1>7 DEF DestroyEditCommand, SInv
  <2> DEFINE r == AllUndone(stack[index + 1].commands, Workspace)
  <2>2. Fine(r)
    BY <1>1, <1>3, <2>1, CommandsKeepIds DEF SInv
  <2>3. Kept(r) /\ editing /\ macroOpen' = FALSE /\ index' = index
    BY <1>7 DEF DestroyEditCommand, BecomesWorkspace
  <2> HIDE DEF r
  <2>4. index' \in 0..Len(stack)
    BY <2>3 DEF SInv
  <2> QED BY <1>4, <2>2, <2>3, <2>4
<1>8. CASE Undo
  <2>1. index \in 1..Len(stack)
    BY <1>2, <1>8 DEF Undo, SInv
  <2> DEFINE r == AllUndone(stack[index].commands, Workspace)
  <2>2. Fine(r)
    BY <1>1, <1>3, <2>1, CommandsKeepIds DEF SInv
  <2>3. Kept(r) /\ editing /\ macroOpen' = FALSE /\ index' = index - 1
    BY <1>8 DEF Undo, BecomesWorkspace, SInv, Flags
  <2> HIDE DEF r
  <2>4. index' \in 0..Len(stack)
    BY <1>2, <2>1, <2>3
  <2> QED BY <1>4, <2>2, <2>3, <2>4
<1>9. CASE Redo
  <2>1. index + 1 \in 1..Len(stack)
    BY <1>2, <1>9 DEF Redo
  <2> DEFINE r == AllRedone(stack[index + 1].commands, Workspace)
  <2>2. Fine(r)
    BY <1>1, <1>3, <2>1, CommandsKeepIds DEF SInv
  <2>3. Kept(r) /\ editing /\ macroOpen' = FALSE /\ index' = index + 1
    BY <1>9 DEF Redo, BecomesWorkspace, SInv, Flags
  <2> HIDE DEF r
  <2>4. index' \in 0..Len(stack)
    BY <1>2, <2>1, <2>3
  <2> QED BY <1>4, <2>2, <2>3, <2>4
<1> QED BY <1>5, <1>6, <1>7, <1>8, <1>9 DEF UseUndoStack

LEMMA CommitSession ==
    ASSUME SInv, NEW fails, CommitChanges(fails)
    PROVE  SInv'
<1> DEFINE t == Committed(provider, buffer, selected, fails)
<1>1. /\ ProviderShape(t.provider) /\ IsBuffer(t.buffer)
      /\ IdsWithin(t.buffer, lowWaterMark)
  BY CommittedShape DEF SInv
<1>2. /\ provider' = t.provider /\ macroOpen' = macroOpen /\ ~macroOpen /\ editing
      /\ UNCHANGED <<lowWaterMark, alive, job>>
      /\ \/ /\ editing' = FALSE /\ buffer' = EmptyBuffer /\ stack' = <<>> /\ index' = 0
            /\ damaged' = FALSE
         \/ /\ buffer' = t.buffer /\ damaged' = TRUE /\ UNCHANGED <<editing, stack, index>>
  BY DEF CommitChanges
<1> HIDE DEF t
<1>3. Flags'
  BY <1>2 DEF SInv, Flags
<1>4. CASE editing' = FALSE /\ buffer' = EmptyBuffer /\ stack' = <<>> /\ index' = 0 /\ damaged' = FALSE
  <2>1. KnownStack(stack', lowWaterMark) /\ AdditionsApart(stack') /\ index' \in 0..Len(stack')
    BY <1>4, EmptyStackShape
  <2>2. IsBuffer(buffer') /\ IdsWithin(buffer', lowWaterMark)
    BY <1>4, EmptyBufferShape
  <2> QED BY <1>1, <1>2, <1>3, <1>4, <2>1, <2>2 DEF SInv
<1>5. CASE buffer' = t.buffer /\ damaged' = TRUE /\ UNCHANGED <<editing, stack, index>>
  BY <1>1, <1>2, <1>3, <1>5 DEF SInv
<1> QED BY <1>2, <1>4, <1>5

LEMMA RollBackSession ==
    ASSUME SInv, NEW deleteBuffer, RollBack(deleteBuffer)
    PROVE  SInv'
<1> DEFINE s == UndoneToBottom(SubSeq(stack, 1, index), Workspace)
<1>1. IsWorkspace(s) /\ IdsWithin(s.buffer, lowWaterMark)
  <2>1. IsWorkspace(Workspace) /\ IdsWithin(Workspace.buffer, lowWaterMark)
    BY DEF SInv, Flags, IsWorkspace, Workspace, IdsWithin
  <2>2. KnownStack(SubSeq(stack, 1, index), lowWaterMark)
    BY StackPrefix DEF SInv
  <2> QED BY <2>1, <2>2, BottomKeepsIds DEF SInv
<1>2. /\ alive' = (s.alive /\ (index > 0 => EmptyAfterRollBack(s.buffer)))
      /\ index' = 0 /\ ~macroOpen /\ editing
      /\ UNCHANGED <<provider, macroOpen, lowWaterMark, job>>
      /\ \/ /\ editing' = FALSE /\ buffer' = EmptyBuffer /\ stack' = <<>>
            /\ damaged' = FALSE
         \/ buffer' = s.buffer /\ UNCHANGED <<editing, stack, damaged>>
  BY DEF RollBack
<1> HIDE DEF s
<1>3. Flags'
  <2>1. alive' \in BOOLEAN
    BY <1>2
  <2>2. UNCHANGED <<macroOpen, job>> /\ editing' \in BOOLEAN /\ damaged' \in BOOLEAN
    BY <1>2 DEF SInv, Flags
  <2> QED BY <2>1, <2>2 DEF SInv, Flags
<1>4. CASE editing' = FALSE /\ buffer' = EmptyBuffer /\ stack' = <<>> /\ damaged' = FALSE
  <2>1. KnownStack(stack', lowWaterMark) /\ AdditionsApart(stack') /\ index' \in 0..Len(stack')
    BY <1>2, <1>4, EmptyStackShape
  <2>2. IsBuffer(buffer') /\ IdsWithin(buffer', lowWaterMark)
    BY <1>4, EmptyBufferShape
  <2> QED BY <1>2, <1>3, <1>4, <2>1, <2>2 DEF SInv
<1>5. CASE buffer' = s.buffer /\ UNCHANGED <<editing, stack, damaged>>
  <2>1. index' \in 0..Len(stack')
    BY <1>2, <1>5, SeqShape DEF SInv, KnownStack
  <2>2. IsBuffer(buffer') /\ IdsWithin(buffer', lowWaterMark)
    BY <1>1, <1>5 DEF IsWorkspace
  <2> QED BY <1>2, <1>3, <1>5, <2>1, <2>2 DEF SInv
<1> QED BY <1>2, <1>4, <1>5

LEMMA NextSession ==
    ASSUME SInv, [Next]_vars
    PROVE  SInv'
<1>1. ASSUME UNCHANGED <<provider, editing, buffer, stack, index, macroOpen,
                         lowWaterMark, alive, damaged>>, job'.running \in BOOLEAN
      PROVE  SInv'
  <2>1. Flags'
    BY <1>1 DEF SInv, Flags
  <2> QED BY <1>1, <2>1 DEF SInv
<1>2. CASE StartEditing
  <2>1. editing' = TRUE /\ editing' \in BOOLEAN
    BY <1>2 DEF StartEditing
  <2>2. UNCHANGED <<provider, buffer, stack, index, macroOpen, lowWaterMark,
                    alive, job, damaged>>
    BY <1>2 DEF StartEditing, stackVars
  <2>3. Flags'
    BY <2>1, <2>2 DEF SInv, Flags
  <2> QED BY <2>1, <2>2, <2>3 DEF SInv
<1>3. ASSUME NEW fids, Select(fids) PROVE SInv'
  BY <1>1, <1>3 DEF Select, stackVars, SInv, Flags
<1>4. CASE Rendering
  <2>1. UNCHANGED <<provider, editing, buffer, stack, index, macroOpen,
                    lowWaterMark, alive, damaged>>
    BY <1>4 DEF Rendering, StartRenderJob, FinishRenderJob, stackVars
  <2>2. \E on \in BOOLEAN : \E geometries :
            job' = [running |-> on, geometries |-> geometries]
    BY <1>4 DEF Rendering, StartRenderJob, FinishRenderJob, NoJob
  <2>3. job'.running \in BOOLEAN
    BY <2>2
  <2> QED BY <1>1, <2>1, <2>3
<1>5. CASE UNCHANGED vars
  BY <1>1, <1>5 DEF vars, SInv, Flags
<1> QED BY <1>2, <1>3, <1>4, <1>5, EditFeatureSession, EditFieldsSession, UndoStackSession,
           CommitSession, RollBackSession DEF Next, Session

\* The inductive invariant of a session: the shapes of buffer, stack and data
\* source; ids of new features and of commands were handed out; an addition on
\* the stack is the only one with its id.
THEOREM SessionInvariant == Spec => []SInv
<1>1. Init => SInv
  BY InitSession
<1>2. SInv /\ [Next]_vars => SInv'
  BY NextSession
<1> QED BY <1>1, <1>2, PTL DEF Spec

\* However edits, undo, redo, edit commands, failing commits, roll backs and
\* rendering follow each other, over all sessions: a temporary id names one
\* feature for ever (addedIdLowWaterMark in qgsvectorlayer.cpp).
THEOREM IdsAlwaysFresh == Spec => []FreshIds
<1>1. SInv => FreshIds
  <2> SUFFICES ASSUME SInv PROVE FreshIds
    OBVIOUS
  <2>1. /\ DOMAIN stack = 1..Len(stack)
        /\ \A i \in 1..Len(stack) :
              DOMAIN stack[i].commands = 1..Len(stack[i].commands)
    BY SeqShape DEF SInv, KnownStack, KnownEntry, KnownCommands
  <2>2. \A fid \in DOMAIN buffer.addedFeatures : fid >= lowWaterMark
    BY DEF SInv, IdsWithin
  <2>3. \A i \in DOMAIN stack : \A fid \in CommandIds(stack[i].commands) :
            fid >= lowWaterMark
    <3> SUFFICES ASSUME NEW i \in 1..Len(stack), NEW m \in 1..Len(stack[i].commands),
                        stack[i].commands[m].op \notin FieldOps
                 PROVE  stack[i].commands[m].fid >= lowWaterMark
      BY <2>1 DEF CommandIds, FieldOps
    <3>1. KnownCommand(stack[i].commands[m], lowWaterMark)
      BY DEF SInv, KnownStack, KnownEntry, KnownCommands
    <3> QED BY <3>1 DEF KnownCommand
  <2>4. ASSUME NEW a \in Additions, NEW b \in Additions,
               Command(a).fid = Command(b).fid
        PROVE  a = b
    <3>1. \A at \in Additions :
             \E i \in 1..Len(stack) : \E m \in 1..Len(stack[i].commands) :
                 at = <<i, m>> /\ stack[i].commands[m].op = "addFeature"
      BY <2>1 DEF Additions, Command
    <3>2. PICK i \in 1..Len(stack) : \E m \in 1..Len(stack[i].commands) :
             a = <<i, m>> /\ stack[i].commands[m].op = "addFeature"
      BY <3>1
    <3>3. PICK j \in 1..Len(stack) : \E n \in 1..Len(stack[j].commands) :
             b = <<j, n>> /\ stack[j].commands[n].op = "addFeature"
      BY <3>1
    <3>4. PICK m \in 1..Len(stack[i].commands) :
             a = <<i, m>> /\ stack[i].commands[m].op = "addFeature"
      BY <3>2
    <3>5. PICK n \in 1..Len(stack[j].commands) :
             b = <<j, n>> /\ stack[j].commands[n].op = "addFeature"
      BY <3>3
    <3>6. /\ AdditionAt(stack, i, m, stack[i].commands[m].fid)
          /\ AdditionAt(stack, j, n, stack[j].commands[n].fid)
      BY <3>4, <3>5 DEF AdditionAt
    <3>7. stack[i].commands[m].fid = stack[j].commands[n].fid
      BY <2>4, <3>4, <3>5 DEF Command
    <3> QED BY <3>4, <3>5, <3>6, <3>7 DEF SInv, AdditionsApart
  <2> QED BY <2>2, <2>3, <2>4 DEF FreshIds
<1> QED BY <1>1, SessionInvariant, PTL

-----------------------------------------------------------------------------
(* Editing features only: the data source keeps its fields, the buffer has *)
(* no added or deleted attributes, stored features have ids below the next.*)

FeaturesOnly == {"addAttribute", "deleteAttribute"} \cap Edits = {}

\* Without deleted attributes the fields are the provider's.
LEMMA NothingDeleted ==
    ASSUME NEW p, Len(p.fields) \in Nat, NEW b, b.deletedAttributeIds = <<>>
    PROVE  KeptAttributes(p, b) = [i \in 1..Len(p.fields) |-> i]
<1> DEFINE L == Len(p.fields)
           Walk(w) == w = [n \in 0..L |->
                              IF n = 0 THEN <<>>
                              ELSE IF Contains(b.deletedAttributeIds, n) THEN w[n - 1]
                              ELSE Append(w[n - 1], n)]
           upTo(n) == [i \in 1..n |-> i]
           whole == [n \in 0..L |-> upTo(n)]
<1>1. \A n : ~Contains(b.deletedAttributeIds, n)
  BY NoElements DEF Contains
<1>2. ASSUME NEW n \in Nat
      PROVE  upTo(n) \in Seq(Nat) /\ upTo(n + 1) = Append(upTo(n), n + 1)
  <2>1. IsSeq(upTo(n)) /\ Len(upTo(n)) = n /\ upTo(n) \in Seq(Nat)
    <3>1. upTo(n) \in Seq(Nat) /\ Len(upTo(n)) = n
      OBVIOUS
    <3> QED BY <3>1 DEF IsSeq
  <2>2. IsSeq(upTo(n + 1)) /\ Len(upTo(n + 1)) = n + 1
    <3>1. upTo(n + 1) \in Seq(Nat) /\ Len(upTo(n + 1)) = n + 1
      OBVIOUS
    <3> QED BY <3>1 DEF IsSeq
  <2>3. \A i \in 1..n : upTo(n)[i] = i
    OBVIOUS
  <2>4. \A i \in 1..(n + 1) : upTo(n + 1)[i] = i
    OBVIOUS
  <2> HIDE DEF upTo
  <2> DEFINE longer == Append(upTo(n), n + 1)
  <2>5. /\ IsSeq(longer) /\ Len(longer) = n + 1 /\ longer[n + 1] = n + 1
        /\ \A i \in 1..n : longer[i] = i
    BY <2>1, <2>3, Appended
  <2> HIDE DEF longer
  <2>6. \A i \in 1..(n + 1) : longer[i] = i
    BY <2>5
  <2>7. longer = upTo(n + 1)
    BY <2>2, <2>4, <2>5, <2>6, SeqExtensional
  <2> QED BY <2>1, <2>7 DEF longer
<1>3. upTo(0) = <<>>
  OBVIOUS
<1>4. Walk(whole)
  <2>1. ASSUME NEW n \in 0..L
        PROVE  whole[n] = IF n = 0 THEN <<>> ELSE Append(whole[n - 1], n)
    <3>1. CASE n = 0
      BY <1>3, <3>1
    <3>2. CASE n # 0
      <4>1. n - 1 \in Nat /\ n - 1 \in 0..L /\ (n - 1) + 1 = n
        BY <3>2
      <4>2. whole[n] = upTo(n) /\ whole[n - 1] = upTo(n - 1)
        BY <4>1
      <4> HIDE DEF upTo, whole
      <4> QED BY <1>2, <3>2, <4>1, <4>2
    <3> QED BY <3>1, <3>2
  <2>2. whole = [n \in 0..L |-> whole[n]]
    OBVIOUS
  <2> HIDE DEF whole
  <2> QED BY <1>1, <2>1, <2>2
<1> DEFINE w == CHOOSE u : Walk(u)
<1>5. Walk(w)
  BY <1>4
<1>6. KeptAttributes(p, b) = w[L]
  BY DEF KeptAttributes
<1>7. \A n \in 0..L : w[n] = IF n = 0 THEN <<>> ELSE Append(w[n - 1], n)
  <2> HIDE DEF w
  <2> QED BY <1>1, <1>5
<1> HIDE DEF w, Walk
<1> DEFINE T == {n \in 0..L : w[n] = upTo(n)}
<1>8. 0 \in T
  BY <1>3, <1>7
<1>9. \A n \in 1..L : n - 1 \in T => n \in T
  <2> SUFFICES ASSUME NEW n \in 1..L, n - 1 \in T PROVE n \in T
    OBVIOUS
  <2>1. n - 1 \in Nat /\ (n - 1) + 1 = n /\ n \in 0..L /\ n # 0
    OBVIOUS
  <2>2. w[n] = Append(upTo(n - 1), n)
    BY <1>7, <2>1
  <2> HIDE DEF upTo
  <2> QED BY <1>2, <2>1, <2>2
<1>10. L \in T
  <2> HIDE DEF T
  <2> QED BY <1>8, <1>9, Upward
<1> QED BY <1>6, <1>10

Columns == Len(InitialProvider.fields)

\* Rows with a geometry and a value for each of the fields there were.
ProviderTyped(p) ==
    /\ p.fields = InitialProvider.fields
    /\ \A fid \in DOMAIN p.rows : /\ DOMAIN p.rows[fid] = {"attrs", "geom"}
                                  /\ DOMAIN p.rows[fid].attrs = 1..Columns

NoFieldEdits(b) == b.deletedAttributeIds = <<>> /\ b.addedAttributes = <<>>

\* A new feature has a geometry and a value for each of the layer's fields.
FieldCount == Len(PendingFields(InitialProvider, EmptyBuffer))

IsFeature(f) ==
    /\ DOMAIN f = {"attrs", "geom"}
    /\ f.attrs = [i \in 1..FieldCount |-> f.attrs[i]]

RowBuffer(b, next) ==
    /\ NoFieldEdits(b)
    /\ \A fid \in DOMAIN b.addedFeatures : IsFeature(b.addedFeatures[fid])
    /\ \A fid \in DOMAIN b.changedGeometries : fid \in 0..(next - 1)

RowCommand(c, next) ==
    /\ c.op \notin FieldOps /\ c.fid < next
    /\ c.op \in {"addFeature", "deleteFeature"} /\ IsNew(c.fid) => IsFeature(c.feature)

RowCommands(commands, next) ==
    \A n \in 1..Len(commands) : RowCommand(commands[n], next)

RowStack(st, next) == \A i \in 1..Len(st) : RowCommands(st[i].commands, next)

RInv ==
    /\ ProviderTyped(provider)
    /\ RowBuffer(buffer, provider.nextFid)
    /\ RowStack(stack, provider.nextFid)

LEMMA ColumnsNumber ==
    /\ Columns \in Nat
    /\ DOMAIN InitialProvider.fields = 1..Columns
BY ProviderAssumption, LenProperties DEF Columns

\* While no field is edited the layer has the fields it had.
LEMMA FieldsStay ==
    ASSUME NEW p, ProviderTyped(p), NEW b, NoFieldEdits(b)
    PROVE  PendingFields(p, b) = PendingFields(InitialProvider, EmptyBuffer)
<1>1. Len(p.fields) = Columns /\ Columns \in Nat
  BY ColumnsNumber DEF ProviderTyped, Columns
<1>2. KeptAttributes(p, b) = [i \in 1..Columns |-> i]
  BY <1>1, NothingDeleted DEF NoFieldEdits
<1>3. EmptyBuffer.deletedAttributeIds = <<>> /\ EmptyBuffer.addedAttributes = <<>>
  BY DEF EmptyBuffer
<1>4. KeptAttributes(InitialProvider, EmptyBuffer) = [i \in 1..Columns |-> i]
  BY <1>1, <1>3, NothingDeleted DEF Columns
<1> QED BY <1>2, <1>3, <1>4 DEF PendingFields, ProviderTyped, NoFieldEdits

LEMMA ListedFields ==
    ASSUME NEW n \in Nat, NEW f, f = [i \in 1..n |-> f[i]]
    PROVE  IsSeq(f)
<1>1. f \in Seq({f[i] : i \in 1..n})
  <2> DEFINE S == {f[i] : i \in 1..n}
  <2>1. \A i \in 1..n : f[i] \in S
    OBVIOUS
  <2> HIDE DEF S
  <2>2. f \in [1..n -> S]
    BY <2>1
  <2> QED BY <2>2
<1> QED BY <1>1 DEF IsSeq

LEMMA JoinedSeqs ==
    ASSUME NEW s, IsSeq(s), NEW t, IsSeq(t)
    PROVE  IsSeq(s \o t)
<1>1. PICK S : s \in Seq(S)
  BY DEF IsSeq
<1>2. PICK T : t \in Seq(T)
  BY DEF IsSeq
<1>3. s \in Seq(S \cup T) /\ t \in Seq(S \cup T)
  BY <1>1, <1>2, SeqMonotonic
<1> QED BY <1>3, ConcatProperties DEF IsSeq

LEMMA FieldsCounted == FieldCount \in Nat
<1> DEFINE p == InitialProvider
           b == EmptyBuffer
           kept == KeptAttributes(p, b)
           FieldsOf(names, origin) ==
               [i \in 1..Len(names) |->
                   [name |-> names[i], origin |-> origin, originIndex |-> i]]
           native == [i \in 1..Len(kept) |->
                        [name |-> p.fields[kept[i]], origin |-> "provider",
                         originIndex |-> kept[i]]]
<1>1. PendingFields(p, b) = native \o FieldsOf(b.addedAttributes, "edit")
                              \o FieldsOf(JoinFields, "join")
                              \o FieldsOf(ExpressionFields, "expression")
  BY DEF PendingFields
<1>2. ASSUME NEW names, Len(names) \in Nat, NEW origin
      PROVE  IsSeq(FieldsOf(names, origin))
  <2> DEFINE f == FieldsOf(names, origin)
  <2>1. f = [i \in 1..Len(names) |-> f[i]]
    OBVIOUS
  <2> HIDE DEF f
  <2>2. IsSeq(f)
    BY <1>2, <2>1, ListedFields
  <2> QED BY <2>2 DEF f
<1>3. Len(kept) \in Nat
  <2>1. b.deletedAttributeIds = <<>>
    BY DEF EmptyBuffer
  <2>2. kept = [i \in 1..Columns |-> i]
    BY <2>1, NothingDeleted, ColumnsNumber DEF Columns
  <2> QED BY <2>2, ColumnsNumber
<1>4. Len(b.addedAttributes) \in Nat /\ Len(JoinFields) \in Nat /\ Len(ExpressionFields) \in Nat
  BY NoElements, FieldListsAssumption, LenProperties DEF EmptyBuffer
<1>5. IsSeq(native)
  <2>1. native = [i \in 1..Len(kept) |-> native[i]]
    OBVIOUS
  <2> HIDE DEF native, kept
  <2> QED BY <1>3, <2>1, ListedFields
<1> HIDE DEF p, b, kept, FieldsOf, native
<1>6. IsSeq(PendingFields(p, b))
  BY <1>1, <1>2, <1>4, <1>5, JoinedSeqs
<1> QED BY <1>6, SeqShape DEF FieldCount, p, b

\* A command about a feature edits no field, and changes the geometry of no
\* other stored feature than its own.
LEMMA CommandKeepsRows ==
    ASSUME NEW s, IsWorkspace(s), NEW next \in Int, RowBuffer(s.buffer, next),
           NEW c, NEW low \in Int, KnownCommand(c, low), RowCommand(c, next),
           NEW r, r \in {Redone(c, s), Undone(c, s)}
    PROVE  RowBuffer(r.buffer, next)
<1> USE DEF IsWorkspace, IsBuffer, BufferFields, RowBuffer, NoFieldEdits
<1>0. c.fid \in Int /\ c.fid < next
  BY DEF KnownCommand, RowCommand
<1>1. CASE c.op = "addFeature"
  <2>1. r \in {RedoAddFeature(c, s), UndoAddFeature(c, s)}
    BY <1>1 DEF Redone, Undone
  <2>2. IsFeature(c.feature)
    BY <1>1 DEF KnownCommand, RowCommand, IsNew
  <2>3. r.buffer \in {s.buffer,
                      [s.buffer EXCEPT !.addedFeatures = Put(s.buffer.addedFeatures, c.fid, c.feature)],
                      [s.buffer EXCEPT !.addedFeatures = Without(s.buffer.addedFeatures, {c.fid})]}
    BY <2>1 DEF RedoAddFeature, UndoAddFeature, Asserting
  <2> QED BY <2>2, <2>3 DEF Put, Without, Restrict
<1>2. CASE c.op = "deleteFeature"
  <2>1. r \in {RedoDeleteFeature(c, s), UndoDeleteFeature(c, s)}
    BY <1>2 DEF Redone, Undone
  <2>2. CASE IsNew(c.fid)
    <3>1. IsFeature(c.feature)
      BY <1>2, <2>2 DEF RowCommand
    <3>2. r.buffer \in {[s.buffer EXCEPT !.addedFeatures = Put(s.buffer.addedFeatures, c.fid, c.feature)],
                        [s.buffer EXCEPT !.addedFeatures = Without(s.buffer.addedFeatures, {c.fid})]}
      BY <2>1, <2>2 DEF RedoDeleteFeature, UndoDeleteFeature
    <3> QED BY <3>1, <3>2 DEF Put, Without, Restrict
  <2>3. CASE ~IsNew(c.fid)
    BY <2>1, <2>3 DEF RedoDeleteFeature, UndoDeleteFeature
  <2> QED BY <2>2, <2>3
<1>3. CASE c.op = "changeGeometry"
  <2>1. r \in {RedoChangeGeometry(c, s), UndoChangeGeometry(c, s)}
    BY <1>3 DEF Redone, Undone
  <2>2. ASSUME NEW g, r = GeometrySet(s, c.fid, g) PROVE RowBuffer(r.buffer, next)
    <3>1. CASE IsNew(c.fid)
      <4>1. \/ r.buffer = s.buffer
            \/ /\ c.fid \in DOMAIN s.buffer.addedFeatures
               /\ r.buffer = [s.buffer EXCEPT !.addedFeatures[c.fid].geom = g]
        BY <2>2, <3>1 DEF GeometrySet, Asserting, Holds
      <4>2. CASE r.buffer = s.buffer
        BY <4>2
      <4>3. CASE /\ c.fid \in DOMAIN s.buffer.addedFeatures
                 /\ r.buffer = [s.buffer EXCEPT !.addedFeatures[c.fid].geom = g]
        <5> DEFINE added == s.buffer.addedFeatures
                   moved == [added[c.fid] EXCEPT !.geom = g]
        <5>1. IsFeature(added[c.fid])
          BY <4>3
        <5>2. DOMAIN moved = {"attrs", "geom"} /\ moved.attrs = added[c.fid].attrs
          BY <5>1 DEF IsFeature
        <5> HIDE DEF moved
        <5>3. IsFeature(moved)
          BY <5>1, <5>2 DEF IsFeature
        <5>4. r.buffer = [s.buffer EXCEPT !.addedFeatures = [added EXCEPT ![c.fid] = moved]]
          BY <4>3 DEF moved
        <5> QED BY <5>3, <5>4
      <4> QED BY <4>1, <4>2, <4>3
    <3>2. CASE ~IsNew(c.fid)
      <4>1. r.buffer = [s.buffer EXCEPT !.changedGeometries =
                            Put(s.buffer.changedGeometries, c.fid, g)]
        BY <2>2, <3>2 DEF GeometrySet
      <4>2. DOMAIN Put(s.buffer.changedGeometries, c.fid, g)
                = DOMAIN s.buffer.changedGeometries \cup {c.fid}
        BY DEF Put
      <4>3. c.fid \in 0..(next - 1)
        BY <1>0, <3>2 DEF IsNew
      <4> QED BY <4>1, <4>2, <4>3
    <3> QED BY <3>1, <3>2
  <2>3. CASE r = UndoChangeGeometry(c, s) /\ c.old = NoGeometry
    BY <2>3 DEF UndoChangeGeometry, Without, Restrict
  <2> QED BY <2>1, <2>2, <2>3 DEF RedoChangeGeometry, UndoChangeGeometry
<1>4. CASE c.op = "changeAttribute"
  <2>1. r \in {RedoChangeAttribute(c, s), UndoChangeAttribute(c, s)}
    BY <1>4 DEF Redone, Undone
  <2>2. ASSUME NEW v, r = AttributeSet(s, c, v) PROVE RowBuffer(r.buffer, next)
    <3> DEFINE added == s.buffer.addedFeatures
    <3>1. \/ r.buffer = s.buffer
          \/ /\ c.fid \in DOMAIN added
             /\ r.buffer = [s.buffer EXCEPT !.addedFeatures =
                              Put(added, c.fid, SetAttribute(added[c.fid], c.field, v))]
          \/ \E changed : r.buffer = [s.buffer EXCEPT !.changedAttributeValues = changed]
      BY <2>2 DEF AttributeSet, Asserting, Holds
    <3>2. ASSUME c.fid \in DOMAIN added
          PROVE  IsFeature(SetAttribute(added[c.fid], c.field, v))
      BY <3>2 DEF SetAttribute, IsFeature
    <3>3. CASE /\ c.fid \in DOMAIN added
               /\ r.buffer = [s.buffer EXCEPT !.addedFeatures =
                              Put(added, c.fid, SetAttribute(added[c.fid], c.field, v))]
      BY <3>2, <3>3 DEF Put
    <3>4. CASE r.buffer = s.buffer
      BY <3>4
    <3>5. CASE \E changed : r.buffer = [s.buffer EXCEPT !.changedAttributeValues = changed]
      BY <3>5
    <3> QED BY <3>1, <3>3, <3>4, <3>5
  <2>3. CASE /\ r = UndoChangeAttribute(c, s)
             /\ ~(IsNew(c.fid) \/ ~c.firstChange)
    BY <2>3 DEF UndoChangeAttribute
  <2> QED BY <2>1, <2>2, <2>3 DEF RedoChangeAttribute, UndoChangeAttribute
<1> QED BY <1>1, <1>2, <1>3, <1>4 DEF KnownCommand, CommandOps, RowCommand, FieldOps

LEMMA CommandsKeepRows ==
    ASSUME NEW s, IsWorkspace(s), NEW low \in Int, IdsWithin(s.buffer, low),
           NEW next \in Int, RowBuffer(s.buffer, next),
           NEW cs, KnownCommands(cs, low), RowCommands(cs, next),
           NEW r, r \in {AllRedone(cs, s), AllUndone(cs, s)}
    PROVE  RowBuffer(r.buffer, next)
<1> DEFINE L == Len(cs)
           Fine(x) == /\ IsWorkspace(x) /\ IdsWithin(x.buffer, low)
                      /\ RowBuffer(x.buffer, next)
<1>1. L \in Nat /\ \A n \in 1..L : KnownCommand(cs[n], low) /\ RowCommand(cs[n], next)
  BY SeqShape DEF KnownCommands, RowCommands
<1>2. \A x, c : Fine(x) /\ KnownCommand(c, low) /\ RowCommand(c, next) =>
                  Fine(Redone(c, x)) /\ Fine(Undone(c, x))
  BY CommandKeepsIds, CommandKeepsRows
<1>3. CASE r = AllRedone(cs, s)
  <2> PICK w : RedoneBy(w, cs, s)
    BY <1>1, RedoneWalk
  <2>1. /\ w[0] = s /\ AllRedone(cs, s) = w[L]
        /\ \A n \in 1..L : w[n] = Redone(cs[n], w[n - 1])
    BY DEF RedoneBy
  <2> DEFINE T == {n \in 0..L : Fine(w[n])}
  <2>2. 0 \in T
    BY <1>1, <2>1
  <2>3. \A n \in 1..L : n - 1 \in T => n \in T
    <3> HIDE DEF Fine, L
    <3> QED BY <1>1, <1>2, <2>1
  <2>4. L \in T
    <3> HIDE DEF T, L
    <3> QED BY <1>1, <2>2, <2>3, Upward
  <2> QED BY <1>3, <2>1, <2>4
<1>4. CASE r = AllUndone(cs, s)
  <2> PICK w : UndoneBy(w, cs, s)
    BY <1>1, UndoneWalk
  <2>1. /\ w[L] = s /\ AllUndone(cs, s) = w[0]
        /\ \A n \in 1..L : w[n - 1] = Undone(cs[n], w[n])
    BY DEF UndoneBy
  <2> DEFINE T == {n \in 0..L : Fine(w[n])}
  <2>2. L \in T
    BY <1>1, <2>1
  <2>3. \A n \in 1..L : n \in T => n - 1 \in T
    <3> HIDE DEF Fine, L
    <3> QED BY <1>1, <1>2, <2>1
  <2>4. 0 \in T
    <3> HIDE DEF T, L
    <3> QED BY <1>1, <2>2, <2>3, Downward
  <2> QED BY <1>4, <2>1, <2>4
<1> QED BY <1>3, <1>4

LEMMA BottomKeepsRows ==
    ASSUME NEW s, IsWorkspace(s), NEW low \in Int, IdsWithin(s.buffer, low),
           NEW next \in Int, RowBuffer(s.buffer, next),
           NEW st, KnownStack(st, low), RowStack(st, next)
    PROVE  RowBuffer(UndoneToBottom(st, s).buffer, next)
<1> DEFINE L == Len(st)
           Fine(x) == /\ IsWorkspace(x) /\ IdsWithin(x.buffer, low)
                      /\ RowBuffer(x.buffer, next)
<1>1. L \in Nat /\ \A n \in 1..L : /\ KnownCommands(st[n].commands, low)
                                   /\ RowCommands(st[n].commands, next)
  BY SeqShape DEF KnownStack, KnownEntry, RowStack
<1>2. \A x, cs : Fine(x) /\ KnownCommands(cs, low) /\ RowCommands(cs, next)
                   => Fine(AllUndone(cs, x))
  BY CommandsKeepIds, CommandsKeepRows
<1> PICK w : BottomBy(w, st, s)
  BY <1>1, BottomWalk
<1>3. /\ w[L] = s /\ UndoneToBottom(st, s) = w[0]
      /\ \A n \in 1..L : w[n - 1] = AllUndone(st[n].commands, w[n])
  BY DEF BottomBy
<1> DEFINE T == {n \in 0..L : Fine(w[n])}
<1>4. L \in T
  BY <1>1, <1>3
<1>5. \A n \in 1..L : n \in T => n - 1 \in T
  <2> HIDE DEF Fine, L
  <2> QED BY <1>1, <1>2, <1>3
<1>6. 0 \in T
  <2> HIDE DEF T, L
  <2> QED BY <1>1, <1>4, <1>5, Downward
<1> QED BY <1>3, <1>6

\* Commands that join others, and stacks that gain them.
LEMMA JoinedRows ==
    ASSUME NEW cs, NEW low, KnownCommands(cs, low), NEW next, RowCommands(cs, next),
           NEW c, RowCommand(c, next)
    PROVE  RowCommands(WithCommand(cs, c), next)
<1> DEFINE w == WithCommand(cs, c)
<1>1. IsSeq(cs) /\ Len(cs) \in Nat
  BY SeqShape DEF KnownCommands
<1>2. ASSUME cs # <<>> /\ Mergeable(Last(cs), c) PROVE RowCommands(w, next)
  <2> DEFINE x == [cs[Len(cs)] EXCEPT !.new = c.new]
  <2>1. /\ Len(cs) \in Nat \ {0} /\ IsSeq(w) /\ Len(w) = Len(cs)
        /\ \A n \in 1..(Len(cs) - 1) : w[n] = cs[n]
        /\ w[Len(cs)] = x
    BY <1>1, <1>2, JoinedInto
  <2>2. KnownCommand(cs[Len(cs)], low) /\ cs[Len(cs)].op = "changeGeometry"
    BY <1>2, <2>1 DEF KnownCommands, Mergeable, Last
  <2>3. RowCommand(cs[Len(cs)], next)
    BY <2>1 DEF RowCommands
  <2>4. RowCommand(x, next)
    BY <2>2, <2>3 DEF KnownCommand, RowCommand, FieldOps
  <2> HIDE DEF w, x
  <2>5. ASSUME NEW m \in 1..Len(w) PROVE RowCommand(w[m], next)
    BY <2>1, <2>4 DEF RowCommands
  <2> QED BY <2>5 DEF RowCommands
<1>3. ASSUME ~(cs # <<>> /\ Mergeable(Last(cs), c)) PROVE RowCommands(w, next)
  <2>1. w = Append(cs, c)
    BY <1>1, <1>3, JoinedAtEnd
  <2>2. /\ Len(w) = Len(cs) + 1 /\ w[Len(cs) + 1] = c
        /\ \A i \in 1..Len(cs) : w[i] = cs[i]
    BY <1>1, <2>1, Appended
  <2> HIDE DEF w
  <2>3. ASSUME NEW m \in 1..Len(w) PROVE RowCommand(w[m], next)
    BY <1>1, <2>2 DEF RowCommands
  <2> QED BY <2>3 DEF RowCommands
<1> QED BY <1>2, <1>3

LEMMA RowStackGains ==
    ASSUME NEW st, NEW low, KnownStack(st, low), NEW next, RowStack(st, next),
           NEW i \in 1..Len(st), NEW c, RowCommand(c, next)
    PROVE  RowStack(Gained(st, i, c), next)
<1> DEFINE d == [st[i] EXCEPT !.commands = WithCommand(st[i].commands, c)]
           after == [st EXCEPT ![i] = d]
<1>1. KnownEntry(st[i], low) /\ IsSeq(st) /\ RowCommands(st[i].commands, next)
  BY DEF KnownStack, RowStack
<1>2. RowCommands(d.commands, next)
  <2>1. d.commands = WithCommand(st[i].commands, c)
    BY <1>1 DEF KnownEntry
  <2> HIDE DEF d
  <2> QED BY <1>1, <2>1, JoinedRows DEF KnownEntry
<1> HIDE DEF d
<1>3. /\ Len(after) = Len(st)
      /\ \A j \in 1..Len(st) : after[j] = IF j = i THEN d ELSE st[j]
  BY <1>1, Replaced
<1> HIDE DEF after
<1>4. RowStack(after, next)
  BY <1>2, <1>3 DEF RowStack
<1> QED BY <1>4 DEF Gained, after, d

LEMMA RowStackGrows ==
    ASSUME NEW st, IsSeq(st), NEW next, RowStack(st, next),
           NEW e, RowCommands(e.commands, next)
    PROVE  RowStack(Append(st, e), next)
<1> DEFINE after == Append(st, e)
<1>1. /\ Len(st) \in Nat /\ Len(after) = Len(st) + 1 /\ after[Len(st) + 1] = e
      /\ \A j \in 1..Len(st) : after[j] = st[j]
  BY SeqShape, Appended
<1> HIDE DEF after
<1>2. RowStack(after, next)
  BY <1>1 DEF RowStack
<1> QED BY <1>2 DEF after

LEMMA RowPrefix ==
    ASSUME SInv, RowStack(stack, provider.nextFid)
    PROVE  LET kept == SubSeq(stack, 1, index) IN
           /\ KnownStack(kept, lowWaterMark) /\ IsSeq(kept) /\ Len(kept) = index
           /\ RowStack(kept, provider.nextFid)
<1> DEFINE kept == SubSeq(stack, 1, index)
<1>1. /\ KnownStack(kept, lowWaterMark)
      /\ Len(kept) = index /\ \A j \in 1..index : kept[j] = stack[j]
  BY StackPrefix DEF SInv
<1>2. \A j \in 1..index : j \in 1..Len(stack)
  BY SeqShape DEF SInv, KnownStack
<1> HIDE DEF kept
<1>3. RowStack(kept, provider.nextFid)
  BY <1>1, <1>2 DEF RowStack
<1> QED BY <1>1, <1>3 DEF kept, KnownStack

LEMMA WorkspaceRows ==
    ASSUME SInv, RInv
    PROVE  /\ IsWorkspace(Workspace) /\ IdsWithin(Workspace.buffer, lowWaterMark)
           /\ RowBuffer(Workspace.buffer, provider.nextFid)
           /\ provider.nextFid \in Int /\ lowWaterMark \in Int
BY DEF SInv, RInv, Flags, IsWorkspace, Workspace, IdsWithin, ProviderShape

LEMMA PushRows ==
    ASSUME SInv, RInv, NEW c, Push(c), lowWaterMark' \in Int, lowWaterMark' <= lowWaterMark,
           KnownCommand(c, lowWaterMark'), RowCommand(c, provider.nextFid)
    PROVE  RInv'
<1> DEFINE next == provider.nextFid
           s == Redone(c, Workspace)
           kept == SubSeq(stack, 1, index)
<1>1. RowBuffer(s.buffer, next)
  BY WorkspaceRows, CommandKeepsRows
<1>2. /\ KnownStack(kept, lowWaterMark) /\ IsSeq(kept) /\ Len(kept) = index
      /\ RowStack(kept, next) /\ RowStack(stack, next)
  BY RowPrefix DEF RInv
<1>3. /\ KnownStack(stack, lowWaterMark) /\ index \in Nat
      /\ macroOpen => index + 1 \in 1..Len(stack)
  BY SeqShape DEF SInv, KnownStack
<1>4. buffer' = s.buffer /\ provider' = provider
  BY DEF Push, BecomesWorkspace
<1>5. CASE macroOpen /\ stack' = [stack EXCEPT ![index + 1].commands = WithCommand(@, c)]
  <2>1. stack' = Gained(stack, index + 1, c)
    BY <1>5 DEF Gained
  <2>2. RowStack(Gained(stack, index + 1, c), next)
    BY <1>2, <1>3, <1>5, RowStackGains
  <2> QED BY <1>1, <1>4, <2>1, <2>2 DEF RInv
<1>6. CASE index > 0 /\ stack' = [kept EXCEPT ![index].commands = WithCommand(@, c)]
  <2>1. stack' = Gained(kept, index, c)
    BY <1>6 DEF Gained
  <2>2. RowStack(Gained(kept, index, c), next)
    <3> HIDE DEF kept
    <3> QED BY <1>2, <1>3, <1>6, RowStackGains
  <2> QED BY <1>1, <1>4, <2>1, <2>2 DEF RInv
<1>7. CASE stack' = Append(kept, SingleEntry(c))
  <2>1. RowCommands(SingleEntry(c).commands, next)
    <3>1. SingleEntry(c).commands = <<c>>
      BY DEF SingleEntry
    <3> QED BY <3>1, OneElement DEF RowCommands
  <2>2. RowStack(Append(kept, SingleEntry(c)), next)
    <3> HIDE DEF kept
    <3> QED BY <1>2, <2>1, RowStackGrows
  <2> QED BY <1>1, <1>4, <1>7, <2>2 DEF RInv
<1> QED BY <1>5, <1>6, <1>7 DEF Push

LEMMA EditFeatureRows ==
    ASSUME SInv, RInv, EditFeature
    PROVE  RInv'
<1> USE DEF CommandOps, FieldOps
<1>1. /\ lowWaterMark \in Int /\ lowWaterMark < 0
      /\ provider.nextFid \in Nat
      /\ \A fid \in VisibleFids(provider, buffer) :
            fid \in Int /\ fid >= lowWaterMark /\ fid < provider.nextFid
  BY DEF SInv, VisibleFids, ProviderShape, IdsWithin
<1>2. ASSUME NEW value, NEW geom, AddFeature(value, geom)
      PROVE  RInv'
  <2>1. PICK feature : /\ IsFeature(feature)
                       /\ Push(AddFeatureCommand(lowWaterMark - 1, feature))
    <3> DEFINE fields == PendingFields(provider, buffer)
               attrs == [i \in 1..Len(fields) |->
                            IF fields[i].origin \in {"provider", "edit"}
                            THEN value ELSE Null]
               new == [attrs |-> attrs, geom |-> geom]
    <3>1. Push(AddFeatureCommand(lowWaterMark - 1, new))
      BY <1>2 DEF AddFeature, TemporaryId
    <3>2. Len(fields) = FieldCount
      BY FieldsStay DEF RInv, RowBuffer, FieldCount
    <3>3. attrs = [i \in 1..FieldCount |-> attrs[i]]
      <4> HIDE DEF fields
      <4> QED BY <3>2
    <3> HIDE DEF attrs
    <3>4. IsFeature(new)
      BY <3>3 DEF IsFeature
    <3> QED BY <3>1, <3>4
  <2>2. lowWaterMark' = lowWaterMark - 1
    BY <1>2 DEF AddFeature, TemporaryId
  <2> DEFINE c == AddFeatureCommand(lowWaterMark - 1, feature)
  <2>3. KnownCommand(c, lowWaterMark') /\ RowCommand(c, provider.nextFid)
    BY <1>1, <2>1, <2>2 DEF AddFeatureCommand, KnownCommand, RowCommand
  <2>4. Push(c)
    BY <2>1
  <2> HIDE DEF c
  <2> QED BY <1>1, <2>2, <2>3, <2>4, PushRows
<1>3. ASSUME NEW c, Push(c), UNCHANGED lowWaterMark,
             c.op \in {"deleteFeature", "changeGeometry", "changeAttribute"},
             c.fid \in VisibleFids(provider, buffer),
             \/ c.op # "deleteFeature" /\ {"op", "fid", "new"} \subseteq DOMAIN c
             \/ /\ c.op = "deleteFeature" /\ {"op", "fid"} \subseteq DOMAIN c
                /\ IsNew(c.fid) => IsFeature(c.feature)
      PROVE  RInv'
  <2>1. KnownCommand(c, lowWaterMark') /\ RowCommand(c, provider.nextFid)
    BY <1>1, <1>3 DEF KnownCommand, RowCommand
  <2> QED BY <1>1, <1>3, <2>1, PushRows
<1>4. ASSUME NEW fid \in VisibleFids(provider, buffer), DeleteFeature(fid)
      PROVE  RInv'
  <2>1. UNCHANGED lowWaterMark /\ Push(DeleteFeatureCommand(Workspace, fid))
    BY <1>4 DEF DeleteFeature
  <2>2. PICK c : /\ Push(c) /\ c.op = "deleteFeature" /\ c.fid = fid
                 /\ {"op", "fid"} \subseteq DOMAIN c
                 /\ IsNew(fid) => c.feature = buffer.addedFeatures[fid]
    BY <2>1 DEF DeleteFeatureCommand, Workspace
  <2>3. IsNew(fid) => fid \in DOMAIN buffer.addedFeatures
    BY DEF VisibleFids, SInv, ProviderShape, IsNew
  <2>4. IsNew(fid) => IsFeature(c.feature)
    BY <2>2, <2>3 DEF RInv, RowBuffer
  <2> QED BY <2>1, <2>2, <2>4, <1>3
<1>5. ASSUME NEW fid \in VisibleFids(provider, buffer), NEW geom, ChangeGeometry(fid, geom)
      PROVE  RInv'
  <2>1. UNCHANGED lowWaterMark /\ Push(ChangeGeometryCommand(Workspace, fid, geom))
    BY <1>5 DEF ChangeGeometry
  <2>2. PICK c : /\ Push(c) /\ c.op = "changeGeometry" /\ c.fid = fid
                 /\ {"op", "fid", "new"} \subseteq DOMAIN c
    BY <2>1 DEF ChangeGeometryCommand
  <2> QED BY <2>1, <2>2, <1>3
<1>6. ASSUME NEW fid \in VisibleFids(provider, buffer), NEW field, NEW value,
             ChangeAttributeValue(fid, field, value)
      PROVE  RInv'
  <2>1. /\ UNCHANGED lowWaterMark
        /\ Push(ChangeAttributeCommand(Workspace, fid, field, value))
    BY <1>6 DEF ChangeAttributeValue
  <2>2. PICK c : /\ Push(c) /\ c.op = "changeAttribute" /\ c.fid = fid
                 /\ {"op", "fid", "new"} \subseteq DOMAIN c
    BY <2>1 DEF ChangeAttributeCommand
  <2> QED BY <2>1, <2>2, <1>3
<1> QED BY <1>2, <1>4, <1>5, <1>6 DEF EditFeature

LEMMA UndoStackRows ==
    ASSUME SInv, RInv, UseUndoStack
    PROVE  RInv'
<1> DEFINE next == provider.nextFid
<1>1. /\ IsWorkspace(Workspace) /\ IdsWithin(Workspace.buffer, lowWaterMark)
      /\ RowBuffer(Workspace.buffer, next) /\ next \in Int /\ lowWaterMark \in Int
  BY WorkspaceRows
<1>2. Len(stack) \in Nat /\ index \in 0..Len(stack)
  BY SeqShape DEF SInv, KnownStack
<1>3. ASSUME NEW i \in 1..Len(stack), NEW r,
             r \in {AllRedone(stack[i].commands, Workspace),
                    AllUndone(stack[i].commands, Workspace)}
      PROVE  RowBuffer(r.buffer, next)
  <2>1. KnownCommands(stack[i].commands, lowWaterMark) /\ RowCommands(stack[i].commands, next)
    BY DEF SInv, KnownStack, KnownEntry, RInv, RowStack
  <2> QED BY <1>1, <1>3, <2>1, CommandsKeepRows
<1>4. ASSUME NEW r, RowBuffer(r.buffer, next), buffer' = r.buffer,
             UNCHANGED <<provider, stack>>
      PROVE  RInv'
  BY <1>4 DEF RInv
<1>5. CASE BeginEditCommand
  <2> DEFINE e == [macro |-> TRUE, commands |-> <<>>]
             kept == SubSeq(stack, 1, index)
  <2>1. RowCommands(e.commands, next)
    BY NoElements DEF RowCommands
  <2>2. IsSeq(kept) /\ RowStack(kept, next)
    BY RowPrefix DEF RInv
  <2> HIDE DEF e, kept
  <2>3. RowStack(Append(kept, e), next)
    BY <2>1, <2>2, RowStackGrows
  <2>4. stack' = Append(kept, e) /\ UNCHANGED <<provider, buffer>>
    BY <1>5 DEF BeginEditCommand, kept, e
  <2> QED BY <2>3, <2>4 DEF RInv
<1>6. CASE EndEditCommand
  BY <1>6 DEF EndEditCommand, RInv
<1>7. CASE DestroyEditCommand
  <2>1. index + 1 \in 1..Len(stack)
    BY <1>2, <1>7 DEF DestroyEditCommand, SInv
  <2>2. /\ buffer' = AllUndone(stack[index + 1].commands, Workspace).buffer
        /\ UNCHANGED <<provider, stack>>
    BY <1>7 DEF DestroyEditCommand, BecomesWorkspace
  <2> QED BY <1>3, <1>4, <2>1, <2>2
<1>8. CASE Undo
  <2>1. index \in 1..Len(stack)
    BY <1>2, <1>8 DEF Undo
  <2>2. /\ buffer' = AllUndone(stack[index].commands, Workspace).buffer
        /\ UNCHANGED <<provider, stack>>
    BY <1>8 DEF Undo, BecomesWorkspace
  <2> QED BY <1>3, <1>4, <2>1, <2>2
<1>9. CASE Redo
  <2>1. index + 1 \in 1..Len(stack)
    BY <1>2, <1>9 DEF Redo
  <2>2. /\ buffer' = AllRedone(stack[index + 1].commands, Workspace).buffer
        /\ UNCHANGED <<provider, stack>>
    BY <1>9 DEF Redo, BecomesWorkspace
  <2> QED BY <1>3, <1>4, <2>1, <2>2
<1> QED BY <1>5, <1>6, <1>7, <1>8, <1>9 DEF UseUndoStack

LEMMA EmptyRowBuffer ==
    ASSUME NEW next
    PROVE  RowBuffer(EmptyBuffer, next)
BY DEF RowBuffer, NoFieldEdits, EmptyBuffer, EmptyMap

LEMMA RollBackRows ==
    ASSUME SInv, RInv, NEW deleteBuffer, RollBack(deleteBuffer)
    PROVE  RInv'
<1> DEFINE s == UndoneToBottom(SubSeq(stack, 1, index), Workspace)
<1>1. RowBuffer(s.buffer, provider.nextFid)
  <2>1. /\ KnownStack(SubSeq(stack, 1, index), lowWaterMark)
        /\ RowStack(SubSeq(stack, 1, index), provider.nextFid)
    BY RowPrefix DEF RInv
  <2> QED BY <2>1, WorkspaceRows, BottomKeepsRows
<1>2. /\ provider' = provider
      /\ \/ buffer' = EmptyBuffer /\ stack' = <<>>
         \/ buffer' = s.buffer /\ stack' = stack
  BY DEF RollBack
<1> HIDE DEF s
<1>3. CASE buffer' = EmptyBuffer /\ stack' = <<>>
  BY <1>2, <1>3, EmptyRowBuffer, NoElements DEF RInv, RowStack
<1>4. CASE buffer' = s.buffer /\ stack' = stack
  BY <1>1, <1>2, <1>4 DEF RInv
<1> QED BY <1>2, <1>3, <1>4

-----------------------------------------------------------------------------
(* What a reader sees while a commit empties the buffer stage by stage.    *)

ValuesOf(b, fid) ==
    IF fid \in DOMAIN b.changedAttributeValues
    THEN b.changedAttributeValues[fid] ELSE EmptyMap

Overlaid(attrs, values) ==
    [i \in 1..Columns |-> IF i \in DOMAIN values THEN values[i] ELSE attrs[i]]

NewRow(feature) == [attrs |-> [i \in 1..Columns |-> Attribute(feature, i)],
                    geom  |-> feature.geom]

RowRead(p, b, fid) ==
    IF fid \in DOMAIN b.addedFeatures THEN NewRow(b.addedFeatures[fid])
    ELSE [attrs |-> Overlaid(p.rows[fid].attrs, ValuesOf(b, fid)),
          geom  |-> OverlaidGeometry(p, b, fid)]

LayerFields == SubSeq(FieldNames(InitialProvider, EmptyBuffer), 1, Columns)

\* A layer without changes of attributes.
LEMMA LayerRead ==
    ASSUME NEW p, ProviderTyped(p), NEW b, NoFieldEdits(b)
    PROVE  /\ NativeCount(p, b) = Columns
           /\ PendingFields(p, b) = PendingFields(InitialProvider, EmptyBuffer)
           /\ Layer(p, b) = [fields |-> LayerFields,
                             rows   |-> [fid \in VisibleFids(p, b) |-> RowRead(p, b, fid)]]
<1>1. Len(p.fields) = Columns /\ Columns \in Nat
  BY ColumnsNumber DEF ProviderTyped, Columns
<1>2. KeptAttributes(p, b) = [i \in 1..Columns |-> i]
  BY <1>1, NothingDeleted DEF NoFieldEdits
<1>5. NativeCount(p, b) = Columns
  <2>1. Len([i \in 1..Columns |-> i]) = Columns
    BY <1>1
  <2> QED BY <1>1, <1>2, <2>1, NoElements DEF NativeCount, NoFieldEdits
<1>6. PendingFields(p, b) = PendingFields(InitialProvider, EmptyBuffer)
  BY FieldsStay
<1>7. FieldNames(p, b) = FieldNames(InitialProvider, EmptyBuffer)
  BY <1>6 DEF FieldNames
<1>8. \A fid : OverlaidAttributes(p, b, fid) = Overlaid(p.rows[fid].attrs, ValuesOf(b, fid))
  <2> TAKE fid
  <2> DEFINE kept == KeptAttributes(p, b)
             values == ValuesOf(b, fid)
             attrs == p.rows[fid].attrs
  <2>1. OverlaidAttributes(p, b, fid)
          = [i \in 1..NativeCount(p, b) |->
                IF i \in DOMAIN values THEN values[i]
                ELSE IF i <= Len(kept) THEN attrs[kept[i]] ELSE Null]
    BY DEF OverlaidAttributes, ValuesOf
  <2>2. Len(kept) = Columns /\ \A i \in 1..Columns : i <= Columns /\ kept[i] = i
    BY <1>1, <1>2
  <2> HIDE DEF kept, values, attrs
  <2> QED BY <1>5, <2>1, <2>2 DEF Overlaid, values, attrs
<1>9. \A fid \in DOMAIN b.addedFeatures :
         AddedAsRead(p, b, fid) = NewRow(b.addedFeatures[fid])
  BY <1>5 DEF AddedAsRead, NewRow
<1> QED BY <1>5, <1>6, <1>7, <1>8, <1>9 DEF Layer, RowRead, LayerFields

LEMMA SameRead ==
    ASSUME NEW p, ProviderTyped(p), NEW b, NoFieldEdits(b),
           NEW q, ProviderTyped(q), NEW a, NoFieldEdits(a),
           VisibleFids(q, a) = VisibleFids(p, b),
           \A fid \in VisibleFids(p, b) : RowRead(q, a, fid) = RowRead(p, b, fid)
    PROVE  Layer(q, a) = Layer(p, b)
<1>1. /\ Layer(p, b) = [fields |-> LayerFields,
                        rows |-> [fid \in VisibleFids(p, b) |-> RowRead(p, b, fid)]]
      /\ Layer(q, a) = [fields |-> LayerFields,
                        rows |-> [fid \in VisibleFids(q, a) |-> RowRead(q, a, fid)]]
  BY LayerRead
<1> QED BY <1>1

\* A commit of features skips the two stages that change fields.
LEMMA CommitOfRows ==
    ASSUME NEW p, NEW b, NoFieldEdits(b), NEW sel, NEW fails
    PROVE  LET start == [provider |-> p, buffer |-> b, selected |-> sel,
                         success |-> TRUE, attributesChanged |-> FALSE]
           IN  Committed(p, b, sel, fails)
                 = CommitChangedGeometries(
                     CommitAddedFeatures(
                       CommitDeletedFeatures(
                         CommitChangedAttributes(start, fails), fails), fails), fails)
<1> DEFINE start == [provider |-> p, buffer |-> b, selected |-> sel,
                     success |-> TRUE, attributesChanged |-> FALSE]
<1>1. start.buffer = b /\ start.attributesChanged = FALSE
  OBVIOUS
<1>2. CommitDeletedAttributes(start, fails) = start
  <2> HIDE DEF start
  <2> QED BY <1>1 DEF CommitDeletedAttributes, NoFieldEdits
<1>3. CommitAddedAttributes(start, fails) = start
  <2> HIDE DEF start
  <2> QED BY <1>1 DEF CommitAddedAttributes, NoFieldEdits
<1>4. FieldsAsExpected(start, FieldNames(p, b))
  <2> HIDE DEF start
  <2> QED BY <1>1 DEF FieldsAsExpected
<1> QED BY <1>2, <1>3, <1>4 DEF Committed

CommitTyped(t, low) ==
    /\ CommitShape(t, low..(-1))
    /\ ProviderTyped(t.provider)
    /\ RowBuffer(t.buffer, t.provider.nextFid)

\* A stage between t and u after which the layer reads as before.
Keeps(t, u) ==
    /\ Layer(u.provider, u.buffer) = Layer(t.provider, t.buffer)
    /\ u.selected = t.selected
    /\ u.provider.nextFid = t.provider.nextFid

LEMMA FailureKeeps ==
    ASSUME NEW low, NEW t, CommitTyped(t, low)
    PROVE  /\ CommitTyped(Failed(t), low) /\ Keeps(t, Failed(t)) /\ ~Failed(t).success
           /\ Failed(t).buffer = t.buffer /\ Failed(t).provider = t.provider
           /\ Keeps(t, t)
<1>1. /\ Failed(t).buffer = t.buffer /\ Failed(t).provider = t.provider
      /\ Failed(t).selected = t.selected /\ ~Failed(t).success
      /\ DOMAIN Failed(t) = DOMAIN t /\ Failed(t).success = FALSE
  BY DEF Failed, CommitTyped, CommitShape
<1> QED BY <1>1 DEF CommitTyped, CommitShape, Keeps

LEMMA AttributesKeep ==
    ASSUME NEW low, NEW t, CommitTyped(t, low), NEW fails,
           NEW u, u = CommitChangedAttributes(t, fails)
    PROVE  /\ CommitTyped(u, low) /\ Keeps(t, u)
           /\ u.success => u.buffer.changedAttributeValues = EmptyMap
<1> DEFINE changed == t.buffer.changedAttributeValues
           Updated(row, values) ==
               [row EXCEPT !.attrs =
                   [i \in DOMAIN row.attrs |->
                       IF i \in DOMAIN values THEN values[i] ELSE row.attrs[i]]]
           rows == [fid \in DOMAIN t.provider.rows |->
                        IF fid \in DOMAIN changed
                        THEN Updated(t.provider.rows[fid], changed[fid])
                        ELSE t.provider.rows[fid]]
           v == [t EXCEPT !.provider.rows = rows,
                          !.buffer.changedAttributeValues = EmptyMap]
<1>1. u = IF changed = EmptyMap THEN t
          ELSE IF "changeAttributeValues" \in fails THEN Failed(t) ELSE v
  BY DEF CommitChangedAttributes
<1>2. CASE u = t /\ changed = EmptyMap
  BY <1>2, FailureKeeps
<1>3. CASE u = Failed(t)
  BY <1>3, FailureKeeps
<1>4. CASE u = v
  <2>1. CommitShape(u, low..(-1))
    BY CommitRowsShape DEF CommitTyped
  <2>2. ASSUME NEW fid \in DOMAIN t.provider.rows
        PROVE  /\ DOMAIN rows[fid] = {"attrs", "geom"} /\ DOMAIN rows[fid].attrs = 1..Columns
               /\ rows[fid].geom = t.provider.rows[fid].geom
               /\ \/ rows[fid].attrs = Overlaid(t.provider.rows[fid].attrs, ValuesOf(t.buffer, fid))
                  \/ fid \notin DOMAIN changed /\ rows[fid] = t.provider.rows[fid]
    <3> DEFINE row == t.provider.rows[fid]
    <3>1. DOMAIN row = {"attrs", "geom"} /\ DOMAIN row.attrs = 1..Columns
      BY DEF CommitTyped, ProviderTyped
    <3>2. CASE fid \in DOMAIN changed
      <4> DEFINE values == changed[fid]
      <4>1. rows[fid] = Updated(row, values) /\ values = ValuesOf(t.buffer, fid)
        BY <3>2 DEF ValuesOf
      <4> HIDE DEF rows, row, values
      <4>2. /\ DOMAIN Updated(row, values) = {"attrs", "geom"}
            /\ Updated(row, values).attrs = Overlaid(row.attrs, values)
            /\ DOMAIN Updated(row, values).attrs = 1..Columns
            /\ Updated(row, values).geom = row.geom
        BY <3>1 DEF Overlaid
      <4> HIDE DEF Updated
      <4>3. values = ValuesOf(t.buffer, fid) /\ row = t.provider.rows[fid]
        BY <4>1 DEF row
      <4> QED BY <4>1, <4>2, <4>3
    <3>3. CASE fid \notin DOMAIN changed
      BY <3>1, <3>3
    <3> QED BY <3>2, <3>3
  <2>3. /\ u.provider = [t.provider EXCEPT !.rows = rows]
        /\ u.buffer = [t.buffer EXCEPT !.changedAttributeValues = EmptyMap]
        /\ u.selected = t.selected /\ u.success = t.success
    <3> HIDE DEF rows
    <3> QED BY <1>4 DEF CommitTyped, CommitShape
  <2>4. DOMAIN rows = DOMAIN t.provider.rows
    OBVIOUS
  <2> HIDE DEF rows
  <2>5. /\ u.provider.rows = rows /\ u.provider.nextFid = t.provider.nextFid
        /\ u.provider.fields = t.provider.fields
        /\ u.buffer.changedAttributeValues = EmptyMap
        /\ u.buffer.deletedFeatureIds = t.buffer.deletedFeatureIds
        /\ u.buffer.addedFeatures = t.buffer.addedFeatures
        /\ u.buffer.changedGeometries = t.buffer.changedGeometries
        /\ u.buffer.deletedAttributeIds = t.buffer.deletedAttributeIds
        /\ u.buffer.addedAttributes = t.buffer.addedAttributes
    BY <2>3 DEF CommitTyped, CommitShape, ProviderShape, IsBuffer, BufferFields
  <2>6. ProviderTyped(u.provider) /\ RowBuffer(u.buffer, u.provider.nextFid)
    BY <2>2, <2>4, <2>5 DEF CommitTyped, ProviderTyped, RowBuffer, NoFieldEdits
  <2>7. VisibleFids(u.provider, u.buffer) = VisibleFids(t.provider, t.buffer)
    BY <2>4, <2>5 DEF VisibleFids
  <2>8. ASSUME NEW fid \in VisibleFids(t.provider, t.buffer)
        PROVE  RowRead(u.provider, u.buffer, fid) = RowRead(t.provider, t.buffer, fid)
    <3>1. CASE fid \in DOMAIN t.buffer.addedFeatures
      BY <2>5, <3>1 DEF RowRead
    <3>2. CASE fid \notin DOMAIN t.buffer.addedFeatures
      <4>1. fid \in DOMAIN t.provider.rows
        BY <3>2 DEF VisibleFids
      <4>2. ValuesOf(u.buffer, fid) = EmptyMap /\ DOMAIN EmptyMap = {}
        BY <2>5 DEF ValuesOf, EmptyMap
      <4>3. Overlaid(rows[fid].attrs, ValuesOf(u.buffer, fid))
              = Overlaid(t.provider.rows[fid].attrs, ValuesOf(t.buffer, fid))
        <5> DEFINE attrs == t.provider.rows[fid].attrs
                   values == ValuesOf(t.buffer, fid)
        <5>1. CASE rows[fid].attrs = Overlaid(attrs, values)
          <6>1. \A a, m : Overlaid(Overlaid(a, m), EmptyMap) = Overlaid(a, m)
            BY <4>2 DEF Overlaid
          <6> QED BY <4>2, <5>1, <6>1
        <5>2. CASE fid \notin DOMAIN changed /\ rows[fid] = t.provider.rows[fid]
          <6>1. values = EmptyMap
            BY <5>2 DEF ValuesOf
          <6> QED BY <4>2, <5>2, <6>1
        <5> QED BY <2>2, <4>1, <5>1, <5>2
      <4>4. OverlaidGeometry(u.provider, u.buffer, fid)
              = OverlaidGeometry(t.provider, t.buffer, fid)
        BY <2>2, <2>5, <4>1 DEF OverlaidGeometry
      <4> QED BY <2>5, <3>2, <4>3, <4>4 DEF RowRead
    <3> QED BY <3>1, <3>2
  <2>9. Layer(u.provider, u.buffer) = Layer(t.provider, t.buffer)
    BY <2>6, <2>7, <2>8, SameRead DEF CommitTyped, RowBuffer
  <2> QED BY <2>1, <2>3, <2>5, <2>6, <2>9 DEF CommitTyped, Keeps
<1> QED BY <1>1, <1>2, <1>3, <1>4

LEMMA DeletedKeep ==
    ASSUME NEW low, NEW t, CommitTyped(t, low), NEW fails,
           NEW u, u = CommitDeletedFeatures(t, fails)
    PROVE  /\ CommitTyped(u, low) /\ Keeps(t, u)
           /\ u.success => t.success /\ u.buffer.deletedFeatureIds = {}
           /\ t.buffer.changedAttributeValues = EmptyMap =>
                u.buffer.changedAttributeValues = EmptyMap
<1> DEFINE deleted == t.buffer.deletedFeatureIds
           rows == Without(t.provider.rows, deleted)
           values == Without(t.buffer.changedAttributeValues, deleted)
           geometries == Without(t.buffer.changedGeometries, deleted)
           v == [t EXCEPT !.provider.rows = rows,
                          !.buffer.changedAttributeValues = values,
                          !.buffer.changedGeometries = geometries,
                          !.buffer.deletedFeatureIds = {}]
<1>1. u = IF ~t.success \/ deleted = {} THEN t
          ELSE IF "deleteFeatures" \in fails THEN Failed(t) ELSE v
  BY DEF CommitDeletedFeatures
<1>2. CASE u = t /\ (~t.success \/ deleted = {})
  BY <1>2, FailureKeeps
<1>3. CASE u = Failed(t)
  BY <1>3, FailureKeeps
<1>4. CASE u = v /\ t.success
  <2>1. CommitShape(u, low..(-1))
    BY CommitRowsShape DEF CommitTyped
  <2> DEFINE after == [t.buffer EXCEPT !.changedAttributeValues = values,
                                       !.changedGeometries = geometries,
                                       !.deletedFeatureIds = {}]
  <2>2. /\ u.provider = [t.provider EXCEPT !.rows = rows] /\ u.buffer = after
        /\ u.selected = t.selected /\ u.success = t.success
    <3> HIDE DEF rows, values, geometries
    <3> QED BY <1>4 DEF CommitTyped, CommitShape, IsBuffer, BufferFields
  <2>3. /\ DOMAIN rows = DOMAIN t.provider.rows \ deleted
        /\ \A fid \in DOMAIN rows : rows[fid] = t.provider.rows[fid]
    BY DEF Without, Restrict
  <2>4. /\ DOMAIN values = DOMAIN t.buffer.changedAttributeValues \ deleted
        /\ \A fid \in DOMAIN values : values[fid] = t.buffer.changedAttributeValues[fid]
        /\ t.buffer.changedAttributeValues = EmptyMap => values = EmptyMap
    BY DEF Without, Restrict, EmptyMap
  <2>5. /\ DOMAIN geometries = DOMAIN t.buffer.changedGeometries \ deleted
        /\ \A fid \in DOMAIN geometries : geometries[fid] = t.buffer.changedGeometries[fid]
    BY DEF Without, Restrict
  <2> HIDE DEF rows, values, geometries
  <2>6. /\ u.provider.rows = rows /\ u.provider.nextFid = t.provider.nextFid
        /\ u.provider.fields = t.provider.fields
        /\ u.buffer.changedAttributeValues = values
        /\ u.buffer.changedGeometries = geometries
        /\ u.buffer.deletedFeatureIds = {}
        /\ u.buffer.addedFeatures = t.buffer.addedFeatures
        /\ u.buffer.deletedAttributeIds = t.buffer.deletedAttributeIds
        /\ u.buffer.addedAttributes = t.buffer.addedAttributes
    BY <2>2 DEF CommitTyped, CommitShape, ProviderShape, IsBuffer, BufferFields
  <2>7. ProviderTyped(u.provider) /\ RowBuffer(u.buffer, u.provider.nextFid)
    BY <2>3, <2>5, <2>6 DEF CommitTyped, ProviderTyped, RowBuffer, NoFieldEdits
  <2>8. VisibleFids(u.provider, u.buffer) = VisibleFids(t.provider, t.buffer)
    BY <2>3, <2>6 DEF VisibleFids
  <2>9. ASSUME NEW fid \in VisibleFids(t.provider, t.buffer)
        PROVE  RowRead(u.provider, u.buffer, fid) = RowRead(t.provider, t.buffer, fid)
    <3>1. CASE fid \in DOMAIN t.buffer.addedFeatures
      BY <2>6, <3>1 DEF RowRead
    <3>2. CASE fid \notin DOMAIN t.buffer.addedFeatures
      <4>1. fid \in DOMAIN rows /\ fid \notin deleted
        BY <2>3, <3>2 DEF VisibleFids
      <4>2. ValuesOf(u.buffer, fid) = ValuesOf(t.buffer, fid)
        BY <2>4, <2>6, <4>1 DEF ValuesOf
      <4>3. OverlaidGeometry(u.provider, u.buffer, fid)
              = OverlaidGeometry(t.provider, t.buffer, fid)
        BY <2>3, <2>5, <2>6, <4>1 DEF OverlaidGeometry
      <4> QED BY <2>3, <2>6, <3>2, <4>1, <4>2, <4>3 DEF RowRead
    <3> QED BY <3>1, <3>2
  <2>10. Layer(u.provider, u.buffer) = Layer(t.provider, t.buffer)
    BY <2>7, <2>8, <2>9, SameRead DEF CommitTyped, RowBuffer
  <2> QED BY <1>4, <2>1, <2>2, <2>4, <2>6, <2>7, <2>10 DEF CommitTyped, Keeps
<1> QED BY <1>1, <1>2, <1>3, <1>4

LEMMA GeometriesKeep ==
    ASSUME NEW low, NEW t, CommitTyped(t, low), NEW fails,
           NEW u, u = CommitChangedGeometries(t, fails)
    PROVE  /\ CommitTyped(u, low) /\ Keeps(t, u)
           /\ u.success => t.success /\ u.buffer.changedGeometries = EmptyMap
           /\ \A k \in BufferFields \ {"changedGeometries"} : u.buffer[k] = t.buffer[k]
<1> DEFINE changed == t.buffer.changedGeometries
           rows == [fid \in DOMAIN t.provider.rows |->
                        IF fid \in DOMAIN changed
                        THEN [t.provider.rows[fid] EXCEPT !.geom = changed[fid]]
                        ELSE t.provider.rows[fid]]
           v == [t EXCEPT !.provider.rows = rows,
                          !.buffer.changedGeometries = EmptyMap]
<1>1. u = IF ~t.success \/ changed = EmptyMap THEN t
          ELSE IF "changeGeometryValues" \in fails THEN Failed(t) ELSE v
  BY DEF CommitChangedGeometries
<1>2. CASE u = t /\ (~t.success \/ changed = EmptyMap)
  BY <1>2, FailureKeeps
<1>3. CASE u = Failed(t)
  BY <1>3, FailureKeeps
<1>4. CASE u = v /\ t.success
  <2>1. CommitShape(u, low..(-1))
    BY CommitRowsShape DEF CommitTyped
  <2>2. ASSUME NEW fid \in DOMAIN t.provider.rows
        PROVE  /\ DOMAIN rows[fid] = {"attrs", "geom"} /\ DOMAIN rows[fid].attrs = 1..Columns
               /\ rows[fid].attrs = t.provider.rows[fid].attrs
               /\ rows[fid].geom = OverlaidGeometry(t.provider, t.buffer, fid)
    BY DEF CommitTyped, ProviderTyped, OverlaidGeometry
  <2>3. /\ u.provider = [t.provider EXCEPT !.rows = rows]
        /\ u.buffer = [t.buffer EXCEPT !.changedGeometries = EmptyMap]
        /\ u.selected = t.selected /\ u.success = t.success
    <3> HIDE DEF rows
    <3> QED BY <1>4 DEF CommitTyped, CommitShape
  <2>4. DOMAIN rows = DOMAIN t.provider.rows
    OBVIOUS
  <2> HIDE DEF rows
  <2>5. /\ u.provider.rows = rows /\ u.provider.nextFid = t.provider.nextFid
        /\ u.provider.fields = t.provider.fields
        /\ u.buffer.changedGeometries = EmptyMap /\ DOMAIN EmptyMap = {}
        /\ \A k \in BufferFields \ {"changedGeometries"} : u.buffer[k] = t.buffer[k]
    BY <2>3 DEF CommitTyped, CommitShape, ProviderShape, IsBuffer, BufferFields, EmptyMap
  <2>6. /\ u.buffer.deletedFeatureIds = t.buffer.deletedFeatureIds
        /\ u.buffer.addedFeatures = t.buffer.addedFeatures
        /\ u.buffer.changedAttributeValues = t.buffer.changedAttributeValues
        /\ u.buffer.deletedAttributeIds = t.buffer.deletedAttributeIds
        /\ u.buffer.addedAttributes = t.buffer.addedAttributes
    BY <2>5 DEF BufferFields
  <2>7. ProviderTyped(u.provider) /\ RowBuffer(u.buffer, u.provider.nextFid)
    BY <2>2, <2>4, <2>5, <2>6 DEF CommitTyped, ProviderTyped, RowBuffer, NoFieldEdits
  <2>8. VisibleFids(u.provider, u.buffer) = VisibleFids(t.provider, t.buffer)
    BY <2>4, <2>5, <2>6 DEF VisibleFids
  <2>9. ASSUME NEW fid \in VisibleFids(t.provider, t.buffer)
        PROVE  RowRead(u.provider, u.buffer, fid) = RowRead(t.provider, t.buffer, fid)
    <3>1. CASE fid \in DOMAIN t.buffer.addedFeatures
      BY <2>6, <3>1 DEF RowRead
    <3>2. CASE fid \notin DOMAIN t.buffer.addedFeatures
      <4>1. fid \in DOMAIN t.provider.rows
        BY <3>2 DEF VisibleFids
      <4>2. ValuesOf(u.buffer, fid) = ValuesOf(t.buffer, fid)
        BY <2>6 DEF ValuesOf
      <4>3. OverlaidGeometry(u.provider, u.buffer, fid)
              = OverlaidGeometry(t.provider, t.buffer, fid)
        <5>1. OverlaidGeometry(u.provider, u.buffer, fid) = rows[fid].geom
          BY <2>5 DEF OverlaidGeometry
        <5> QED BY <2>2, <4>1, <5>1
      <4> QED BY <2>2, <2>5, <2>6, <3>2, <4>1, <4>2, <4>3 DEF RowRead
    <3> QED BY <3>1, <3>2
  <2>10. Layer(u.provider, u.buffer) = Layer(t.provider, t.buffer)
    BY <2>7, <2>8, <2>9, SameRead DEF CommitTyped, RowBuffer
  <2> QED BY <1>4, <2>1, <2>3, <2>5, <2>7, <2>10 DEF CommitTyped, Keeps
<1> QED BY <1>1, <1>2, <1>3, <1>4

\* Two new features have different places.
LEMMA PlacesApart ==
    ASSUME NEW A, IsFiniteSet(A), A \subseteq Int, NEW f \in A, NEW g \in A, f # g
    PROVE  Cardinality({h \in A : h > f}) # Cardinality({h \in A : h > g})
<1>1. ASSUME NEW x \in A, NEW y \in A, x < y
      PROVE  Cardinality({h \in A : h > y}) < Cardinality({h \in A : h > x})
  <2> DEFINE B == {h \in A : h > x}
             C == {h \in A : h > y}
  <2>1. C \subseteq B /\ y \in B /\ y \notin C /\ B \subseteq A
    <3>1. x \in Int /\ y \in Int /\ \A h \in A : h \in Int
      OBVIOUS
    <3>2. y > x /\ ~(y > y) /\ \A h \in A : h > y => h > x
      BY <1>1, <3>1
    <3> QED BY <3>2
  <2>2. IsFiniteSet(B)
    <3> HIDE DEF B
    <3> QED BY <2>1, FS_Subset
  <2>3. /\ IsFiniteSet(C) /\ Cardinality(C) <= Cardinality(B)
        /\ (Cardinality(C) = Cardinality(B) => C = B)
    BY <2>1, <2>2, FS_Subset
  <2>4. Cardinality(C) \in Nat /\ Cardinality(B) \in Nat
    BY <2>2, <2>3, FS_CardinalityType
  <2> HIDE DEF B, C
  <2>5. Cardinality(C) < Cardinality(B)
    BY <2>1, <2>3, <2>4
  <2> QED BY <2>5 DEF B, C
<1>2. /\ Cardinality({h \in A : h > f}) \in Nat
      /\ Cardinality({h \in A : h > g}) \in Nat
  BY PlaceAmongAdded
<1>3. f < g \/ g < f
  OBVIOUS
<1> QED BY <1>1, <1>2, <1>3

\* The layer reads as before, but features may have got other ids: stored ones
\* have not, and the selection has gone with them.
CarriedBy(pi, before, after, sel, now) ==
    /\ pi \in [DOMAIN before.rows -> DOMAIN after.rows]
    /\ \A f, g \in DOMAIN before.rows : pi[f] = pi[g] => f = g
    /\ \A h \in DOMAIN after.rows : \E f \in DOMAIN before.rows : pi[f] = h
    /\ \A f \in DOMAIN before.rows :
          /\ after.rows[pi[f]] = before.rows[f]
          /\ f >= 0 => pi[f] = f
          /\ f \in sel => pi[f] \in now

Carried(before, after, sel, now) ==
    /\ after.fields = before.fields
    /\ \E pi : CarriedBy(pi, before, after, sel, now)

LEMMA SameIsCarried ==
    ASSUME NEW layer, NEW sel
    PROVE  Carried(layer, layer, sel, sel)
<1> DEFINE pi == [f \in DOMAIN layer.rows |-> f]
<1>1. CarriedBy(pi, layer, layer, sel, sel)
  BY DEF CarriedBy
<1> QED BY <1>1 DEF Carried

LEMMA AddedCarried ==
    ASSUME NEW low, NEW t, CommitTyped(t, low), NEW fails,
           NEW u, u = CommitAddedFeatures(t, fails),
           t.success => /\ t.buffer.deletedFeatureIds = {}
                        /\ t.buffer.changedAttributeValues = EmptyMap
    PROVE  /\ CommitTyped(u, low) /\ u.provider.nextFid >= t.provider.nextFid
           /\ Carried(Layer(t.provider, t.buffer), Layer(u.provider, u.buffer),
                      t.selected, u.selected)
           /\ u.success => t.success /\ u.buffer.addedFeatures = EmptyMap
           /\ \A k \in BufferFields \ {"addedFeatures"} : u.buffer[k] = t.buffer[k]
<1> DEFINE added == t.buffer.addedFeatures
           A == DOMAIN added
           next == t.provider.nextFid
           Permanent(fid) == next + Cardinality({g \in A : g > fid})
           Stored(feature) ==
               [feature EXCEPT !.attrs =
                   [i \in 1..Len(t.provider.fields) |-> Attribute(feature, i)]]
           stored == [fid \in {Permanent(g) : g \in A} |->
                       Stored(added[CHOOSE g \in A : Permanent(g) = fid])]
           rows == [fid \in DOMAIN t.provider.rows \cup DOMAIN stored |->
                       IF fid \in DOMAIN stored THEN stored[fid]
                       ELSE t.provider.rows[fid]]
           sel == {IF fid \in A THEN Permanent(fid) ELSE fid : fid \in t.selected}
           v == [t EXCEPT !.provider.rows = rows,
                          !.provider.nextFid = next + Cardinality(A),
                          !.selected = sel,
                          !.buffer.addedFeatures = EmptyMap]
<1>1. u = IF ~t.success \/ added = EmptyMap THEN t
          ELSE IF "addFeatures" \in fails THEN Failed(t) ELSE v
  BY DEF CommitAddedFeatures
<1>2. next \in Nat /\ (t.success \in BOOLEAN)
  BY DEF CommitTyped, CommitShape, ProviderShape
<1>3. ASSUME u \in {t, Failed(t)}, u.success => t.success /\ added = EmptyMap
      PROVE  /\ CommitTyped(u, low) /\ u.provider.nextFid >= t.provider.nextFid
             /\ Carried(Layer(t.provider, t.buffer), Layer(u.provider, u.buffer),
                        t.selected, u.selected)
             /\ u.success => t.success /\ u.buffer.addedFeatures = EmptyMap
             /\ \A k \in BufferFields \ {"addedFeatures"} : u.buffer[k] = t.buffer[k]
  <2>1. /\ CommitTyped(u, low) /\ u.buffer = t.buffer /\ u.provider = t.provider
        /\ u.selected = t.selected
    BY <1>3, FailureKeeps DEF Keeps
  <2> QED BY <1>2, <1>3, <2>1, SameIsCarried
<1>4. CASE u = v /\ t.success
  <2>1. CommitShape(u, low..(-1))
    BY CommitFeaturesShape DEF CommitTyped
  <2>2. /\ u.provider = [t.provider EXCEPT !.rows = rows, !.nextFid = next + Cardinality(A)]
        /\ u.buffer = [t.buffer EXCEPT !.addedFeatures = EmptyMap]
        /\ u.selected = sel /\ u.success = t.success
    <3> HIDE DEF rows, sel, A
    <3> QED BY <1>4 DEF CommitTyped, CommitShape
  <2>3. A \subseteq Int /\ IsFiniteSet(A) /\ Cardinality(A) \in Nat /\ \A g \in A : g < 0
    <3>1. A \subseteq low..(-1) /\ IsFiniteSet(low..(-1)) /\ low..(-1) \subseteq Int
      BY DEF CommitTyped, CommitShape
    <3>2. A \subseteq Int /\ IsFiniteSet(A) /\ \A g \in A : g < 0
      <4> HIDE DEF A
      <4>1. IsFiniteSet(A)
        BY <3>1, FS_Subset
      <4> QED BY <3>1, <4>1
    <3> HIDE DEF A
    <3> QED BY <3>2, FS_CardinalityType
  <2>4. \A g \in A : Permanent(g) \in Nat /\ Permanent(g) >= next
    BY <1>2, <2>3, PlaceAmongAdded
  <2>5. \A f, g \in A : Permanent(f) = Permanent(g) => f = g
    <3> SUFFICES ASSUME NEW f \in A, NEW g \in A, f # g PROVE Permanent(f) # Permanent(g)
      OBVIOUS
    <3>1. /\ Cardinality({h \in A : h > f}) \in Nat
          /\ Cardinality({h \in A : h > g}) \in Nat
      BY <2>3, PlaceAmongAdded
    <3>2. Cardinality({h \in A : h > f}) # Cardinality({h \in A : h > g})
      BY <2>3, PlacesApart
    <3> QED BY <1>2, <3>1, <3>2
  <2>6. DOMAIN t.provider.rows \subseteq 0..(next - 1)
    BY DEF CommitTyped, CommitShape, ProviderShape
  <2>7. \A g \in A : /\ IsFeature(added[g]) /\ DOMAIN Stored(added[g]) = {"attrs", "geom"}
                     /\ Stored(added[g]).attrs = NewRow(added[g]).attrs
                     /\ Stored(added[g]).geom = added[g].geom
                     /\ DOMAIN Stored(added[g]).attrs = 1..Columns
    <3> TAKE g \in A
    <3>1. IsFeature(added[g]) /\ Len(t.provider.fields) = Columns
      BY DEF CommitTyped, RowBuffer, ProviderTyped, Columns
    <3> QED BY <3>1 DEF IsFeature, NewRow
  <2> HIDE DEF Stored
  <2>8. ASSUME NEW g \in A
        PROVE  Permanent(g) \in DOMAIN rows /\ rows[Permanent(g)] = Stored(added[g])
    <3> DEFINE chosen == CHOOSE f \in A : Permanent(f) = Permanent(g)
    <3>1. chosen \in A /\ Permanent(chosen) = Permanent(g)
      OBVIOUS
    <3> HIDE DEF chosen, Permanent
    <3>2. chosen = g
      BY <2>5, <3>1
    <3>3. stored[Permanent(g)] = Stored(added[g]) /\ Permanent(g) \in DOMAIN stored
      BY <3>2 DEF chosen
    <3> HIDE DEF stored
    <3> QED BY <3>3
  <2>9. ASSUME NEW f \in DOMAIN t.provider.rows
        PROVE  f \in DOMAIN rows /\ rows[f] = t.provider.rows[f]
    <3>1. f < next
      BY <1>2, <2>6
    <3>2. \A g \in A : f # Permanent(g)
      <4> HIDE DEF Permanent
      <4> QED BY <1>2, <2>4, <2>6, <3>1
    <3> QED BY <3>2
  <2>10. DOMAIN rows = DOMAIN t.provider.rows \cup {Permanent(g) : g \in A}
    OBVIOUS
  <2> HIDE DEF rows, Permanent, stored
  <2>11. /\ u.provider.rows = rows /\ u.provider.nextFid = next + Cardinality(A)
         /\ u.provider.fields = t.provider.fields
         /\ u.buffer.addedFeatures = EmptyMap /\ DOMAIN EmptyMap = {}
         /\ \A k \in BufferFields \ {"addedFeatures"} : u.buffer[k] = t.buffer[k]
    BY <2>2 DEF CommitTyped, CommitShape, ProviderShape, IsBuffer, BufferFields, EmptyMap
  <2>12. /\ u.buffer.deletedFeatureIds = {}
         /\ u.buffer.changedGeometries = t.buffer.changedGeometries
         /\ u.buffer.changedAttributeValues = EmptyMap
         /\ t.buffer.deletedFeatureIds = {} /\ t.buffer.changedAttributeValues = EmptyMap
         /\ u.buffer.deletedAttributeIds = t.buffer.deletedAttributeIds
         /\ u.buffer.addedAttributes = t.buffer.addedAttributes
    BY <1>4, <2>11 DEF BufferFields
  <2>13. ProviderTyped(u.provider)
    <3>1. ASSUME NEW f \in DOMAIN rows
          PROVE  DOMAIN rows[f] = {"attrs", "geom"} /\ DOMAIN rows[f].attrs = 1..Columns
      <4>1. CASE f \in DOMAIN t.provider.rows
        BY <2>9, <4>1 DEF CommitTyped, ProviderTyped
      <4>2. CASE f \in {Permanent(g) : g \in A}
        BY <2>7, <2>8, <4>2
      <4> QED BY <2>10, <4>1, <4>2
    <3> QED BY <2>11, <3>1 DEF CommitTyped, ProviderTyped
  <2>14. RowBuffer(u.buffer, u.provider.nextFid) /\ u.provider.nextFid >= next
    BY <1>2, <2>3, <2>11, <2>12 DEF CommitTyped, RowBuffer, NoFieldEdits
  <2>15. /\ VisibleFids(t.provider, t.buffer) = DOMAIN t.provider.rows \cup A
         /\ VisibleFids(u.provider, u.buffer) = DOMAIN rows
    BY <2>11, <2>12 DEF VisibleFids
  <2>16. \A f : ValuesOf(u.buffer, f) = EmptyMap /\ ValuesOf(t.buffer, f) = EmptyMap
    BY <2>11, <2>12 DEF ValuesOf
  <2>17. ASSUME NEW g \in A
         PROVE  /\ Permanent(g) \in VisibleFids(u.provider, u.buffer)
                /\ RowRead(u.provider, u.buffer, Permanent(g)) = RowRead(t.provider, t.buffer, g)
    <3>1. Permanent(g) \notin DOMAIN t.buffer.changedGeometries
      BY <1>2, <2>4 DEF CommitTyped, RowBuffer
    <3>2. OverlaidGeometry(u.provider, u.buffer, Permanent(g)) = added[g].geom
      BY <2>7, <2>8, <2>11, <2>12, <3>1 DEF OverlaidGeometry
    <3>3. Overlaid(rows[Permanent(g)].attrs, EmptyMap) = NewRow(added[g]).attrs
      <4>1. rows[Permanent(g)].attrs = NewRow(added[g]).attrs
        BY <2>7, <2>8
      <4>2. NewRow(added[g]).attrs = [i \in 1..Columns |-> Attribute(added[g], i)]
        BY DEF NewRow
      <4> QED BY <2>11, <4>1, <4>2 DEF Overlaid
    <3>4. RowRead(u.provider, u.buffer, Permanent(g))
            = [attrs |-> NewRow(added[g]).attrs, geom |-> added[g].geom]
      BY <2>11, <2>16, <3>2, <3>3 DEF RowRead
    <3> QED BY <2>8, <2>15, <3>4 DEF RowRead, NewRow
  <2>18. ASSUME NEW f \in DOMAIN t.provider.rows
         PROVE  /\ f \in VisibleFids(u.provider, u.buffer)
                /\ f \notin A /\ f >= 0 /\ f < next
                /\ RowRead(u.provider, u.buffer, f) = RowRead(t.provider, t.buffer, f)
    <3>1. f \notin A /\ f >= 0 /\ f < next
      BY <1>2, <2>3, <2>6
    <3>2. OverlaidGeometry(u.provider, u.buffer, f) = OverlaidGeometry(t.provider, t.buffer, f)
      BY <2>9, <2>11, <2>12 DEF OverlaidGeometry
    <3> QED BY <2>9, <2>11, <2>15, <2>16, <3>1, <3>2 DEF RowRead
  <2> DEFINE before == Layer(t.provider, t.buffer)
             after == Layer(u.provider, u.buffer)
  <2>19. /\ before.fields = after.fields
         /\ DOMAIN before.rows = DOMAIN t.provider.rows \cup A
         /\ DOMAIN after.rows = DOMAIN rows
         /\ \A f \in DOMAIN before.rows : before.rows[f] = RowRead(t.provider, t.buffer, f)
         /\ \A f \in DOMAIN after.rows : after.rows[f] = RowRead(u.provider, u.buffer, f)
    <3>1. before = [fields |-> LayerFields,
                    rows |-> [f \in VisibleFids(t.provider, t.buffer) |->
                                  RowRead(t.provider, t.buffer, f)]]
      BY LayerRead DEF CommitTyped, RowBuffer
    <3>2. after = [fields |-> LayerFields,
                   rows |-> [f \in VisibleFids(u.provider, u.buffer) |->
                                 RowRead(u.provider, u.buffer, f)]]
      BY <2>13, <2>14, LayerRead DEF RowBuffer
    <3> HIDE DEF before, after
    <3> QED BY <2>15, <3>1, <3>2
  <2> HIDE DEF before, after
  <2> DEFINE pi == [f \in DOMAIN before.rows |-> IF f \in A THEN Permanent(f) ELSE f]
  <2>20. CarriedBy(pi, before, after, t.selected, u.selected)
    <3>1. pi \in [DOMAIN before.rows -> DOMAIN after.rows]
      BY <2>10, <2>19
    <3>2. \A f, g \in DOMAIN before.rows : pi[f] = pi[g] => f = g
      <4>1. \A f \in A, g \in DOMAIN t.provider.rows : Permanent(f) # g
        BY <1>2, <2>4, <2>6
      <4> QED BY <2>5, <2>19, <4>1
    <3>3. \A h \in DOMAIN after.rows : \E f \in DOMAIN before.rows : pi[f] = h
      <4>1. \A h \in DOMAIN t.provider.rows : h \in DOMAIN before.rows /\ pi[h] = h
        BY <2>18, <2>19
      <4>2. \A g \in A : g \in DOMAIN before.rows /\ pi[g] = Permanent(g)
        BY <2>19
      <4> HIDE DEF pi
      <4> QED BY <2>10, <2>19, <4>1, <4>2
    <3>4. ASSUME NEW f \in DOMAIN before.rows
          PROVE  /\ after.rows[pi[f]] = before.rows[f]
                 /\ f >= 0 => pi[f] = f
                 /\ f \in t.selected => pi[f] \in u.selected
      <4>1. CASE f \in A
        BY <2>2, <2>3, <2>8, <2>17, <2>19, <4>1
      <4>2. CASE f \notin A
        BY <2>2, <2>9, <2>18, <2>19, <4>2
      <4> QED BY <4>1, <4>2
    <3> HIDE DEF pi
    <3> QED BY <3>1, <3>2, <3>3, <3>4 DEF CarriedBy
  <2>21. Carried(before, after, t.selected, u.selected)
    BY <2>19, <2>20 DEF Carried
  <2> QED BY <1>4, <2>1, <2>2, <2>11, <2>13, <2>14, <2>21 DEF CommitTyped, before, after
<1>5. u = Failed(t) => ~u.success
  BY FailureKeeps
<1> QED BY <1>1, <1>3, <1>4, <1>5

\* Stages that read alike put together.
LEMMA CarriedOn ==
    ASSUME NEW t, NEW u, NEW v, NEW w, Keeps(t, u),
           Carried(Layer(u.provider, u.buffer), Layer(v.provider, v.buffer),
                   u.selected, v.selected),
           Keeps(v, w)
    PROVE  Carried(Layer(t.provider, t.buffer), Layer(w.provider, w.buffer),
                   t.selected, w.selected)
BY DEF Keeps

LEMMA CommitRows ==
    ASSUME NEW p, ProviderShape(p), ProviderTyped(p), NEW b, IsBuffer(b),
           NEW low \in Int, IdsWithin(b, low), RowBuffer(b, p.nextFid),
           NEW sel, NEW fails, NEW t, t = Committed(p, b, sel, fails)
    PROVE  /\ ProviderTyped(t.provider) /\ RowBuffer(t.buffer, t.provider.nextFid)
           /\ t.provider.nextFid >= p.nextFid
           /\ t.success => t.buffer = EmptyBuffer
           /\ Carried(Layer(p, b), Layer(t.provider, t.buffer), sel, t.selected)
<1> DEFINE start == [provider |-> p, buffer |-> b, selected |-> sel,
                     success |-> TRUE, attributesChanged |-> FALSE]
           t1 == CommitChangedAttributes(start, fails)
           t2 == CommitDeletedFeatures(t1, fails)
           t3 == CommitAddedFeatures(t2, fails)
           t4 == CommitChangedGeometries(t3, fails)
<1>1. t = t4
  BY CommitOfRows DEF RowBuffer
<1>2. /\ CommitTyped(start, low)
      /\ start.provider = p /\ start.buffer = b /\ start.selected = sel
  BY FS_Interval DEF CommitTyped, CommitShape, IdsWithin
<1> HIDE DEF start
<1>3. /\ CommitTyped(t1, low) /\ Keeps(start, t1)
      /\ t1.success => t1.buffer.changedAttributeValues = EmptyMap
  BY <1>2, AttributesKeep
<1> HIDE DEF t1
<1>4. /\ CommitTyped(t2, low) /\ Keeps(t1, t2)
      /\ t2.success => /\ t2.buffer.deletedFeatureIds = {}
                       /\ t2.buffer.changedAttributeValues = EmptyMap
  BY <1>3, DeletedKeep
<1> HIDE DEF t2
<1>5. /\ CommitTyped(t3, low) /\ t3.provider.nextFid >= t2.provider.nextFid
      /\ Carried(Layer(t2.provider, t2.buffer), Layer(t3.provider, t3.buffer),
                 t2.selected, t3.selected)
      /\ t3.success => t2.success /\ t3.buffer.addedFeatures = EmptyMap
      /\ \A k \in BufferFields \ {"addedFeatures"} : t3.buffer[k] = t2.buffer[k]
  BY <1>4, AddedCarried
<1> HIDE DEF t3
<1>6. /\ CommitTyped(t4, low) /\ Keeps(t3, t4)
      /\ t4.success => t3.success /\ t4.buffer.changedGeometries = EmptyMap
      /\ \A k \in BufferFields \ {"changedGeometries"} : t4.buffer[k] = t3.buffer[k]
  BY <1>5, GeometriesKeep
<1> HIDE DEF t4
<1>7. Keeps(start, t2)
  BY <1>3, <1>4 DEF Keeps
<1>8. Carried(Layer(p, b), Layer(t4.provider, t4.buffer), sel, t4.selected)
  BY <1>2, <1>5, <1>6, <1>7, CarriedOn
<1>9. t4.provider.nextFid >= p.nextFid
  BY <1>2, <1>5, <1>6, <1>7 DEF Keeps, CommitTyped, CommitShape, ProviderShape
<1>10. ASSUME t4.success PROVE t4.buffer = EmptyBuffer
  <2>1. /\ t4.buffer.deletedFeatureIds = {} /\ t4.buffer.addedFeatures = EmptyMap
        /\ t4.buffer.changedAttributeValues = EmptyMap
        /\ t4.buffer.changedGeometries = EmptyMap
    BY <1>4, <1>5, <1>6, <1>10 DEF BufferFields
  <2>2. t4.buffer.deletedAttributeIds = <<>> /\ t4.buffer.addedAttributes = <<>>
    BY <1>6 DEF CommitTyped, RowBuffer, NoFieldEdits
  <2>3. IsBuffer(t4.buffer)
    BY <1>6 DEF CommitTyped, CommitShape
  <2> QED BY <2>1, <2>2, <2>3 DEF IsBuffer, BufferFields, EmptyBuffer
<1> QED BY <1>1, <1>6, <1>8, <1>9, <1>10 DEF CommitTyped

LEMMA CommitCarries ==
    ASSUME SInv, RInv, NEW fails, CommitChanges(fails)
    PROVE  RInv' /\ Carried(CurrentLayer, CurrentLayer', selected, selected')
<1> DEFINE t == Committed(provider, buffer, selected, fails)
<1>1. /\ ProviderTyped(t.provider) /\ RowBuffer(t.buffer, t.provider.nextFid)
      /\ t.provider.nextFid >= provider.nextFid
      /\ t.success => t.buffer = EmptyBuffer
      /\ Carried(Layer(provider, buffer), Layer(t.provider, t.buffer), selected, t.selected)
  BY CommitRows DEF SInv, RInv
<1>2. provider.nextFid \in Nat /\ ProviderShape(t.provider)
  BY CommittedShape DEF SInv, ProviderShape
<1>3. /\ provider' = t.provider /\ selected' = t.selected
      /\ \/ t.success /\ buffer' = EmptyBuffer /\ stack' = <<>>
         \/ buffer' = t.buffer /\ stack' = stack
  BY DEF CommitChanges
<1> HIDE DEF t
<1>4. buffer' = t.buffer
  BY <1>1, <1>3
<1>5. RowStack(stack', provider'.nextFid)
  <2>1. CASE stack' = <<>>
    BY <2>1, NoElements DEF RowStack
  <2>2. CASE stack' = stack
    <3> SUFFICES ASSUME NEW i \in 1..Len(stack), NEW n \in 1..Len(stack[i].commands)
                 PROVE  RowCommand(stack[i].commands[n], provider'.nextFid)
      BY <2>2 DEF RowStack, RowCommands
    <3> DEFINE c == stack[i].commands[n]
    <3>1. RowCommand(c, provider.nextFid) /\ KnownCommand(c, lowWaterMark)
      BY DEF RInv, RowStack, RowCommands, SInv, KnownStack, KnownEntry, KnownCommands
    <3> HIDE DEF c
    <3>2. c.fid \in Int /\ t.provider.nextFid \in Int
      BY <1>2, <3>1 DEF KnownCommand, RowCommand, ProviderShape
    <3>3. RowCommand(c, t.provider.nextFid)
      BY <1>1, <1>2, <3>1, <3>2 DEF RowCommand
    <3> QED BY <1>3, <3>3 DEF c
  <2> QED BY <1>3, <2>1, <2>2
<1>6. RInv'
  BY <1>1, <1>3, <1>4, <1>5 DEF RInv
<1> QED BY <1>1, <1>3, <1>4, <1>6 DEF CurrentLayer

LEMMA InitRows == Init => RInv
<1> SUFFICES ASSUME Init PROVE RInv
  OBVIOUS
<1>1. ProviderTyped(provider)
  BY ProviderAssumption, ColumnsNumber DEF Init, ProviderTyped
<1> QED BY <1>1, EmptyRowBuffer, NoElements DEF Init, RInv, RowStack

LEMMA NextRows ==
    ASSUME FeaturesOnly, SInv, RInv, [Next]_vars
    PROVE  /\ RInv'
           /\ provider' # provider => Carried(CurrentLayer, CurrentLayer', selected, selected')
<1>1. ASSUME UNCHANGED <<provider, buffer, stack>> PROVE RInv'
  BY <1>1 DEF RInv
<1>2. ~EditFields
  BY DEF EditFields, AddAttribute, DeleteAttribute, Editable, FeaturesOnly
<1>3. CASE EditFeature
  <2>1. PICK c : Push(c)
    BY <1>3 DEF EditFeature, AddFeature, DeleteFeature, ChangeGeometry, ChangeAttributeValue
  <2>2. UNCHANGED provider
    BY <2>1 DEF Push
  <2> QED BY <1>3, <2>2, EditFeatureRows
<1>4. CASE UseUndoStack
  <2>1. UNCHANGED provider
    <3>1. BeginEditCommand => UNCHANGED provider
      BY DEF BeginEditCommand
    <3>2. EndEditCommand => UNCHANGED provider
      BY DEF EndEditCommand
    <3>3. DestroyEditCommand => UNCHANGED provider
      BY DEF DestroyEditCommand
    <3>4. Undo => UNCHANGED provider
      BY DEF Undo
    <3>5. Redo => UNCHANGED provider
      BY DEF Redo
    <3> QED BY <1>4, <3>1, <3>2, <3>3, <3>4, <3>5 DEF UseUndoStack
  <2> QED BY <1>4, <2>1, UndoStackRows
<1>5. CASE StartEditing
  BY <1>1, <1>5 DEF StartEditing, stackVars
<1>6. ASSUME NEW fails, CommitChanges(fails)
      PROVE  RInv' /\ Carried(CurrentLayer, CurrentLayer', selected, selected')
  BY <1>6, CommitCarries
<1>7. ASSUME NEW deleteBuffer, RollBack(deleteBuffer)
      PROVE  RInv' /\ UNCHANGED provider
  <2>1. UNCHANGED provider
    BY <1>7 DEF RollBack
  <2> QED BY <1>7, <2>1, RollBackRows
<1>8. ASSUME NEW fids, Select(fids) PROVE UNCHANGED <<provider, buffer, stack>>
  BY <1>8 DEF Select, stackVars
<1>9. CASE Rendering
  BY <1>1, <1>9 DEF Rendering, StartRenderJob, FinishRenderJob, stackVars
<1>10. CASE UNCHANGED vars
  BY <1>1, <1>10 DEF vars
<1> QED BY <1>1, <1>2, <1>3, <1>4, <1>5, <1>6, <1>7, <1>8, <1>9, <1>10 DEF Next, Session

\* What is edited stays within the data source's fields and ids.
THEOREM RowsInvariant ==
    ASSUME FeaturesOnly
    PROVE  Spec => [](SInv /\ RInv)
<1>1. Init => SInv /\ RInv
  BY InitSession, InitRows
<1>2. SInv /\ RInv /\ [Next]_vars => SInv' /\ RInv'
  BY NextSession, NextRows
<1> QED BY <1>1, <1>2, PTL DEF Spec

\* Editing features only, over commits that fail at any stage and what is undone
\* and redone after them: attribute lists stay as long as the field list.
THEOREM AttributesStayTyped ==
    ASSUME FeaturesOnly
    PROVE  Spec => []TypeOK
<1>1. ASSUME SInv, RInv PROVE TypeOK
  <2>1. /\ editing \in BOOLEAN /\ macroOpen \in BOOLEAN /\ job.running \in BOOLEAN
        /\ alive \in BOOLEAN /\ damaged \in BOOLEAN
        /\ lowWaterMark \in Int /\ lowWaterMark < 0
        /\ index \in 0..Len(stack)
    BY <1>1 DEF SInv, Flags
  <2>2. DOMAIN stack = 1..Len(stack)
    BY <1>1, SeqShape DEF SInv, KnownStack
  <2>3. \A fid \in DOMAIN provider.rows :
            /\ fid \in 0..(provider.nextFid - 1)
            /\ DOMAIN provider.rows[fid].attrs = DOMAIN provider.fields
    BY <1>1, ColumnsNumber DEF SInv, RInv, ProviderShape, ProviderTyped
  <2>4. ASSUME NEW fid \in DOMAIN buffer.addedFeatures
        PROVE  /\ IsNew(fid)
               /\ Len(buffer.addedFeatures[fid].attrs) = Len(PendingFields(provider, buffer))
    <3>1. IsNew(fid)
      BY <1>1 DEF SInv, IdsWithin, IsNew
    <3>2. Len(PendingFields(provider, buffer)) = FieldCount
      BY <1>1, FieldsStay DEF RInv, RowBuffer, FieldCount
    <3> DEFINE attrs == buffer.addedFeatures[fid].attrs
    <3>3. attrs = [i \in 1..FieldCount |-> attrs[i]]
      BY <1>1 DEF RInv, RowBuffer, IsFeature
    <3> HIDE DEF attrs
    <3>4. Len(attrs) = FieldCount
      <4>1. Len([i \in 1..FieldCount |-> attrs[i]]) = FieldCount
        BY FieldsCounted
      <4> QED BY <3>3, <4>1
    <3> QED BY <3>1, <3>2, <3>4 DEF attrs
  <2> QED BY <2>1, <2>2, <2>3, <2>4 DEF TypeOK
<1> QED BY <1>1, RowsInvariant, PTL

Bearing(layer, row) == {f \in DOMAIN layer.rows : layer.rows[f] = row}

\* As many features have one content after ids were handed out as before.
LEMMA AsMany ==
    ASSUME NEW before, NEW after, NEW sel, NEW now,
           NEW pi, CarriedBy(pi, before, after, sel, now),
           IsFiniteSet(DOMAIN before.rows), NEW row
    PROVE  Cardinality(Bearing(before, row)) = Cardinality(Bearing(after, row))
<1> DEFINE S == {f \in DOMAIN before.rows : before.rows[f] = row}
           T == {f \in DOMAIN after.rows : after.rows[f] = row}
           m == [f \in S |-> pi[f]]
<1>1. m \in [S -> T] /\ \A f, g \in S : m[f] = m[g] => f = g
  BY DEF CarriedBy
<1>2. \A h \in T : \E f \in S : m[f] = h
  BY DEF CarriedBy
<1>3. IsFiniteSet(S)
  <2>1. S \subseteq DOMAIN before.rows
    OBVIOUS
  <2> HIDE DEF S
  <2> QED BY <2>1, FS_Subset
<1> HIDE DEF S, T, m
<1>4. m \in Bijection(S, T)
  BY <1>1, <1>2 DEF Bijection, Injection, Surjection, IsInjective
<1>5. ExistsBijection(S, T)
  BY <1>4 DEF ExistsBijection
<1> QED BY <1>3, <1>5, FS_Bijection DEF S, T, Bearing

LEMMA CarriedContent ==
    ASSUME NEW before, NEW after, NEW sel, NEW now, Carried(before, after, sel, now),
           IsFiniteSet(DOMAIN before.rows)
    PROVE  History!SameContent(before, after)
<1>1. PICK pi : CarriedBy(pi, before, after, sel, now)
  BY DEF Carried
<1>2. \A row : Cardinality(Bearing(before, row)) = Cardinality(Bearing(after, row))
  <2> TAKE row
  <2> QED BY <1>1, AsMany
<1>3. \A f \in DOMAIN before.rows :
          f >= 0 => f \in DOMAIN after.rows /\ after.rows[f] = before.rows[f]
  BY <1>1 DEF CarriedBy
<1>4. \A row : Cardinality({f \in DOMAIN before.rows : before.rows[f] = row})
                = Cardinality({f \in DOMAIN after.rows : after.rows[f] = row})
  BY <1>2 DEF Bearing
<1>5. before.fields = after.fields
  BY DEF Carried
<1>6. \A S : History!Cardinality(S) = Cardinality(S)
  BY DEF History!Cardinality, Cardinality
<1> QED BY <1>3, <1>4, <1>5, <1>6 DEF History!SameContent

LEMMA FinitelyManyVisible ==
    ASSUME SInv
    PROVE  IsFiniteSet(DOMAIN CurrentLayer.rows)
<1>1. DOMAIN CurrentLayer.rows = VisibleFids(provider, buffer)
  BY DEF CurrentLayer, Layer
<1>2. VisibleFids(provider, buffer) \subseteq lowWaterMark..(provider.nextFid - 1)
  BY DEF VisibleFids, SInv, ProviderShape, IdsWithin
<1>3. IsFiniteSet(lowWaterMark..(provider.nextFid - 1))
  BY FS_Interval DEF SInv, ProviderShape
<1> QED BY <1>1, <1>2, <1>3, FS_Subset

\* A commit, also one that fails at any of its stages, and the next one after it,
\* changes nothing a reader of the layer sees but the ids of new features.
THEOREM CommitAlwaysKeepsLayer ==
    ASSUME FeaturesOnly
    PROVE  Spec => CommitKeepsLayer
<1>1. ASSUME SInv, RInv, [Next]_vars, provider' # provider
      PROVE  History!SameContent(CurrentLayer, CurrentLayer')
  <2>1. Carried(CurrentLayer, CurrentLayer', selected, selected')
    BY <1>1, NextRows
  <2>2. IsFiniteSet(DOMAIN CurrentLayer.rows)
    BY <1>1, FinitelyManyVisible
  <2> QED BY <2>1, <2>2, CarriedContent
<1>2. SInv /\ RInv /\ [Next]_vars =>
        [provider' # provider => History!SameContent(CurrentLayer, CurrentLayer')]_vars
  BY <1>1
<1> QED BY <1>2, RowsInvariant, PTL DEF Spec, CommitKeepsLayer

\* The selection is, after a commit that gives its features other ids, on the
\* features it was on; so it is after a commit that failed.
THEOREM SelectionAlwaysFollowsCommit ==
    ASSUME FeaturesOnly
    PROVE  Spec => SelectionFollowsCommit
<1> DEFINE Follows ==
        provider' # provider =>
            \A fid \in selected :
                fid \in VisibleFids(provider, buffer) =>
                    \E g \in selected' :
                        /\ g \in VisibleFids(provider', buffer')
                        /\ CurrentLayer'.rows[g] = CurrentLayer.rows[fid]
<1>1. ASSUME SInv, RInv, [Next]_vars, provider' # provider,
             NEW fid \in selected, fid \in VisibleFids(provider, buffer)
      PROVE  \E g \in selected' :
                /\ g \in VisibleFids(provider', buffer')
                /\ CurrentLayer'.rows[g] = CurrentLayer.rows[fid]
  <2>1. /\ DOMAIN CurrentLayer.rows = VisibleFids(provider, buffer)
        /\ DOMAIN CurrentLayer'.rows = VisibleFids(provider', buffer')
    BY DEF CurrentLayer, Layer
  <2>2. PICK pi : CarriedBy(pi, CurrentLayer, CurrentLayer', selected, selected')
    BY <1>1, NextRows DEF Carried
  <2>3. /\ pi[fid] \in DOMAIN CurrentLayer'.rows /\ pi[fid] \in selected'
        /\ CurrentLayer'.rows[pi[fid]] = CurrentLayer.rows[fid]
    BY <1>1, <2>1, <2>2 DEF CarriedBy
  <2> QED BY <2>1, <2>3
<1>2. SInv /\ RInv /\ [Next]_vars => [Follows]_vars
  BY <1>1
<1> QED BY <1>2, RowsInvariant, PTL DEF Spec, SelectionFollowsCommit

-----------------------------------------------------------------------------
(* Editing features only, as long as no commit failed: what each command   *)
(* does to the buffer, and that undo() takes it back.                      *)

\* A finished render job replaces the cache the old geometries are read from:
\* what is said of changed geometries is said of layers nobody draws meanwhile.
Undrawn == RenderExtents = {}

IsMap(m) == m = [k \in DOMAIN m |-> m[k]]

GoodFeature(f) ==
    /\ f = [attrs |-> f.attrs, geom |-> f.geom]
    /\ IsMap(f.attrs)
    /\ f.geom # NoGeometry

GoodGeometries(m) ==
    /\ IsMap(m)
    /\ \A fid \in DOMAIN m : ~IsNew(fid) /\ m[fid] # NoGeometry

GoodAdded(m) == IsMap(m) /\ \A fid \in DOMAIN m : GoodFeature(m[fid])

GoodValues(m) ==
    /\ IsMap(m)
    /\ \A fid \in DOMAIN m : IsMap(m[fid]) /\ m[fid] # EmptyMap

GoodBuffer(b) ==
    /\ IsBuffer(b)
    /\ b.deletedAttributeIds = <<>> /\ b.addedAttributes = <<>>
    /\ GoodAdded(b.addedFeatures)
    /\ GoodValues(b.changedAttributeValues)
    /\ Undrawn => GoodGeometries(b.changedGeometries)

KeepsAdded(x, y) == y.addedFeatures = x.addedFeatures
KeepsDeleted(x, y) == y.deletedFeatureIds = x.deletedFeatureIds
KeepsValues(x, y) == y.changedAttributeValues = x.changedAttributeValues
KeepsGeometries(x, y) == y.changedGeometries = x.changedGeometries

\* What command c made of buffer x, and what it noted down of x to undo it.
Adds(c, x, y) ==
    /\ c.op = "addFeature"
    /\ c.fid \notin DOMAIN x.addedFeatures /\ IsNew(c.fid)
    /\ y.addedFeatures = Put(x.addedFeatures, c.fid, c.feature)
    /\ KeepsDeleted(x, y) /\ KeepsValues(x, y) /\ KeepsGeometries(x, y)

DropsAdded(c, x, y) ==
    /\ c.op = "deleteFeature" /\ IsNew(c.fid)
    /\ c.fid \in DOMAIN x.addedFeatures
    /\ c.feature = x.addedFeatures[c.fid]
    /\ y.addedFeatures = Without(x.addedFeatures, {c.fid})
    /\ KeepsDeleted(x, y) /\ KeepsValues(x, y) /\ KeepsGeometries(x, y)

HidesStored(c, x, y) ==
    /\ c.op = "deleteFeature" /\ ~IsNew(c.fid)
    /\ c.fid \notin x.deletedFeatureIds
    /\ y.deletedFeatureIds = x.deletedFeatureIds \cup {c.fid}
    /\ KeepsAdded(x, y) /\ KeepsValues(x, y) /\ KeepsGeometries(x, y)

MovesAdded(c, x, y) ==
    /\ c.op = "changeGeometry" /\ IsNew(c.fid)
    /\ {"op", "fid", "new", "old"} \subseteq DOMAIN c
    /\ c.fid \in DOMAIN x.addedFeatures
    /\ c.old = x.addedFeatures[c.fid].geom
    /\ y.addedFeatures = Put(x.addedFeatures, c.fid,
                             [attrs |-> x.addedFeatures[c.fid].attrs, geom |-> c.new])
    /\ KeepsDeleted(x, y) /\ KeepsValues(x, y) /\ KeepsGeometries(x, y)

MovesStored(c, x, y) ==
    /\ c.op = "changeGeometry" /\ ~IsNew(c.fid)
    /\ {"op", "fid", "new", "old"} \subseteq DOMAIN c
    /\ Undrawn => c.old = IF c.fid \in DOMAIN x.changedGeometries
                          THEN x.changedGeometries[c.fid] ELSE NoGeometry
    /\ c.old # NoGeometry => c.fid \in DOMAIN x.changedGeometries
    /\ y.changedGeometries = Put(x.changedGeometries, c.fid, c.new)
    /\ KeepsAdded(x, y) /\ KeepsDeleted(x, y) /\ KeepsValues(x, y)

WritesAdded(c, x, y) ==
    /\ c.op = "changeAttribute" /\ IsNew(c.fid)
    /\ c.fid \in DOMAIN x.addedFeatures
    /\ c.old = Attribute(x.addedFeatures[c.fid], c.field)
    /\ y.addedFeatures = Put(x.addedFeatures, c.fid,
                             SetAttribute(x.addedFeatures[c.fid], c.field, c.new))
    /\ KeepsDeleted(x, y) /\ KeepsValues(x, y) /\ KeepsGeometries(x, y)

WritesStored(c, x, y) ==
    /\ c.op = "changeAttribute" /\ ~IsNew(c.fid)
    /\ c.firstChange = (c.field \notin DOMAIN ValuesOf(x, c.fid))
    /\ ~c.firstChange => c.old = ValuesOf(x, c.fid)[c.field]
    /\ y.changedAttributeValues =
          Put(x.changedAttributeValues, c.fid,
              Put(ValuesOf(x, c.fid), c.field, c.new))
    /\ KeepsAdded(x, y) /\ KeepsDeleted(x, y) /\ KeepsGeometries(x, y)

Does(c, x, y) ==
    /\ GoodBuffer(x) /\ GoodBuffer(y)
    /\ \/ Adds(c, x, y) \/ DropsAdded(c, x, y) \/ HidesStored(c, x, y)
       \/ MovesAdded(c, x, y) \/ MovesStored(c, x, y)
       \/ WritesAdded(c, x, y) \/ WritesStored(c, x, y)

\* Changed geometries m are those of n; when they may have been drawn, at least
\* no other feature has one.
Within(m, n) ==
    /\ IsMap(m) /\ DOMAIN m \subseteq DOMAIN n
    /\ Undrawn => m = n

\* Buffer u is buffer x, for those who do not look at drawn geometries.
Matches(u, x) ==
    /\ IsBuffer(u)
    /\ KeepsAdded(x, u) /\ KeepsDeleted(x, u) /\ KeepsValues(x, u)
    /\ Within(u.changedGeometries, x.changedGeometries)
    /\ u.deletedAttributeIds = x.deletedAttributeIds
    /\ u.addedAttributes = x.addedAttributes

\* A changed geometry is in the layer's cache, where the next change of it
\* looks for the old one.
CachedIn(geometries, geomCache) ==
    \A fid \in DOMAIN geometries :
        fid \in DOMAIN geomCache /\ geomCache[fid] = geometries[fid]

Cached(s) == Undrawn => CachedIn(s.buffer.changedGeometries, s.cache)

Sound(s, x) ==
    /\ IsWorkspace(s) /\ s.alive
    /\ Matches(s.buffer, x)
    /\ Cached(s)

\* Maps: what is put in can be taken out again.
LEMMA SameMap ==
    ASSUME NEW m, NEW n, IsMap(m), IsMap(n), DOMAIN m = DOMAIN n,
           \A k \in DOMAIN m : m[k] = n[k]
    PROVE  m = n
BY DEF IsMap

LEMMA PutThenWithout ==
    ASSUME NEW m, IsMap(m), NEW k, k \notin DOMAIN m, NEW v
    PROVE  Without(Put(m, k, v), {k}) = m
<1> DEFINE p == Put(m, k, v)
           n == Without(p, {k})
<1>1. DOMAIN p = DOMAIN m \cup {k} /\ \A j \in DOMAIN m : p[j] = m[j]
  BY DEF Put, IsMap
<1>2. /\ IsMap(n) /\ DOMAIN n = DOMAIN p \ {k}
      /\ \A j \in DOMAIN p : j # k => n[j] = p[j]
  BY DEF Without, Restrict, IsMap
<1> HIDE DEF p, n
<1>3. DOMAIN n = DOMAIN m /\ \A j \in DOMAIN m : n[j] = m[j]
  BY <1>1, <1>2
<1>4. n = m
  BY <1>2, <1>3, SameMap
<1> QED BY <1>4 DEF n, p

LEMMA PutBack ==
    ASSUME NEW m, IsMap(m), NEW k, k \in DOMAIN m, NEW v, NEW e, e = m[k]
    PROVE  Put(Put(m, k, v), k, e) = m
<1> DEFINE p == Put(m, k, v)
           n == Put(p, k, e)
<1>1. DOMAIN p \cup {k} = DOMAIN m /\ \A j \in DOMAIN m : j # k => p[j] = m[j]
  BY DEF Put
<1> HIDE DEF p
<1>2. /\ IsMap(n) /\ DOMAIN n = DOMAIN p \cup {k} /\ n[k] = m[k]
      /\ \A j \in DOMAIN p : j # k => n[j] = p[j]
  BY DEF Put, IsMap
<1> HIDE DEF n
<1>3. DOMAIN n = DOMAIN m /\ \A j \in DOMAIN m : n[j] = m[j]
  BY <1>1, <1>2
<1>4. n = m
  BY <1>2, <1>3, SameMap
<1> QED BY <1>4 DEF n, p

LEMMA PutIn ==
    ASSUME NEW m, IsMap(m), NEW k, k \in DOMAIN m, NEW e, e = m[k]
    PROVE  Put(Without(m, {k}), k, e) = m
<1> DEFINE p == Without(m, {k})
           n == Put(p, k, e)
<1>1. DOMAIN p \cup {k} = DOMAIN m /\ \A j \in DOMAIN m : j # k => p[j] = m[j]
  BY DEF Without, Restrict
<1> HIDE DEF p
<1>2. /\ IsMap(n) /\ DOMAIN n = DOMAIN p \cup {k} /\ n[k] = m[k]
      /\ \A j \in DOMAIN p : j # k => n[j] = p[j]
  BY DEF Put, IsMap
<1> HIDE DEF n
<1>3. DOMAIN n = DOMAIN m /\ \A j \in DOMAIN m : n[j] = m[j]
  BY <1>1, <1>2
<1>4. n = m
  BY <1>2, <1>3, SameMap
<1> QED BY <1>4 DEF n, p

LEMMA PutTwice ==
    ASSUME NEW m, NEW k, NEW v, NEW w
    PROVE  Put(Put(m, k, v), k, w) = Put(m, k, w)
<1> DEFINE p == Put(m, k, v)
           n == Put(p, k, w)
           q == Put(m, k, w)
<1>1. /\ DOMAIN p = DOMAIN m \cup {k}
      /\ \A j \in DOMAIN m : j # k => p[j] = m[j]
  BY DEF Put, IsMap
<1>2. /\ IsMap(n) /\ DOMAIN n = DOMAIN p \cup {k} /\ n[k] = w
      /\ \A j \in DOMAIN p : j # k => n[j] = p[j]
  BY DEF Put, IsMap
<1>3. /\ IsMap(q) /\ DOMAIN q = DOMAIN m \cup {k} /\ q[k] = w
      /\ \A j \in DOMAIN m : j # k => q[j] = m[j]
  BY DEF Put, IsMap
<1> HIDE DEF p, n, q
<1>4. DOMAIN n = DOMAIN q /\ \A j \in DOMAIN n : n[j] = q[j]
  BY <1>1, <1>2, <1>3
<1>5. n = q
  BY <1>2, <1>3, <1>4, SameMap
<1> QED BY <1>5 DEF n, p, q

\* What a redo() or an undo() leaves, field by field.
Leaves(r, s, added, deleted, values, geometries, geomCache) ==
    /\ IsWorkspace(r) /\ r.alive = s.alive
    /\ r.buffer.addedFeatures = added
    /\ r.buffer.deletedFeatureIds = deleted
    /\ r.buffer.changedAttributeValues = values
    /\ r.buffer.changedGeometries = geometries
    /\ r.buffer.deletedAttributeIds = s.buffer.deletedAttributeIds
    /\ r.buffer.addedAttributes = s.buffer.addedAttributes
    /\ r.cache = geomCache

LEMMA AddFeatureLeaves ==
    ASSUME NEW s, IsWorkspace(s), NEW c
    PROVE  LET b == s.buffer IN
           /\ Leaves(RedoAddFeature(c, s), s, Put(b.addedFeatures, c.fid, c.feature),
                     b.deletedFeatureIds, b.changedAttributeValues,
                     b.changedGeometries, Put(s.cache, c.fid, c.feature.geom))
           /\ c.fid \in DOMAIN b.addedFeatures =>
                Leaves(UndoAddFeature(c, s), s, Without(b.addedFeatures, {c.fid}),
                       b.deletedFeatureIds, b.changedAttributeValues,
                       b.changedGeometries, Without(s.cache, {c.fid}))
BY DEF Leaves, RedoAddFeature, UndoAddFeature, Asserting, Holds, IsWorkspace, IsBuffer,
       BufferFields

LEMMA DeleteFeatureLeaves ==
    ASSUME NEW s, IsWorkspace(s), NEW c
    PROVE  LET b == s.buffer IN
           /\ IsNew(c.fid) =>
                /\ Leaves(RedoDeleteFeature(c, s), s, Without(b.addedFeatures, {c.fid}),
                          b.deletedFeatureIds, b.changedAttributeValues,
                          b.changedGeometries, s.cache)
                /\ Leaves(UndoDeleteFeature(c, s), s, Put(b.addedFeatures, c.fid, c.feature),
                          b.deletedFeatureIds, b.changedAttributeValues,
                          b.changedGeometries, s.cache)
           /\ ~IsNew(c.fid) =>
                /\ Leaves(RedoDeleteFeature(c, s), s, b.addedFeatures,
                          b.deletedFeatureIds \cup {c.fid}, b.changedAttributeValues,
                          b.changedGeometries, s.cache)
                /\ Leaves(UndoDeleteFeature(c, s), s, b.addedFeatures,
                          b.deletedFeatureIds \ {c.fid}, b.changedAttributeValues,
                          b.changedGeometries, s.cache)
BY DEF Leaves, RedoDeleteFeature, UndoDeleteFeature, IsWorkspace, IsBuffer, BufferFields

LEMMA GeometrySetLeaves ==
    ASSUME NEW s, IsWorkspace(s), NEW fid, NEW geom
    PROVE  LET b == s.buffer
               f == b.addedFeatures[fid] IN
           /\ IsNew(fid) /\ fid \in DOMAIN b.addedFeatures
              /\ GoodFeature(f) /\ IsMap(b.addedFeatures) =>
                Leaves(GeometrySet(s, fid, geom), s,
                       Put(b.addedFeatures, fid, [attrs |-> f.attrs, geom |-> geom]),
                       b.deletedFeatureIds, b.changedAttributeValues,
                       b.changedGeometries, Put(s.cache, fid, geom))
           /\ ~IsNew(fid) =>
                Leaves(GeometrySet(s, fid, geom), s, b.addedFeatures,
                       b.deletedFeatureIds, b.changedAttributeValues,
                       Put(b.changedGeometries, fid, geom), Put(s.cache, fid, geom))
<1> DEFINE b == s.buffer
           f == b.addedFeatures[fid]
<1> USE DEF GeometrySet, IsWorkspace, IsBuffer, BufferFields
<1>1. ASSUME IsNew(fid), fid \in DOMAIN b.addedFeatures, GoodFeature(f),
             IsMap(b.addedFeatures)
      PROVE  Leaves(GeometrySet(s, fid, geom), s,
                    Put(b.addedFeatures, fid, [attrs |-> f.attrs, geom |-> geom]),
                    b.deletedFeatureIds, b.changedAttributeValues,
                    b.changedGeometries, Put(s.cache, fid, geom))
  <2> DEFINE m == [b.addedFeatures EXCEPT ![fid].geom = geom]
             r == [s EXCEPT !.buffer.addedFeatures = m, !.cache = Put(s.cache, fid, geom)]
  <2>1. GeometrySet(s, fid, geom) = r
    BY <1>1 DEF Asserting, Holds
  <2>2. [f EXCEPT !.geom = geom] = [attrs |-> f.attrs, geom |-> geom]
    <3> HIDE DEF f
    <3> QED BY <1>1 DEF GoodFeature
  <2>3. m = Put(b.addedFeatures, fid, [attrs |-> f.attrs, geom |-> geom])
    <3>1. m = [b.addedFeatures EXCEPT ![fid] = [f EXCEPT !.geom = geom]]
      OBVIOUS
    <3> HIDE DEF m, f, b
    <3> QED BY <3>1, <2>2, <1>1 DEF Put, IsMap
  <2> HIDE DEF m
  <2>4. Leaves(r, s, m, b.deletedFeatureIds, b.changedAttributeValues,
               b.changedGeometries, Put(s.cache, fid, geom))
    BY DEF Leaves
  <2> HIDE DEF r
  <2> QED BY <2>1, <2>3, <2>4
<1>2. ASSUME ~IsNew(fid)
      PROVE  Leaves(GeometrySet(s, fid, geom), s, b.addedFeatures,
                    b.deletedFeatureIds, b.changedAttributeValues,
                    Put(b.changedGeometries, fid, geom), Put(s.cache, fid, geom))
  BY <1>2 DEF Leaves
<1> QED BY <1>1, <1>2

LEMMA AttributeSetLeaves ==
    ASSUME NEW s, IsWorkspace(s), NEW c, NEW value
    PROVE  LET b == s.buffer IN
           /\ IsNew(c.fid) /\ c.fid \in DOMAIN b.addedFeatures =>
                Leaves(AttributeSet(s, c, value), s,
                       Put(b.addedFeatures, c.fid,
                           SetAttribute(b.addedFeatures[c.fid], c.field, value)),
                       b.deletedFeatureIds, b.changedAttributeValues,
                       b.changedGeometries, s.cache)
           /\ ~IsNew(c.fid) =>
                Leaves(AttributeSet(s, c, value), s, b.addedFeatures,
                       b.deletedFeatureIds,
                       Put(b.changedAttributeValues, c.fid,
                           Put(ValuesOf(b, c.fid), c.field, value)),
                       b.changedGeometries, s.cache)
BY DEF Leaves, AttributeSet, Asserting, Holds, ValuesOf, IsWorkspace, IsBuffer, BufferFields

\* What was left fits the buffer after the command.
LEMMA LeavesSound ==
    ASSUME NEW s, NEW x, Sound(s, x), NEW y, NEW r, NEW added, NEW deleted,
           NEW values, NEW geometries, NEW geomCache,
           Leaves(r, s, added, deleted, values, geometries, geomCache),
           y.addedFeatures = added, y.deletedFeatureIds = deleted,
           y.changedAttributeValues = values,
           Within(geometries, y.changedGeometries),
           y.deletedAttributeIds = x.deletedAttributeIds,
           y.addedAttributes = x.addedAttributes,
           Undrawn => CachedIn(geometries, geomCache)
    PROVE  Sound(r, y)
<1>1. IsWorkspace(r) /\ r.alive
  BY DEF Leaves, Sound
<1>2. Matches(r.buffer, y)
  BY <1>1 DEF Leaves, Sound, Matches, IsWorkspace, KeepsAdded, KeepsDeleted, KeepsValues
<1>3. Cached(r)
  BY DEF Leaves, Cached
<1> QED BY <1>1, <1>2, <1>3 DEF Sound

LEMMA CacheOfNew ==
    ASSUME NEW s, NEW x, Sound(s, x), GoodBuffer(x), NEW fid, IsNew(fid), NEW geom, Undrawn
    PROVE  /\ CachedIn(s.buffer.changedGeometries, Put(s.cache, fid, geom))
           /\ CachedIn(s.buffer.changedGeometries, Without(s.cache, {fid}))
<1> SUFFICES ASSUME NEW g \in DOMAIN s.buffer.changedGeometries
             PROVE  /\ g \in DOMAIN Put(s.cache, fid, geom)
                    /\ Put(s.cache, fid, geom)[g] = s.buffer.changedGeometries[g]
                    /\ g \in DOMAIN Without(s.cache, {fid})
                    /\ Without(s.cache, {fid})[g] = s.buffer.changedGeometries[g]
  BY DEF CachedIn
<1>1. g # fid
  BY DEF Sound, Matches, Within, GoodBuffer, GoodAdded, GoodValues, GoodGeometries
<1>2. g \in DOMAIN s.cache /\ s.cache[g] = s.buffer.changedGeometries[g]
  BY DEF Sound, Cached, CachedIn
<1> QED BY <1>1, <1>2 DEF Put, Without, Restrict

LEMMA CacheKept ==
    ASSUME NEW s, NEW x, Sound(s, x), Undrawn
    PROVE  CachedIn(s.buffer.changedGeometries, s.cache)
BY DEF Sound, Cached

LEMMA CacheOfStored ==
    ASSUME NEW s, NEW x, Sound(s, x), Undrawn, NEW fid, NEW geom
    PROVE  CachedIn(Put(s.buffer.changedGeometries, fid, geom), Put(s.cache, fid, geom))
BY DEF Sound, Cached, CachedIn, Put

\* redo() makes of the buffer before a command the buffer after it.
LEMMA RedoDoes ==
    ASSUME NEW s, NEW x, NEW y, NEW c, Sound(s, x), Does(c, x, y)
    PROVE  Sound(Redone(c, s), y)
<1> DEFINE r == Redone(c, s)
           b == s.buffer
<1> USE DEF KeepsAdded, KeepsDeleted, KeepsValues, KeepsGeometries
<1>1. IsWorkspace(s) /\ GoodBuffer(x) /\ GoodBuffer(y)
  BY DEF Sound, Does
<1>2. /\ b.addedFeatures = x.addedFeatures
      /\ b.deletedFeatureIds = x.deletedFeatureIds
      /\ b.changedAttributeValues = x.changedAttributeValues
      /\ Within(b.changedGeometries, x.changedGeometries)
  BY DEF Sound, Matches
<1>3. /\ y.deletedAttributeIds = x.deletedAttributeIds
      /\ y.addedAttributes = x.addedAttributes
  BY <1>1 DEF GoodBuffer, GoodAdded, GoodValues
<1>4. CASE Adds(c, x, y)
  <2>1. r = RedoAddFeature(c, s)
    BY <1>4 DEF Redone, Adds
  <2>2. Leaves(r, s, y.addedFeatures, b.deletedFeatureIds, b.changedAttributeValues,
               b.changedGeometries, Put(s.cache, c.fid, c.feature.geom))
    BY <1>1, <1>2, <1>4, <2>1, AddFeatureLeaves DEF Adds
  <2>3. /\ y.deletedFeatureIds = b.deletedFeatureIds
        /\ y.changedAttributeValues = b.changedAttributeValues
        /\ Within(b.changedGeometries, y.changedGeometries)
        /\ IsNew(c.fid)
    BY <1>2, <1>4 DEF Adds
  <2>4. Undrawn => CachedIn(b.changedGeometries, Put(s.cache, c.fid, c.feature.geom))
    BY <1>1, <2>3, CacheOfNew
  <2> HIDE DEF r
  <2> QED BY <1>3, <2>2, <2>3, <2>4, LeavesSound DEF r
<1>5. CASE DropsAdded(c, x, y)
  <2>1. r = RedoDeleteFeature(c, s)
    BY <1>5 DEF Redone, DropsAdded
  <2>2. Leaves(r, s, y.addedFeatures, b.deletedFeatureIds, b.changedAttributeValues,
               b.changedGeometries, s.cache)
    BY <1>1, <1>2, <1>5, <2>1, DeleteFeatureLeaves DEF DropsAdded
  <2>3. /\ y.deletedFeatureIds = b.deletedFeatureIds
        /\ y.changedAttributeValues = b.changedAttributeValues
        /\ Within(b.changedGeometries, y.changedGeometries)
    BY <1>2, <1>5 DEF DropsAdded
  <2> HIDE DEF r
  <2> QED BY <1>3, <2>2, <2>3, CacheKept, LeavesSound DEF r
<1>6. CASE HidesStored(c, x, y)
  <2>1. r = RedoDeleteFeature(c, s)
    BY <1>6 DEF Redone, HidesStored
  <2>2. Leaves(r, s, b.addedFeatures, y.deletedFeatureIds, b.changedAttributeValues,
               b.changedGeometries, s.cache)
    BY <1>1, <1>2, <1>6, <2>1, DeleteFeatureLeaves DEF HidesStored
  <2>3. /\ y.addedFeatures = b.addedFeatures
        /\ y.changedAttributeValues = b.changedAttributeValues
        /\ Within(b.changedGeometries, y.changedGeometries)
    BY <1>2, <1>6 DEF HidesStored
  <2> HIDE DEF r
  <2> QED BY <1>3, <2>2, <2>3, CacheKept, LeavesSound DEF r
<1>7. CASE MovesAdded(c, x, y)
  <2>1. r = GeometrySet(s, c.fid, c.new)
    BY <1>7 DEF Redone, RedoChangeGeometry, MovesAdded
  <2>2. /\ IsNew(c.fid) /\ c.fid \in DOMAIN b.addedFeatures
        /\ GoodFeature(b.addedFeatures[c.fid]) /\ IsMap(b.addedFeatures)
    BY <1>1, <1>2, <1>7 DEF MovesAdded, GoodBuffer, GoodAdded, GoodValues
  <2>3. Leaves(r, s, y.addedFeatures, b.deletedFeatureIds, b.changedAttributeValues,
               b.changedGeometries, Put(s.cache, c.fid, c.new))
    BY <1>1, <1>2, <1>7, <2>1, <2>2, GeometrySetLeaves DEF MovesAdded
  <2>4. /\ y.deletedFeatureIds = b.deletedFeatureIds
        /\ y.changedAttributeValues = b.changedAttributeValues
        /\ Within(b.changedGeometries, y.changedGeometries)
    BY <1>2, <1>7 DEF MovesAdded
  <2>5. Undrawn => CachedIn(b.changedGeometries, Put(s.cache, c.fid, c.new))
    BY <1>1, <2>2, CacheOfNew
  <2> HIDE DEF r
  <2> QED BY <1>3, <2>2, <2>3, <2>4, <2>5, LeavesSound DEF r
<1>8. CASE MovesStored(c, x, y)
  <2>1. r = GeometrySet(s, c.fid, c.new) /\ ~IsNew(c.fid)
    BY <1>8 DEF Redone, RedoChangeGeometry, MovesStored
  <2>2. Leaves(r, s, b.addedFeatures, b.deletedFeatureIds, b.changedAttributeValues,
               Put(b.changedGeometries, c.fid, c.new), Put(s.cache, c.fid, c.new))
    BY <1>1, <2>1, GeometrySetLeaves
  <2>3. /\ y.addedFeatures = b.addedFeatures
        /\ y.deletedFeatureIds = b.deletedFeatureIds
        /\ y.changedAttributeValues = b.changedAttributeValues
        /\ Within(Put(b.changedGeometries, c.fid, c.new), y.changedGeometries)
    BY <1>2, <1>8 DEF MovesStored, Within, IsMap, Put
  <2>4. Undrawn => CachedIn(Put(b.changedGeometries, c.fid, c.new), Put(s.cache, c.fid, c.new))
    BY CacheOfStored
  <2> HIDE DEF r
  <2> QED BY <1>3, <2>2, <2>3, <2>4, LeavesSound DEF r
<1>9. CASE WritesAdded(c, x, y)
  <2>1. r = AttributeSet(s, c, c.new)
    BY <1>9 DEF Redone, RedoChangeAttribute, WritesAdded
  <2>2. Leaves(r, s, y.addedFeatures, b.deletedFeatureIds, b.changedAttributeValues,
               b.changedGeometries, s.cache)
    BY <1>1, <1>2, <1>9, <2>1, AttributeSetLeaves DEF WritesAdded
  <2>3. /\ y.deletedFeatureIds = b.deletedFeatureIds
        /\ y.changedAttributeValues = b.changedAttributeValues
        /\ Within(b.changedGeometries, y.changedGeometries)
    BY <1>2, <1>9 DEF WritesAdded
  <2> HIDE DEF r
  <2> QED BY <1>3, <2>2, <2>3, CacheKept, LeavesSound DEF r
<1>10. CASE WritesStored(c, x, y)
  <2>1. r = AttributeSet(s, c, c.new)
    BY <1>10 DEF Redone, RedoChangeAttribute, WritesStored
  <2>2. ValuesOf(b, c.fid) = ValuesOf(x, c.fid)
    BY <1>2 DEF ValuesOf
  <2>3. Leaves(r, s, b.addedFeatures, b.deletedFeatureIds, y.changedAttributeValues,
               b.changedGeometries, s.cache)
    BY <1>1, <1>2, <1>10, <2>1, <2>2, AttributeSetLeaves DEF WritesStored
  <2>4. /\ y.addedFeatures = b.addedFeatures
        /\ y.deletedFeatureIds = b.deletedFeatureIds
        /\ Within(b.changedGeometries, y.changedGeometries)
    BY <1>2, <1>10 DEF WritesStored
  <2> HIDE DEF r
  <2> QED BY <1>3, <2>3, <2>4, CacheKept, LeavesSound DEF r
<1> HIDE DEF r
<1> QED BY <1>4, <1>5, <1>6, <1>7, <1>8, <1>9, <1>10 DEF Does, r

LEMMA AttributeBack ==
    ASSUME NEW f, GoodFeature(f), NEW i, NEW v
    PROVE  SetAttribute(SetAttribute(f, i, v), i, Attribute(f, i)) = f
<1>1. CASE i \in DOMAIN f.attrs
  <2> DEFINE m == [f.attrs EXCEPT ![i] = v]
             n == [m EXCEPT ![i] = f.attrs[i]]
  <2>1. m = [k \in DOMAIN f.attrs |-> IF k = i THEN v ELSE f.attrs[k]]
    BY <1>1
  <2>2. n = [k \in DOMAIN f.attrs |-> f.attrs[k]]
    BY <1>1, <2>1
  <2>3. n = f.attrs
    BY <2>2 DEF GoodFeature, IsMap
  <2>4. SetAttribute(f, i, v) = [attrs |-> m, geom |-> f.geom]
    BY <1>1 DEF SetAttribute, GoodFeature
  <2> HIDE DEF m
  <2>5. SetAttribute([attrs |-> m, geom |-> f.geom], i, Attribute(f, i))
          = [attrs |-> n, geom |-> f.geom]
    BY <1>1, <2>1 DEF SetAttribute, Attribute
  <2> HIDE DEF n
  <2> QED BY <2>3, <2>4, <2>5 DEF GoodFeature
<1>2. CASE i \notin DOMAIN f.attrs
  BY <1>2 DEF SetAttribute
<1> QED BY <1>1, <1>2

LEMMA UndoGeometryLeaves ==
    ASSUME NEW s, IsWorkspace(s), NEW c, c.old = NoGeometry
    PROVE  \E geomCache :
              /\ Leaves(UndoChangeGeometry(c, s), s, s.buffer.addedFeatures,
                        s.buffer.deletedFeatureIds, s.buffer.changedAttributeValues,
                        Without(s.buffer.changedGeometries, {c.fid}), geomCache)
              /\ \A g \in DOMAIN s.cache :
                    g # c.fid => g \in DOMAIN geomCache /\ geomCache[g] = s.cache[g]
<1> DEFINE b == [s.buffer EXCEPT !.changedGeometries =
                    Without(s.buffer.changedGeometries, {c.fid})]
           n == IF c.fid \in VisibleFids(s.provider, b)
                THEN Put(s.cache, c.fid, s.provider.rows[c.fid].geom) ELSE s.cache
           r == UndoChangeGeometry(c, s)
<1>1. r = [s EXCEPT !.buffer = b, !.cache = n]
  BY DEF UndoChangeGeometry
<1>2. \A g \in DOMAIN s.cache : g # c.fid => g \in DOMAIN n /\ n[g] = s.cache[g]
  BY DEF Put
<1> HIDE DEF n, r
<1>3. Leaves(r, s, s.buffer.addedFeatures, s.buffer.deletedFeatureIds,
             s.buffer.changedAttributeValues,
             Without(s.buffer.changedGeometries, {c.fid}), n)
  BY <1>1 DEF Leaves, IsWorkspace, IsBuffer, BufferFields
<1> QED BY <1>2, <1>3 DEF r

\* undo() makes of the buffer after a command the buffer before it.
LEMMA UndoDoes ==
    ASSUME NEW s, NEW x, NEW y, NEW c, Does(c, x, y), Sound(s, y)
    PROVE  Sound(Undone(c, s), x)
<1> DEFINE r == Undone(c, s)
           b == s.buffer
<1> USE DEF KeepsAdded, KeepsDeleted, KeepsValues, KeepsGeometries
<1>1. IsWorkspace(s) /\ GoodBuffer(x) /\ GoodBuffer(y)
  BY DEF Sound, Does
<1>2. /\ b.addedFeatures = y.addedFeatures
      /\ b.deletedFeatureIds = y.deletedFeatureIds
      /\ b.changedAttributeValues = y.changedAttributeValues
      /\ Within(b.changedGeometries, y.changedGeometries)
  BY DEF Sound, Matches
<1>3. /\ x.deletedAttributeIds = y.deletedAttributeIds
      /\ x.addedAttributes = y.addedAttributes
  BY <1>1 DEF GoodBuffer, GoodAdded, GoodValues
<1>4. CASE Adds(c, x, y)
  <2>1. r = UndoAddFeature(c, s)
    BY <1>4 DEF Undone, Adds
  <2>2. Leaves(r, s, Without(b.addedFeatures, {c.fid}), b.deletedFeatureIds,
               b.changedAttributeValues, b.changedGeometries, Without(s.cache, {c.fid}))
    <3>1. c.fid \in DOMAIN b.addedFeatures
      BY <1>2, <1>4 DEF Adds, Put
    <3> QED BY <1>1, <2>1, <3>1, AddFeatureLeaves
  <2>3. Without(b.addedFeatures, {c.fid}) = x.addedFeatures
    BY <1>1, <1>2, <1>4, PutThenWithout DEF Adds, GoodBuffer, GoodAdded, GoodValues
  <2>4. /\ x.deletedFeatureIds = b.deletedFeatureIds
        /\ x.changedAttributeValues = b.changedAttributeValues
        /\ Within(b.changedGeometries, x.changedGeometries)
        /\ IsNew(c.fid)
    BY <1>2, <1>4 DEF Adds
  <2>5. Undrawn => CachedIn(b.changedGeometries, Without(s.cache, {c.fid}))
    BY <1>1, <2>4, CacheOfNew
  <2> HIDE DEF r
  <2> QED BY <1>3, <2>2, <2>3, <2>4, <2>5, LeavesSound DEF r
<1>5. CASE DropsAdded(c, x, y)
  <2>1. r = UndoDeleteFeature(c, s) /\ IsNew(c.fid)
    BY <1>5 DEF Undone, DropsAdded
  <2>2. Leaves(r, s, Put(b.addedFeatures, c.fid, c.feature), b.deletedFeatureIds,
               b.changedAttributeValues, b.changedGeometries, s.cache)
    BY <1>1, <2>1, DeleteFeatureLeaves
  <2>3. Put(b.addedFeatures, c.fid, c.feature) = x.addedFeatures
    BY <1>1, <1>2, <1>5, PutIn DEF DropsAdded, GoodBuffer, GoodAdded, GoodValues
  <2>4. /\ x.deletedFeatureIds = b.deletedFeatureIds
        /\ x.changedAttributeValues = b.changedAttributeValues
        /\ Within(b.changedGeometries, x.changedGeometries)
    BY <1>2, <1>5 DEF DropsAdded
  <2> HIDE DEF r
  <2> QED BY <1>3, <2>2, <2>3, <2>4, CacheKept, LeavesSound DEF r
<1>6. CASE HidesStored(c, x, y)
  <2>1. r = UndoDeleteFeature(c, s) /\ ~IsNew(c.fid)
    BY <1>6 DEF Undone, HidesStored
  <2>2. Leaves(r, s, b.addedFeatures, b.deletedFeatureIds \ {c.fid},
               b.changedAttributeValues, b.changedGeometries, s.cache)
    BY <1>1, <2>1, DeleteFeatureLeaves
  <2>3. b.deletedFeatureIds \ {c.fid} = x.deletedFeatureIds
    BY <1>2, <1>6 DEF HidesStored
  <2>4. /\ x.addedFeatures = b.addedFeatures
        /\ x.changedAttributeValues = b.changedAttributeValues
        /\ Within(b.changedGeometries, x.changedGeometries)
    BY <1>2, <1>6 DEF HidesStored
  <2> HIDE DEF r
  <2> QED BY <1>3, <2>2, <2>3, <2>4, CacheKept, LeavesSound DEF r
<1>7. CASE MovesAdded(c, x, y)
  <2> DEFINE f == x.addedFeatures[c.fid]
             g == [attrs |-> f.attrs, geom |-> c.new]
  <2>1. /\ IsNew(c.fid) /\ c.fid \in DOMAIN x.addedFeatures /\ c.old = f.geom
        /\ GoodFeature(f) /\ IsMap(x.addedFeatures) /\ IsMap(y.addedFeatures)
        /\ y.addedFeatures = Put(x.addedFeatures, c.fid, g)
        /\ \A fid \in DOMAIN y.addedFeatures : GoodFeature(y.addedFeatures[fid])
    BY <1>1, <1>7 DEF MovesAdded, GoodBuffer, GoodAdded, GoodValues
  <2>2. c.fid \in DOMAIN y.addedFeatures /\ y.addedFeatures[c.fid] = g
    BY <2>1 DEF Put
  <2>3. r = GeometrySet(s, c.fid, c.old)
    BY <1>7, <2>1 DEF Undone, UndoChangeGeometry, MovesAdded, GoodFeature
  <2>4. Leaves(r, s, Put(b.addedFeatures, c.fid,
                         [attrs |-> b.addedFeatures[c.fid].attrs, geom |-> c.old]),
               b.deletedFeatureIds, b.changedAttributeValues,
               b.changedGeometries, Put(s.cache, c.fid, c.old))
    BY <1>1, <1>2, <2>1, <2>2, <2>3, GeometrySetLeaves
  <2>5. [attrs |-> b.addedFeatures[c.fid].attrs, geom |-> c.old] = f
    BY <1>2, <2>1, <2>2 DEF GoodFeature
  <2>6. Put(b.addedFeatures, c.fid, f) = x.addedFeatures
    BY <1>2, <2>1, PutBack
  <2>7. /\ x.deletedFeatureIds = b.deletedFeatureIds
        /\ x.changedAttributeValues = b.changedAttributeValues
        /\ Within(b.changedGeometries, x.changedGeometries)
    BY <1>2, <1>7 DEF MovesAdded
  <2>8. Undrawn => CachedIn(b.changedGeometries, Put(s.cache, c.fid, c.old))
    BY <1>1, <2>1, CacheOfNew
  <2> HIDE DEF r, f
  <2>9. Leaves(r, s, x.addedFeatures, b.deletedFeatureIds, b.changedAttributeValues,
               b.changedGeometries, Put(s.cache, c.fid, c.old))
    BY <2>4, <2>5, <2>6
  <2> QED BY <1>3, <2>7, <2>8, <2>9, LeavesSound DEF r
<1>8. CASE MovesStored(c, x, y)
  <2>1. /\ ~IsNew(c.fid) /\ r = UndoChangeGeometry(c, s)
        /\ x.addedFeatures = b.addedFeatures
        /\ x.deletedFeatureIds = b.deletedFeatureIds
        /\ x.changedAttributeValues = b.changedAttributeValues
    BY <1>2, <1>8 DEF Undone, MovesStored
  <2>2. /\ IsMap(b.changedGeometries)
        /\ DOMAIN b.changedGeometries \subseteq DOMAIN x.changedGeometries \cup {c.fid}
        /\ c.old # NoGeometry => c.fid \in DOMAIN x.changedGeometries
    BY <1>2, <1>8 DEF MovesStored, Within, Put
  <2>5. Undrawn =>
          /\ b.changedGeometries = Put(x.changedGeometries, c.fid, c.new)
          /\ c.old = IF c.fid \in DOMAIN x.changedGeometries
                     THEN x.changedGeometries[c.fid] ELSE NoGeometry
          /\ IsMap(x.changedGeometries)
          /\ \A g \in DOMAIN x.changedGeometries : x.changedGeometries[g] # NoGeometry
    BY <1>1, <1>2, <1>8 DEF MovesStored, Within, GoodBuffer, GoodAdded, GoodValues,
                            GoodGeometries
  <2>3. CASE c.old # NoGeometry
    <3>1. Leaves(r, s, b.addedFeatures, b.deletedFeatureIds, b.changedAttributeValues,
                 Put(b.changedGeometries, c.fid, c.old), Put(s.cache, c.fid, c.old))
      BY <1>1, <2>1, <2>3, GeometrySetLeaves DEF UndoChangeGeometry
    <3>2. Within(Put(b.changedGeometries, c.fid, c.old), x.changedGeometries)
      <4>1. Undrawn => x.changedGeometries = Put(b.changedGeometries, c.fid, c.old)
        BY <2>3, <2>5, PutBack
      <4> QED BY <2>2, <2>3, <4>1 DEF Within, IsMap, Put
    <3>3. Undrawn => CachedIn(Put(b.changedGeometries, c.fid, c.old), Put(s.cache, c.fid, c.old))
      BY CacheOfStored
    <3> HIDE DEF r
    <3> QED BY <1>3, <2>1, <3>1, <3>2, <3>3, LeavesSound DEF r
  <2>4. CASE c.old = NoGeometry
    <3>1. PICK n :
            /\ Leaves(r, s, b.addedFeatures, b.deletedFeatureIds,
                      b.changedAttributeValues,
                      Without(b.changedGeometries, {c.fid}), n)
            /\ \A g \in DOMAIN s.cache :
                  g # c.fid => g \in DOMAIN n /\ n[g] = s.cache[g]
      BY <1>1, <2>1, <2>4, UndoGeometryLeaves
    <3>2. Within(Without(b.changedGeometries, {c.fid}), x.changedGeometries)
      <4>1. Undrawn => x.changedGeometries = Without(b.changedGeometries, {c.fid})
        BY <2>4, <2>5, PutThenWithout
      <4> QED BY <2>2, <4>1 DEF Within, IsMap, Without, Restrict
    <3>3. Undrawn => CachedIn(Without(b.changedGeometries, {c.fid}), n)
      BY <3>1, CacheKept DEF CachedIn, Without, Restrict
    <3> HIDE DEF r
    <3> QED BY <1>3, <2>1, <3>1, <3>2, <3>3, LeavesSound DEF r
  <2> QED BY <2>3, <2>4
<1>9. CASE WritesAdded(c, x, y)
  <2> DEFINE f == x.addedFeatures[c.fid]
             g == SetAttribute(f, c.field, c.new)
  <2>1. /\ IsNew(c.fid) /\ c.fid \in DOMAIN x.addedFeatures
        /\ c.old = Attribute(f, c.field)
        /\ GoodFeature(f) /\ IsMap(x.addedFeatures)
        /\ y.addedFeatures = Put(x.addedFeatures, c.fid, g)
        /\ r = AttributeSet(s, c, c.old)
    BY <1>1, <1>9 DEF WritesAdded, GoodBuffer, GoodAdded, GoodValues, Undone, UndoChangeAttribute
  <2> HIDE DEF f, g
  <2>2. c.fid \in DOMAIN y.addedFeatures /\ y.addedFeatures[c.fid] = g
    BY <2>1 DEF Put
  <2>3. Leaves(r, s, Put(b.addedFeatures, c.fid, SetAttribute(g, c.field, c.old)),
               b.deletedFeatureIds, b.changedAttributeValues,
               b.changedGeometries, s.cache)
    BY <1>1, <1>2, <2>1, <2>2, AttributeSetLeaves
  <2>4. SetAttribute(g, c.field, c.old) = f
    BY <2>1, AttributeBack DEF g
  <2>5. Put(b.addedFeatures, c.fid, f) = x.addedFeatures
    BY <1>2, <2>1, PutBack DEF f
  <2>6. /\ x.deletedFeatureIds = b.deletedFeatureIds
        /\ x.changedAttributeValues = b.changedAttributeValues
        /\ Within(b.changedGeometries, x.changedGeometries)
    BY <1>2, <1>9 DEF WritesAdded
  <2> HIDE DEF r
  <2>7. Leaves(r, s, x.addedFeatures, b.deletedFeatureIds, b.changedAttributeValues,
               b.changedGeometries, s.cache)
    BY <2>3, <2>4, <2>5
  <2> QED BY <1>3, <2>6, <2>7, CacheKept, LeavesSound DEF r
<1>10. CASE WritesStored(c, x, y)
  <2> DEFINE u == ValuesOf(x, c.fid)
             v == Put(u, c.field, c.new)
             left == Without(v, {c.field})
             xs == x.changedAttributeValues
  <2>1. /\ ~IsNew(c.fid) /\ c.firstChange = (c.field \notin DOMAIN u)
        /\ ~c.firstChange => c.old = u[c.field]
        /\ b.changedAttributeValues = Put(xs, c.fid, v)
        /\ x.addedFeatures = b.addedFeatures
        /\ x.deletedFeatureIds = b.deletedFeatureIds
        /\ Within(b.changedGeometries, x.changedGeometries)
        /\ r = UndoChangeAttribute(c, s)
    BY <1>2, <1>10 DEF WritesStored, Undone
  <2>2. IsMap(xs) /\ IsMap(u) /\ (c.fid \in DOMAIN xs <=> u # EmptyMap)
    BY <1>1 DEF GoodBuffer, GoodAdded, GoodValues, ValuesOf, EmptyMap, IsMap
  <2>3. ValuesOf(b, c.fid) = v
    BY <2>1 DEF ValuesOf, Put
  <2>4. CASE c.firstChange
    <3>1. left = u
      <4> HIDE DEF u
      <4> QED BY <2>1, <2>2, <2>4, PutThenWithout
    <3>2. c.fid \in DOMAIN b.changedAttributeValues /\ b.changedAttributeValues[c.fid] = v
      BY <2>1 DEF Put
    <3> DEFINE m == IF u = EmptyMap THEN Without(b.changedAttributeValues, {c.fid})
                    ELSE Put(b.changedAttributeValues, c.fid, u)
    <3>3. r = [s EXCEPT !.buffer.changedAttributeValues = m]
      <4> HIDE DEF u, v
      <4> QED BY <2>1, <2>4, <3>1, <3>2 DEF UndoChangeAttribute
    <3>4. m = xs
      <4>1. CASE u = EmptyMap
        <5> HIDE DEF u, v, xs
        <5> QED BY <4>1, <2>1, <2>2, PutThenWithout
      <4>2. CASE u # EmptyMap
        <5>1. u = xs[c.fid] /\ c.fid \in DOMAIN xs
          BY <2>2, <4>2 DEF ValuesOf
        <5> HIDE DEF u, v, xs
        <5> QED BY <4>2, <5>1, <2>1, <2>2, PutBack
      <4> QED BY <4>1, <4>2
    <3> HIDE DEF m, u, v, xs, r
    <3>5. Leaves(r, s, b.addedFeatures, b.deletedFeatureIds, m,
                 b.changedGeometries, s.cache)
      BY <1>1, <3>3 DEF Leaves, IsWorkspace, IsBuffer, BufferFields
    <3> QED BY <1>3, <2>1, <3>4, <3>5, CacheKept, LeavesSound DEF r, xs
  <2>5. CASE ~c.firstChange
    <3>1. c.field \in DOMAIN u /\ c.old = u[c.field]
      BY <2>1, <2>5
    <3>2. Put(v, c.field, c.old) = u
      <4> HIDE DEF u
      <4> QED BY <3>1, <2>2, PutBack
    <3>3. u = xs[c.fid] /\ c.fid \in DOMAIN xs
      BY <3>1, <2>2 DEF ValuesOf, EmptyMap
    <3>4. Leaves(r, s, b.addedFeatures, b.deletedFeatureIds,
                 Put(b.changedAttributeValues, c.fid, Put(v, c.field, c.old)),
                 b.changedGeometries, s.cache)
      <4>1. r = AttributeSet(s, c, c.old)
        BY <2>1, <2>5 DEF UndoChangeAttribute
      <4> HIDE DEF u, v, r
      <4> QED BY <1>1, <2>1, <2>3, <4>1, AttributeSetLeaves
    <3>5. Put(b.changedAttributeValues, c.fid, u) = xs
      <4> HIDE DEF u, v, xs
      <4> QED BY <2>1, <2>2, <3>3, PutBack
    <3> HIDE DEF u, v, xs, r
    <3>6. Leaves(r, s, b.addedFeatures, b.deletedFeatureIds, xs,
                 b.changedGeometries, s.cache)
      BY <3>2, <3>4, <3>5
    <3> QED BY <1>3, <2>1, <3>6, CacheKept, LeavesSound DEF r, xs
  <2> QED BY <2>4, <2>5
<1> HIDE DEF r
<1> QED BY <1>4, <1>5, <1>6, <1>7, <1>8, <1>9, <1>10 DEF Does, r

\* Two changes of one geometry, merged, do what both did (mergeWith).
LEMMA MergeDoes ==
    ASSUME NEW x, NEW y, NEW z, NEW last, NEW c, Does(last, x, y), Does(c, y, z),
           Mergeable(last, c)
    PROVE  Does([last EXCEPT !.new = c.new], x, z)
<1> DEFINE d == [last EXCEPT !.new = c.new]
<1> USE DEF KeepsAdded, KeepsDeleted, KeepsValues, KeepsGeometries
<1>1. /\ last.op = "changeGeometry" /\ c.op = "changeGeometry" /\ last.fid = c.fid
      /\ GoodBuffer(x) /\ GoodBuffer(z)
  BY DEF Mergeable, Does
<1>2. {"op", "fid", "new", "old"} \subseteq DOMAIN last
  BY <1>1 DEF Does, Adds, DropsAdded, HidesStored, MovesAdded, MovesStored,
              WritesAdded, WritesStored
<1>3. /\ d.op = "changeGeometry" /\ d.fid = c.fid /\ d.old = last.old /\ d.new = c.new
      /\ {"op", "fid", "new", "old"} \subseteq DOMAIN d
  BY <1>1, <1>2
<1> HIDE DEF d
<1>4. CASE IsNew(c.fid)
  <2>1. MovesAdded(last, x, y) /\ MovesAdded(c, y, z)
    BY <1>1, <1>4 DEF Does, Adds, DropsAdded, HidesStored, MovesAdded, MovesStored,
                      WritesAdded, WritesStored
  <2> DEFINE f == x.addedFeatures[c.fid]
             g == [attrs |-> f.attrs, geom |-> last.new]
  <2>2. /\ y.addedFeatures = Put(x.addedFeatures, c.fid, g)
        /\ z.addedFeatures = Put(y.addedFeatures, c.fid,
                                 [attrs |-> y.addedFeatures[c.fid].attrs, geom |-> c.new])
        /\ c.fid \in DOMAIN x.addedFeatures /\ last.old = f.geom
    BY <1>1, <2>1 DEF MovesAdded
  <2>3. y.addedFeatures[c.fid] = g
    BY <2>2 DEF Put
  <2>4. z.addedFeatures = Put(y.addedFeatures, c.fid, [attrs |-> f.attrs, geom |-> c.new])
    BY <2>2, <2>3
  <2>5. z.addedFeatures = Put(x.addedFeatures, c.fid, [attrs |-> f.attrs, geom |-> c.new])
    <3> HIDE DEF f, g
    <3> QED BY <2>2, <2>4, PutTwice
  <2>6. MovesAdded(d, x, z)
    BY <1>3, <1>4, <2>1, <2>2, <2>5 DEF MovesAdded
  <2> QED BY <1>1, <2>6 DEF Does, d
<1>5. CASE ~IsNew(c.fid)
  <2>1. MovesStored(last, x, y) /\ MovesStored(c, y, z)
    BY <1>1, <1>5 DEF Does, Adds, DropsAdded, HidesStored, MovesAdded, MovesStored,
                      WritesAdded, WritesStored
  <2>2. z.changedGeometries = Put(x.changedGeometries, c.fid, c.new)
    BY <1>1, <2>1, PutTwice DEF MovesStored
  <2>3. MovesStored(d, x, z)
    BY <1>1, <1>3, <1>5, <2>1, <2>2 DEF MovesStored
  <2> QED BY <1>1, <2>3 DEF Does, d
<1> QED BY <1>4, <1>5

\* A list of commands leads from buffer x to buffer y, over the buffers w.
LinkedBy(w, commands, x, y) ==
    /\ w[0] = x /\ w[Len(commands)] = y
    /\ \A n \in 1..Len(commands) : Does(commands[n], w[n - 1], w[n])

Linked(commands, x, y) == \E w : LinkedBy(w, commands, x, y)

LEMMA LinkedNothing ==
    ASSUME NEW x
    PROVE  Linked(<<>>, x, x)
<1>1. LinkedBy([n \in {0} |-> x], <<>>, x, x)
  BY DEF LinkedBy
<1> QED BY <1>1 DEF Linked

LEMMA LinkedOne ==
    ASSUME NEW x, NEW y, NEW c, Does(c, x, y)
    PROVE  Linked(<<c>>, x, y)
<1>1. LinkedBy([n \in 0..1 |-> IF n = 0 THEN x ELSE y], <<c>>, x, y)
  BY OneElement DEF LinkedBy
<1> QED BY <1>1 DEF Linked

\* One more command, appended or merged into the last.
LEMMA LinkedMore ==
    ASSUME NEW cs, IsSeq(cs), NEW x, NEW y, NEW z, NEW c,
           Linked(cs, x, y), Does(c, y, z)
    PROVE  Linked(WithCommand(cs, c), x, z)
<1> DEFINE L == Len(cs)
           e == WithCommand(cs, c)
<1>1. L \in Nat
  BY SeqShape
<1>2. PICK w : LinkedBy(w, cs, x, y)
  BY DEF Linked
<1>3. /\ w[0] = x /\ w[L] = y
      /\ \A n \in 1..L : Does(cs[n], w[n - 1], w[n])
  BY <1>2 DEF LinkedBy
<1>4. CASE cs # <<>> /\ Mergeable(Last(cs), c)
  <2> DEFINE v == [n \in 0..L |-> IF n = L THEN z ELSE w[n]]
  <2>1. /\ L \in Nat \ {0} /\ Len(e) = L
        /\ \A n \in 1..(L - 1) : e[n] = cs[n]
        /\ e[L] = [cs[L] EXCEPT !.new = c.new]
    BY <1>4, JoinedInto
  <2>2. Does(e[L], w[L - 1], z)
    <3>1. Mergeable(cs[L], c) /\ L \in 1..L
      BY <1>4, <2>1 DEF Last
    <3>2. Does(cs[L], w[L - 1], y)
      BY <1>3, <3>1
    <3> HIDE DEF L, e
    <3> QED BY <2>1, <3>1, <3>2, MergeDoes
  <2> HIDE DEF e, L
  <2>3. LinkedBy(v, e, x, z)
    <3>1. v[0] = x /\ v[L] = z
      BY <1>3, <2>1
    <3>2. ASSUME NEW n \in 1..L PROVE Does(e[n], v[n - 1], v[n])
      <4>1. CASE n = L
        BY <4>1, <2>1, <2>2
      <4>2. CASE n \in 1..(L - 1)
        BY <4>2, <2>1, <1>3
      <4> QED BY <2>1, <4>1, <4>2
    <3> HIDE DEF v
    <3> QED BY <2>1, <3>1, <3>2 DEF LinkedBy
  <2> QED BY <2>3 DEF Linked, e
<1>5. CASE ~(cs # <<>> /\ Mergeable(Last(cs), c))
  <2> DEFINE v == [n \in 0..(L + 1) |-> IF n = L + 1 THEN z ELSE w[n]]
  <2>1. /\ Len(e) = L + 1 /\ e[L + 1] = c
        /\ \A n \in 1..L : e[n] = cs[n]
    BY <1>5, JoinedAtEnd, Appended
  <2> HIDE DEF e, L
  <2>2. LinkedBy(v, e, x, z)
    <3>1. v[0] = x /\ v[L + 1] = z
      BY <1>1, <1>3
    <3>2. ASSUME NEW n \in 1..(L + 1) PROVE Does(e[n], v[n - 1], v[n])
      <4>1. CASE n = L + 1
        BY <4>1, <1>1, <1>3, <2>1
      <4>2. CASE n \in 1..L
        BY <4>2, <1>1, <2>1, <1>3
      <4> QED BY <1>1, <4>1, <4>2
    <3> HIDE DEF v
    <3> QED BY <2>1, <3>1, <3>2 DEF LinkedBy
  <2> QED BY <2>2 DEF Linked, e
<1> QED BY <1>4, <1>5

LEMMA RedoLinked ==
    ASSUME NEW cs, IsSeq(cs), NEW x, NEW y, Linked(cs, x, y), NEW s, Sound(s, x)
    PROVE  Sound(AllRedone(cs, s), y)
<1> DEFINE L == Len(cs)
<1>1. L \in Nat
  BY SeqShape
<1>2. PICK w : LinkedBy(w, cs, x, y)
  BY DEF Linked
<1>3. PICK v : RedoneBy(v, cs, s)
  BY <1>1, RedoneWalk
<1> DEFINE T == {n \in 0..L : Sound(v[n], w[n])}
<1>4. 0 \in T
  BY <1>1, <1>2, <1>3 DEF LinkedBy, RedoneBy
<1>5. ASSUME NEW n \in 1..L, n - 1 \in T PROVE n \in T
  <2>1. /\ Does(cs[n], w[n - 1], w[n]) /\ v[n] = Redone(cs[n], v[n - 1])
        /\ Sound(v[n - 1], w[n - 1])
    BY <1>2, <1>3, <1>5 DEF LinkedBy, RedoneBy
  <2>2. Sound(v[n], w[n])
    BY <2>1, RedoDoes
  <2> HIDE DEF L
  <2> QED BY <1>1, <2>2
<1>6. L \in T
  <2> HIDE DEF T, L
  <2> QED BY <1>1, <1>4, <1>5, Upward
<1> QED BY <1>2, <1>3, <1>6 DEF LinkedBy, RedoneBy

LEMMA UndoLinked ==
    ASSUME NEW cs, IsSeq(cs), NEW x, NEW y, Linked(cs, x, y), NEW s, Sound(s, y)
    PROVE  Sound(AllUndone(cs, s), x)
<1> DEFINE L == Len(cs)
<1>1. L \in Nat
  BY SeqShape
<1>2. PICK w : LinkedBy(w, cs, x, y)
  BY DEF Linked
<1>3. PICK v : UndoneBy(v, cs, s)
  BY <1>1, UndoneWalk
<1> DEFINE T == {n \in 0..L : Sound(v[n], w[n])}
<1>4. L \in T
  BY <1>1, <1>2, <1>3 DEF LinkedBy, UndoneBy
<1>5. ASSUME NEW n \in 1..L, n \in T PROVE n - 1 \in T
  <2>1. /\ Does(cs[n], w[n - 1], w[n]) /\ v[n - 1] = Undone(cs[n], v[n])
        /\ Sound(v[n], w[n])
    BY <1>2, <1>3, <1>5 DEF LinkedBy, UndoneBy
  <2>2. Sound(v[n - 1], w[n - 1])
    BY <2>1, UndoDoes
  <2> HIDE DEF L
  <2> QED BY <1>1, <2>2
<1>6. 0 \in T
  <2> HIDE DEF T, L
  <2> QED BY <1>1, <1>4, <1>5, Downward
<1> QED BY <1>2, <1>3, <1>6 DEF LinkedBy, UndoneBy

LEMMA BottomLinked ==
    ASSUME NEW st, IsSeq(st), NEW b, NEW s, Sound(s, b[Len(st)]),
           \A i \in 1..Len(st) : /\ IsSeq(st[i].commands)
                                 /\ Linked(st[i].commands, b[i - 1], b[i])
    PROVE  Sound(UndoneToBottom(st, s), b[0])
<1> DEFINE L == Len(st)
<1>1. L \in Nat
  BY SeqShape
<1>2. PICK v : BottomBy(v, st, s)
  BY <1>1, BottomWalk
<1> DEFINE T == {n \in 0..L : Sound(v[n], b[n])}
<1>3. L \in T
  BY <1>1, <1>2 DEF BottomBy
<1>4. ASSUME NEW n \in 1..L, n \in T PROVE n - 1 \in T
  <2>1. v[n - 1] = AllUndone(st[n].commands, v[n]) /\ Sound(v[n], b[n])
    BY <1>2, <1>4 DEF BottomBy
  <2>2. Sound(v[n - 1], b[n - 1])
    BY <2>1, UndoLinked
  <2> HIDE DEF L
  <2> QED BY <1>1, <2>2
<1>5. 0 \in T
  <2> HIDE DEF T, L
  <2> QED BY <1>1, <1>3, <1>4, Downward
<1> QED BY <1>2, <1>5 DEF BottomBy

\* A command that is pushed notes down what it will have to put back.
LEMMA GoodAfter ==
    ASSUME NEW s, GoodBuffer(s.buffer), NEW r, NEW added, NEW deleted, NEW values,
           NEW geometries, NEW geomCache,
           Leaves(r, s, added, deleted, values, geometries, geomCache),
           GoodAdded(added), GoodValues(values), Undrawn => GoodGeometries(geometries)
    PROVE  GoodBuffer(r.buffer)
BY DEF GoodBuffer, Leaves, IsWorkspace

LEMMA GoodParts ==
    ASSUME NEW m, NEW k
    PROVE  /\ GoodAdded(m) => GoodAdded(Without(m, {k}))
           /\ \A f : GoodAdded(m) /\ GoodFeature(f) => GoodAdded(Put(m, k, f))
           /\ \A g : GoodGeometries(m) /\ ~IsNew(k) /\ g # NoGeometry
                        => GoodGeometries(Put(m, k, g))
           /\ \A u, i, v : GoodValues(m) => GoodValues(Put(m, k, Put(u, i, v)))
<1>1. GoodAdded(m) => GoodAdded(Without(m, {k}))
  BY DEF GoodAdded, IsMap, Without, Restrict
<1>2. ASSUME NEW f, GoodAdded(m), GoodFeature(f) PROVE GoodAdded(Put(m, k, f))
  BY <1>2 DEF GoodAdded, IsMap, Put
<1>3. ASSUME NEW g, GoodGeometries(m), ~IsNew(k), g # NoGeometry
      PROVE  GoodGeometries(Put(m, k, g))
  BY <1>3 DEF GoodGeometries, IsMap, Put
<1>4. ASSUME NEW u, NEW i, NEW v, GoodValues(m)
      PROVE  GoodValues(Put(m, k, Put(u, i, v)))
  <2> DEFINE p == Put(u, i, v)
  <2>1. IsMap(p) /\ p # EmptyMap
    BY DEF Put, IsMap, EmptyMap
  <2> HIDE DEF p
  <2>2. GoodValues(Put(m, k, p))
    BY <1>4, <2>1 DEF GoodValues, IsMap, Put
  <2> QED BY <2>2 DEF p
<1> QED BY <1>1, <1>2, <1>3, <1>4

Fine(s) == IsWorkspace(s) /\ s.alive /\ GoodBuffer(s.buffer) /\ Cached(s)

LEMMA PushAdds ==
    ASSUME NEW s, Fine(s), NEW fid, IsNew(fid), fid \notin DOMAIN s.buffer.addedFeatures,
           NEW feature, GoodFeature(feature), NEW c, c = AddFeatureCommand(fid, feature)
    PROVE  Does(c, s.buffer, Redone(c, s).buffer)
<1> DEFINE r == Redone(c, s)
           b == s.buffer
<1>1. c.op = "addFeature" /\ c.fid = fid /\ c.feature = feature
  BY DEF AddFeatureCommand
<1>2. Leaves(r, s, Put(b.addedFeatures, fid, feature), b.deletedFeatureIds,
             b.changedAttributeValues, b.changedGeometries,
             Put(s.cache, fid, feature.geom))
  BY <1>1, AddFeatureLeaves DEF Fine, Redone
<1> HIDE DEF r
<1>3. GoodBuffer(r.buffer)
  BY <1>2, GoodAfter, GoodParts DEF Fine, GoodBuffer
<1>4. Adds(c, b, r.buffer)
  BY <1>1, <1>2 DEF Adds, Leaves, KeepsAdded, KeepsDeleted, KeepsValues, KeepsGeometries
<1> QED BY <1>3, <1>4 DEF Does, Fine, r

LEMMA PushDeletes ==
    ASSUME NEW s, Fine(s), NEW fid,
           IF IsNew(fid) THEN fid \in DOMAIN s.buffer.addedFeatures
           ELSE fid \notin s.buffer.deletedFeatureIds,
           NEW c, c = DeleteFeatureCommand(s, fid)
    PROVE  Does(c, s.buffer, Redone(c, s).buffer)
<1> DEFINE r == Redone(c, s)
           b == s.buffer
<1> USE DEF KeepsAdded, KeepsDeleted, KeepsValues, KeepsGeometries
<1>1. /\ c.op = "deleteFeature" /\ c.fid = fid
      /\ IsNew(fid) => c.feature = b.addedFeatures[fid]
  BY DEF DeleteFeatureCommand
<1>2. r = RedoDeleteFeature(c, s)
  BY <1>1 DEF Redone
<1>3. CASE IsNew(fid)
  <2>1. Leaves(r, s, Without(b.addedFeatures, {fid}), b.deletedFeatureIds,
               b.changedAttributeValues, b.changedGeometries, s.cache)
    BY <1>1, <1>2, <1>3, DeleteFeatureLeaves DEF Fine
  <2> HIDE DEF r
  <2>2. GoodBuffer(r.buffer)
    BY <2>1, GoodAfter, GoodParts DEF Fine, GoodBuffer
  <2>3. DropsAdded(c, b, r.buffer)
    BY <1>1, <1>3, <2>1 DEF DropsAdded, Leaves
  <2> QED BY <2>2, <2>3 DEF Does, Fine, r
<1>4. CASE ~IsNew(fid)
  <2>1. Leaves(r, s, b.addedFeatures, b.deletedFeatureIds \cup {fid},
               b.changedAttributeValues, b.changedGeometries, s.cache)
    BY <1>1, <1>2, <1>4, DeleteFeatureLeaves DEF Fine
  <2> HIDE DEF r
  <2>2. GoodBuffer(r.buffer)
    BY <2>1, GoodAfter DEF Fine, GoodBuffer
  <2>3. HidesStored(c, b, r.buffer)
    BY <1>1, <1>4, <2>1 DEF HidesStored, Leaves
  <2> QED BY <2>2, <2>3 DEF Does, Fine, r
<1> QED BY <1>3, <1>4

LEMMA PushMoves ==
    ASSUME NEW s, Fine(s), NEW fid, IsNew(fid) => fid \in DOMAIN s.buffer.addedFeatures,
           NEW geom, geom # NoGeometry, NEW c, c = ChangeGeometryCommand(s, fid, geom)
    PROVE  Does(c, s.buffer, Redone(c, s).buffer)
<1> DEFINE r == Redone(c, s)
           b == s.buffer
<1> USE DEF KeepsAdded, KeepsDeleted, KeepsValues, KeepsGeometries
<1>1. /\ c.op = "changeGeometry" /\ c.fid = fid /\ c.new = geom
      /\ {"op", "fid", "new", "old"} \subseteq DOMAIN c
      /\ c.old = IF IsNew(fid) THEN b.addedFeatures[fid].geom
                 ELSE IF fid \in DOMAIN b.changedGeometries /\ fid \in DOMAIN s.cache
                      THEN s.cache[fid] ELSE NoGeometry
  BY DEF ChangeGeometryCommand
<1>2. r = GeometrySet(s, fid, geom)
  BY <1>1 DEF Redone, RedoChangeGeometry
<1>3. CASE IsNew(fid)
  <2> DEFINE f == [attrs |-> b.addedFeatures[fid].attrs, geom |-> geom]
  <2>1. GoodFeature(b.addedFeatures[fid]) /\ IsMap(b.addedFeatures)
    BY <1>3 DEF Fine, GoodBuffer, GoodAdded
  <2>2. Leaves(r, s, Put(b.addedFeatures, fid, f), b.deletedFeatureIds,
               b.changedAttributeValues, b.changedGeometries, Put(s.cache, fid, geom))
    BY <1>2, <1>3, <2>1, GeometrySetLeaves DEF Fine
  <2>3. GoodFeature(f)
    BY <2>1 DEF GoodFeature
  <2> HIDE DEF r, f
  <2>4. GoodBuffer(r.buffer)
    BY <2>2, <2>3, GoodAfter, GoodParts DEF Fine, GoodBuffer
  <2>5. MovesAdded(c, b, r.buffer)
    BY <1>1, <1>3, <2>2 DEF MovesAdded, Leaves, f
  <2> QED BY <2>4, <2>5 DEF Does, Fine, r
<1>4. CASE ~IsNew(fid)
  <2>1. Leaves(r, s, b.addedFeatures, b.deletedFeatureIds, b.changedAttributeValues,
               Put(b.changedGeometries, fid, geom), Put(s.cache, fid, geom))
    BY <1>2, <1>4, GeometrySetLeaves DEF Fine
  <2> HIDE DEF r
  <2>2. GoodBuffer(r.buffer)
    BY <1>4, <2>1, GoodAfter, GoodParts DEF Fine, GoodBuffer
  <2>3. Undrawn => c.old = IF fid \in DOMAIN b.changedGeometries
                           THEN b.changedGeometries[fid] ELSE NoGeometry
    BY <1>1, <1>4 DEF Fine, Cached, CachedIn
  <2>4. MovesStored(c, b, r.buffer)
    BY <1>1, <1>4, <2>1, <2>3 DEF MovesStored, Leaves
  <2> QED BY <2>2, <2>4 DEF Does, Fine, r
<1> QED BY <1>3, <1>4

LEMMA PushWrites ==
    ASSUME NEW s, Fine(s), NEW fid, IsNew(fid) => fid \in DOMAIN s.buffer.addedFeatures,
           NEW field, NEW value, NEW c, c = ChangeAttributeCommand(s, fid, field, value)
    PROVE  Does(c, s.buffer, Redone(c, s).buffer)
<1> DEFINE r == Redone(c, s)
           b == s.buffer
<1> USE DEF KeepsAdded, KeepsDeleted, KeepsValues, KeepsGeometries
<1>1. /\ c.op = "changeAttribute" /\ c.fid = fid /\ c.field = field /\ c.new = value
      /\ IsNew(fid) => c.old = Attribute(b.addedFeatures[fid], field)
  BY DEF ChangeAttributeCommand
<1>2. r = AttributeSet(s, c, value)
  BY <1>1 DEF Redone, RedoChangeAttribute
<1>3. CASE IsNew(fid)
  <2> DEFINE f == b.addedFeatures[fid]
             g == SetAttribute(f, field, value)
  <2>1. Leaves(r, s, Put(b.addedFeatures, fid, g), b.deletedFeatureIds,
               b.changedAttributeValues, b.changedGeometries, s.cache)
    BY <1>1, <1>2, <1>3, AttributeSetLeaves DEF Fine
  <2>2. GoodFeature(f)
    BY <1>3 DEF Fine, GoodBuffer, GoodAdded
  <2>3. GoodFeature(g)
    <3> HIDE DEF f
    <3> QED BY <2>2 DEF SetAttribute, GoodFeature, IsMap
  <2> HIDE DEF r, g
  <2>4. GoodBuffer(r.buffer)
    BY <2>1, <2>3, GoodAfter, GoodParts DEF Fine, GoodBuffer
  <2>5. WritesAdded(c, b, r.buffer)
    BY <1>1, <1>3, <2>1 DEF WritesAdded, Leaves, g
  <2> QED BY <2>4, <2>5 DEF Does, Fine, r
<1>4. CASE ~IsNew(fid)
  <2> DEFINE u == ValuesOf(b, fid)
  <2>1. Leaves(r, s, b.addedFeatures, b.deletedFeatureIds,
               Put(b.changedAttributeValues, fid, Put(u, field, value)),
               b.changedGeometries, s.cache)
    BY <1>1, <1>2, <1>4, AttributeSetLeaves DEF Fine
  <2>2. /\ c.firstChange = (field \notin DOMAIN u)
        /\ ~c.firstChange => c.old = u[field]
    <3> DEFINE again == /\ fid \in DOMAIN b.changedAttributeValues
                        /\ field \in DOMAIN b.changedAttributeValues[fid]
    <3>1. c.firstChange = ~again
      BY <1>4 DEF ChangeAttributeCommand
    <3>2. again => c.old = b.changedAttributeValues[fid][field]
      BY <1>4 DEF ChangeAttributeCommand
    <3>3. again <=> field \in DOMAIN u
      BY DEF ValuesOf, EmptyMap
    <3>4. again => u = b.changedAttributeValues[fid]
      BY DEF ValuesOf
    <3> HIDE DEF again, u
    <3> QED BY <3>1, <3>2, <3>3, <3>4
  <2> HIDE DEF r, u
  <2>3. GoodBuffer(r.buffer)
    BY <2>1, GoodAfter, GoodParts DEF Fine, GoodBuffer
  <2>4. WritesStored(c, b, r.buffer)
    BY <1>1, <1>4, <2>1, <2>2 DEF WritesStored, Leaves, u
  <2> QED BY <2>3, <2>4 DEF Does, Fine, r
<1> QED BY <1>3, <1>4

\* The same said of the buffer the stack was built on, up to drawn geometries.
LEMMA DoesFrom ==
    ASSUME NEW u, NEW x, NEW y, NEW c, Does(c, u, y), Matches(u, x), GoodBuffer(x)
    PROVE  \E z : Does(c, x, z) /\ Matches(y, z)
<1> DEFINE moved == MovesStored(c, u, y)
           g == IF moved THEN Put(x.changedGeometries, c.fid, c.new)
                ELSE x.changedGeometries
           z == [y EXCEPT !.changedGeometries = g]
<1> USE DEF KeepsAdded, KeepsDeleted, KeepsValues, KeepsGeometries
<1>1. /\ GoodBuffer(u) /\ GoodBuffer(y) /\ IsBuffer(y)
      /\ u.addedFeatures = x.addedFeatures /\ u.deletedFeatureIds = x.deletedFeatureIds
      /\ u.changedAttributeValues = x.changedAttributeValues
      /\ Within(u.changedGeometries, x.changedGeometries)
  BY DEF Does, Matches, GoodBuffer
<1>2. ValuesOf(u, c.fid) = ValuesOf(x, c.fid)
  BY <1>1 DEF ValuesOf
<1>3. y.changedGeometries = IF moved THEN Put(u.changedGeometries, c.fid, c.new)
                            ELSE u.changedGeometries
  BY DEF Does, Adds, DropsAdded, HidesStored, MovesAdded, MovesStored, WritesAdded,
         WritesStored
<1>4. Within(y.changedGeometries, g)
  BY <1>1, <1>3 DEF Within, IsMap, Put
<1>5. /\ IsBuffer(z) /\ z.changedGeometries = g
      /\ z.addedFeatures = y.addedFeatures /\ z.deletedFeatureIds = y.deletedFeatureIds
      /\ z.changedAttributeValues = y.changedAttributeValues
      /\ z.deletedAttributeIds = y.deletedAttributeIds
      /\ z.addedAttributes = y.addedAttributes
  <2> HIDE DEF g
  <2> QED BY <1>1 DEF IsBuffer, BufferFields
<1> HIDE DEF z
<1>6. Matches(y, z)
  BY <1>1, <1>4, <1>5 DEF Matches
<1>7. GoodBuffer(z)
  BY <1>1, <1>4, <1>5 DEF GoodBuffer, Within
<1>8. ~moved => g = x.changedGeometries
  OBVIOUS
<1> HIDE DEF g
<1>9. CASE Adds(c, u, y)
  <2>1. ~moved
    BY <1>9 DEF Adds, MovesStored
  <2> QED BY <1>1, <1>5, <1>6, <1>7, <1>8, <1>9, <2>1 DEF Adds, Does
<1>10. CASE DropsAdded(c, u, y)
  <2>1. ~moved
    BY <1>10 DEF DropsAdded, MovesStored
  <2> QED BY <1>1, <1>5, <1>6, <1>7, <1>8, <1>10, <2>1 DEF DropsAdded, Does
<1>11. CASE HidesStored(c, u, y)
  <2>1. ~moved
    BY <1>11 DEF HidesStored, MovesStored
  <2> QED BY <1>1, <1>5, <1>6, <1>7, <1>8, <1>11, <2>1 DEF HidesStored, Does
<1>12. CASE MovesAdded(c, u, y)
  <2>1. ~moved
    BY <1>12 DEF MovesAdded, MovesStored
  <2> QED BY <1>1, <1>5, <1>6, <1>7, <1>8, <1>12, <2>1 DEF MovesAdded, Does
<1>13. CASE moved
  <2>1. z.changedGeometries = Put(x.changedGeometries, c.fid, c.new)
    BY <1>5, <1>13 DEF g
  <2>2. /\ c.old # NoGeometry => c.fid \in DOMAIN x.changedGeometries
        /\ Undrawn => c.old = IF c.fid \in DOMAIN x.changedGeometries
                              THEN x.changedGeometries[c.fid] ELSE NoGeometry
    BY <1>1, <1>13 DEF MovesStored, Within
  <2>3. MovesStored(c, x, z)
    BY <1>1, <1>5, <1>13, <2>1, <2>2 DEF MovesStored
  <2> QED BY <1>6, <1>7, <2>3 DEF Does
<1>14. CASE WritesAdded(c, u, y)
  <2>1. ~moved
    BY <1>14 DEF WritesAdded, MovesStored
  <2> QED BY <1>1, <1>5, <1>6, <1>7, <1>8, <1>14, <2>1 DEF WritesAdded, Does
<1>15. CASE WritesStored(c, u, y)
  <2>1. ~moved
    BY <1>15 DEF WritesStored, MovesStored
  <2> QED BY <1>1, <1>2, <1>5, <1>6, <1>7, <1>8, <1>15, <2>1 DEF WritesStored, Does
<1> QED BY <1>9, <1>10, <1>11, <1>12, <1>13, <1>14, <1>15 DEF Does

-----------------------------------------------------------------------------
(* The undo stack as a chain of buffers, from the empty one.               *)

\* What is said of a layer: everything, or everything but the geometries.
Shown(layer) == IF Undrawn THEN layer ELSE WithoutGeometries(layer)

LEMMA SameLayer ==
    ASSUME NEW p, NEW u, NEW x, Matches(u, x), IsBuffer(x)
    PROVE  Shown(Layer(p, u)) = Shown(Layer(p, x))
<1> USE DEF Matches, KeepsAdded, KeepsDeleted, KeepsValues
<1>1. CASE Undrawn
  <2>1. u = x
    BY <1>1 DEF IsBuffer, BufferFields, Within
  <2> QED BY <2>1
<1>2. CASE ~Undrawn
  <2>1. KeptAttributes(p, u) = KeptAttributes(p, x)
    BY DEF KeptAttributes
  <2>2. NativeCount(p, u) = NativeCount(p, x)
    BY <2>1 DEF NativeCount
  <2>3. VisibleFids(p, u) = VisibleFids(p, x)
    BY DEF VisibleFids
  <2>4. FieldNames(p, u) = FieldNames(p, x)
    BY <2>1 DEF FieldNames, PendingFields
  <2>5. \A fid : OverlaidAttributes(p, u, fid) = OverlaidAttributes(p, x, fid)
    BY <2>1, <2>2 DEF OverlaidAttributes
  <2>6. \A fid : AddedAsRead(p, u, fid) = AddedAsRead(p, x, fid)
    BY <2>2 DEF AddedAsRead
  <2>7. ASSUME NEW b
        PROVE  WithoutGeometries(Layer(p, b)) =
                  [fields |-> SubSeq(FieldNames(p, b), 1, NativeCount(p, b)),
                   rows |-> [fid \in VisibleFids(p, b) |->
                                IF fid \in DOMAIN b.addedFeatures
                                THEN AddedAsRead(p, b, fid).attrs
                                ELSE OverlaidAttributes(p, b, fid)]]
    <3> DEFINE F == SubSeq(FieldNames(p, b), 1, NativeCount(p, b))
               V == VisibleFids(p, b)
               R(fid) == IF fid \in DOMAIN b.addedFeatures
                         THEN AddedAsRead(p, b, fid)
                         ELSE [attrs |-> OverlaidAttributes(p, b, fid),
                               geom  |-> OverlaidGeometry(p, b, fid)]
               A(fid) == IF fid \in DOMAIN b.addedFeatures
                         THEN AddedAsRead(p, b, fid).attrs
                         ELSE OverlaidAttributes(p, b, fid)
    <3>1. Layer(p, b) = [fields |-> F, rows |-> [fid \in V |-> R(fid)]]
      BY DEF Layer
    <3>2. \A fid : R(fid).attrs = A(fid)
      OBVIOUS
    <3> HIDE DEF F, V, R, A
    <3>3. WithoutGeometries(Layer(p, b)) = [fields |-> F, rows |-> [fid \in V |-> A(fid)]]
      BY <3>1, <3>2 DEF WithoutGeometries
    <3> QED BY <3>3 DEF F, V, A
  <2> QED BY <1>2, <2>2, <2>3, <2>4, <2>5, <2>6, <2>7 DEF Shown
<1> QED BY <1>1, <1>2

\* b[i] is the buffer after the first i entries of the stack; the history of
\* layers shows them.
ChainOn(b, st, p, snaps) ==
    /\ b[0] = EmptyBuffer
    /\ \A i \in 0..Len(st) : GoodBuffer(b[i])
    /\ \A i \in 1..Len(st) : Linked(st[i].commands, b[i - 1], b[i])
    /\ IsSeq(snaps)
    /\ \A i \in 1..Len(snaps) : Shown(snaps[i]) = Shown(Layer(p, b[i - 1]))

Reached == IF macroOpen THEN index + 1 ELSE index

Chain(b) ==
    /\ ChainOn(b, stack, provider, snapshots)
    /\ Len(snapshots) = IF macroOpen THEN index + 1 ELSE Len(stack) + 1
    /\ Sound(Workspace, b[Reached])

EInv ==
    /\ Undrawn => ~job.running
    /\ ~editing => snapshots = <<Layer(provider, EmptyBuffer)>>
    /\ editing /\ ~damaged => \E b : Chain(b)

LEMMA EmptyGood == GoodBuffer(EmptyBuffer)
BY DEF GoodBuffer, EmptyBuffer, IsBuffer, BufferFields, GoodAdded, GoodValues,
       GoodGeometries, IsMap, EmptyMap

LEMMA MatchesGood ==
    ASSUME NEW u, NEW x, Matches(u, x), GoodBuffer(x)
    PROVE  GoodBuffer(u)
BY DEF Matches, GoodBuffer, KeepsAdded, KeepsValues, Within

LEMMA ReachedEntry ==
    ASSUME SInv
    PROVE  /\ Reached \in 0..Len(stack) /\ Len(stack) \in Nat /\ index \in Nat
           /\ IsSeq(stack)
           /\ \A i \in 1..Len(stack) : IsSeq(stack[i].commands)
BY SeqShape DEF SInv, Reached, KnownStack, KnownEntry, KnownCommands

LEMMA ChainFine ==
    ASSUME SInv, NEW b, Chain(b)
    PROVE  Fine(Workspace) /\ GoodBuffer(b[Reached])
<1>1. GoodBuffer(b[Reached]) /\ Sound(Workspace, b[Reached])
  BY ReachedEntry DEF Chain, ChainOn
<1>2. GoodBuffer(Workspace.buffer)
  BY <1>1, MatchesGood DEF Sound
<1> QED BY <1>1, <1>2 DEF Fine, Sound

\* The chain b, cut after entry k - 1, can go on to z: the new stack and history
\* are the old ones up to there.
CanGoOn(b, st, p, snaps, k, z, st2, snaps2) ==
    /\ Len(st) \in Nat /\ k \in 1..(Len(st) + 1) /\ k <= Len(snaps)
    /\ Len(st2) = k /\ \A i \in 1..(k - 1) : st2[i] = st[i]
    /\ Linked(st2[k].commands, b[k - 1], z)
    /\ IsSeq(snaps2) /\ Len(snaps2) \in {k, k + 1}
    /\ \A i \in 1..k : snaps2[i] = snaps[i]
    /\ Len(snaps2) = k + 1 => Shown(snaps2[k + 1]) = Shown(Layer(p, z))

ChainEndsAt(st, p, snaps, k, z) == \E v : ChainOn(v, st, p, snaps) /\ v[k] = z

LEMMA ChainTo ==
    ASSUME NEW b, NEW st, NEW p, NEW snaps, ChainOn(b, st, p, snaps),
           NEW k, NEW z, GoodBuffer(z), NEW st2, NEW snaps2,
           CanGoOn(b, st, p, snaps, k, z, st2, snaps2)
    PROVE  ChainEndsAt(st2, p, snaps2, k, z)
<1> USE DEF CanGoOn
<1> DEFINE v == [i \in 0..k |-> IF i = k THEN z ELSE b[i]]
<1>1. v[0] = EmptyBuffer /\ v[k] = z /\ \A i \in 0..(k - 1) : v[i] = b[i]
  BY DEF ChainOn
<1> HIDE DEF v
<1>2. \A i \in 0..k : GoodBuffer(v[i])
  BY <1>1 DEF ChainOn
<1>3. ASSUME NEW i \in 1..k PROVE Linked(st2[i].commands, v[i - 1], v[i])
  <2>1. CASE i = k
    BY <1>1, <2>1
  <2>2. CASE i \in 1..(k - 1)
    <3>1. i \in 1..Len(st) /\ st2[i] = st[i] /\ v[i - 1] = b[i - 1] /\ v[i] = b[i]
      BY <1>1, <2>2
    <3> QED BY <3>1 DEF ChainOn
  <2> QED BY <2>1, <2>2
<1>4. ASSUME NEW i \in 1..Len(snaps2)
      PROVE  Shown(snaps2[i]) = Shown(Layer(p, v[i - 1]))
  <2>1. CASE i \in 1..k
    <3>1. /\ i \in 1..Len(snaps) /\ snaps2[i] = snaps[i] /\ v[i - 1] = b[i - 1]
      <4>1. Len(snaps) \in Nat
        BY SeqShape DEF ChainOn
      <4> QED BY <1>1, <2>1, <4>1
    <3> QED BY <3>1 DEF ChainOn
  <2>2. CASE i = k + 1
    BY <1>1, <2>2
  <2> QED BY <2>1, <2>2
<1>5. ChainOn(v, st2, p, snaps2)
  BY <1>1, <1>2, <1>3, <1>4 DEF ChainOn
<1> QED BY <1>1, <1>5 DEF ChainEndsAt

LEMMA BecomesSound ==
    ASSUME NEW r, NEW x, Sound(r, x), BecomesWorkspace(r)
    PROVE  Sound(Workspace, x)'
<1>1. Workspace' = [provider |-> provider', buffer |-> r.buffer,
                    cache |-> r.cache, alive |-> r.alive]
  BY DEF Workspace, BecomesWorkspace
<1>2. Sound([provider |-> provider', buffer |-> r.buffer,
             cache |-> r.cache, alive |-> r.alive], x)
  BY DEF Sound, IsWorkspace, Cached
<1> QED BY <1>1, <1>2

\* Pushing a command makes the chain longer, or bends its end.
LEMMA PushChain ==
    ASSUME SInv, NEW b, Chain(b), NEW c, Push(c),
           Does(c, buffer, Redone(c, Workspace).buffer)
    PROVE  \E v : Chain(v)'
<1> PICK r : r = Redone(c, Workspace)
  OBVIOUS
<1>1. GoodBuffer(b[Reached]) /\ Sound(Workspace, b[Reached]) /\ Fine(Workspace)
  BY ChainFine DEF Chain
<1>2. PICK z : Does(c, b[Reached], z) /\ Matches(r.buffer, z)
  BY <1>1, DoesFrom DEF Sound, Workspace
<1>3. Sound(r, z) /\ GoodBuffer(z)
  BY <1>1, <1>2, RedoDoes DEF Does
<1>4. Sound(Workspace, z)'
  BY <1>3, BecomesSound DEF Push
<1>5. /\ ChainOn(b, stack, provider, snapshots)
      /\ Len(snapshots) = IF macroOpen THEN index + 1 ELSE Len(stack) + 1
      /\ IsSeq(snapshots) /\ Len(snapshots) \in Nat
  BY SeqShape DEF Chain, ChainOn
<1>6. /\ Len(stack) \in Nat /\ index \in Nat /\ index \in 0..Len(stack) /\ IsSeq(stack)
      /\ \A i \in 1..Len(stack) : IsSeq(stack[i].commands)
      /\ macroOpen => Len(stack) = index + 1
  BY ReachedEntry DEF SInv
<1>7. UNCHANGED <<provider, macroOpen>>
  BY DEF Push
<1> DEFINE kept == SubSeq(stack, 1, index)
           after == Layer(provider, r.buffer)
<1>12. Shown(after) = Shown(Layer(provider, z))
  BY <1>2, <1>3, SameLayer DEF GoodBuffer
<1>8. IsSeq(kept) /\ Len(kept) = index /\ \A i \in 1..index : kept[i] = stack[i]
  BY <1>6, Prefix
<1>9. ASSUME macroOpen, UNCHANGED <<index, snapshots>>,
             stack' = [stack EXCEPT ![index + 1].commands = WithCommand(@, c)]
      PROVE  \E v : Chain(v)'
  <2> DEFINE k == index + 1
             st2 == [stack EXCEPT ![k].commands = WithCommand(@, c)]
  <2>1. stack' = st2 /\ k \in 1..Len(stack) /\ Reached = k /\ Len(stack) = k
    BY <1>6, <1>9 DEF Reached
  <2>2. /\ Len(st2) = k
        /\ \A i \in 1..(k - 1) : st2[i] = stack[i]
        /\ st2[k] = [stack[k] EXCEPT !.commands = WithCommand(stack[k].commands, c)]
    <3> HIDE DEF k
    <3>1. st2 = [stack EXCEPT ![k] = [stack[k] EXCEPT
                    !.commands = WithCommand(stack[k].commands, c)]]
      OBVIOUS
    <3> QED BY <1>6, <2>1, <3>1, Replaced
  <2>3. st2[k].commands = WithCommand(stack[k].commands, c)
    <3>1. DOMAIN stack[k] = {"macro", "commands"}
      BY <2>1 DEF SInv, KnownStack, KnownEntry
    <3> QED BY <2>2, <3>1
  <2>4. Linked(stack[k].commands, b[k - 1], b[k]) /\ IsSeq(stack[k].commands)
    BY <1>5, <1>6, <2>1 DEF ChainOn
  <2>5. Linked(st2[k].commands, b[k - 1], z)
    <3> HIDE DEF st2, k
    <3> QED BY <1>2, <2>1, <2>3, <2>4, LinkedMore
  <2> HIDE DEF st2
  <2>6. PICK v : ChainOn(v, st2, provider, snapshots) /\ v[k] = z
    <3> HIDE DEF k
    <3>1. CanGoOn(b, stack, provider, snapshots, k, z, st2, snapshots)
      BY <1>5, <1>6, <1>9, <2>1, <2>2, <2>5 DEF CanGoOn, k
    <3>2. ChainEndsAt(st2, provider, snapshots, k, z)
      BY <1>3, <1>5, <3>1, ChainTo
    <3> QED BY <3>2 DEF ChainEndsAt
  <2>7. ChainOn(v, stack, provider, snapshots)'
    BY <1>7, <1>9, <2>1, <2>6
  <2>8. Reached' = k /\ Len(snapshots') = IF macroOpen' THEN index' + 1 ELSE Len(stack') + 1
    BY <1>5, <1>7, <1>9 DEF Reached
  <2>9. Sound(Workspace, v[Reached])'
    BY <1>4, <2>6, <2>8
  <2> QED BY <2>7, <2>8, <2>9 DEF Chain
<1>10. ASSUME ~macroOpen, index > 0, ~kept[index].macro,
              Mergeable(kept[index].commands[1], c), UNCHANGED index,
              stack' = [kept EXCEPT ![index].commands = WithCommand(@, c)],
              snapshots' = Append(SubSeq(snapshots, 1, index), after)
       PROVE  \E v : Chain(v)'
  <2> DEFINE k == index
             st2 == [kept EXCEPT ![k].commands = WithCommand(@, c)]
             sn2 == Append(SubSeq(snapshots, 1, k), after)
  <2>1. /\ stack' = st2 /\ k \in 1..Len(stack) /\ Reached = k
        /\ snapshots' = sn2 /\ k <= Len(snapshots)
    BY <1>5, <1>6, <1>10 DEF Reached
  <2>2. /\ Len(st2) = k
        /\ \A i \in 1..(k - 1) : st2[i] = stack[i]
        /\ st2[k] = [stack[k] EXCEPT !.commands = WithCommand(stack[k].commands, c)]
    <3> DEFINE d == [kept[k] EXCEPT !.commands = WithCommand(kept[k].commands, c)]
               e == [kept EXCEPT ![k] = d]
    <3>1. st2 = e
      OBVIOUS
    <3>2. d = [stack[k] EXCEPT !.commands = WithCommand(stack[k].commands, c)]
      BY <1>8, <2>1
    <3> HIDE DEF kept, d, st2
    <3>3. Len(e) = Len(kept) /\ \A i \in 1..Len(kept) : e[i] = IF i = k THEN d ELSE kept[i]
      BY <1>6, <1>8, <2>1, Replaced
    <3> HIDE DEF e
    <3>4. Len(st2) = k /\ st2[k] = d
      BY <1>6, <1>8, <2>1, <3>1, <3>3
    <3>5. ASSUME NEW i \in 1..(k - 1) PROVE st2[i] = stack[i]
      BY <1>6, <1>8, <2>1, <3>1, <3>3
    <3> QED BY <3>2, <3>4, <3>5
  <2>3. st2[k].commands = WithCommand(stack[k].commands, c)
    <3>1. DOMAIN stack[k] = {"macro", "commands"}
      BY <2>1 DEF SInv, KnownStack, KnownEntry
    <3> HIDE DEF st2
    <3> QED BY <2>2, <3>1
  <2>4. Linked(stack[k].commands, b[k - 1], b[k]) /\ IsSeq(stack[k].commands)
    BY <1>5, <1>6, <2>1 DEF ChainOn
  <2>5. Linked(st2[k].commands, b[k - 1], z)
    <3> HIDE DEF st2
    <3> QED BY <1>2, <2>1, <2>3, <2>4, LinkedMore
  <2>6. /\ IsSeq(sn2) /\ Len(sn2) = k + 1 /\ sn2[k + 1] = after
        /\ \A i \in 1..k : sn2[i] = snapshots[i]
    <3> DEFINE q == SubSeq(snapshots, 1, k)
    <3>1. IsSeq(q) /\ Len(q) = k /\ \A i \in 1..k : q[i] = snapshots[i]
      BY <1>5, <2>1, Prefix
    <3> DEFINE a == Append(q, after)
    <3>2. sn2 = a
      OBVIOUS
    <3> HIDE DEF q, after, sn2
    <3>3. /\ IsSeq(a) /\ Len(a) = Len(q) + 1
          /\ \A i \in 1..Len(q) : a[i] = q[i]
          /\ a[Len(q) + 1] = after
      BY <3>1, Appended
    <3> HIDE DEF a
    <3> QED BY <3>1, <3>2, <3>3
  <2> HIDE DEF st2, sn2
  <2>7. PICK v : ChainOn(v, st2, provider, sn2) /\ v[k] = z
    <3>1. CanGoOn(b, stack, provider, snapshots, k, z, st2, sn2)
      <4> HIDE DEF after
      <4> QED BY <1>5, <1>6, <1>12, <2>1, <2>2, <2>5, <2>6 DEF CanGoOn
    <3>2. ChainEndsAt(st2, provider, sn2, k, z)
      BY <1>3, <1>5, <3>1, ChainTo
    <3> QED BY <3>2 DEF ChainEndsAt
  <2>8. ChainOn(v, stack, provider, snapshots)'
    BY <1>7, <2>1, <2>7
  <2>9. Reached' = k /\ Len(snapshots') = IF macroOpen' THEN index' + 1 ELSE Len(stack') + 1
    BY <1>7, <1>10, <2>1, <2>2, <2>6 DEF Reached
  <2>10. Sound(Workspace, v[Reached])'
    BY <1>4, <2>7, <2>9
  <2> QED BY <2>8, <2>9, <2>10 DEF Chain
<1>11. ASSUME ~macroOpen, index' = index + 1,
              stack' = Append(kept, SingleEntry(c)),
              snapshots' = Append(SubSeq(snapshots, 1, index + 1), after)
       PROVE  \E v : Chain(v)'
  <2> DEFINE k == index + 1
             st2 == Append(kept, SingleEntry(c))
             sn2 == Append(SubSeq(snapshots, 1, k), after)
  <2>1. /\ stack' = st2 /\ k \in 1..(Len(stack) + 1) /\ Reached = k - 1
        /\ snapshots' = sn2 /\ k <= Len(snapshots)
    BY <1>5, <1>6, <1>11 DEF Reached
  <2>2. /\ Len(st2) = k
        /\ \A i \in 1..(k - 1) : st2[i] = stack[i]
        /\ st2[k].commands = <<c>>
    <3> DEFINE e == SingleEntry(c)
    <3>1. /\ Len(Append(kept, e)) = index + 1
          /\ \A i \in 1..index : Append(kept, e)[i] = kept[i]
          /\ Append(kept, e)[index + 1] = e
      <4> HIDE DEF kept, e
      <4> QED BY <1>8, Appended
    <3>2. e.commands = <<c>>
      BY DEF SingleEntry
    <3> HIDE DEF kept, e
    <3> QED BY <1>6, <1>8, <3>1, <3>2 DEF e
  <2>3. Linked(st2[k].commands, b[k - 1], z)
    BY <1>2, <2>1, <2>2, LinkedOne
  <2>4. /\ IsSeq(sn2) /\ Len(sn2) = k + 1 /\ sn2[k + 1] = after
        /\ \A i \in 1..k : sn2[i] = snapshots[i]
    <3> DEFINE q == SubSeq(snapshots, 1, k)
    <3>1. IsSeq(q) /\ Len(q) = k /\ \A i \in 1..k : q[i] = snapshots[i]
      BY <1>5, <2>1, Prefix
    <3> DEFINE a == Append(q, after)
    <3>2. sn2 = a
      OBVIOUS
    <3> HIDE DEF q, after, sn2
    <3>3. /\ IsSeq(a) /\ Len(a) = Len(q) + 1
          /\ \A i \in 1..Len(q) : a[i] = q[i]
          /\ a[Len(q) + 1] = after
      BY <3>1, Appended
    <3> HIDE DEF a
    <3> QED BY <3>1, <3>2, <3>3
  <2> HIDE DEF st2, sn2
  <2>5. PICK v : ChainOn(v, st2, provider, sn2) /\ v[k] = z
    <3> HIDE DEF k
    <3>1. CanGoOn(b, stack, provider, snapshots, k, z, st2, sn2)
      <4> HIDE DEF after
      <4> QED BY <1>5, <1>6, <1>12, <2>1, <2>2, <2>3, <2>4 DEF CanGoOn
    <3>2. ChainEndsAt(st2, provider, sn2, k, z)
      BY <1>3, <1>5, <3>1, ChainTo
    <3> QED BY <3>2 DEF ChainEndsAt
  <2>6. ChainOn(v, stack, provider, snapshots)'
    BY <1>7, <2>1, <2>5
  <2>7. Reached' = k /\ Len(snapshots') = IF macroOpen' THEN index' + 1 ELSE Len(stack') + 1
    BY <1>7, <1>11, <2>1, <2>2, <2>4 DEF Reached
  <2>8. Sound(Workspace, v[Reached])'
    BY <1>4, <2>5, <2>7
  <2> QED BY <2>6, <2>7, <2>8 DEF Chain
<1> QED BY <1>9, <1>10, <1>11 DEF Push

\* Whoever pushes a command that does what it says keeps the chain.
LEMMA PushEInv ==
    ASSUME SInv, EInv, editing, NEW c, Push(c),
           Fine(Workspace) => Does(c, buffer, Redone(c, Workspace).buffer)
    PROVE  EInv'
<1>1. UNCHANGED <<editing, job, damaged>>
  BY DEF Push
<1>2. ASSUME ~damaged PROVE \E v : Chain(v)'
  <2>1. PICK b : Chain(b)
    BY <1>2 DEF EInv
  <2> QED BY <2>1, ChainFine, PushChain
<1>3. (Undrawn => ~job.running)' /\ editing'
  BY <1>1 DEF EInv
<1> QED BY <1>1, <1>2, <1>3 DEF EInv

LEMMA AddFeatureEInv ==
    ASSUME SInv, EInv, NEW value, NEW geom \in Geometries, AddFeature(value, geom)
    PROVE  EInv'
<1> DEFINE fid == lowWaterMark - 1
           fields == PendingFields(provider, buffer)
           attrs == [i \in 1..Len(fields) |->
                        IF fields[i].origin \in {"provider", "edit"}
                        THEN value ELSE Null]
           feature == [attrs |-> attrs, geom |-> geom]
           c == AddFeatureCommand(fid, feature)
<1>1. editing /\ Push(c)
  BY DEF AddFeature, TemporaryId, Editable
<1>2. GoodFeature(feature)
  BY DrawnAssumption DEF GoodFeature, IsMap
<1> HIDE DEF feature
<1>3. IsNew(fid) /\ fid \notin DOMAIN buffer.addedFeatures
  BY DEF SInv, IdsWithin, IsNew
<1> HIDE DEF fid
<1>4. Fine(Workspace) => Does(c, buffer, Redone(c, Workspace).buffer)
  <2>1. Workspace.buffer = buffer
    BY DEF Workspace
  <2> QED BY <1>2, <1>3, <2>1, PushAdds
<1> HIDE DEF c
<1> QED BY <1>1, <1>4, PushEInv

LEMMA EditFeatureEInv ==
    ASSUME SInv, EInv, EditFeature
    PROVE  EInv'
<1>1. Workspace.buffer = buffer
  BY DEF Workspace
<1>2. ASSUME NEW fid, DeleteFeature(fid) PROVE EInv'
  <2> DEFINE c == DeleteFeatureCommand(Workspace, fid)
  <2>1. /\ editing /\ Push(c)
        /\ IF IsNew(fid) THEN fid \in DOMAIN buffer.addedFeatures
           ELSE fid \notin buffer.deletedFeatureIds
    BY <1>2 DEF DeleteFeature, Editable
  <2>2. Fine(Workspace) => Does(c, buffer, Redone(c, Workspace).buffer)
    BY <1>1, <2>1, PushDeletes
  <2> HIDE DEF c
  <2> QED BY <2>1, <2>2, PushEInv
<1>3. ASSUME NEW fid, NEW geom \in Geometries, ChangeGeometry(fid, geom) PROVE EInv'
  <2> DEFINE c == ChangeGeometryCommand(Workspace, fid, geom)
  <2>1. /\ editing /\ Push(c) /\ geom # NoGeometry
        /\ IsNew(fid) => fid \in DOMAIN buffer.addedFeatures
    BY <1>3, DrawnAssumption DEF ChangeGeometry, Editable
  <2>2. Fine(Workspace) => Does(c, buffer, Redone(c, Workspace).buffer)
    BY <1>1, <2>1, PushMoves
  <2> HIDE DEF c
  <2> QED BY <2>1, <2>2, PushEInv
<1>4. ASSUME NEW fid, NEW field, NEW value, ChangeAttributeValue(fid, field, value)
      PROVE  EInv'
  <2> DEFINE c == ChangeAttributeCommand(Workspace, fid, field, value)
  <2>1. /\ editing /\ Push(c)
        /\ IsNew(fid) => fid \in DOMAIN buffer.addedFeatures
    BY <1>4 DEF ChangeAttributeValue, Editable
  <2>2. Fine(Workspace) => Does(c, buffer, Redone(c, Workspace).buffer)
    BY <1>1, <2>1, PushWrites
  <2> HIDE DEF c
  <2> QED BY <2>1, <2>2, PushEInv
<1> QED BY <1>2, <1>3, <1>4, AddFeatureEInv DEF EditFeature

LEMMA ChainShows ==
    ASSUME SInv, NEW b, Chain(b)
    PROVE  Shown(CurrentLayer) = Shown(Layer(provider, b[Reached]))
<1>1. Matches(buffer, b[Reached]) /\ IsBuffer(b[Reached])
  BY ChainFine DEF Chain, Sound, Workspace, GoodBuffer
<1> QED BY <1>1, SameLayer DEF CurrentLayer

\* The history goes on with what is shown now.
LEMMA ChainNotes ==
    ASSUME NEW b, NEW st, NEW p, NEW snaps, ChainOn(b, st, p, snaps),
           NEW layer, Shown(layer) = Shown(Layer(p, b[Len(snaps)]))
    PROVE  /\ ChainOn(b, st, p, Append(snaps, layer))
           /\ Len(Append(snaps, layer)) = Len(snaps) + 1
<1> DEFINE a == Append(snaps, layer)
<1>1. /\ IsSeq(a) /\ Len(a) = Len(snaps) + 1 /\ a[Len(snaps) + 1] = layer
      /\ \A i \in 1..Len(snaps) : a[i] = snaps[i]
      /\ Len(snaps) \in Nat
  BY Appended, SeqShape DEF ChainOn
<1> HIDE DEF a
<1>2. ASSUME NEW i \in 1..Len(a)
      PROVE  Shown(a[i]) = Shown(Layer(p, b[i - 1]))
  <2>1. CASE i = Len(snaps) + 1
    <3>1. i - 1 = Len(snaps)
      BY <1>1, <2>1
    <3> QED BY <1>1, <2>1, <3>1
  <2>2. CASE i \in 1..Len(snaps)
    BY <1>1, <2>2 DEF ChainOn
  <2> QED BY <1>1, <2>1, <2>2
<1> QED BY <1>1, <1>2 DEF ChainOn, a

LEMMA BeginChain ==
    ASSUME SInv, NEW b, Chain(b), BeginEditCommand
    PROVE  \E v : Chain(v)'
<1> DEFINE k == index + 1
           kept == SubSeq(stack, 1, index)
           e == [macro |-> TRUE, commands |-> <<>>]
           sn2 == SubSeq(snapshots, 1, k)
           st2 == Append(kept, e)
<1>1. /\ Len(stack) \in Nat /\ index \in Nat /\ index \in 0..Len(stack) /\ IsSeq(stack)
      /\ ~macroOpen /\ Reached = index
  BY ReachedEntry DEF BeginEditCommand, Reached
<1>2. /\ ChainOn(b, stack, provider, snapshots) /\ Len(snapshots) = Len(stack) + 1
      /\ IsSeq(snapshots) /\ Sound(Workspace, b[index])
      /\ GoodBuffer(b[index])
  BY <1>1 DEF Chain, ChainOn
<1>3. IsSeq(kept) /\ Len(kept) = index /\ \A i \in 1..index : kept[i] = stack[i]
  BY <1>1, Prefix
<1>4. IsSeq(sn2) /\ Len(sn2) = k /\ \A i \in 1..k : sn2[i] = snapshots[i]
  <2>1. k \in 0..Len(snapshots)
    BY <1>1, <1>2
  <2> HIDE DEF k
  <2> QED BY <1>2, <2>1, Prefix
<1>5. /\ stack' = st2 /\ snapshots' = sn2 /\ macroOpen' /\ index' = index
      /\ provider' = provider /\ Workspace' = Workspace
  BY DEF BeginEditCommand, Workspace
<1>6. e.commands = <<>>
  OBVIOUS
<1>7. Len(st2) = k /\ st2[k] = e /\ \A i \in 1..(k - 1) : st2[i] = stack[i]
  <2> HIDE DEF kept, e
  <2> QED BY <1>1, <1>3, Appended
<1> HIDE DEF st2, sn2, e
<1>8. CanGoOn(b, stack, provider, snapshots, k, b[index], st2, sn2)
  <2>1. Linked(st2[k].commands, b[k - 1], b[index])
    BY <1>1, <1>6, <1>7, LinkedNothing
  <2> QED BY <1>1, <1>2, <1>4, <1>7, <2>1 DEF CanGoOn
<1>9. ChainEndsAt(st2, provider, sn2, k, b[index])
  BY <1>2, <1>8, ChainTo
<1>10. PICK v : ChainOn(v, st2, provider, sn2) /\ v[k] = b[index]
  BY <1>9 DEF ChainEndsAt
<1>11. ChainOn(v, stack, provider, snapshots)'
  BY <1>5, <1>10
<1>12. Reached' = k /\ Len(snapshots') = k
  BY <1>4, <1>5 DEF Reached
<1>13. Sound(Workspace, v[Reached])'
  BY <1>2, <1>5, <1>10, <1>12
<1> QED BY <1>5, <1>11, <1>12, <1>13 DEF Chain

LEMMA UndoStackChain ==
    ASSUME SInv, NEW b, Chain(b), UseUndoStack
    PROVE  \E v : Chain(v)'
<1>1. /\ Len(stack) \in Nat /\ index \in Nat /\ index \in 0..Len(stack) /\ IsSeq(stack)
      /\ \A i \in 1..Len(stack) : IsSeq(stack[i].commands)
      /\ macroOpen => Len(stack) = index + 1
  BY ReachedEntry DEF SInv
<1>2. /\ ChainOn(b, stack, provider, snapshots) /\ Sound(Workspace, b[Reached])
      /\ Len(snapshots) = IF macroOpen THEN index + 1 ELSE Len(stack) + 1
      /\ \A i \in 1..Len(stack) : Linked(stack[i].commands, b[i - 1], b[i])
  BY DEF Chain, ChainOn
<1>3. ASSUME macroOpen, stack' = stack, provider' = provider, macroOpen' = FALSE,
             snapshots' = Append(snapshots, CurrentLayer),
             NEW n, index' = n, NEW x, x = b[n], Sound(Workspace, x)'
      PROVE  \E v : Chain(v)'
  <2>1. Shown(CurrentLayer) = Shown(Layer(provider, b[Len(snapshots)]))
    BY <1>2, <1>3, ChainShows DEF Reached
  <2>2. /\ ChainOn(b, stack, provider, Append(snapshots, CurrentLayer))
        /\ Len(Append(snapshots, CurrentLayer)) = Len(snapshots) + 1
    BY <1>2, <2>1, ChainNotes
  <2>3. ChainOn(b, stack, provider, snapshots)' /\ Len(snapshots') = Len(stack') + 1
    BY <1>1, <1>2, <1>3, <2>2
  <2>4. Reached' = n
    BY <1>3 DEF Reached
  <2>5. Sound(Workspace, b[Reached])'
    BY <1>3, <2>4
  <2> QED BY <1>3, <2>3, <2>5 DEF Chain
<1>4. ASSUME ~macroOpen, UNCHANGED <<stack, provider, macroOpen, snapshots>>,
             NEW n, index' = n, NEW x, x = b[n], Sound(Workspace, x)'
      PROVE  \E v : Chain(v)'
  <2>1. Reached' = n
    BY <1>4 DEF Reached
  <2>2. Sound(Workspace, b[Reached])'
    BY <1>4, <2>1
  <2> QED BY <1>2, <1>4, <2>2 DEF Chain
<1>5. CASE EndEditCommand
  <2>1. /\ macroOpen /\ stack' = stack /\ provider' = provider /\ macroOpen' = FALSE
        /\ snapshots' = Append(snapshots, CurrentLayer) /\ Workspace' = Workspace
        /\ index' = index + 1
    BY <1>5 DEF EndEditCommand, Workspace
  <2> PICK n : n = index + 1
    OBVIOUS
  <2> PICK x : x = b[n]
    OBVIOUS
  <2>2. Sound(Workspace, x)
    BY <1>2, <2>1 DEF Reached
  <2>3. Sound(Workspace, x)'
    BY <2>1, <2>2
  <2> QED BY <1>3, <2>1, <2>3
<1>6. CASE DestroyEditCommand
  <2> PICK r : r = AllUndone(stack[index + 1].commands, Workspace)
    OBVIOUS
  <2> PICK n : n = index
    OBVIOUS
  <2> PICK x : x = b[n]
    OBVIOUS
  <2>1. /\ macroOpen /\ stack' = stack /\ provider' = provider /\ macroOpen' = FALSE
        /\ snapshots' = Append(snapshots, CurrentLayer) /\ BecomesWorkspace(r)
        /\ index' = n
    BY <1>6 DEF DestroyEditCommand
  <2>2. index + 1 \in 1..Len(stack) /\ Reached = index + 1 /\ (index + 1) - 1 = index
    BY <1>1, <2>1 DEF Reached
  <2>3. Sound(r, x)
    BY <1>1, <1>2, <2>2, UndoLinked
  <2>4. Sound(Workspace, x)'
    BY <2>1, <2>3, BecomesSound
  <2> QED BY <1>3, <2>1, <2>4
<1>7. CASE Undo
  <2> PICK r : r = AllUndone(stack[index].commands, Workspace)
    OBVIOUS
  <2> PICK n : n = index - 1
    OBVIOUS
  <2> PICK x : x = b[n]
    OBVIOUS
  <2>1. /\ ~macroOpen /\ UNCHANGED <<stack, provider, macroOpen, snapshots>>
        /\ BecomesWorkspace(r) /\ index' = n /\ index > 0
    BY <1>7 DEF Undo
  <2>2. index \in 1..Len(stack) /\ Reached = index
    BY <1>1, <2>1 DEF Reached
  <2>3. Sound(r, x)
    BY <1>1, <1>2, <2>2, UndoLinked
  <2>4. Sound(Workspace, x)'
    BY <2>1, <2>3, BecomesSound
  <2> QED BY <1>4, <2>1, <2>4
<1>8. CASE Redo
  <2> PICK r : r = AllRedone(stack[index + 1].commands, Workspace)
    OBVIOUS
  <2> PICK n : n = index + 1
    OBVIOUS
  <2> PICK x : x = b[n]
    OBVIOUS
  <2>1. /\ ~macroOpen /\ UNCHANGED <<stack, provider, macroOpen, snapshots>>
        /\ BecomesWorkspace(r) /\ index' = n /\ index < Len(stack)
    BY <1>8 DEF Redo
  <2>2. index + 1 \in 1..Len(stack) /\ Reached = index /\ (index + 1) - 1 = index
    BY <1>1, <2>1 DEF Reached
  <2>3. Sound(r, x)
    BY <1>1, <1>2, <2>2, RedoLinked
  <2>4. Sound(Workspace, x)'
    BY <2>1, <2>3, BecomesSound
  <2> QED BY <1>4, <2>1, <2>4
<1> QED BY <1>5, <1>6, <1>7, <1>8, BeginChain DEF UseUndoStack

LEMMA UndoStackEInv ==
    ASSUME SInv, EInv, UseUndoStack
    PROVE  EInv'
<1>1. UNCHANGED <<editing, job, damaged>> /\ editing
  BY DEF UseUndoStack, BeginEditCommand, EndEditCommand, DestroyEditCommand, Undo, Redo
<1>2. ASSUME ~damaged PROVE \E v : Chain(v)'
  <2>1. PICK b : Chain(b)
    BY <1>1, <1>2 DEF EInv
  <2> QED BY <2>1, UndoStackChain
<1>3. (Undrawn => ~job.running)' /\ editing'
  BY <1>1 DEF EInv
<1> QED BY <1>1, <1>2, <1>3 DEF EInv

\* The history starts with the empty buffer.
LEMMA EmptyChain ==
    ASSUME NEW p
    PROVE  ChainEndsAt(<<>>, p, <<Layer(p, EmptyBuffer)>>, 0, EmptyBuffer)
<1> DEFINE v == [i \in {0} |-> EmptyBuffer]
           layer == Layer(p, EmptyBuffer)
<1>1. v[0] = EmptyBuffer
  OBVIOUS
<1> HIDE DEF v, layer
<1>2. IsSeq(<<layer>>) /\ Len(<<layer>>) = 1 /\ <<layer>>[1] = layer
  BY OneElement
<1>3. ChainOn(v, <<>>, p, <<layer>>)
  <2>1. Len(<<>>) = 0
    BY NoElements
  <2>2. GoodBuffer(v[0]) /\ Shown(<<layer>>[1]) = Shown(Layer(p, v[1 - 1]))
    BY <1>1, <1>2, EmptyGood DEF layer
  <2> QED BY <1>1, <1>2, <2>1, <2>2 DEF ChainOn
<1> QED BY <1>1, <1>3 DEF ChainEndsAt, layer

LEMMA StartEInv ==
    ASSUME SInv, EInv, StartEditing
    PROVE  EInv'
<1>1. /\ stack = <<>> /\ buffer = EmptyBuffer /\ ~macroOpen /\ index = 0 /\ alive
  <2>1. ~editing /\ alive
    BY DEF StartEditing
  <2>2. stack = <<>> /\ index \in 0..Len(stack)
    BY <2>1 DEF SInv
  <2>3. index = 0
    BY <2>2, NoElements
  <2> QED BY <2>1, <2>2, <2>3 DEF SInv
<1> PICK p : p = provider
  OBVIOUS
<1> PICK snaps : snaps = <<Layer(p, EmptyBuffer)>>
  OBVIOUS
<1>2. /\ stack' = <<>> /\ provider' = p /\ snapshots' = snaps /\ macroOpen' = FALSE
      /\ index' = 0 /\ job' = job /\ editing' /\ Workspace' = Workspace
  <2>1. /\ UNCHANGED <<provider, buffer, cache, stack, index, macroOpen, alive, job>>
        /\ editing' = TRUE /\ snapshots' = <<CurrentLayer>>
    BY DEF StartEditing, stackVars
  <2>2. CurrentLayer = Layer(p, EmptyBuffer)
    BY <1>1 DEF CurrentLayer
  <2> QED BY <1>1, <2>1, <2>2 DEF Workspace, SInv, Flags
<1>3. PICK v : ChainOn(v, <<>>, p, snaps) /\ v[0] = EmptyBuffer
  BY EmptyChain DEF ChainEndsAt
<1>4. Sound(Workspace, EmptyBuffer)
  <2>1. Matches(EmptyBuffer, EmptyBuffer)
    <3>1. IsMap(EmptyBuffer.changedGeometries)
      BY DEF EmptyBuffer, EmptyMap, IsMap
    <3> QED BY <3>1, EmptyGood DEF Matches, GoodBuffer, KeepsAdded, KeepsDeleted,
                                   KeepsValues, Within
  <2>2. Cached(Workspace)
    BY <1>1 DEF Cached, CachedIn, Workspace, EmptyBuffer, EmptyMap
  <2>3. IsWorkspace(Workspace)
    BY DEF SInv, Flags, IsWorkspace, Workspace
  <2> QED BY <1>1, <2>1, <2>2, <2>3 DEF Sound, Workspace
<1>5. Sound(Workspace, EmptyBuffer)'
  <2> PICK e : e = EmptyBuffer
    OBVIOUS
  <2>1. Sound(Workspace, e)'
    BY <1>2, <1>4
  <2> QED BY <2>1
<1>6. ChainOn(v, stack, provider, snapshots)'
  BY <1>2, <1>3
<1>7. Len(snapshots') = 1 /\ Len(stack') = 0
  BY <1>2, OneElement, NoElements
<1>8. Sound(Workspace, v[Reached])'
  <2>1. Reached' = 0
    BY <1>2 DEF Reached
  <2> QED BY <1>3, <1>5, <2>1
<1>9. Chain(v)'
  BY <1>2, <1>6, <1>7, <1>8 DEF Chain
<1> QED BY <1>2, <1>9 DEF EInv

LEMMA CommitEInv ==
    ASSUME SInv, EInv, NEW fails, CommitChanges(fails)
    PROVE  EInv'
<1> PICK t : t = Committed(provider, buffer, selected, fails)
  OBVIOUS
<1>1. /\ provider' = t.provider /\ job' = job /\ editing
      /\ \/ editing' = FALSE /\ snapshots' = <<Layer(t.provider, EmptyBuffer)>>
         \/ editing' = editing /\ damaged' = TRUE
  BY DEF CommitChanges
<1> QED BY <1>1 DEF EInv

\* All the entries in effect are taken back.
LEMMA BottomSound ==
    ASSUME SInv, ~macroOpen, NEW b, Chain(b),
           NEW s, s = UndoneToBottom(SubSeq(stack, 1, index), Workspace)
    PROVE  Sound(s, EmptyBuffer)
<1> DEFINE kept == SubSeq(stack, 1, index)
<1>1. /\ Len(stack) \in Nat /\ index \in 0..Len(stack) /\ IsSeq(stack) /\ Reached = index
      /\ \A i \in 1..Len(stack) : IsSeq(stack[i].commands)
  BY ReachedEntry DEF Reached
<1>2. IsSeq(kept) /\ Len(kept) = index /\ \A i \in 1..index : kept[i] = stack[i]
  BY <1>1, Prefix
<1> HIDE DEF kept
<1>3. /\ b[0] = EmptyBuffer /\ Sound(Workspace, b[index])
      /\ \A i \in 1..Len(stack) : Linked(stack[i].commands, b[i - 1], b[i])
  BY <1>1 DEF Chain, ChainOn
<1>4. ASSUME NEW i \in 1..Len(kept)
      PROVE  IsSeq(kept[i].commands) /\ Linked(kept[i].commands, b[i - 1], b[i])
  <2>1. i \in 1..Len(stack) /\ kept[i] = stack[i]
    BY <1>1, <1>2
  <2> QED BY <1>1, <1>3, <2>1
<1>5. Sound(UndoneToBottom(kept, Workspace), b[0])
  BY <1>2, <1>3, <1>4, BottomLinked
<1> QED BY <1>3, <1>5 DEF kept

\* Then all that rollBack asserts of the buffer holds.
LEMMA EmptiedBuffer ==
    ASSUME NEW u, Matches(u, EmptyBuffer)
    PROVE  u = EmptyBuffer /\ EmptyAfterRollBack(u)
<1>1. u.changedGeometries = EmptyMap
  <2>1. DOMAIN EmptyBuffer.changedGeometries = {}
    BY DEF EmptyBuffer, EmptyMap
  <2>2. IsMap(u.changedGeometries) /\ DOMAIN u.changedGeometries = {}
    BY <2>1 DEF Matches, Within
  <2> QED BY <2>2 DEF IsMap, EmptyMap
<1>2. u = EmptyBuffer
  BY <1>1 DEF Matches, IsBuffer, BufferFields, EmptyBuffer, KeepsAdded, KeepsDeleted,
              KeepsValues
<1>3. EmptyAfterRollBack(EmptyBuffer)
  BY DEF EmptyAfterRollBack, EmptyBuffer
<1> QED BY <1>2, <1>3

LEMMA RollBackEInv ==
    ASSUME SInv, EInv, NEW deleteBuffer \in BOOLEAN, RollBack(deleteBuffer)
    PROVE  EInv'
<1> PICK s : s = UndoneToBottom(SubSeq(stack, 1, index), Workspace)
  OBVIOUS
<1>1. /\ editing /\ ~macroOpen /\ index' = 0 /\ cache' = EmptyMap
      /\ alive' = (s.alive /\ (index > 0 => EmptyAfterRollBack(s.buffer)))
      /\ UNCHANGED <<provider, macroOpen, job>>
  BY DEF RollBack
<1>2. CASE deleteBuffer
  <2>1. editing' = FALSE /\ snapshots' = <<Layer(provider', EmptyBuffer)>>
    BY <1>1, <1>2 DEF RollBack
  <2> QED BY <1>1, <2>1 DEF EInv
<1>3. CASE ~deleteBuffer
  <2>1. buffer' = s.buffer /\ UNCHANGED <<editing, stack, snapshots, damaged>>
    BY <1>3 DEF RollBack
  <2>2. ASSUME ~damaged PROVE \E v : Chain(v)'
    <3>1. PICK b : Chain(b)
      BY <1>1, <2>2 DEF EInv
    <3>2. Sound(s, EmptyBuffer)
      BY <1>1, <3>1, BottomSound
    <3>9. s.buffer = EmptyBuffer /\ s.alive /\ alive'
      BY <1>1, <3>2, EmptiedBuffer DEF Sound
    <3> PICK r : r = [provider |-> s.provider, buffer |-> s.buffer,
                      cache |-> EmptyMap, alive |-> s.alive]
      OBVIOUS
    <3> PICK e : e = EmptyBuffer
      OBVIOUS
    <3>3. Sound(r, e)
      <4>1. r.buffer = s.buffer /\ r.alive = s.alive /\ r.cache = EmptyMap
        OBVIOUS
      <4>2. Undrawn => s.buffer.changedGeometries = EmptyMap
        <5>1. EmptyBuffer.changedGeometries = EmptyMap
          BY DEF EmptyBuffer
        <5> QED BY <3>9, <5>1
      <4>3. Cached(r)
        BY <4>1, <4>2 DEF Cached, CachedIn, EmptyMap
      <4>4. IsWorkspace(r)
        BY <3>2, <4>1 DEF Sound, IsWorkspace
      <4> QED BY <3>2, <4>1, <4>3, <4>4 DEF Sound
    <3>4. BecomesWorkspace(r)
      BY <1>1, <2>1, <3>9 DEF BecomesWorkspace
    <3>5. Sound(Workspace, e)'
      BY <3>3, <3>4, BecomesSound
    <3>6. Reached' = 0 /\ b[0] = e
      BY <1>1, <3>1 DEF Reached, Chain, ChainOn
    <3>7. Sound(Workspace, b[Reached])'
      BY <3>5, <3>6
    <3>8. /\ ChainOn(b, stack, provider, snapshots)'
          /\ Len(snapshots') = IF macroOpen' THEN index' + 1 ELSE Len(stack') + 1
      BY <1>1, <2>1, <3>1 DEF Chain
    <3> QED BY <3>7, <3>8 DEF Chain
  <2> QED BY <1>1, <2>1, <2>2 DEF EInv
<1> QED BY <1>2, <1>3

LEMMA RenderingEInv ==
    ASSUME SInv, EInv, Rendering
    PROVE  EInv'
<1>1. ~Undrawn
  BY DEF Rendering, StartRenderJob, FinishRenderJob, Undrawn, EInv
<1>2. UNCHANGED <<provider, editing, buffer, stack, index, macroOpen, alive,
                  snapshots, damaged>>
  BY DEF Rendering, StartRenderJob, FinishRenderJob, stackVars
<1>3. ASSUME NEW b, Chain(b) PROVE Chain(b)'
  <2> PICK x : x = b[Reached]
    OBVIOUS
  <2> PICK r : r = [provider |-> provider', buffer |-> buffer',
                    cache |-> cache', alive |-> alive']
    OBVIOUS
  <2>1. Reached' = Reached /\ Workspace' = r
    BY <1>2 DEF Reached, Workspace
  <2>2. Sound(Workspace, x)
    BY <1>3 DEF Chain
  <2>3. r.buffer = Workspace.buffer /\ r.alive = Workspace.alive
    BY <1>2 DEF Workspace
  <2>4. Sound(r, x)
    BY <1>1, <2>2, <2>3 DEF Sound, IsWorkspace, Cached
  <2>5. Sound(Workspace, x)'
    BY <2>1, <2>4
  <2>6. Sound(Workspace, b[Reached])'
    BY <1>2, <2>1, <2>5
  <2>7. /\ ChainOn(b, stack, provider, snapshots)'
        /\ Len(snapshots') = IF macroOpen' THEN index' + 1 ELSE Len(stack') + 1
    BY <1>2, <1>3 DEF Chain
  <2> QED BY <2>6, <2>7 DEF Chain
<1> QED BY <1>1, <1>2, <1>3 DEF EInv

LEMMA InitEInv ==
    ASSUME Init
    PROVE  EInv
BY DEF Init, EInv, NoJob

LEMMA NextEInv ==
    ASSUME FeaturesOnly, SInv, EInv, [Next]_vars
    PROVE  EInv'
<1>1. ASSUME UNCHANGED <<provider, editing, buffer, cache, stack, index, macroOpen,
                         alive, job, snapshots, damaged>>
      PROVE  EInv'
  <2>1. ASSUME NEW b, Chain(b) PROVE Chain(b)'
    <3> PICK x : x = b[Reached]
      OBVIOUS
    <3>1. Reached' = Reached /\ Workspace' = Workspace
      BY <1>1 DEF Reached, Workspace
    <3>2. Sound(Workspace, x)
      BY <2>1 DEF Chain
    <3>3. Sound(Workspace, x)'
      BY <3>1, <3>2
    <3>4. Sound(Workspace, b[Reached])'
      BY <3>1, <3>3
    <3>5. /\ ChainOn(b, stack, provider, snapshots)'
          /\ Len(snapshots') = IF macroOpen' THEN index' + 1 ELSE Len(stack') + 1
      BY <1>1, <2>1 DEF Chain
    <3> QED BY <3>4, <3>5 DEF Chain
  <2> QED BY <1>1, <2>1 DEF EInv
<1>2. ASSUME NEW fids, Select(fids) PROVE EInv'
  BY <1>1, <1>2 DEF Select, stackVars
<1>3. ~EditFields
  BY DEF EditFields, AddAttribute, DeleteAttribute, Editable, FeaturesOnly
<1>4. CASE UNCHANGED vars
  BY <1>1, <1>4 DEF vars
<1> QED BY <1>2, <1>3, <1>4, EditFeatureEInv, UndoStackEInv, StartEInv, CommitEInv,
           RollBackEInv, RenderingEInv DEF Next, Session

\* While only features are edited and no commit failed, the undo stack is a chain
\* of buffers that its commands link, the one in effect is the layer's, and the
\* history shows them.
THEOREM EditingChain ==
    ASSUME FeaturesOnly
    PROVE  Spec => [](SInv /\ EInv)
<1>1. Init => SInv /\ EInv
  BY InitSession, InitEInv
<1>2. SInv /\ EInv /\ [Next]_vars => SInv' /\ EInv'
  BY NextSession, NextEInv
<1> QED BY <1>1, <1>2, PTL DEF Spec

LEMMA HistoryShows ==
    ASSUME SInv, EInv, ~damaged, ~macroOpen
    PROVE  Shown(CurrentLayer) = Shown(snapshots[index + 1])
<1>1. CASE editing
  <2>1. PICK b : Chain(b)
    BY <1>1 DEF EInv
  <2>2. /\ index \in 0..Len(stack) /\ Len(stack) \in Nat /\ Reached = index
    BY ReachedEntry DEF Reached
  <2>3. index + 1 \in 1..Len(snapshots) /\ (index + 1) - 1 = index
    BY <2>1, <2>2 DEF Chain
  <2>4. Shown(snapshots[index + 1]) = Shown(Layer(provider, b[index]))
    BY <2>1, <2>3 DEF Chain, ChainOn
  <2> QED BY <2>1, <2>2, <2>4, ChainShows
<1>2. CASE ~editing
  <2>1. stack = <<>> /\ buffer = EmptyBuffer /\ index \in 0..Len(stack)
    BY <1>2 DEF SInv
  <2>2. index = 0
    BY <2>1, NoElements
  <2>3. snapshots[1] = Layer(provider, EmptyBuffer)
    BY <1>2, OneElement DEF EInv
  <2> QED BY <2>1, <2>2, <2>3 DEF CurrentLayer
<1> QED BY <1>1, <1>2

\* Any walk along the undo stack, over adding, deleting and changing features,
\* inside edit commands and out of them, merged or not, with render jobs that
\* replace the geometry cache: ids and attribute values are what they were.
THEOREM UndoAlwaysRestoresAttributes ==
    ASSUME FeaturesOnly
    PROVE  Spec => []UndoRestoresAttributes
<1>1. SInv /\ EInv => UndoRestoresAttributes
  BY HistoryShows DEF UndoRestoresAttributes, Shown
<1> QED BY <1>1, EditingChain, PTL

\* The same of the geometries, while no job draws the layer that is edited.
\* That is needed: a finished render job replaces the cache from which the old
\* geometry of the next change is read (qgsvectorlayerundocommand.cpp:127).
THEOREM UndoAlwaysRestores ==
    ASSUME FeaturesOnly, Undrawn
    PROVE  Spec => []UndoRestores
<1>1. SInv /\ EInv => UndoRestores
  BY HistoryShows DEF UndoRestores, Shown
<1> QED BY <1>1, EditingChain, PTL

\* Undoing everything leaves nothing a commit would write, whatever was drawn
\* meanwhile: a geometry that is not put back right is still taken out.
THEOREM BottomIsEmpty ==
    ASSUME FeaturesOnly
    PROVE  Spec => []NothingPendingAtBottom
<1>1. SInv /\ EInv => NothingPendingAtBottom
  <2> SUFFICES ASSUME SInv, EInv, editing, index = 0, ~macroOpen, ~damaged
               PROVE  buffer = EmptyBuffer
    BY DEF NothingPendingAtBottom, AtBottom
  <2>1. PICK b : Chain(b)
    BY DEF EInv
  <2>2. Matches(buffer, EmptyBuffer)
    BY <2>1 DEF Chain, ChainOn, Reached, Sound, Workspace
  <2> QED BY <2>2, EmptiedBuffer
<1> QED BY <1>1, EditingChain, PTL

-----------------------------------------------------------------------------
(* Assertions, while the data source takes what it is given.               *)

NoFailure == ProviderFailures \subseteq {{}}

AInv == alive /\ ~damaged

\* A commit of features fails only where a call of the provider fails.
LEMMA CommitSucceeds ==
    ASSUME NEW p, NEW b, GoodBuffer(b), NEW sel
    PROVE  Committed(p, b, sel, {}).success
<1> DEFINE Stage(t) == /\ DOMAIN t = {"provider", "buffer", "selected", "success",
                                      "attributesChanged"}
                       /\ t.success
           start == [provider |-> p, buffer |-> b, selected |-> sel,
                     success |-> TRUE, attributesChanged |-> FALSE]
<1>1. Stage(start) /\ start.buffer = b /\ start.attributesChanged = FALSE
  OBVIOUS
<1> HIDE DEF start
<1>2. CommitDeletedAttributes(start, {}) = start
  BY <1>1 DEF CommitDeletedAttributes, GoodBuffer
<1>3. CommitAddedAttributes(start, {}) = start
  BY <1>1 DEF CommitAddedAttributes, GoodBuffer
<1>4. FieldsAsExpected(start, FieldNames(p, b))
  BY <1>1 DEF FieldsAsExpected
<1>5. ASSUME NEW t, Stage(t)
      PROVE  /\ Stage(CommitChangedAttributes(t, {}))
             /\ Stage(CommitDeletedFeatures(t, {}))
             /\ Stage(CommitAddedFeatures(t, {}))
             /\ Stage(CommitChangedGeometries(t, {}))
  <2>1. Stage(CommitChangedAttributes(t, {}))
    BY <1>5 DEF CommitChangedAttributes
  <2>2. Stage(CommitDeletedFeatures(t, {}))
    BY <1>5 DEF CommitDeletedFeatures
  <2>3. Stage(CommitAddedFeatures(t, {}))
    BY <1>5 DEF CommitAddedFeatures
  <2>4. Stage(CommitChangedGeometries(t, {}))
    BY <1>5 DEF CommitChangedGeometries
  <2> QED BY <2>1, <2>2, <2>3, <2>4
<1> DEFINE rows == CommitAddedFeatures(
                       CommitDeletedFeatures(
                           CommitChangedAttributes(start, {}), {}), {})
<1>6. Committed(p, b, sel, {}) = CommitChangedGeometries(rows, {})
  BY <1>2, <1>3, <1>4 DEF Committed, start
<1>7. Stage(rows)
  <2> HIDE DEF Stage
  <2> QED BY <1>1, <1>5
<1>8. Stage(CommitChangedGeometries(rows, {}))
  <2> HIDE DEF Stage, rows
  <2> QED BY <1>5, <1>7
<1> QED BY <1>6, <1>8

LEMMA NextAInv ==
    ASSUME NoFailure, FeaturesOnly, SInv, EInv, AInv, [Next]_vars
    PROVE  AInv'
<1>1. EInv'
  BY NextEInv
<1>2. ASSUME editing', ~damaged' PROVE AInv'
  <2>1. PICK b : Chain(b)'
    BY <1>1, <1>2 DEF EInv
  <2>2. Sound(Workspace, b[Reached])'
    BY <2>1 DEF Chain
  <2>3. Workspace'.alive
    BY <2>2 DEF Sound
  <2> QED BY <1>2, <2>3 DEF AInv, Workspace
<1>3. ASSUME editing PROVE \E b : Chain(b)
  BY <1>3 DEF EInv, AInv
<1>4. CASE EditFeature \/ UseUndoStack
  <2>1. ASSUME NEW c, Push(c), editing PROVE editing' /\ ~damaged'
    BY <2>1 DEF Push, AInv
  <2>2. CASE EditFeature
    <3>1. editing /\ \E c : Push(c)
      BY <2>2 DEF EditFeature, AddFeature, DeleteFeature, ChangeGeometry,
                  ChangeAttributeValue, Editable
    <3> QED BY <1>2, <2>1, <3>1
  <2>3. CASE UseUndoStack
    <3>1. UNCHANGED <<editing, damaged>> /\ editing
      BY <2>3 DEF UseUndoStack, BeginEditCommand, EndEditCommand, DestroyEditCommand,
                  Undo, Redo
    <3>2. editing' /\ ~damaged'
      BY <3>1 DEF AInv
    <3> QED BY <1>2, <3>2
  <2> QED BY <1>4, <2>2, <2>3
<1>5. ~EditFields
  BY DEF EditFields, AddAttribute, DeleteAttribute, Editable, FeaturesOnly
<1>6. ASSUME NEW fails \in ProviderFailures, CommitChanges(fails) PROVE AInv'
  <2>1. fails = {} /\ editing
    BY <1>6 DEF NoFailure, CommitChanges
  <2>2. PICK b : Chain(b)
    BY <1>3, <2>1
  <2>3. GoodBuffer(buffer)
    BY <2>2, ChainFine DEF Fine, Workspace
  <2>4. Committed(provider, buffer, selected, fails).success
    BY <2>1, <2>3, CommitSucceeds
  <2> QED BY <1>6, <2>4 DEF CommitChanges, AInv
<1>7. ASSUME NEW deleteBuffer \in BOOLEAN, RollBack(deleteBuffer) PROVE AInv'
  <2> PICK s : s = UndoneToBottom(SubSeq(stack, 1, index), Workspace)
    OBVIOUS
  <2>1. /\ editing /\ ~macroOpen /\ (damaged' = FALSE \/ damaged' = damaged)
        /\ alive' = (s.alive /\ (index > 0 => EmptyAfterRollBack(s.buffer)))
    BY <1>7 DEF RollBack
  <2>2. PICK b : Chain(b)
    BY <1>3, <2>1
  <2>3. s.alive /\ EmptyAfterRollBack(s.buffer)
    BY <2>1, <2>2, BottomSound, EmptiedBuffer DEF Sound
  <2>4. alive' = TRUE
    BY <2>1, <2>3
  <2>5. ~damaged'
    BY <2>1 DEF AInv
  <2> QED BY <2>4, <2>5 DEF AInv
<1>8. ASSUME UNCHANGED <<alive, damaged>> PROVE AInv'
  BY <1>8 DEF AInv
<1>9. StartEditing \/ (\E fids : Select(fids)) \/ Rendering \/ UNCHANGED vars
        => UNCHANGED <<alive, damaged>>
  BY DEF StartEditing, Rendering, StartRenderJob, FinishRenderJob, Select, vars
<1> QED BY <1>4, <1>5, <1>6, <1>7, <1>8, <1>9 DEF Next, Session

\* Editing features only, on a data source that does what it is asked: none of
\* the assertions of undo() and redo() fails (qgsvectorlayerundocommand.cpp:48,
\* 170, 207, 254, 291), and none of those at the end of a roll back
\* (qgsvectorlayereditbuffer.cpp:546-550), over all sessions, with roll backs,
\* commits and rendering between the edits.
THEOREM AssertionsNeverFail ==
    ASSUME FeaturesOnly, NoFailure
    PROVE  Spec => []NoAssertionFails
<1>1. Init => SInv /\ EInv /\ AInv
  BY InitSession, InitEInv DEF Init, AInv
<1>2. SInv /\ EInv /\ AInv /\ [Next]_vars => SInv' /\ EInv' /\ AInv'
  BY NextSession, NextEInv, NextAInv
<1>3. AInv => NoAssertionFails
  BY DEF AInv, NoAssertionFails
<1> QED BY <1>1, <1>2, <1>3, PTL DEF Spec

-----------------------------------------------------------------------------
(* The session implements EditHistory: past, present and future layers are *)
(* cut from the layers the session has shown.                              *)

\* Pieces of a sequence, and where they are cut.
LEMMA Piece ==
    ASSUME NEW s, IsSeq(s), NEW m \in Nat \ {0}, NEW n \in 0..Len(s), m <= n + 1
    PROVE  /\ IsSeq(SubSeq(s, m, n))
           /\ Len(SubSeq(s, m, n)) = n - m + 1
           /\ \A i \in 1..(n - m + 1) : SubSeq(s, m, n)[i] = s[m + i - 1]
<1>1. PICK S : s \in Seq(S)
  BY DEF IsSeq
<1>2. Len(s) \in Nat
  BY <1>1, LenProperties
<1>3. \A i \in m..n : s[i] \in S
  BY <1>1, <1>2, ElementOfSeq
<1>4. /\ SubSeq(s, m, n) \in Seq(S)
      /\ Len(SubSeq(s, m, n)) = IF m <= n THEN n - m + 1 ELSE 0
      /\ \A i \in 1..(n - m + 1) : SubSeq(s, m, n)[i] = s[m + i - 1]
  BY <1>2, <1>3, SubSeqProperties
<1>5. (IF m <= n THEN n - m + 1 ELSE 0) = n - m + 1
  BY <1>2
<1> QED BY <1>4, <1>5 DEF IsSeq

LEMMA PieceOfOne ==
    ASSUME NEW s, IsSeq(s), NEW i \in 1..Len(s)
    PROVE  SubSeq(s, i, i) = <<s[i]>>
<1> DEFINE p == SubSeq(s, i, i)
           q == <<s[i]>>
<1>1. Len(s) \in Nat
  BY SeqShape
<1>2. IsSeq(p) /\ Len(p) = i - i + 1 /\ \A j \in 1..(i - i + 1) : p[j] = s[i + j - 1]
  BY <1>1, Piece
<1>3. IsSeq(q) /\ Len(q) = 1 /\ q[1] = s[i]
  BY OneElement
<1> HIDE DEF p, q
<1>4. Len(p) = 1 /\ p[1] = s[i]
  <2>1. i - i + 1 = 1 /\ i + 1 - 1 = i
    BY <1>1
  <2> QED BY <1>2, <2>1
<1>5. p = q
  BY <1>2, <1>3, <1>4, SeqExtensional
<1> QED BY <1>5 DEF p, q

LEMMA NothingLeft ==
    ASSUME NEW s, IsSeq(s), Len(s) = 0
    PROVE  s = <<>>
BY NoElements, SeqExtensional

PastOf(s, i) == SubSeq(s, 1, i)
FutureOf(s, i) == SubSeq(s, i + 2, Len(s))

\* One step back along a history of layers.
LEMMA StepBack ==
    ASSUME NEW s, IsSeq(s), NEW i \in Nat \ {0}, i + 1 <= Len(s)
    PROVE  /\ PastOf(s, i) # <<>>
           /\ PastOf(s, i)[Len(PastOf(s, i))] = s[i]
           /\ SubSeq(PastOf(s, i), 1, Len(PastOf(s, i)) - 1) = PastOf(s, i - 1)
           /\ FutureOf(s, i - 1) = <<s[i + 1]>> \o FutureOf(s, i)
<1>1. PICK S : s \in Seq(S)
  BY DEF IsSeq
<1>2. Len(s) \in Nat
  BY SeqShape
<1> DEFINE p == PastOf(s, i)
<1>3. IsSeq(p) /\ Len(p) = i /\ \A j \in 1..i : p[j] = s[j]
  BY <1>2, Prefix DEF PastOf
<1> HIDE DEF p
<1>4. p # <<>>
  BY <1>3, NoElements
<1>5. SubSeq(p, 1, i - 1) = PastOf(s, i - 1)
  <2> DEFINE q == SubSeq(p, 1, i - 1)
             r == SubSeq(s, 1, i - 1)
  <2>1. IsSeq(q) /\ Len(q) = i - 1 /\ \A j \in 1..(i - 1) : q[j] = p[j]
    BY <1>3, Prefix
  <2>2. IsSeq(r) /\ Len(r) = i - 1 /\ \A j \in 1..(i - 1) : r[j] = s[j]
    BY <1>2, Prefix
  <2> HIDE DEF q, r
  <2>3. q = r
    BY <1>3, <2>1, <2>2, SeqExtensional
  <2> QED BY <2>3 DEF q, r, PastOf
<1>6. FutureOf(s, i - 1) = <<s[i + 1]>> \o FutureOf(s, i)
  <2>1. SubSeq(s, i + 1, i + 1) \o SubSeq(s, i + 2, Len(s)) = SubSeq(s, i + 1, Len(s))
    <3>1. /\ i + 1 \in 1..Len(s) + 1 /\ i + 1 \in (i + 1) - 1..Len(s)
          /\ Len(s) \in i + 1..Len(s) /\ (i + 1) + 1 = i + 2
      BY <1>2
    <3> QED BY <1>1, <3>1, ConcatAdjacentSubSeq
  <2>2. i + 1 \in 1..Len(s) /\ (i - 1) + 2 = i + 1
    BY <1>2
  <2> QED BY <2>1, <2>2, PieceOfOne DEF FutureOf
<1> QED BY <1>3, <1>4, <1>5, <1>6 DEF p

LEMMA StepOn ==
    ASSUME NEW s, IsSeq(s), NEW i \in Nat, i + 2 <= Len(s)
    PROVE  /\ FutureOf(s, i) # <<>>
           /\ Head(FutureOf(s, i)) = s[i + 2]
           /\ Tail(FutureOf(s, i)) = FutureOf(s, i + 1)
           /\ PastOf(s, i + 1) = Append(PastOf(s, i), s[i + 1])
<1>1. PICK S : s \in Seq(S)
  BY DEF IsSeq
<1>2. Len(s) \in Nat
  BY SeqShape
<1>3. FutureOf(s, i) # <<>>
  <2>1. Len(FutureOf(s, i)) = Len(s) - (i + 2) + 1
    BY <1>2, Piece DEF FutureOf
  <2> QED BY <1>2, <2>1, NoElements
<1>4. Head(FutureOf(s, i)) = s[i + 2] /\ Tail(FutureOf(s, i)) = FutureOf(s, i + 1)
  <2>1. /\ i + 2 \in 1..Len(s) /\ Len(s) \in i + 2..Len(s)
        /\ (i + 2) + 1 = (i + 1) + 2
    BY <1>2
  <2> QED BY <1>1, <2>1, HeadTailOfSubSeq DEF FutureOf
<1>5. PastOf(s, i + 1) = Append(PastOf(s, i), s[i + 1])
  <2> DEFINE p == PastOf(s, i)
             q == PastOf(s, i + 1)
             r == Append(p, s[i + 1])
  <2>1. IsSeq(p) /\ Len(p) = i /\ \A j \in 1..i : p[j] = s[j]
    BY <1>2, Prefix DEF PastOf
  <2>2. IsSeq(q) /\ Len(q) = i + 1 /\ \A j \in 1..(i + 1) : q[j] = s[j]
    BY <1>2, Prefix DEF PastOf
  <2> HIDE DEF p, q
  <2>3. IsSeq(r) /\ Len(r) = i + 1 /\ r[i + 1] = s[i + 1] /\ \A j \in 1..i : r[j] = p[j]
    BY <2>1, Appended
  <2> HIDE DEF r
  <2>4. \A j \in 1..(i + 1) : r[j] = s[j]
    BY <2>1, <2>3
  <2>5. q = r
    BY <2>2, <2>3, <2>4, SeqExtensional
  <2> QED BY <2>5 DEF p, q, r
<1> QED BY <1>3, <1>4, <1>5

LEMMA AtStart ==
    ASSUME NEW s, IsSeq(s), NEW i \in Nat, i + 1 <= Len(s)
    PROVE  /\ PastOf(s, 0) = <<>>
           /\ (PastOf(s, i) \o <<s[i + 1]>>)[1] = s[1]
           /\ Tail((PastOf(s, i) \o <<s[i + 1]>>) \o FutureOf(s, i)) = FutureOf(s, 0)
<1>1. PICK S : s \in Seq(S)
  BY DEF IsSeq
<1>2. Len(s) \in Nat
  BY SeqShape
<1>3. PastOf(s, 0) = <<>>
  <2>1. IsSeq(PastOf(s, 0)) /\ Len(PastOf(s, 0)) = 0
    BY <1>2, Prefix DEF PastOf
  <2> QED BY <2>1, NothingLeft
<1>4. PastOf(s, i) \o <<s[i + 1]>> = SubSeq(s, 1, i + 1)
  <2>1. /\ 1 \in 1..Len(s) + 1 /\ i \in 1 - 1..Len(s) /\ i + 1 \in i..Len(s)
        /\ i + 1 \in 1..Len(s)
    BY <1>2
  <2>2. SubSeq(s, 1, i) \o SubSeq(s, i + 1, i + 1) = SubSeq(s, 1, i + 1)
    BY <1>1, <2>1, ConcatAdjacentSubSeq
  <2> QED BY <2>1, <2>2, PieceOfOne DEF PastOf
<1>5. SubSeq(s, 1, i + 1)[1] = s[1]
  BY <1>2, Prefix
<1>6. SubSeq(s, 1, i + 1) \o FutureOf(s, i) = SubSeq(s, 1, Len(s))
  <2>1. /\ 1 \in 1..Len(s) + 1 /\ i + 1 \in 1 - 1..Len(s) /\ Len(s) \in i + 1..Len(s)
        /\ (i + 1) + 1 = i + 2
    BY <1>2
  <2> QED BY <1>1, <2>1, ConcatAdjacentSubSeq DEF FutureOf
<1>7. Tail(SubSeq(s, 1, Len(s))) = SubSeq(s, 1 + 1, Len(s))
  <2>1. 1 \in 1..Len(s) /\ Len(s) \in 1..Len(s)
    BY <1>2
  <2> QED BY <1>1, <2>1, HeadTailOfSubSeq
<1>8. FutureOf(s, 0) = SubSeq(s, 1 + 1, Len(s))
  <2>1. 0 + 2 = 1 + 1
    OBVIOUS
  <2> QED BY <2>1 DEF FutureOf
<1>9. Tail((PastOf(s, i) \o <<s[i + 1]>>) \o FutureOf(s, i)) = FutureOf(s, 0)
  BY <1>4, <1>6, <1>7, <1>8
<1> QED BY <1>3, <1>4, <1>5, <1>9

LEMMA SamePast ==
    ASSUME NEW s, IsSeq(s), NEW t, IsSeq(t), NEW i \in Nat, i <= Len(s), i <= Len(t),
           \A j \in 1..i : t[j] = s[j]
    PROVE  PastOf(t, i) = PastOf(s, i)
<1> DEFINE p == SubSeq(s, 1, i)
           q == SubSeq(t, 1, i)
<1>1. Len(s) \in Nat /\ Len(t) \in Nat
  BY SeqShape
<1>2. IsSeq(p) /\ Len(p) = i /\ \A j \in 1..i : p[j] = s[j]
  BY <1>1, Prefix
<1>3. IsSeq(q) /\ Len(q) = i /\ \A j \in 1..i : q[j] = t[j]
  BY <1>1, Prefix
<1> HIDE DEF p, q
<1>4. q = p
  BY <1>2, <1>3, SeqExtensional
<1> QED BY <1>4 DEF p, q, PastOf

LEMMA FutureLength ==
    ASSUME NEW s, IsSeq(s), NEW i \in Nat, i + 1 <= Len(s)
    PROVE  /\ Len(FutureOf(s, i)) = Len(s) - i - 1
           /\ i + 1 = Len(s) => FutureOf(s, i) = <<>>
<1>1. Len(s) \in Nat
  BY SeqShape
<1>2. IsSeq(FutureOf(s, i)) /\ Len(FutureOf(s, i)) = Len(s) - (i + 2) + 1
  BY <1>1, Piece DEF FutureOf
<1> QED BY <1>1, <1>2, NothingLeft

\* The layer the user sees, but for what an open edit command has done to it.
Present == IF macroOpen THEN snapshots[index + 1] ELSE CurrentLayer

HInv == SInv /\ RInv /\ EInv /\ AInv

\* The history has an entry for the present, and shows it.
HistoryTyped ==
    /\ IsSeq(snapshots) /\ Len(snapshots) \in Nat
    /\ index \in Nat /\ index + 1 <= Len(snapshots)
    /\ Present = snapshots[index + 1]
    /\ editing => Len(snapshots) = IF macroOpen THEN index + 1 ELSE Len(stack) + 1
    /\ ~editing => ~macroOpen /\ index = 0 /\ Len(snapshots) = 1
    /\ snapshots[1] = Layer(provider, EmptyBuffer)

LEMMA HistoryIsTyped ==
    ASSUME Undrawn, HInv
    PROVE  HistoryTyped
<1>1. index \in 0..Len(stack) /\ Len(stack) \in Nat /\ (macroOpen => editing)
  BY SeqShape DEF HInv, SInv, KnownStack
<1>2. Present = snapshots[index + 1]
  BY HistoryShows DEF HInv, AInv, Present, Shown
<1>3. CASE editing
  <2>1. PICK b : Chain(b)
    BY <1>3 DEF HInv, AInv, EInv
  <2>2. /\ IsSeq(snapshots) /\ Len(snapshots) \in Nat
        /\ Len(snapshots) = IF macroOpen THEN index + 1 ELSE Len(stack) + 1
        /\ b[0] = EmptyBuffer
        /\ \A i \in 1..Len(snapshots) : Shown(snapshots[i]) = Shown(Layer(provider, b[i - 1]))
    BY <2>1, SeqShape DEF Chain, ChainOn
  <2>3. index + 1 <= Len(snapshots) /\ 1 \in 1..Len(snapshots) /\ 1 - 1 = 0
    BY <1>1, <2>2
  <2>4. snapshots[1] = Layer(provider, EmptyBuffer)
    BY <2>2, <2>3 DEF Shown
  <2> QED BY <1>1, <1>2, <1>3, <2>2, <2>3, <2>4 DEF HistoryTyped
<1>4. CASE ~editing
  <2>1. stack = <<>> /\ snapshots = <<Layer(provider, EmptyBuffer)>>
    BY <1>4 DEF HInv, SInv, EInv
  <2>2. index = 0
    BY <1>1, <2>1, NoElements
  <2>3. IsSeq(snapshots) /\ Len(snapshots) = 1 /\ snapshots[1] = Layer(provider, EmptyBuffer)
    BY <2>1, OneElement
  <2> QED BY <1>1, <1>2, <1>4, <2>2, <2>3 DEF HistoryTyped
<1> QED BY <1>3, <1>4

Past == PastOf(snapshots, index)
Future == FutureOf(snapshots, index)

\* The steps of the history are steps of what is open, past, present and to come.
LEMMA HistorySteps ==
    /\ History!Open <=>
          /\ ~editing /\ editing' /\ Past' = <<>> /\ Future' = <<>> /\ UNCHANGED Present
    /\ History!Edit <=>
          editing /\ editing' /\ Past' = Append(Past, Present) /\ Future' = <<>>
    /\ History!Amend <=>
          editing /\ editing' /\ Past # <<>> /\ Future' = <<>> /\ UNCHANGED Past
    /\ History!ForgetFuture <=>
          editing /\ Future' = <<>> /\ UNCHANGED <<editing, Past, Present>>
    /\ History!Abandon <=>
          editing /\ Len(Future') = 1 /\ UNCHANGED <<editing, Past, Present>>
    /\ History!Undo <=>
          /\ editing /\ editing' /\ Past # <<>> /\ Present' = Past[Len(Past)]
          /\ Past' = SubSeq(Past, 1, Len(Past) - 1) /\ Future' = <<Present>> \o Future
    /\ History!Redo <=>
          /\ editing /\ editing' /\ Future # <<>> /\ Present' = Head(Future)
          /\ Past' = Append(Past, Present) /\ Future' = Tail(Future)
    /\ History!Rewind <=>
          /\ editing /\ Past' = <<>> /\ Present' = (Past \o <<Present>>)[1]
          /\ \/ ~editing' /\ Future' = <<>>
             \/ editing' /\ Future' = Tail((Past \o <<Present>>) \o Future)
    /\ History!Save <=>
          /\ editing /\ ~editing' /\ History!SameContent(Present, Present')
          /\ Past' = <<>> /\ Future' = <<>>
    /\ UNCHANGED <<editing, Past, Present, Future>> => UNCHANGED History!history
BY DEF History!Open, History!Edit, History!Amend, History!ForgetFuture, History!Abandon,
       History!Undo, History!Redo, History!Rewind, History!Save, History!history,
       History!Last, History!Front, Past, Present, Future, PastOf, FutureOf

\* What both states of a step know of the history.
LEMMA NextHInv ==
    ASSUME FeaturesOnly, NoFailure, HInv, [Next]_vars
    PROVE  HInv'
BY NextSession, NextRows, NextEInv, NextAInv DEF HInv

LEMMA HistoryStaysTyped ==
    ASSUME Undrawn
    PROVE  (HInv => HistoryTyped) /\ (HInv' => HistoryTyped')
<1>1. HInv => HistoryTyped
  BY HistoryIsTyped
<1> QED BY <1>1, PTL

LEMMA PushIsEdit ==
    ASSUME Undrawn, HInv, HInv', NEW c, Push(c), editing
    PROVE  History!Edit \/ History!Amend \/ UNCHANGED History!history
<1>1. HistoryTyped /\ HistoryTyped'
  BY HistoryStaysTyped
<1>2. UNCHANGED <<editing, macroOpen>>
  BY DEF Push
<1> PICK s : s = snapshots
  OBVIOUS
<1> PICK t : t = snapshots'
  OBVIOUS
<1> PICK i : i = index
  OBVIOUS
<1> PICK after : after = Layer(provider, Redone(c, Workspace).buffer)
  OBVIOUS
<1>3. /\ IsSeq(s) /\ Len(s) \in Nat /\ i \in Nat /\ i + 1 <= Len(s) /\ Present = s[i + 1]
      /\ IsSeq(t) /\ Len(t) \in Nat /\ index' \in Nat /\ index' + 1 <= Len(t)
      /\ Present' = t[index' + 1]
  BY <1>1 DEF HistoryTyped
<1>4. CASE macroOpen
  <2>1. t = s /\ index' = i
    BY <1>4 DEF Push
  <2>2. UNCHANGED <<editing, Past, Present, Future>>
    BY <1>2, <1>3, <2>1 DEF Past, Future
  <2> QED BY <2>2, HistorySteps
<1>5. CASE t = Append(SubSeq(s, 1, i), after) /\ index' = i /\ i > 0
  <2> DEFINE p == SubSeq(s, 1, i)
  <2>1. IsSeq(p) /\ Len(p) = i /\ \A j \in 1..i : p[j] = s[j]
    BY <1>3, Prefix
  <2>0. t = Append(p, after)
    BY <1>5
  <2> HIDE DEF p
  <2>2. Len(t) = i + 1 /\ \A j \in 1..i : t[j] = p[j]
    BY <2>0, <2>1, Appended
  <2>3. PastOf(t, i) = PastOf(s, i)
    BY <1>3, <2>1, <2>2, SamePast
  <2>4. FutureOf(t, i) = <<>>
    BY <1>3, <2>2, FutureLength
  <2>5. PastOf(s, i) # <<>>
    <3>1. i \in Nat \ {0} /\ i + 1 <= Len(s)
      BY <1>3, <1>5
    <3> QED BY <1>3, <3>1, StepBack
  <2>6. History!Amend
    BY <1>2, <1>5, <2>3, <2>4, <2>5, HistorySteps DEF Past, Future
  <2> QED BY <2>6
<1>6. CASE t = Append(SubSeq(s, 1, i + 1), after) /\ index' = i + 1
  <2> DEFINE p == SubSeq(s, 1, i + 1)
  <2>1. IsSeq(p) /\ Len(p) = i + 1 /\ \A j \in 1..(i + 1) : p[j] = s[j]
    BY <1>3, Prefix
  <2>0. t = Append(p, after)
    BY <1>6
  <2> HIDE DEF p
  <2>2. Len(t) = i + 2 /\ \A j \in 1..(i + 1) : t[j] = p[j]
    BY <1>3, <2>0, <2>1, Appended
  <2>3. PastOf(t, i + 1) = PastOf(s, i + 1)
    BY <1>3, <2>1, <2>2, SamePast
  <2>4. FutureOf(t, i + 1) = <<>>
    BY <1>3, <2>2, FutureLength
  <2>5. PastOf(t, i + 1) = Append(PastOf(s, i), s[i + 1])
    <3>1. PastOf(t, i + 1) = Append(PastOf(t, i), t[i + 1])
      BY <1>3, <2>2, StepOn
    <3>2. PastOf(t, i) = PastOf(s, i) /\ t[i + 1] = s[i + 1]
      BY <1>3, <2>1, <2>2, SamePast
    <3> QED BY <3>1, <3>2
  <2>6. History!Edit
    BY <1>2, <1>3, <1>6, <2>4, <2>5, HistorySteps DEF Past, Future
  <2> QED BY <2>6
<1> QED BY <1>4, <1>5, <1>6 DEF Push

LEMMA UndoStackIsHistory ==
    ASSUME Undrawn, HInv, HInv', UseUndoStack
    PROVE  History!Next
<1>1. HistoryTyped /\ HistoryTyped'
  BY HistoryStaysTyped
<1> PICK s : s = snapshots
  OBVIOUS
<1> PICK t : t = snapshots'
  OBVIOUS
<1> PICK i : i = index
  OBVIOUS
<1>2. /\ IsSeq(s) /\ Len(s) \in Nat /\ i \in Nat /\ i + 1 <= Len(s) /\ Present = s[i + 1]
      /\ IsSeq(t) /\ Len(t) \in Nat /\ index' \in Nat /\ index' + 1 <= Len(t)
      /\ Present' = t[index' + 1]
      /\ editing => Len(s) = IF macroOpen THEN i + 1 ELSE Len(stack) + 1
  BY <1>1 DEF HistoryTyped
<1>3. CASE BeginEditCommand
  <2>1. t = SubSeq(s, 1, i + 1) /\ index' = i /\ editing /\ editing' = editing
    BY <1>3 DEF BeginEditCommand
  <2>2. Len(t) = i + 1 /\ \A j \in 1..(i + 1) : t[j] = s[j]
    BY <1>2, <2>1, Prefix
  <2>3. PastOf(t, i) = PastOf(s, i) /\ t[i + 1] = s[i + 1]
    BY <1>2, <2>2, SamePast
  <2>4. FutureOf(t, i) = <<>>
    BY <1>2, <2>2, FutureLength
  <2>5. History!ForgetFuture
    BY <1>2, <2>1, <2>3, <2>4, HistorySteps DEF Past, Future
  <2> QED BY <2>5 DEF History!Next
<1>4. ASSUME EndEditCommand \/ DestroyEditCommand
      PROVE  /\ Len(s) = i + 1 /\ Len(t) = i + 2 /\ \A j \in 1..(i + 1) : t[j] = s[j]
             /\ editing /\ editing' = editing
  <2>1. /\ t = Append(s, CurrentLayer) /\ editing /\ macroOpen /\ editing' = editing
    BY <1>4 DEF EndEditCommand, DestroyEditCommand
  <2> PICK layer : layer = CurrentLayer
    OBVIOUS
  <2>2. t = Append(s, layer) /\ Len(s) = i + 1
    BY <1>2, <2>1
  <2>3. Len(t) = Len(s) + 1 /\ \A j \in 1..Len(s) : t[j] = s[j]
    BY <1>2, <2>2, Appended
  <2> QED BY <1>2, <2>1, <2>2, <2>3
<1>5. CASE EndEditCommand
  <2>1. index' = i + 1
    BY <1>5 DEF EndEditCommand
  <2>2. PastOf(t, i + 1) = Append(PastOf(t, i), t[i + 1])
    BY <1>2, <1>4, <1>5, StepOn
  <2>3. PastOf(t, i) = PastOf(s, i) /\ t[i + 1] = s[i + 1]
    BY <1>2, <1>4, <1>5, SamePast
  <2>4. FutureOf(t, i + 1) = <<>>
    BY <1>2, <1>4, <1>5, FutureLength
  <2>5. History!Edit
    BY <1>2, <1>4, <1>5, <2>1, <2>2, <2>3, <2>4, HistorySteps DEF Past, Future
  <2> QED BY <2>5 DEF History!Next
<1>6. CASE DestroyEditCommand
  <2>1. index' = i
    BY <1>6 DEF DestroyEditCommand
  <2>2. PastOf(t, i) = PastOf(s, i) /\ t[i + 1] = s[i + 1]
    BY <1>2, <1>4, <1>6, SamePast
  <2>3. Len(FutureOf(t, i)) = 1
    <3>1. Len(FutureOf(t, i)) = Len(t) - i - 1
      BY <1>2, <1>4, <1>6, FutureLength
    <3> QED BY <1>2, <1>4, <1>6, <3>1
  <2>4. History!Abandon
    BY <1>2, <1>4, <1>6, <2>1, <2>2, <2>3, HistorySteps DEF Past, Future
  <2> QED BY <2>4 DEF History!Next
<1>7. CASE Undo
  <2>1. t = s /\ index' = i - 1 /\ i > 0 /\ editing /\ editing' = editing
    BY <1>7 DEF Undo
  <2>2. /\ PastOf(s, i) # <<>> /\ PastOf(s, i)[Len(PastOf(s, i))] = s[i]
        /\ SubSeq(PastOf(s, i), 1, Len(PastOf(s, i)) - 1) = PastOf(s, i - 1)
        /\ FutureOf(s, i - 1) = <<s[i + 1]>> \o FutureOf(s, i)
    <3>1. i \in Nat \ {0} /\ i + 1 <= Len(s)
      BY <1>2, <2>1
    <3> QED BY <1>2, <3>1, StepBack
  <2>3. (i - 1) + 1 = i
    BY <1>2
  <2>4. History!Undo
    BY <1>2, <2>1, <2>2, <2>3, HistorySteps DEF Past, Future
  <2> QED BY <2>4 DEF History!Next
<1>8. CASE Redo
  <2>1. /\ t = s /\ index' = i + 1 /\ i < Len(stack) /\ ~macroOpen
        /\ editing /\ editing' = editing
    BY <1>8 DEF Redo
  <2>2. Len(stack) \in Nat
    BY SeqShape DEF HInv, SInv, KnownStack
  <2>3. i + 2 <= Len(s) /\ (i + 1) + 1 = i + 2
    BY <1>2, <2>1, <2>2
  <2>4. /\ FutureOf(s, i) # <<>> /\ Head(FutureOf(s, i)) = s[i + 2]
        /\ Tail(FutureOf(s, i)) = FutureOf(s, i + 1)
        /\ PastOf(s, i + 1) = Append(PastOf(s, i), s[i + 1])
    BY <1>2, <2>3, StepOn
  <2>5. History!Redo
    BY <1>2, <2>1, <2>3, <2>4, HistorySteps DEF Past, Future
  <2> QED BY <2>5 DEF History!Next
<1> QED BY <1>3, <1>5, <1>6, <1>7, <1>8 DEF UseUndoStack

LEMMA SessionIsHistory ==
    ASSUME Undrawn, NoFailure, HInv, HInv'
    PROVE  /\ StartEditing => History!Open
           /\ \A fails \in ProviderFailures : CommitChanges(fails) => History!Save
           /\ \A deleteBuffer \in BOOLEAN : RollBack(deleteBuffer) => History!Rewind
<1>1. HistoryTyped /\ HistoryTyped'
  BY HistoryStaysTyped
<1> PICK s : s = snapshots
  OBVIOUS
<1> PICK t : t = snapshots'
  OBVIOUS
<1> PICK i : i = index
  OBVIOUS
<1>2. /\ IsSeq(s) /\ Len(s) \in Nat /\ i \in Nat /\ i + 1 <= Len(s) /\ Present = s[i + 1]
      /\ IsSeq(t) /\ Len(t) \in Nat /\ index' \in Nat /\ index' + 1 <= Len(t)
      /\ Present' = t[index' + 1]
      /\ s[1] = Layer(provider, EmptyBuffer)
      /\ ~editing => i = 0 /\ Len(s) = 1
  BY <1>1 DEF HistoryTyped
<1>3. ASSUME index' = 0, Len(t) = 1
      PROVE  Past' = <<>> /\ Future' = <<>> /\ Present' = t[1]
  <2>1. PastOf(t, 0) = <<>>
    BY <1>2, <1>3, AtStart
  <2>2. FutureOf(t, 0) = <<>>
    <3>1. 0 \in Nat /\ 0 + 1 <= Len(t) /\ 0 + 1 = Len(t)
      BY <1>3
    <3> QED BY <1>2, <3>1, FutureLength
  <2> QED BY <1>2, <1>3, <2>1, <2>2 DEF Past, Future
<1>4. ASSUME StartEditing PROVE History!Open
  <2>1. ~editing /\ editing' /\ t = <<CurrentLayer>> /\ index' = i /\ ~macroOpen
    BY <1>1, <1>4 DEF StartEditing, stackVars, HistoryTyped
  <2>2. Present = CurrentLayer
    BY <2>1 DEF Present
  <2>3. Len(t) = 1 /\ t[1] = CurrentLayer
    BY <2>1, OneElement
  <2>4. index' = 0
    BY <1>2, <2>1
  <2> QED BY <1>3, <2>1, <2>2, <2>3, <2>4, HistorySteps
<1>5. ASSUME NEW fails \in ProviderFailures, CommitChanges(fails) PROVE History!Save
  <2>1. editing /\ ~macroOpen /\ ~damaged'
    BY <1>5 DEF CommitChanges, HInv, AInv
  <2> PICK layer : layer = Layer(Committed(provider, buffer, selected, fails).provider, EmptyBuffer)
    OBVIOUS
  <2>2. ~editing' /\ index' = 0 /\ t = <<layer>>
    BY <1>5, <2>1 DEF CommitChanges
  <2>3. Len(t) = 1
    BY <2>2, OneElement
  <2>4. Carried(CurrentLayer, CurrentLayer', selected, selected')
    BY <1>5, CommitCarries DEF HInv
  <2>5. IsFiniteSet(DOMAIN CurrentLayer.rows)
    BY FinitelyManyVisible DEF HInv
  <2>6. History!SameContent(CurrentLayer, CurrentLayer')
    BY <2>4, <2>5, CarriedContent
  <2>7. Present = CurrentLayer /\ Present' = CurrentLayer'
    BY <1>1, <2>1, <2>2 DEF Present, HistoryTyped
  <2> QED BY <1>3, <2>1, <2>2, <2>3, <2>6, <2>7, HistorySteps
<1>6. ASSUME NEW deleteBuffer \in BOOLEAN, RollBack(deleteBuffer) PROVE History!Rewind
  <2>1. editing /\ index' = 0
    BY <1>6 DEF RollBack
  <2>2. /\ PastOf(s, 0) = <<>> /\ (PastOf(s, i) \o <<s[i + 1]>>)[1] = s[1]
        /\ Tail((PastOf(s, i) \o <<s[i + 1]>>) \o FutureOf(s, i)) = FutureOf(s, 0)
    BY <1>2, AtStart
  <2>3. CASE deleteBuffer
    <3>1. ~editing' /\ t = <<s[1]>>
      BY <1>2, <1>6, <2>3 DEF RollBack
    <3>2. Len(t) = 1 /\ t[1] = s[1]
      BY <3>1, OneElement
    <3> QED BY <1>2, <1>3, <2>1, <2>2, <3>1, <3>2, HistorySteps DEF Past, Future
  <2>4. CASE ~deleteBuffer
    <3>1. editing' /\ t = s
      BY <1>6, <2>1, <2>4 DEF RollBack
    <3>2. Present' = s[1]
      BY <1>2, <2>1, <3>1
    <3> QED BY <1>2, <2>1, <2>2, <3>1, <3>2, HistorySteps DEF Past, Future
  <2> QED BY <2>3, <2>4
<1> QED BY <1>4, <1>5, <1>6

\* An edit session keeps the promise of EditHistory: what is undone is what was
\* there before, what is redone what was undone, discarding leads back to the
\* first layer, saving keeps the layer under the ids the data source hands out.
THEOREM SessionImplementsHistory ==
    ASSUME FeaturesOnly, Undrawn, NoFailure
    PROVE  Spec => ImplementsHistory
<1>1. Init => HInv
  BY InitSession, InitRows, InitEInv DEF HInv, Init, AInv
<1>2. HInv /\ [Next]_vars => HInv'
  BY NextHInv
<1>3. Init => History!Init
  <2> SUFFICES ASSUME Init PROVE History!Init
    OBVIOUS
  <2>1. HistoryTyped /\ ~editing
    BY <1>1, HistoryIsTyped DEF Init
  <2>2. /\ IsSeq(snapshots) /\ Len(snapshots) = 1 /\ index = 0
    BY <2>1 DEF HistoryTyped
  <2>3. PastOf(snapshots, 0) = <<>> /\ FutureOf(snapshots, 0) = <<>>
    <3>1. 0 \in Nat /\ 0 + 1 <= Len(snapshots) /\ 0 + 1 = Len(snapshots)
      BY <2>2
    <3>2. PastOf(snapshots, 0) = <<>>
      BY <2>2, <3>1, AtStart
    <3>3. FutureOf(snapshots, 0) = <<>>
      BY <2>2, <3>1, FutureLength
    <3> QED BY <3>2, <3>3
  <2> QED BY <2>1, <2>2, <2>3 DEF History!Init, PastOf, FutureOf
<1>4. HInv /\ HInv' /\ [Next]_vars => [History!Next]_(History!history)
  <2> SUFFICES ASSUME HInv, HInv', [Next]_vars PROVE [History!Next]_(History!history)
    OBVIOUS
  <2>1. ASSUME UNCHANGED <<provider, editing, buffer, index, macroOpen, snapshots>>
        PROVE  UNCHANGED History!history
    <3>1. UNCHANGED Present
      BY <2>1 DEF Present, CurrentLayer
    <3>2. UNCHANGED <<editing, Past, Future>>
      BY <2>1 DEF Past, Future
    <3> QED BY <3>1, <3>2, HistorySteps
  <2>2. CASE EditFeature
    <3>1. editing /\ \E c : Push(c)
      BY <2>2 DEF EditFeature, AddFeature, DeleteFeature, ChangeGeometry,
                  ChangeAttributeValue, Editable
    <3> QED BY <3>1, PushIsEdit DEF History!Next
  <2>3. ~EditFields
    BY DEF EditFields, AddAttribute, DeleteAttribute, Editable, FeaturesOnly
  <2>4. CASE UseUndoStack
    BY <2>4, UndoStackIsHistory
  <2>5. CASE StartEditing \/ (\E fails \in ProviderFailures : CommitChanges(fails))
             \/ (\E deleteBuffer \in BOOLEAN : RollBack(deleteBuffer))
    BY <2>5, SessionIsHistory DEF History!Next
  <2>6. ASSUME NEW fids, Select(fids) PROVE UNCHANGED History!history
    BY <2>1, <2>6 DEF Select, stackVars
  <2>7. CASE Rendering
    BY <2>1, <2>7 DEF Rendering, StartRenderJob, FinishRenderJob, stackVars
  <2>8. CASE UNCHANGED vars
    BY <2>1, <2>8 DEF vars
  <2> QED BY <2>2, <2>3, <2>4, <2>5, <2>6, <2>7, <2>8 DEF Next, Session
<1> QED BY <1>1, <1>2, <1>3, <1>4, PTL DEF Spec, ImplementsHistory, History!Spec

=============================================================================
