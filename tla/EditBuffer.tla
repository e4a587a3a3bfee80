------------------------------ MODULE EditBuffer ------------------------------
(***************************************************************************)
(* The pure part of vector layer editing: the containers in which          *)
(* QgsVectorLayerEditBuffer keeps uncommitted edits, what each undo        *)
(* command does to them on redo() and on undo(), how they overlay the      *)
(* provider's data when the layer is read, and the stages of               *)
(* commitChanges().  Nothing here has a state: every operator maps a       *)
(* record to a record, and VectorLayerEditing runs them in its actions.    *)
(*                                                                         *)
(* Field indices count from 1 here and from 0 in the code.  Feature ids    *)
(* are the code's: new features have negative ids (FID_IS_NEW), features   *)
(* of the provider have ids from 0.                                        *)
(***************************************************************************)
EXTENDS Integers, Sequences, SequencesExt

CONSTANTS
    JoinFields,         \* names of the fields the layer's joins contribute
    ExpressionFields,   \* names of the layer's virtual (expression) fields
    Null,               \* the invalid QVariant
    NoGeometry,         \* a null QgsGeometry pointer
    StoredName          \* the name under which the provider stores a new field

ASSUME FieldListsAssumption ==
    /\ JoinFields \in Seq(STRING)
    /\ ExpressionFields \in Seq(STRING)

-----------------------------------------------------------------------------
(* Maps (QMap): functions on a finite domain.                              *)

EmptyMap == [key \in {} |-> Null]

Put(map, key, value) ==
    [k \in DOMAIN map \cup {key} |-> IF k = key THEN value ELSE map[k]]

Without(map, keys) == Restrict(map, DOMAIN map \ keys)

IsNew(fid) == fid < 0

EmptyBuffer ==
    [deletedFeatureIds      |-> {},
     addedFeatures          |-> EmptyMap,
     changedAttributeValues |-> EmptyMap,
     changedGeometries      |-> EmptyMap,
     deletedAttributeIds    |-> <<>>,
     addedAttributes        |-> <<>>]

-----------------------------------------------------------------------------
(* The layer's fields, and the layer's features, as a reader sees them:    *)
(* the provider's data under the edit buffer.                              *)

\* The provider's fields that are not deleted, in order.
KeptAttributes(p, b) ==
    LET kept[n \in 0..Len(p.fields)] ==
            IF n = 0 THEN <<>>
            ELSE IF Contains(b.deletedAttributeIds, n) THEN kept[n - 1]
            ELSE Append(kept[n - 1], n)
    IN  kept[Len(p.fields)]

NativeCount(p, b) == Len(KeptAttributes(p, b)) + Len(b.addedAttributes)

PendingFields(p, b) ==
    LET kept == KeptAttributes(p, b)
        FieldsOf(names, origin) ==
            [i \in 1..Len(names) |->
                [name |-> names[i], origin |-> origin, originIndex |-> i]]
    IN  [i \in 1..Len(kept) |->
            [name |-> p.fields[kept[i]], origin |-> "provider",
             originIndex |-> kept[i]]]
        \o FieldsOf(b.addedAttributes, "edit")
        \o FieldsOf(JoinFields, "join")
        \o FieldsOf(ExpressionFields, "expression")

FieldNames(p, b) ==
    LET fields == PendingFields(p, b)
    IN  [i \in 1..Len(fields) |-> fields[i].name]

Attribute(feature, i) ==
    IF i \in DOMAIN feature.attrs THEN feature.attrs[i] ELSE Null

SetAttribute(feature, i, value) ==
    IF i \in DOMAIN feature.attrs
    THEN [feature EXCEPT !.attrs[i] = value] ELSE feature

\* The attributes of a provider feature after updateChangedAttributes.  An
\* index beyond the layer's own fields is never written to a map while the
\* buffer and the provider agree.
OverlaidAttributes(p, b, fid) ==
    LET kept == KeptAttributes(p, b)
        changed == IF fid \in DOMAIN b.changedAttributeValues
                   THEN b.changedAttributeValues[fid] ELSE EmptyMap
    IN  [i \in 1..NativeCount(p, b) |->
            IF i \in DOMAIN changed THEN changed[i]
            ELSE IF i <= Len(kept) THEN p.rows[fid].attrs[kept[i]]
            ELSE Null]

OverlaidGeometry(p, b, fid) ==
    IF fid \in DOMAIN b.changedGeometries
    THEN b.changedGeometries[fid] ELSE p.rows[fid].geom

AddedAsRead(p, b, fid) ==
    [attrs |-> [i \in 1..NativeCount(p, b) |->
                    Attribute(b.addedFeatures[fid], i)],
     geom  |-> b.addedFeatures[fid].geom]

VisibleFids(p, b) ==
    (DOMAIN p.rows \ b.deletedFeatureIds) \cup DOMAIN b.addedFeatures

Layer(p, b) ==
    [fields |-> SubSeq(FieldNames(p, b), 1, NativeCount(p, b)),
     rows   |-> [fid \in VisibleFids(p, b) |->
                    IF fid \in DOMAIN b.addedFeatures
                    THEN AddedAsRead(p, b, fid)
                    ELSE [attrs |-> OverlaidAttributes(p, b, fid),
                          geom  |-> OverlaidGeometry(p, b, fid)]]]

-----------------------------------------------------------------------------
(* Keeping the buffer's indices in step with the layer's fields.           *)

\* Mutant: the index itself is taken for one that stays.
ShiftedIndicesInclusive(map, index, offset) ==
    LET Moved(i) == IF i <= index THEN i ELSE i + offset
    IN  [i \in {Moved(j) : j \in DOMAIN map} |->
            map[CHOOSE j \in DOMAIN map : Moved(j) = i]]

ShiftedIndices(map, index, offset) ==
    LET Moved(i) == IF i < index THEN i ELSE i + offset
    IN  [i \in {Moved(j) : j \in DOMAIN map} |->
            map[CHOOSE j \in DOMAIN map : Moved(j) = i]]

\* The loops of handleAttributeAdded and handleAttributeDeleted run i from 0
\* and use i as the key of the QMap, whose operator[] inserts what is missing:
\* the map grows until every id up to its greatest one has been visited.
Visited(changed) ==
    LET ids == IF changed = EmptyMap THEN {} ELSE 0..Max(DOMAIN changed)
    IN  [fid \in ids |->
            IF fid \in DOMAIN changed THEN changed[fid] ELSE EmptyMap]

\* Mutant: the added features are not adapted.
HandleAttributeAddedChangesOnly(b, index) ==
    LET visited == Visited(b.changedAttributeValues)
    IN  [b EXCEPT !.changedAttributeValues =
            [fid \in DOMAIN visited |->
                ShiftedIndices(visited[fid], index, 1)]]

HandleAttributeAdded(b, index) ==
    LET visited == Visited(b.changedAttributeValues)
        Wider(feature) ==
            [feature EXCEPT !.attrs = InsertAt(feature.attrs, index, Null)]
    IN  [b EXCEPT
            !.changedAttributeValues =
                [fid \in DOMAIN visited |->
                    ShiftedIndices(visited[fid], index, 1)],
            !.addedFeatures =
                [fid \in DOMAIN @ |-> Wider(@[fid])]]

HandleAttributeDeleted(b, index) ==
    LET visited == Visited(b.changedAttributeValues)
        Narrower(feature) ==
            [feature EXCEPT !.attrs = RemoveAt(feature.attrs, index)]
    IN  [b EXCEPT
            !.changedAttributeValues =
                [fid \in DOMAIN visited |->
                    ShiftedIndices(Without(visited[fid], {index}), index, -1)],
            !.addedFeatures =
                [fid \in DOMAIN @ |-> Narrower(@[fid])]]

\* QVector asserts that an index it inserts or removes at is within bounds.
IndexFits(b, index, margin) ==
    \A fid \in DOMAIN b.addedFeatures :
        index \in 1..(Len(b.addedFeatures[fid].attrs) + margin)

\* QList::removeAt ignores an index that is out of bounds, QList::insert
\* clamps it.
ListRemoveAt(list, i) == IF i \in DOMAIN list THEN RemoveAt(list, i) ELSE list

ListInsert(list, i, x) ==
    InsertAt(list, IF i <= Len(list) + 1 THEN i ELSE Len(list) + 1, x)

-----------------------------------------------------------------------------
(* The undo commands.  A command is a record with what its constructor     *)
(* captured; s is the record of what the commands read and write:          *)
(* the provider, the buffer, the layer's geometry cache, and whether every *)
(* assertion met so far held.                                              *)

AddFeatureCommand(fid, feature) ==
    [op |-> "addFeature", fid |-> fid, feature |-> feature]

DeleteFeatureCommand(s, fid) ==
    [op |-> "deleteFeature", fid |-> fid,
     feature |-> IF IsNew(fid) THEN s.buffer.addedFeatures[fid] ELSE Null]

\* Mutant: whether the geometry was changed before is not asked.
ChangeGeometryCommandAnyCached(s, fid, geom) ==
    [op |-> "changeGeometry", fid |-> fid, new |-> geom,
     old |-> IF IsNew(fid) THEN s.buffer.addedFeatures[fid].geom
             ELSE IF fid \in DOMAIN s.cache THEN s.cache[fid] ELSE NoGeometry]

\* The old geometry of a feature that was changed before is taken from the
\* layer's geometry cache, not from mChangedGeometries.
ChangeGeometryCommand(s, fid, geom) ==
    [op |-> "changeGeometry", fid |-> fid, new |-> geom,
     old |-> IF IsNew(fid) THEN s.buffer.addedFeatures[fid].geom
             ELSE IF /\ fid \in DOMAIN s.buffer.changedGeometries
                     /\ fid \in DOMAIN s.cache
                  THEN s.cache[fid]
                  ELSE NoGeometry]

\* Mutant: every change counts as the first one of a stored feature.
ChangeAttributeCommandAlwaysFirst(s, fid, field, value) ==
    [op |-> "changeAttribute", fid |-> fid, field |-> field, new |-> value,
     firstChange |-> TRUE,
     old |-> IF IsNew(fid) THEN Attribute(s.buffer.addedFeatures[fid], field)
             ELSE Null]

\* The callers' oldValue is the default one (QVariant()).
ChangeAttributeCommand(s, fid, field, value) ==
    LET changed == s.buffer.changedAttributeValues
        before == IF IsNew(fid)
                  THEN Attribute(s.buffer.addedFeatures[fid], field)
                  ELSE Null
        again == IF IsNew(fid) THEN before # Null
                 ELSE fid \in DOMAIN changed /\ field \in DOMAIN changed[fid]
    IN  [op |-> "changeAttribute", fid |-> fid, field |-> field, new |-> value,
         firstChange |-> ~again,
         old |-> IF ~again THEN Null
                 ELSE IF IsNew(fid) THEN before ELSE changed[fid][field]]

AddAttributeCommand(s, name) ==
    LET fields == PendingFields(s.provider, s.buffer)
        joins == {i \in DOMAIN fields : fields[i].origin = "join"}
    IN  [op |-> "addAttribute", name |-> name,
         field |-> IF joins = {} THEN Len(fields) + 1 ELSE Min(joins)]

DeleteAttributeCommand(s, field) ==
    LET b == s.buffer
        f == PendingFields(s.provider, b)[field]
        changed == {fid \in DOMAIN b.changedAttributeValues :
                        field \in DOMAIN b.changedAttributeValues[fid]}
    IN  [op |-> "deleteAttribute", field |-> field,
         providerField |-> f.origin = "provider",
         originIndex |-> f.originIndex, name |-> f.name,
         deletedValues |->
            [fid \in changed \cup DOMAIN b.addedFeatures |->
                IF fid \in changed THEN b.changedAttributeValues[fid][field]
                ELSE Attribute(b.addedFeatures[fid], field)]]

-----------------------------------------------------------------------------
(* redo() and undo() of each command.                                      *)

Asserting(holds, before, after) ==
    IF holds THEN after ELSE [before EXCEPT !.alive = FALSE]

Holds(s, fid) == fid \in DOMAIN s.buffer.addedFeatures

RedoAddFeature(c, s) ==
    [s EXCEPT !.buffer.addedFeatures = Put(@, c.fid, c.feature),
              !.cache = Put(@, c.fid, c.feature.geom)]

UndoAddFeature(c, s) ==
    Asserting(Holds(s, c.fid), s,
        [s EXCEPT !.buffer.addedFeatures = Without(@, {c.fid}),
                  !.cache = Without(@, {c.fid})])

RedoDeleteFeature(c, s) ==
    IF IsNew(c.fid)
    THEN [s EXCEPT !.buffer.addedFeatures = Without(@, {c.fid})]
    ELSE [s EXCEPT !.buffer.deletedFeatureIds = @ \cup {c.fid}]

\* Mutant: a deleted new feature is not put back.
UndoDeleteFeatureStoredOnly(c, s) ==
    [s EXCEPT !.buffer.deletedFeatureIds = @ \ {c.fid}]

UndoDeleteFeature(c, s) ==
    IF IsNew(c.fid)
    THEN [s EXCEPT !.buffer.addedFeatures = Put(@, c.fid, c.feature)]
    ELSE [s EXCEPT !.buffer.deletedFeatureIds = @ \ {c.fid}]

GeometrySet(s, fid, geom) ==
    IF IsNew(fid)
    THEN Asserting(Holds(s, fid), s,
            [s EXCEPT !.buffer.addedFeatures[fid].geom = geom,
                      !.cache = Put(@, fid, geom)])
    ELSE [s EXCEPT !.buffer.changedGeometries = Put(@, fid, geom),
                   !.cache = Put(@, fid, geom)]

RedoChangeGeometry(c, s) == GeometrySet(s, c.fid, c.new)

UndoChangeGeometry(c, s) ==
    IF c.old # NoGeometry
    THEN GeometrySet(s, c.fid, c.old)
    ELSE LET b == [s.buffer EXCEPT !.changedGeometries = Without(@, {c.fid})]
         IN  [s EXCEPT !.buffer = b,
                       !.cache = IF c.fid \in VisibleFids(s.provider, b)
                                 THEN Put(@, c.fid, s.provider.rows[c.fid].geom)
                                 ELSE @]

AttributeSet(s, c, value) ==
    LET added == s.buffer.addedFeatures
        changed == s.buffer.changedAttributeValues
    IN  IF IsNew(c.fid)
        THEN Asserting(Holds(s, c.fid), s,
                [s EXCEPT !.buffer.addedFeatures =
                    Put(added, c.fid,
                        SetAttribute(added[c.fid], c.field, value))])
        ELSE [s EXCEPT !.buffer.changedAttributeValues =
                Put(changed, c.fid,
                    Put(IF c.fid \in DOMAIN changed
                        THEN changed[c.fid] ELSE EmptyMap,
                        c.field, value))]

RedoChangeAttribute(c, s) == AttributeSet(s, c, c.new)

UndoChangeAttribute(c, s) ==
    IF IsNew(c.fid) \/ ~c.firstChange
    THEN AttributeSet(s, c, c.old)
    ELSE LET changed == s.buffer.changedAttributeValues
             left == IF c.fid \in DOMAIN changed
                     THEN Without(changed[c.fid], {c.field}) ELSE EmptyMap
         IN  [s EXCEPT !.buffer.changedAttributeValues =
                IF left = EmptyMap THEN Without(@, {c.fid})
                ELSE Put(@, c.fid, left)]

RedoAddAttribute(c, s) ==
    LET b == [s.buffer EXCEPT !.addedAttributes = Append(@, c.name)]
    IN  Asserting(IndexFits(b, c.field, 1), s,
            [s EXCEPT !.buffer = HandleAttributeAdded(b, c.field)])

\* Mutant: the field's index is used where its origin index is due.
UndoAddAttributeByField(c, s) ==
    LET b == [s.buffer EXCEPT !.addedAttributes = ListRemoveAt(@, c.field)]
    IN  [s EXCEPT !.buffer = HandleAttributeDeleted(b, c.field)]

\* The origin index of whatever field now stands at the command's index.
UndoAddAttribute(c, s) ==
    LET fields == PendingFields(s.provider, s.buffer)
        b == [s.buffer EXCEPT !.addedAttributes =
                  ListRemoveAt(@, fields[c.field].originIndex)]
    IN  IF c.field \in DOMAIN fields /\ IndexFits(s.buffer, c.field, 0)
        THEN [s EXCEPT !.buffer = HandleAttributeDeleted(b, c.field)]
        ELSE [s EXCEPT !.alive = FALSE]

RedoDeleteAttribute(c, s) ==
    LET b == IF c.providerField
             THEN [s.buffer EXCEPT !.deletedAttributeIds =
                      SortSeq(Append(@, c.originIndex), <)]
             ELSE [s.buffer EXCEPT !.addedAttributes =
                      ListRemoveAt(@, c.originIndex)]
    IN  Asserting(IndexFits(b, c.field, 0), s,
            [s EXCEPT !.buffer = HandleAttributeDeleted(b, c.field)])

\* Mutant: the values the features had are not put back.
UndoDeleteAttributeFieldOnly(c, s) ==
    LET b == IF c.providerField
             THEN [s.buffer EXCEPT !.deletedAttributeIds =
                      RemoveFirst(@, c.originIndex)]
             ELSE [s.buffer EXCEPT !.addedAttributes =
                      ListInsert(@, c.originIndex, c.name)]
    IN  [s EXCEPT !.buffer = HandleAttributeAdded(b, c.field)]

UndoDeleteAttribute(c, s) ==
    LET b == IF c.providerField
             THEN [s.buffer EXCEPT !.deletedAttributeIds =
                      RemoveFirst(@, c.originIndex)]
             ELSE [s.buffer EXCEPT !.addedAttributes =
                      ListInsert(@, c.originIndex, c.name)]
        kept == {fid \in DOMAIN c.deletedValues : ~IsNew(fid)}
        Restored(e) ==
            [e EXCEPT
                !.addedFeatures =
                    [fid \in DOMAIN @ |->
                        SetAttribute(@[fid], c.field,
                            IF fid \in DOMAIN c.deletedValues
                            THEN c.deletedValues[fid] ELSE Null)],
                !.changedAttributeValues =
                    [fid \in DOMAIN @ \cup kept |->
                        LET map == IF fid \in DOMAIN @ THEN @[fid] ELSE EmptyMap
                        IN  IF fid \in kept
                            THEN Put(map, c.field, c.deletedValues[fid])
                            ELSE map]]
    IN  Asserting(IndexFits(b, c.field, 1), s,
            [s EXCEPT !.buffer = Restored(HandleAttributeAdded(b, c.field))])

Redone(c, s) ==
    CASE c.op = "addFeature"      -> RedoAddFeature(c, s)
      [] c.op = "deleteFeature"   -> RedoDeleteFeature(c, s)
      [] c.op = "changeGeometry"  -> RedoChangeGeometry(c, s)
      [] c.op = "changeAttribute" -> RedoChangeAttribute(c, s)
      [] c.op = "addAttribute"    -> RedoAddAttribute(c, s)
      [] c.op = "deleteAttribute" -> RedoDeleteAttribute(c, s)

Undone(c, s) ==
    CASE c.op = "addFeature"      -> UndoAddFeature(c, s)
      [] c.op = "deleteFeature"   -> UndoDeleteFeature(c, s)
      [] c.op = "changeGeometry"  -> UndoChangeGeometry(c, s)
      [] c.op = "changeAttribute" -> UndoChangeAttribute(c, s)
      [] c.op = "addAttribute"    -> UndoAddAttribute(c, s)
      [] c.op = "deleteAttribute" -> UndoDeleteAttribute(c, s)

\* A macro's commands, in order and in reverse.
AllRedone(commands, s) ==
    LET after[n \in 0..Len(commands)] ==
            IF n = 0 THEN s ELSE Redone(commands[n], after[n - 1])
    IN  after[Len(commands)]

AllUndone(commands, s) ==
    LET before[n \in 0..Len(commands)] ==
            IF n = Len(commands) THEN s
            ELSE Undone(commands[n + 1], before[n + 1])
    IN  before[0]

-----------------------------------------------------------------------------
(* commitChanges(), stage by stage.  t holds the provider, the buffer, the *)
(* ids of the selected features, and the flags of the C++ function; fails  *)
(* is the set of provider calls that return false.  A provider call either *)
(* does all it was asked or nothing.                                       *)

Stages == {"deleteAttributes", "addAttributes", "changeAttributeValues",
           "deleteFeatures", "addFeatures", "changeGeometryValues"}

Failed(t) == [t EXCEPT !.success = FALSE]

CommitDeletedAttributes(t, fails) ==
    LET kept == KeptAttributes(t.provider, t.buffer)
        Project(seq) == [i \in 1..Len(kept) |-> seq[kept[i]]]
        Narrower(row) == [row EXCEPT !.attrs = Project(row.attrs)]
    IN  IF t.buffer.deletedAttributeIds = <<>> THEN t
        ELSE IF "deleteAttributes" \in fails THEN Failed(t)
        ELSE [t EXCEPT
                !.provider.fields = Project(@),
                !.provider.rows = [fid \in DOMAIN @ |-> Narrower(@[fid])],
                !.buffer.deletedAttributeIds = <<>>,
                !.attributesChanged = TRUE]

CommitAddedAttributes(t, fails) ==
    LET added == t.buffer.addedAttributes
        Wider(row) ==
            [row EXCEPT !.attrs = row.attrs \o [i \in 1..Len(added) |-> Null]]
    IN  IF added = <<>> THEN t
        ELSE IF "addAttributes" \in fails THEN Failed(t)
        ELSE [t EXCEPT
                !.provider.fields =
                    @ \o [i \in 1..Len(added) |-> StoredName[added[i]]],
                !.provider.rows = [fid \in DOMAIN @ |-> Wider(@[fid])],
                !.buffer.addedAttributes = <<>>,
                !.attributesChanged = TRUE]

\* Whether the fields are, after the two stages, what they were before.
FieldsAsExpected(t, oldNames) ==
    ~t.attributesChanged \/ FieldNames(t.provider, t.buffer) = oldNames

\* The provider reads an index of the map as an index of its own fields.
CommitChangedAttributes(t, fails) ==
    LET changed == t.buffer.changedAttributeValues
        Updated(row, values) ==
            [row EXCEPT !.attrs =
                [i \in DOMAIN row.attrs |->
                    IF i \in DOMAIN values THEN values[i] ELSE row.attrs[i]]]
    IN  IF changed = EmptyMap THEN t
        ELSE IF "changeAttributeValues" \in fails THEN Failed(t)
        ELSE [t EXCEPT
                !.provider.rows =
                    [fid \in DOMAIN @ |->
                        IF fid \in DOMAIN changed
                        THEN Updated(@[fid], changed[fid]) ELSE @[fid]],
                !.buffer.changedAttributeValues = EmptyMap]

CommitDeletedFeatures(t, fails) ==
    LET deleted == t.buffer.deletedFeatureIds
    IN  IF ~t.success \/ deleted = {} THEN t
        ELSE IF "deleteFeatures" \in fails THEN Failed(t)
        ELSE [t EXCEPT
                !.provider.rows = Without(@, deleted),
                !.buffer.changedAttributeValues = Without(@, deleted),
                !.buffer.changedGeometries = Without(@, deleted),
                !.buffer.deletedFeatureIds = {}]

\* Mutant: the container is not cleared.
CommitAddedFeaturesUncleared(t, fails) ==
    LET added == t.buffer.addedFeatures
        Permanent(fid) == t.provider.nextFid - 2 - fid
        stored == [fid \in {Permanent(g) : g \in DOMAIN added} |->
                    added[CHOOSE g \in DOMAIN added : Permanent(g) = fid]]
    IN  IF ~t.success \/ added = EmptyMap THEN t
        ELSE IF "addFeatures" \in fails THEN Failed(t)
        ELSE [t EXCEPT
                !.provider.rows = [fid \in DOMAIN @ \cup DOMAIN stored |->
                    IF fid \in DOMAIN stored THEN stored[fid] ELSE @[fid]],
                !.provider.nextFid = @ + Cardinality(DOMAIN added)]

\* Mutant: the selection keeps the temporary ids.
CommitAddedFeaturesSelectionKept(t, fails) ==
    [CommitAddedFeaturesUncleared(t, fails) EXCEPT
        !.buffer.addedFeatures = EmptyMap]

\* Features get permanent ids in the order they were added (ids -2, -3, ...);
\* the selection follows them.
CommitAddedFeatures(t, fails) ==
    LET added == t.buffer.addedFeatures
        Position(fid) == Cardinality({g \in DOMAIN added : g > fid})
        Permanent(fid) == t.provider.nextFid + Position(fid)
        Stored(feature) ==
            [feature EXCEPT !.attrs =
                [i \in 1..Len(t.provider.fields) |-> Attribute(feature, i)]]
        stored == [fid \in {Permanent(g) : g \in DOMAIN added} |->
                    Stored(added[CHOOSE g \in DOMAIN added :
                                    Permanent(g) = fid])]
    IN  IF ~t.success \/ added = EmptyMap THEN t
        ELSE IF "addFeatures" \in fails THEN Failed(t)
        ELSE [t EXCEPT
                !.provider.rows = [fid \in DOMAIN @ \cup DOMAIN stored |->
                    IF fid \in DOMAIN stored THEN stored[fid] ELSE @[fid]],
                !.provider.nextFid = @ + Cardinality(DOMAIN added),
                !.selected = {IF fid \in DOMAIN added THEN Permanent(fid)
                              ELSE fid : fid \in @},
                !.buffer.addedFeatures = EmptyMap]

\* Mutant: the container is cleared before the provider gets it.
CommitChangedGeometriesClearedEarly(t, fails) ==
    [t EXCEPT !.buffer.changedGeometries = EmptyMap]

CommitChangedGeometries(t, fails) ==
    LET changed == t.buffer.changedGeometries
    IN  IF ~t.success \/ changed = EmptyMap THEN t
        ELSE IF "changeGeometryValues" \in fails THEN Failed(t)
        ELSE [t EXCEPT
                !.provider.rows =
                    [fid \in DOMAIN @ |->
                        IF fid \in DOMAIN changed
                        THEN [@[fid] EXCEPT !.geom = changed[fid]]
                        ELSE @[fid]],
                !.buffer.changedGeometries = EmptyMap]

\* Mutant: attribute values are written before attributes are deleted and added.
CommittedValuesFirst(p, b, sel, fails) ==
    LET start == [provider |-> p, buffer |-> b, selected |-> sel,
                  success |-> TRUE, attributesChanged |-> FALSE]
        t == CommitAddedAttributes(
                CommitDeletedAttributes(
                    CommitChangedAttributes(start, fails), fails), fails)
    IN  CommitChangedGeometries(
            CommitAddedFeatures(CommitDeletedFeatures(t, fails), fails), fails)

Committed(p, b, sel, fails) ==
    LET start == [provider |-> p, buffer |-> b, selected |-> sel,
                  success |-> TRUE, attributesChanged |-> FALSE]
        t == CommitAddedAttributes(CommitDeletedAttributes(start, fails), fails)
        rows == CommitAddedFeatures(
                    CommitDeletedFeatures(
                        CommitChangedAttributes(t, fails), fails), fails)
    IN  CommitChangedGeometries(
            IF FieldsAsExpected(t, FieldNames(p, b)) THEN rows ELSE Failed(t),
            fails)

=============================================================================
