-------------------------- MODULE VectorLayerEditing --------------------------
(***************************************************************************)
(* An edit session of a QgsVectorLayer: startEditing, the edit operations  *)
(* with their undo stack and edit commands (macros), commitChanges with    *)
(* stages that may fail, rollBack, and the render jobs that replace the    *)
(* layer's geometry cache behind the editor's back.  The provider is not   *)
(* a transaction's, so the edit buffer is QgsVectorLayerEditBuffer.        *)
(***************************************************************************)
EXTENDS EditBuffer

CONSTANTS
    InitialProvider,    \* the data source when the layer is loaded
    Edits,              \* the operations the user performs, of EditOperations
    NewFieldNames,      \* names of attributes the user may add
    NewValues,          \* values the user may enter
    Geometries,         \* geometries the user may draw
    ProviderFailures,   \* sets of provider calls that may fail in one commit
    RenderExtents,      \* sets of feature ids a render job may cover
    MaxEntries,         \* bound: entries of the undo stack
    MaxMacroCommands,   \* bound: commands of one edit command (0: none open)
    MaxNewFeatures,     \* bound: features added in all sessions
    MaxSelected,        \* bound: features selected at once
    MaxStoredFid,       \* bound: the greatest id the data source hands out
    MaxSessions         \* bound: edit sessions

EditOperations == {"addFeature", "deleteFeature", "changeGeometry",
                   "changeAttributeValue", "addAttribute", "deleteAttribute"}

ASSUME EditingAssumption ==
    /\ Edits \subseteq EditOperations
    /\ \A fails \in ProviderFailures : fails \subseteq Stages
    /\ MaxEntries \in Nat /\ MaxMacroCommands \in Nat
    /\ MaxNewFeatures \in Nat /\ MaxSelected \in Nat /\ MaxStoredFid \in Nat
    /\ MaxSessions \in Nat

\* What a user draws is a geometry, not a null pointer.
ASSUME DrawnAssumption == NoGeometry \notin Geometries

\* The ids of stored features start at 0; a row has a geometry and a value for
\* each field.
ASSUME ProviderAssumption ==
    /\ DOMAIN InitialProvider = {"fields", "rows", "nextFid"}
    /\ InitialProvider.fields \in Seq(STRING)
    /\ InitialProvider.nextFid \in Nat
    /\ \A fid \in DOMAIN InitialProvider.rows :
          /\ fid \in 0..(InitialProvider.nextFid - 1)
          /\ DOMAIN InitialProvider.rows[fid] = {"attrs", "geom"}
          /\ DOMAIN InitialProvider.rows[fid].attrs
                = DOMAIN InitialProvider.fields

VARIABLES
    provider,       \* fields, rows by feature id, next id to hand out
    editing,        \* mEditBuffer # 0
    buffer,         \* the edit buffer's containers
    cache,          \* QgsVectorLayer::mCache: geometries by feature id
    stack,          \* QUndoStack: entries, each [macro, commands]
    index,          \* QUndoStack::index(): entries in effect
    macroOpen,      \* between beginEditCommand and endEditCommand
    sessions,       \* edit sessions started, for the bound
    lowWaterMark,   \* the static addedIdLowWaterMark
    selected,       \* mSelectedFeatureIds
    alive,          \* FALSE once an assertion failed
    job,            \* geometries a running render job gathers, or NoJob
    snapshots,      \* history: the layer before and after each stack entry
    damaged         \* history: a commit of this session failed

vars == <<provider, editing, buffer, cache, stack, index, macroOpen,
          sessions, lowWaterMark, selected, alive, job, snapshots, damaged>>

stackVars == <<stack, index, macroOpen>>

NoJob == [running |-> FALSE, geometries |-> EmptyMap]

CurrentLayer == Layer(provider, buffer)

Workspace == [provider |-> provider, buffer |-> buffer, cache |-> cache,
              alive |-> alive]

\* What the commands of s write; they never write the provider.
BecomesWorkspace(s) ==
    /\ buffer' = s.buffer
    /\ cache' = s.cache
    /\ alive' = s.alive

Init ==
    /\ provider = InitialProvider
    /\ editing = FALSE
    /\ buffer = EmptyBuffer
    /\ cache = EmptyMap
    /\ stack = <<>> /\ index = 0 /\ macroOpen = FALSE
    /\ sessions = 0
    /\ lowWaterMark = -1
    /\ selected = {}
    /\ alive = TRUE
    /\ job = NoJob
    /\ snapshots = <<Layer(InitialProvider, EmptyBuffer)>>
    /\ damaged = FALSE

-----------------------------------------------------------------------------
(* The undo stack.                                                         *)

\* Mutant: the feature ids are not compared.
MergeableAnyFeature(older, newer) ==
    older.op = "changeGeometry" /\ newer.op = "changeGeometry"

\* QgsVectorLayerUndoCommandChangeGeometry::mergeWith
Mergeable(older, newer) ==
    /\ older.op = "changeGeometry" /\ newer.op = "changeGeometry"
    /\ older.fid = newer.fid

WithCommand(commands, c) ==
    IF commands # <<>> /\ Mergeable(Last(commands), c)
    THEN Front(commands) \o <<[Last(commands) EXCEPT !.new = c.new]>>
    ELSE Append(commands, c)

SingleEntry(c) == [macro |-> FALSE, commands |-> <<c>>]

\* QUndoStack::push.  Outside a macro the redo tail goes, and the command may
\* merge into the entry in effect unless the stack is at its clean index (0).
Push(c) ==
    LET s == Redone(c, Workspace)
        kept == SubSeq(stack, 1, index)
        merges == /\ index > 0
                  /\ ~kept[index].macro
                  /\ Mergeable(kept[index].commands[1], c)
        after == Layer(provider, s.buffer)
    IN  /\ BecomesWorkspace(s)
        /\ \/ /\ macroOpen
              /\ Len(Last(stack).commands) < MaxMacroCommands
              /\ stack' = [stack EXCEPT ![index + 1].commands =
                              WithCommand(@, c)]
              /\ UNCHANGED <<index, snapshots>>
           \/ /\ ~macroOpen /\ merges
              /\ stack' = [kept EXCEPT ![index].commands = WithCommand(@, c)]
              /\ snapshots' = Append(SubSeq(snapshots, 1, index), after)
              /\ UNCHANGED index
           \/ /\ ~macroOpen /\ ~merges
              /\ index < MaxEntries
              /\ stack' = Append(kept, SingleEntry(c))
              /\ index' = index + 1
              /\ snapshots' = Append(SubSeq(snapshots, 1, index + 1), after)
        /\ UNCHANGED <<sessions, provider, editing, macroOpen, job, damaged>>

BeginEditCommand ==
    /\ alive /\ editing /\ ~macroOpen
    /\ MaxMacroCommands > 0 /\ index < MaxEntries
    /\ stack' = Append(SubSeq(stack, 1, index),
                       [macro |-> TRUE, commands |-> <<>>])
    /\ macroOpen' = TRUE
    /\ snapshots' = SubSeq(snapshots, 1, index + 1)
    /\ UNCHANGED <<sessions, provider, editing, buffer, cache, index,
                   lowWaterMark, selected, alive, job, damaged>>

EndEditCommand ==
    /\ alive /\ editing /\ macroOpen
    /\ macroOpen' = FALSE
    /\ index' = index + 1
    /\ snapshots' = Append(snapshots, CurrentLayer)
    /\ UNCHANGED <<sessions, provider, editing, buffer, cache, stack,
                   lowWaterMark, selected, alive, job, damaged>>

\* endMacro(), then undo(): the abandoned command can still be redone.
DestroyEditCommand ==
    /\ alive /\ editing /\ macroOpen
    /\ BecomesWorkspace(AllUndone(stack[index + 1].commands, Workspace))
    /\ macroOpen' = FALSE
    /\ snapshots' = Append(snapshots, CurrentLayer)
    /\ UNCHANGED <<sessions, provider, editing, stack, index, lowWaterMark,
                   selected, job, damaged>>

Undo ==
    /\ alive /\ editing /\ ~macroOpen /\ index > 0
    /\ BecomesWorkspace(AllUndone(stack[index].commands, Workspace))
    /\ index' = index - 1
    /\ UNCHANGED <<sessions, provider, editing, stack, macroOpen,
                   lowWaterMark, selected, job, snapshots, damaged>>

Redo ==
    /\ alive /\ editing /\ ~macroOpen /\ index < Len(stack)
    /\ BecomesWorkspace(AllRedone(stack[index + 1].commands, Workspace))
    /\ index' = index + 1
    /\ UNCHANGED <<sessions, provider, editing, stack, macroOpen,
                   lowWaterMark, selected, job, snapshots, damaged>>

-----------------------------------------------------------------------------
(* The edit operations.  Their callers act on features they can see.       *)

Editable(operation) == alive /\ editing /\ operation \in Edits

\* Mutant: one below the new features of the buffer, not below all there were.
TemporaryIdOfBuffer == Min(DOMAIN buffer.addedFeatures \cup {-1}) - 1
TemporaryId == lowWaterMark - 1

AddFeature(value, geom) ==
    LET fid == TemporaryId
        fields == PendingFields(provider, buffer)
        feature == [attrs |-> [i \in 1..Len(fields) |->
                                IF fields[i].origin \in {"provider", "edit"}
                                THEN value ELSE Null],
                    geom  |-> geom]
    IN  /\ Editable("addFeature")
        /\ -lowWaterMark <= MaxNewFeatures
        /\ lowWaterMark' = fid
        /\ Push(AddFeatureCommand(fid, feature))
        /\ UNCHANGED selected

DeleteFeature(fid) ==
    /\ Editable("deleteFeature")
    /\ IF IsNew(fid) THEN fid \in DOMAIN buffer.addedFeatures
       ELSE fid \notin buffer.deletedFeatureIds
    /\ Push(DeleteFeatureCommand(Workspace, fid))
    /\ selected' = selected \ {fid}
    /\ UNCHANGED lowWaterMark

ChangeGeometry(fid, geom) ==
    /\ Editable("changeGeometry")
    /\ IsNew(fid) => fid \in DOMAIN buffer.addedFeatures
    /\ Push(ChangeGeometryCommand(Workspace, fid, geom))
    /\ UNCHANGED <<lowWaterMark, selected>>

ChangeAttributeValue(fid, field, value) ==
    LET fields == PendingFields(provider, buffer)
    IN  /\ Editable("changeAttributeValue")
        /\ IsNew(fid) => fid \in DOMAIN buffer.addedFeatures
        /\ field \in DOMAIN fields
        /\ fields[field].origin \notin {"join", "expression"}
        /\ Push(ChangeAttributeCommand(Workspace, fid, field, value))
        /\ UNCHANGED <<lowWaterMark, selected>>

AddAttribute(name) ==
    /\ Editable("addAttribute")
    /\ ~Contains(FieldNames(provider, buffer), name)
    /\ Push(AddAttributeCommand(Workspace, name))
    /\ UNCHANGED <<lowWaterMark, selected>>

DeleteAttribute(field) ==
    LET fields == PendingFields(provider, buffer)
    IN  /\ Editable("deleteAttribute")
        /\ field \in DOMAIN fields
        /\ fields[field].origin \notin {"join", "expression"}
        /\ fields[field].origin = "provider" =>
              ~Contains(buffer.deletedAttributeIds, fields[field].originIndex)
        /\ Push(DeleteAttributeCommand(Workspace, field))
        /\ UNCHANGED <<lowWaterMark, selected>>

Select(fids) ==
    /\ alive
    /\ Cardinality(fids) <= MaxSelected
    /\ selected' = fids
    /\ UNCHANGED <<sessions, provider, editing, buffer, cache, stackVars,
                   lowWaterMark, alive, job, snapshots, damaged>>

-----------------------------------------------------------------------------
(* The session.                                                            *)

StartEditing ==
    /\ alive /\ ~editing /\ sessions < MaxSessions
    /\ editing' = TRUE
    /\ sessions' = sessions + 1
    /\ snapshots' = <<CurrentLayer>>
    /\ UNCHANGED <<provider, buffer, cache, stackVars, lowWaterMark, selected,
                   alive, job, damaged>>

CommitChanges(fails) ==
    LET t == Committed(provider, buffer, selected, fails)
    IN  /\ alive /\ editing /\ ~macroOpen
        /\ t.provider.nextFid <= MaxStoredFid + 1
        /\ provider' = t.provider
        /\ selected' = t.selected
        /\ cache' = EmptyMap
        /\ IF t.success
           THEN /\ editing' = FALSE
                /\ buffer' = EmptyBuffer
                /\ stack' = <<>> /\ index' = 0
                /\ snapshots' = <<Layer(t.provider, EmptyBuffer)>>
                /\ damaged' = FALSE
           ELSE /\ buffer' = t.buffer
                /\ damaged' = TRUE
                /\ UNCHANGED <<editing, stack, index, snapshots>>
        /\ UNCHANGED <<sessions, macroOpen, lowWaterMark, alive, job>>

\* QUndoStack::setIndex(0): the entries in effect are undone, the newest first.
UndoneToBottom(entries, s) ==
    LET before[n \in 0..Len(entries)] ==
            IF n = Len(entries) THEN s
            ELSE AllUndone(entries[n + 1].commands, before[n + 1])
    IN  before[0]

\* What is asserted of the buffer when everything is undone: nothing of
\* mDeletedFeatureIds.
EmptyAfterRollBack(b) ==
    /\ b.addedAttributes = <<>> /\ b.deletedAttributeIds = <<>>
    /\ b.changedAttributeValues = EmptyMap /\ b.changedGeometries = EmptyMap
    /\ b.addedFeatures = EmptyMap

\* QgsVectorLayerEditBuffer::rollBack returns at once when nothing is in effect.
RollBack(deleteBuffer) ==
    LET s == UndoneToBottom(SubSeq(stack, 1, index), Workspace)
    IN  /\ alive /\ editing /\ ~macroOpen
        /\ alive' = (s.alive /\ (index > 0 => EmptyAfterRollBack(s.buffer)))
        /\ cache' = EmptyMap
        /\ index' = 0
        /\ IF deleteBuffer
           THEN /\ editing' = FALSE
                /\ buffer' = EmptyBuffer
                /\ stack' = <<>>
                /\ snapshots' = <<Layer(provider, EmptyBuffer)>>
                /\ damaged' = FALSE
           ELSE /\ buffer' = s.buffer
                /\ UNCHANGED <<editing, stack, snapshots, damaged>>
        /\ UNCHANGED <<sessions, provider, macroOpen, lowWaterMark, selected,
                       job>>

-----------------------------------------------------------------------------
(* Render jobs of the map canvas.  While the layer is editable a job       *)
(* gathers the geometries it draws, read through a feature source that     *)
(* copied the edit buffer, and the finished job, cancelled or not, puts    *)
(* them in place of the layer's geometry cache.                            *)

StartRenderJob(extent) ==
    /\ alive /\ editing /\ ~job.running
    /\ job' = [running |-> TRUE,
               geometries |->
                  [fid \in extent \cap VisibleFids(provider, buffer) |->
                      CurrentLayer.rows[fid].geom]]
    /\ UNCHANGED <<sessions, provider, editing, buffer, cache, stackVars,
                   lowWaterMark, selected, alive, snapshots, damaged>>

FinishRenderJob ==
    /\ alive /\ job.running
    /\ cache' = job.geometries
    /\ job' = NoJob
    /\ UNCHANGED <<sessions, provider, editing, buffer, stackVars,
                   lowWaterMark, selected, alive, snapshots, damaged>>

-----------------------------------------------------------------------------
EditFeature ==
    \/ \E value \in NewValues, geom \in Geometries : AddFeature(value, geom)
    \/ \E fid \in VisibleFids(provider, buffer) :
          \/ DeleteFeature(fid)
          \/ \E geom \in Geometries : ChangeGeometry(fid, geom)
          \/ \E field \in 1..NativeCount(provider, buffer), value \in NewValues :
                ChangeAttributeValue(fid, field, value)

EditFields ==
    \/ \E name \in NewFieldNames : AddAttribute(name)
    \/ \E field \in 1..NativeCount(provider, buffer) : DeleteAttribute(field)

UseUndoStack ==
    \/ BeginEditCommand \/ EndEditCommand \/ DestroyEditCommand
    \/ Undo \/ Redo

Session ==
    \/ StartEditing
    \/ \E fails \in ProviderFailures : CommitChanges(fails)
    \/ \E deleteBuffer \in BOOLEAN : RollBack(deleteBuffer)
    \/ \E fids \in SUBSET VisibleFids(provider, buffer) : Select(fids)

Rendering ==
    \/ \E extent \in RenderExtents : StartRenderJob(extent)
    \/ FinishRenderJob

Next == EditFeature \/ EditFields \/ UseUndoStack \/ Session \/ Rendering

Spec == Init /\ [][Next]_vars

-----------------------------------------------------------------------------
(* Properties.                                                             *)

\* Every variable has its type.  Attribute lists of new features are as long
\* as the layer's field list, as addFeature demands and the shifting of
\* indices has to preserve.
TypeOK ==
    /\ editing \in BOOLEAN /\ macroOpen \in BOOLEAN
    /\ alive \in BOOLEAN /\ damaged \in BOOLEAN
    /\ lowWaterMark \in Int /\ lowWaterMark < 0
    /\ index \in 0..Len(stack)
    /\ DOMAIN stack = 1..Len(stack)
    /\ \A fid \in DOMAIN provider.rows :
          /\ fid \in 0..(provider.nextFid - 1)
          /\ DOMAIN provider.rows[fid].attrs = DOMAIN provider.fields
    /\ \A fid \in DOMAIN buffer.addedFeatures :
          IsNew(fid) /\ (~damaged =>
            Len(buffer.addedFeatures[fid].attrs)
                = Len(PendingFields(provider, buffer)))
    /\ job.running \in BOOLEAN

\* The layer as a reader sees it is, after any walk along the undo stack, what
\* it was when the stack was at that entry: every undo() is the inverse of its
\* redo(), whatever other commands did to ids, indices and values in between.
UndoRestores ==
    ~damaged /\ ~macroOpen /\ alive => CurrentLayer = snapshots[index + 1]

\* The same for everything but the geometries, which a render job may upset.
WithoutGeometries(layer) ==
    [layer EXCEPT !.rows = [fid \in DOMAIN @ |-> @[fid].attrs]]

UndoRestoresAttributes ==
    ~damaged /\ ~macroOpen /\ alive =>
        WithoutGeometries(CurrentLayer) = WithoutGeometries(snapshots[index + 1])

AtBottom == editing /\ index = 0 /\ ~macroOpen /\ ~damaged

\* At the bottom of the undo stack every container of the buffer is empty,
\* whichever way the session came there: what rollBack asserts of five of them
\* holds of mDeletedFeatureIds too.
NothingPendingAtBottom == AtBottom => buffer = EmptyBuffer

\* With attributes coming and going, an empty map may be left for a feature
\* (Visited): the buffer is not empty then, but a commit at the bottom of the
\* undo stack leaves the data source as it is.
BottomCommitsNothing ==
    AtBottom => Committed(provider, buffer, selected, {}).provider = provider

\* No command finds its added feature, or its field, gone, and rolling back
\* leaves the buffer empty: none of the assertions in undo() and redo() of the
\* commands, and at the end of QgsVectorLayerEditBuffer::rollBack, fails.
NoAssertionFails == alive

\* A temporary id names one feature for ever: commands still on the stack and
\* the buffer only know ids handed out so far, the next one is new to them, and
\* no two additions on the stack have the same, also when the first feature was
\* deleted or stored before the second came (addedIdLowWaterMark).
CommandIds(commands) == {commands[i].fid : i \in
    {j \in DOMAIN commands : commands[j].op \notin {"addAttribute", "deleteAttribute"}}}

Command(at) == stack[at[1]].commands[at[2]]
Additions ==
    {at \in UNION {{i} \X DOMAIN stack[i].commands : i \in DOMAIN stack} :
       Command(at).op = "addFeature"}

FreshIds ==
    /\ \A fid \in DOMAIN buffer.addedFeatures
                   \cup UNION {CommandIds(stack[i].commands) : i \in DOMAIN stack} :
           fid >= lowWaterMark
    /\ \A i, j \in Additions : Command(i).fid = Command(j).fid => i = j

\* The session implements the history of EditHistory.
History == INSTANCE EditHistory WITH
    open    <- editing,
    past    <- SubSeq(snapshots, 1, index),
    present <- IF macroOpen THEN snapshots[index + 1] ELSE CurrentLayer,
    future  <- SubSeq(snapshots, index + 2, Len(snapshots))

ImplementsHistory == History!Spec

\* A commit, also one that fails at some stage, never changes what a reader of
\* the layer sees: what leaves the buffer has arrived in the data source.
CommitKeepsLayer ==
    [][provider' # provider => History!SameContent(CurrentLayer, CurrentLayer')]_vars

\* A successful commit leaves the selection on the features it was on, although
\* new features have other ids afterwards.
SelectionFollowsCommit ==
    [][provider' # provider =>
        \A fid \in selected :
            fid \in VisibleFids(provider, buffer) =>
                \E g \in selected' :
                    /\ g \in VisibleFids(provider', buffer')
                    /\ CurrentLayer'.rows[g] = CurrentLayer.rows[fid]]_vars

=============================================================================
