---------------------------- MODULE OfflineEditing ----------------------------
(***************************************************************************)
(* QgsOfflineEditing: layers are copied into a SQLite database, commits of *)
(* the copies are logged there, and synchronize() replays the log on the   *)
(* layers of the server.                                                   *)
(*                                                                         *)
(* A table of the database is a function from SQLite's rowids to rows.     *)
(* The name of a feature is not known to the program: it tells which rows, *)
(* here and on the server, are the same feature.                           *)
(***************************************************************************)
EXTENDS Integers, Sequences, FiniteSets

CONSTANTS
    Layers,
    Values,             \* values of attributes
    Null,               \* the null QVariant
    EmptyText,          \* the empty string, which is how a null value is logged
    QuotedValues,       \* values with an apostrophe, which break the statement
    Geometries,
    StoredRows,         \* how many features a layer has at first
    EditsAfterSync,     \* whether a copy may be edited again, in the project as it
                        \* was saved, after it was synchronised
    MaxFields,          \* bound: fields of a layer
    MaxSessions,        \* bound: edit sessions offline
    MaxEdited,          \* bound: stored features one session changes or deletes
    MaxAdded,           \* bound: features one session adds
    MaxTheirs           \* bound: edits by others on the server

ASSUME OfflineAssumption ==
    /\ IsFiniteSet(Layers)
    /\ Values # {} /\ Geometries # {}
    /\ Null \notin Values /\ EmptyText \notin Values \cup {Null}
    /\ QuotedValues \subseteq Values
    /\ StoredRows \in Nat /\ MaxFields \in Nat \ {0} /\ MaxSessions \in Nat
    /\ MaxEdited \in Nat /\ MaxAdded \in Nat /\ MaxTheirs \in Nat
    /\ EditsAfterSync \in BOOLEAN

VARIABLES
    server,     \* the remote layers: number of fields, rows, next feature id
    table,      \* the offline layers: number of fields, rows
    log,        \* the log tables, by layer
    commitNo,   \* log_indices: commit_no
    project,    \* the offline layers in the open project, and whether it has the
                \* entry with the path of the database
    saved,      \* the same, in the project file
    syncing,    \* layers synchronize() has still to visit
    disconnected, \* layers in edit mode whose log slots were disconnected by a
                \* roll back that left them editable
    sessions,   \* bound
    theirs,     \* edits others made on the server
    nextName,   \* history: the next name for a feature
    base,       \* history: the layers as they were copied or synchronised last
    delivered,  \* history: layers that were synchronised
    unlogged    \* history: layers with a commit that was not logged

dataVars == <<server, table, log, commitNo>>
historyVars == <<nextName, base, delivered, unlogged>>
vars == <<server, table, log, commitNo, project, saved, syncing, disconnected,
          sessions, theirs, nextName, base, delivered, unlogged>>

-----------------------------------------------------------------------------
(* SQLite tables.                                                          *)

EmptyTable == [k \in {} |-> Null]

\* Without AUTOINCREMENT a new row gets the greatest rowid in use plus one.
NextRowid(t) ==
    1 + CHOOSE m \in {0} \cup DOMAIN t : \A k \in DOMAIN t : k <= m

InsertAll(t, rows) ==
    LET next == NextRowid(t)
    IN  [k \in DOMAIN t \cup next..(next + Len(rows) - 1) |->
            IF k \in DOMAIN t THEN t[k] ELSE rows[k - next + 1]]

Without(t, keys) == [k \in DOMAIN t \ keys |-> t[k]]

RowsIn(t) == {t[k] : k \in DOMAIN t}

Ascending(S) ==
    [i \in 1..Cardinality(S) |->
        CHOOSE x \in S : Cardinality({y \in S : y < x}) = i - 1]

\* SELECT ROWID ... ORDER BY ROWID DESC LIMIT n, read from its end.
NewestRowids(t, n) ==
    Ascending({k \in DOMAIN t : Cardinality({m \in DOMAIN t : m > k}) < n})

EmptyLog ==
    [added  |-> EmptyTable,   \* log_added_features: feature ids
     removed |-> {},          \* log_removed_features
     fields |-> EmptyTable,   \* log_added_attrs: commit numbers
     values |-> EmptyTable,   \* log_feature_updates
     geoms  |-> EmptyTable,   \* log_geometry_updates
     fids   |-> EmptyTable]   \* log_fids: pairs of feature ids

IsAddedFeature(g, fid) == fid \in RowsIn(g.added)

\* The first row found; -1 is the id of no feature.
RemoteFid(g, fid) ==
    LET found == {k \in DOMAIN g.fids : g.fids[k].offline = fid}
    IN  IF found = {} THEN -1
        ELSE g.fids[CHOOSE k \in found : \A m \in found : k <= m].remote

-----------------------------------------------------------------------------
(* A commit of an offline layer: each stage of commitChanges() writes to   *)
(* the layer's table, and the slot for its signal to the log.  t is the    *)
(* layer's table, its log and the commit number.  The stages are those of  *)
(* EditBuffer; a commit that fails at one is a session without the rest.   *)

\* Mutant: the rows do not get the new fields.
AddFieldsToTable(t, n) == [t EXCEPT !.fields = @ + n]

AddFields(t, n) ==
    LET Lengthened(row) ==
            [row EXCEPT !.attrs = @ \o [i \in 1..n |-> Null]]
    IN  [t EXCEPT !.fields = @ + n,
                  !.rows = [k \in DOMAIN t.rows |-> Lengthened(t.rows[k])]]

CommittedAttributesAdded(t, n) ==
    [t EXCEPT !.log.fields = InsertAll(@, [i \in 1..n |-> t.commitNo]),
              !.commitNo = @ + 1]

ChangeValues(t, values) ==
    [t EXCEPT !.rows =
        [k \in DOMAIN @ |->
            IF k \in DOMAIN values
            THEN [@[k] EXCEPT !.attrs[values[k].field] = values[k].value]
            ELSE @[k]]]

\* QVariant::toString() of a null value is an empty string.
Logged(value) == IF value = Null THEN EmptyText ELSE value

CommittedAttributeValuesChanges(t, values) ==
    LET logged == Ascending({k \in DOMAIN values :
                        /\ ~IsAddedFeature(t.log, k)
                        /\ values[k].value \notin QuotedValues})
    IN  [t EXCEPT
            !.log.values = InsertAll(@,
                [i \in DOMAIN logged |->
                    [commit |-> t.commitNo, fid |-> logged[i],
                     field |-> values[logged[i]].field,
                     value |-> Logged(values[logged[i]].value)]]),
            !.commitNo = @ + 1]

DeleteRows(t, fids) == [t EXCEPT !.rows = Without(@, fids)]

\* Mutant: every removal is logged, that of an added feature too.
CommittedFeaturesRemovedAll(t, fids) ==
    [t EXCEPT !.log.removed = @ \cup fids]

CommittedFeaturesRemoved(t, fids) ==
    LET added == {k \in fids : IsAddedFeature(t.log, k)}
    IN  [t EXCEPT
            !.log.added = Without(@, {k \in DOMAIN @ : @[k] \in added}),
            !.log.removed = @ \cup (fids \ added)]

AddRows(t, rows) == [t EXCEPT !.rows = InsertAll(@, rows)]

\* Mutant: the ids are not read in reverse.
CommittedFeaturesAddedDescending(t, n) ==
    LET newest == NewestRowids(t.rows, n)
    IN  [t EXCEPT !.log.added = InsertAll(@,
            [i \in 1..Len(newest) |-> newest[Len(newest) + 1 - i]])]

CommittedFeaturesAdded(t, n) ==
    [t EXCEPT !.log.added = InsertAll(@, NewestRowids(t.rows, n))]

ChangeGeometries(t, geoms) ==
    [t EXCEPT !.rows =
        [k \in DOMAIN @ |->
            IF k \in DOMAIN geoms THEN [@[k] EXCEPT !.geom = geoms[k]]
            ELSE @[k]]]

CommittedGeometriesChanges(t, geoms) ==
    LET logged == Ascending({k \in DOMAIN geoms : ~IsAddedFeature(t.log, k)})
    IN  [t EXCEPT
            !.log.geoms = InsertAll(@,
                [i \in DOMAIN logged |->
                    [commit |-> t.commitNo, fid |-> logged[i],
                     geom |-> geoms[logged[i]]]]),
            !.commitNo = @ + 1]

\* Stages with nothing to do emit no signal; a slot that is not connected, or
\* finds no database (openLoggingDb), writes nothing.
Stage(needed, logging, before, written, slotOf) ==
    IF ~needed THEN before ELSE IF logging THEN slotOf ELSE written

CommitFields(t, n, logging) ==
    LET w == AddFields(t, n)
    IN  Stage(n > 0, logging, t, w, CommittedAttributesAdded(w, n))

CommitValues(t, values, logging) ==
    LET w == ChangeValues(t, values)
    IN  Stage(DOMAIN values # {}, logging, t, w,
              CommittedAttributeValuesChanges(w, values))

CommitDeletions(t, fids, logging) ==
    LET w == DeleteRows(t, fids)
    IN  Stage(fids # {}, logging, t, w, CommittedFeaturesRemoved(w, fids))

CommitAdditions(t, rows, logging) ==
    LET w == AddRows(t, rows)
    IN  Stage(rows # <<>>, logging, t, w, CommittedFeaturesAdded(w, Len(rows)))

CommitGeometries(t, geoms, logging) ==
    LET w == ChangeGeometries(t, geoms)
    IN  Stage(DOMAIN geoms # {}, logging, t, w,
              CommittedGeometriesChanges(w, geoms))

\* An edit session: the changed values and geometries are those of features
\* that are stored; a change of a new one is part of what is added.
Committed(t, s, logging) ==
    LET t1 == CommitFields(t, s.newFields, logging)
        t2 == CommitValues(t1, s.values, logging)
        t3 == CommitDeletions(t2, s.deleted, logging)
        t4 == CommitAdditions(t3, s.added, logging)
    IN  CommitGeometries(t4, Without(s.geoms, s.deleted), logging)

-----------------------------------------------------------------------------
(* Replaying the log of a layer on the server's layer.                     *)

\* addAttribute() of what was logged up to a commit, before the last one.
FieldsAt(l, commit) ==
    server[l].fields
        + Cardinality({k \in DOMAIN log[l].fields :
                          /\ log[l].fields[k] <= commit
                          /\ log[l].fields[k] < commitNo})

\* attributeLookup: QMap::operator[] gives 0, the first field, for an index
\* that has no counterpart.
AttributeLookup(fields, f) == IF f <= fields THEN f ELSE 1

\* Mutant: the last commit is left out.
RowsToReplayButLast(t) == {k \in DOMAIN t : t[k].commit < commitNo - 1}

\* for ( int i = 0; i < commitNo; i++ ) apply...( i )
RowsToReplay(t) == {k \in DOMAIN t : t[k].commit < commitNo}

\* Later commits come later, and within a commit later rows.
LastReplayed(t, keys) ==
    t[CHOOSE k \in keys : \A m \in keys :
          \/ t[m].commit < t[k].commit
          \/ t[m].commit = t[k].commit /\ m <= k]

\* applyAttributesAdded, applyAttributeValueChanges, applyGeometryChanges,
\* applyFeaturesRemoved, and the commit of what they put into the edit buffer.
\* An edit of the feature -1 is refused, one of a row that is gone has no
\* effect.
ReplayedRow(l, r) ==
    LET g == log[l]
        row == server[l].rows[r]
        valueRows(f) ==
            {k \in RowsToReplay(g.values) :
                /\ RemoteFid(g, g.values[k].fid) = r
                /\ AttributeLookup(FieldsAt(l, g.values[k].commit),
                                   g.values[k].field) = f}
        geomRows == {k \in RowsToReplay(g.geoms) :
                        RemoteFid(g, g.geoms[k].fid) = r}
    IN  [row EXCEPT
            !.attrs = [f \in 1..FieldsAt(l, commitNo) |->
                IF valueRows(f) # {}
                THEN LastReplayed(g.values, valueRows(f)).value
                ELSE IF f \in DOMAIN @ THEN @[f] ELSE Null],
            !.geom = IF geomRows # {}
                     THEN LastReplayed(g.geoms, geomRows).geom ELSE @]

\* applyFeaturesAdded: features are copied in the order of the log, if the
\* offline layer still has them.
RowsToAdd(l) ==
    LET g == log[l]
        keys == Ascending({k \in DOMAIN g.added :
                              g.added[k] \in DOMAIN table[l].rows})
        fields == FieldsAt(l, commitNo)
        Copied(row) ==
            [row EXCEPT !.attrs = [f \in 1..fields |->
                LET from == {h \in DOMAIN @ : AttributeLookup(fields, h) = f}
                IN  IF from = {} THEN Null
                    ELSE @[CHOOSE h \in from : \A i \in from : i <= h]]]
    IN  [i \in DOMAIN keys |-> Copied(table[l].rows[g.added[keys[i]]])]

RemovedOnServer(l) == {RemoteFid(log[l], k) : k \in log[l].removed}

Replayed(l) ==
    LET new == RowsToAdd(l)
        next == server[l].nextFid
        kept == DOMAIN server[l].rows \ RemovedOnServer(l)
    IN  [fields  |-> FieldsAt(l, commitNo),
         nextFid |-> next + Len(new),
         rows    |-> [r \in kept \cup next..(next + Len(new) - 1) |->
                        IF r \in kept THEN ReplayedRow(l, r)
                        ELSE new[r - next + 1]]]

PairsInOrder(offline, remote) ==
    [i \in DOMAIN remote |-> [offline |-> offline[i], remote |-> remote[i]]]

\* Mutant: new features are paired in opposite orders.
LookupUpdatedReversed(g, fids) ==
    LET known == {g.fids[k].remote : k \in DOMAIN g.fids}
        remote == Ascending(fids \ known)
        keys == Ascending(DOMAIN g.added)
        n == Len(keys)
    IN  IF Len(remote) # n THEN g.fids
        ELSE InsertAll(g.fids,
                PairsInOrder([i \in 1..n |-> g.added[keys[n + 1 - i]]], remote))

\* updateFidLookup, with the server's feature ids: those without a pair and
\* the added ones are paired in order, if there are as many of them.
LookupUpdated(g, fids) ==
    LET known == {g.fids[k].remote : k \in DOMAIN g.fids}
        remote == Ascending(fids \ known)
        keys == Ascending(DOMAIN g.added)
    IN  IF Len(remote) # Len(keys) THEN g.fids
        ELSE InsertAll(g.fids,
                PairsInOrder([i \in DOMAIN keys |-> g.added[keys[i]]], remote))

\* Mutant: the added features stay in the log.
ClearedLogButAdded(g, fids) == [EmptyLog EXCEPT !.fids = fids, !.added = g.added]

\* DELETE FROM every log table but the lookup.
ClearedLog(g, fids) == [EmptyLog EXCEPT !.fids = fids]

-----------------------------------------------------------------------------
(* The project and its files.                                              *)

FirstValue == CHOOSE v \in Values : TRUE
FirstGeometry == CHOOSE g \in Geometries : TRUE
Feature(name, fields) ==
    [name |-> name, attrs |-> [f \in 1..fields |-> FirstValue],
     geom |-> FirstGeometry]

NothingOffline == [layers |-> {}, entry |-> FALSE]
NoRows == [fields |-> 0, rows |-> EmptyTable]

Init ==
    /\ server = [l \in Layers |->
                    [fields |-> 1, nextFid |-> StoredRows + 1,
                     rows |-> [r \in 1..StoredRows |-> Feature(r, 1)]]]
    /\ table = [l \in Layers |-> NoRows]
    /\ log = [l \in Layers |-> EmptyLog]
    /\ commitNo = 0
    /\ project = NothingOffline
    /\ saved = NothingOffline
    /\ syncing = <<>>
    /\ disconnected = {}
    /\ sessions = 0
    /\ theirs = 0
    /\ nextName = StoredRows + 1
    /\ base = [l \in Layers |-> NoRows]
    /\ delivered = {}
    /\ unlogged = {}

\* Orders in which the provider may deliver rows: any.
Orders(S) ==
    {q \in [1..Cardinality(S) -> S] : \A i, j \in DOMAIN q : q[i] = q[j] => i = j}

\* copyVectorLayer: the commit of the copy stores the rows in the order they
\* were read (mapToReversedLists); the lookup pairs them from both ends.
CopyOf(rows, order) ==
    LET n == Len(order)
    IN  [rows |-> InsertAll(EmptyTable, [i \in 1..n |-> rows[order[i]]]),
         fids |-> InsertAll(EmptyTable,
                    PairsInOrder([i \in 1..n |-> i],
                                 [i \in 1..n |-> order[n + 1 - i]]))]

\* convertToOfflineProject: the layers to copy are the user's choice.  There
\* is one database: a project that has been offline is not converted again.
ConvertToOfflineProject ==
    /\ syncing = <<>>
    /\ ~project.entry /\ project.layers = {} /\ saved = NothingOffline
    /\ \A l \in Layers : table[l] = NoRows
    /\ \E taken \in SUBSET Layers \ {{}} :
       \E copies \in [taken -> UNION {Orders(DOMAIN server[l].rows) : l \in taken}] :
          LET CopyOfLayer(l) == CopyOf(server[l].rows, copies[l])
          IN  /\ \A l \in taken : copies[l] \in Orders(DOMAIN server[l].rows)
              /\ table' = [l \in Layers |->
                    IF l \in taken THEN [fields |-> server[l].fields,
                                         rows |-> CopyOfLayer(l).rows]
                    ELSE NoRows]
              /\ log' = [l \in Layers |->
                    IF l \in taken
                    THEN [EmptyLog EXCEPT !.fids = CopyOfLayer(l).fids]
                    ELSE EmptyLog]
              /\ commitNo' = 0
              /\ project' = [layers |-> taken, entry |-> TRUE]
              /\ base' = table'
    /\ UNCHANGED <<server, saved, syncing, disconnected, sessions, theirs, nextName,
                   delivered, unlogged>>

PartialFunctions(S, T) == UNION {[D -> T] : D \in SUBSET S}

\* startListenFeatureChanges() connects the slots when the layer enters edit
\* mode; without the database in the project they find nothing to write to.
IsLogging(l) == project.entry /\ l \notin disconnected

\* An edit session of an offline layer is committed.  When that succeeds the
\* edit buffer is deleted, and the next startEditing() connects the slots
\* again; when it fails the buffer stays, and they are as they were.
CommitOffline(l) ==
    LET rows == table[l].rows
        before == [fields |-> table[l].fields, rows |-> rows, log |-> log[l],
                   commitNo |-> commitNo]
    IN  /\ l \in project.layers
        /\ syncing = <<>>
        /\ sessions < MaxSessions
        /\ EditsAfterSync \/ l \notin delivered
        /\ \E newFields \in 0..(IF table[l].fields < MaxFields THEN 1 ELSE 0) :
           \E edited \in {E \in SUBSET DOMAIN rows : Cardinality(E) <= MaxEdited} :
           \E values \in PartialFunctions(edited,
                  [field : 1..(table[l].fields + newFields),
                   value : Values \cup {Null}]),
              geoms \in PartialFunctions(edited, Geometries),
              deleted \in SUBSET edited,
              added \in 0..MaxAdded :
              LET fields == table[l].fields + newFields
                  after == Committed(before,
                      [newFields |-> newFields, values |-> values,
                       deleted |-> deleted, geoms |-> geoms,
                       added |-> [i \in 1..added |->
                                    Feature(nextName + i - 1, fields)]],
                      IsLogging(l))
              IN  /\ after # before
                  /\ table' = [table EXCEPT ![l] =
                                  [fields |-> after.fields, rows |-> after.rows]]
                  /\ log' = [log EXCEPT ![l] = after.log]
                  /\ commitNo' = after.commitNo
                  /\ nextName' = nextName + added
        /\ sessions' = sessions + 1
        /\ disconnected' \in {disconnected, disconnected \ {l}}
        /\ unlogged' = IF IsLogging(l) THEN unlogged ELSE unlogged \cup {l}
        /\ UNCHANGED <<server, project, saved, syncing, theirs, base, delivered>>

\* "Rollback edits": rollBack( false ) says editingStopped, which disconnects
\* the slots, and keeps the edit buffer, so that the startEditing() after it
\* returns before it says editingStarted.
RollBackKeepEditing(l) ==
    /\ syncing = <<>>
    /\ l \in project.layers \ disconnected
    /\ disconnected' = disconnected \cup {l}
    /\ UNCHANGED <<dataVars, project, saved, syncing, sessions, theirs, historyVars>>

\* "Cancel edits", or editing toggled off and discarded: the buffer goes.
CancelEdits(l) ==
    /\ syncing = <<>>
    /\ l \in disconnected
    /\ disconnected' = disconnected \ {l}
    /\ UNCHANGED <<dataVars, project, saved, syncing, sessions, theirs, historyVars>>

SaveProject ==
    /\ syncing = <<>>
    /\ saved # project
    /\ saved' = project
    /\ UNCHANGED <<dataVars, project, syncing, disconnected, sessions, theirs,
                   historyVars>>

\* The program ends, or is killed, and the project is read again: its layers
\* are new ones (layerAdded), none of them in edit mode.
ReopenProject ==
    /\ project # saved \/ syncing # <<>> \/ disconnected # {}
    /\ project' = saved
    /\ syncing' = <<>>
    /\ disconnected' = {}
    /\ UNCHANGED <<dataVars, saved, sessions, theirs, historyVars>>

StartSynchronize ==
    /\ project.entry
    /\ syncing = <<>>
    /\ project.layers # {}
    /\ syncing' \in Orders(project.layers)
    /\ UNCHANGED <<dataVars, project, saved, disconnected, sessions, theirs,
                   historyVars>>

LayerDone(l) ==
    /\ project' = [layers |-> project.layers \ {l}, entry |-> FALSE]
    /\ syncing' = Tail(syncing)
    /\ disconnected' = disconnected \ {l}

\* Mutant: the project is taken for an online one all the same.
RemoteInvalidGoesOnline ==
    /\ syncing # <<>>
    /\ syncing' = Tail(syncing)
    /\ project' = [project EXCEPT !.entry = FALSE]
    /\ UNCHANGED <<dataVars, saved, disconnected, sessions, theirs, historyVars>>

\* The remote layer is not valid: the layer is passed over.
RemoteInvalid ==
    /\ syncing # <<>>
    /\ syncing' = Tail(syncing)
    /\ UNCHANGED <<dataVars, project, saved, disconnected, sessions, theirs,
                   historyVars>>

\* The commit of the remote layer fails: the offline layer leaves the project
\* all the same.
CommitRefused ==
    /\ syncing # <<>>
    /\ LayerDone(Head(syncing))
    /\ UNCHANGED <<dataVars, saved, sessions, theirs, historyVars>>

\* The log is replayed, committed and cleared, and the commit number, which
\* all layers share, starts again.
LayerSynchronized ==
    /\ syncing # <<>>
    /\ LET l == Head(syncing)
       IN  /\ server' = [server EXCEPT ![l] = Replayed(l)]
           /\ log' = [log EXCEPT ![l] =
                 ClearedLog(log[l],
                            LookupUpdated(log[l], DOMAIN Replayed(l).rows))]
           /\ commitNo' = 0
           /\ LayerDone(l)
           /\ base' = [base EXCEPT ![l] = table[l]]
           /\ delivered' = delivered \cup {l}
    /\ UNCHANGED <<table, saved, sessions, theirs, nextName, unlogged>>

\* Others edit the server's layers.  What they do before the layers are taken
\* offline is part of what the layers are at first.
EditedByOthers(l, rows, named, ids) ==
    /\ table[l] # NoRows
    /\ theirs < MaxTheirs
    /\ theirs' = theirs + 1
    /\ server' = [server EXCEPT ![l].rows = rows, ![l].nextFid = @ + ids]
    /\ nextName' = nextName + named
    /\ UNCHANGED <<table, log, commitNo, project, saved, syncing, disconnected,
                   sessions, base, delivered, unlogged>>

OthersChange(l) ==
    \E r \in DOMAIN server[l].rows, v \in Values \cup {Null} :
        /\ server[l].rows[r].attrs[1] # v
        /\ EditedByOthers(l, [server[l].rows EXCEPT ![r].attrs[1] = v], 0, 0)

OthersDelete(l) ==
    \E r \in DOMAIN server[l].rows :
        EditedByOthers(l, Without(server[l].rows, {r}), 0, 0)

OthersAdd(l) ==
    LET new == Feature(nextName, server[l].fields)
        rows == server[l].rows
        next == server[l].nextFid
    IN  EditedByOthers(l, [r \in DOMAIN rows \cup {next} |->
                              IF r = next THEN new ELSE rows[r]], 1, 1)

Next ==
    \/ ConvertToOfflineProject
    \/ \E l \in Layers :
           CommitOffline(l) \/ RollBackKeepEditing(l) \/ CancelEdits(l)
    \/ SaveProject
    \/ ReopenProject
    \/ StartSynchronize
    \/ RemoteInvalid
    \/ CommitRefused
    \/ LayerSynchronized
    \/ \E l \in Layers : OthersChange(l) \/ OthersDelete(l) \/ OthersAdd(l)

Spec == Init /\ [][Next]_vars

-----------------------------------------------------------------------------
(* Properties.                                                             *)

Row(fields) ==
    [name : Nat, attrs : [1..fields -> Values \cup {Null, EmptyText}],
     geom : Geometries]

\* Rows have as many attributes as their table has fields, rowids and ids are
\* positive, and what is logged is what the tables can hold.
TypeOK ==
    /\ \A l \in Layers :
        /\ server[l].fields \in 1..MaxFields
        /\ \A r \in DOMAIN server[l].rows :
               /\ r \in 1..(server[l].nextFid - 1)
               /\ server[l].rows[r] \in Row(server[l].fields)
        /\ \A t \in {table[l], base[l]} :
               /\ t.fields \in 0..MaxFields
               /\ \A k \in DOMAIN t.rows :
                      k > 0 /\ t.rows[k] \in Row(t.fields)
        /\ DOMAIN log[l].fids \subseteq Nat \ {0}
        /\ \A k \in DOMAIN log[l].values :
               log[l].values[k].field \in 1..table[l].fields
    /\ commitNo \in Nat
    /\ project.layers \subseteq Layers /\ saved.layers \subseteq Layers
    /\ project.entry \in BOOLEAN /\ saved.entry \in BOOLEAN
    /\ \A i \in DOMAIN syncing : syncing[i] \in project.layers
    /\ disconnected \subseteq project.layers

\* The rows an offline layer has are those that were copied and not logged
\* as removed, and those logged as added: whatever ids SQLite gives again to
\* new rows, the log can be read as what happened to the copy.
RowsAccountedFor(l) ==
    LET g == log[l]
        copied == {g.fids[k].offline : k \in DOMAIN g.fids}
        added == RowsIn(g.added)
    IN  /\ DOMAIN table[l].rows = (copied \ g.removed) \cup added
        /\ added \cap (copied \ g.removed) = {}

LogAccountsForRows ==
    \A l \in Layers \ (unlogged \cup delivered) : RowsAccountedFor(l)

\* updateFidLookup relies on it ("fids are sorted"): the log names added
\* features in ascending order, and each once.
AddedInOrder ==
    \A l \in Layers \ unlogged :
        \A i, j \in DOMAIN log[l].added :
            i < j => log[l].added[i] < log[l].added[j]

\* The lookup leads from a row of the copy to the same feature on the server,
\* after the copy and after synchronising alike, as long as every commit of
\* the layer was logged: after one that was not, SQLite may have given the
\* rowid of a row in the lookup to another feature.
LookupFindsFeature ==
    \A l \in Layers \ unlogged : \A k \in DOMAIN table[l].rows :
        LET r == RemoteFid(log[l], k)
        IN  ~IsAddedFeature(log[l], k) /\ r \in DOMAIN server[l].rows
                => server[l].rows[r].name = table[l].rows[k].name

\* However often synchronising fails, is interrupted between two layers or is
\* repeated, no feature of a layer whose commits were all logged is on the
\* server twice.
NoFeatureTwice ==
    \A l \in Layers \ unlogged : \A r, s \in DOMAIN server[l].rows :
        server[l].rows[r].name = server[l].rows[s].name => r = s

\* Every commit of an offline layer was logged.  The code does not keep to it:
\* it is what the merge of the copies is subject to.
EditsAreLogged == unlogged = {}

\* Whatever is refused, out of reach, killed or reopened, a commit goes past
\* the log only in an edit session that went on after its edits were rolled
\* back: as long as a layer is offline, its project knows the database.
UnloggedOnlyIfDisconnected ==
    [][unlogged' # unlogged =>
          \E l \in disconnected : unlogged' = unlogged \cup {l}]_vars

\* Layers by the names of their features; a null value and an empty text are
\* the same here, since the log does not tell them apart.
ByName(layers) ==
    [l \in Layers |->
        LET rows == layers[l].rows
            Of(name) == rows[CHOOSE k \in DOMAIN rows : rows[k].name = name]
        IN  [fields |-> layers[l].fields,
             rows   |-> [name \in {rows[k].name : k \in DOMAIN rows} |->
                [attrs |-> [f \in DOMAIN Of(name).attrs |->
                                Logged(Of(name).attrs[f])],
                 geom |-> Of(name).geom]]]]

Merge == INSTANCE LayerMerge WITH
    Null <- EmptyText, server <- ByName(server), copy <- ByName(table),
    base <- ByName(base)

\* synchronize() merges the copy into the server's layer, unless a commit of
\* the copy was not logged: all that was done offline arrives, in fields,
\* values, geometries, added and removed features, and nothing that others
\* did meanwhile is lost.
SynchronizeMerges ==
    /\ Merge!Init
    /\ [][EditsAreLogged => Merge!Next]_<<ByName(server), ByName(table),
                                          ByName(base), theirs>>
=============================================================================
