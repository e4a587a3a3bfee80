# Verification of KADAS Albireo: editing, shared connections, caches, offline layers, rendering

TLA+ models, TLC runs and TLAPS proofs for parts of KADAS Albireo (a QGIS 2.x
derivative in C++ and Qt). Paths below are relative to the repository; the C++
sources of the application are under `src/`. A definition's exact lines are in
`PROJECT.json` ("map").

## 1. Inventory

KADAS is a desktop map application. Most of its 11 000 files are translations,
data, vendored libraries, user interface and geometry code. The logic with state
that outlives a call, and with more than one actor, sits in `src/core` and in the
providers:

| Component | State it keeps | Operations | Interacts with | Hard behaviour | What makes it correct |
|---|---|---|---|---|---|
| Edit buffer and undo commands (`qgsvectorlayereditbuffer`, `qgsvectorlayerundocommand`) | added, changed and deleted features, added and deleted attributes | six edits, redo/undo of each, the six stages of a commit, roll back | layer, provider, geometry cache, `QUndoStack` | index shifts, commands that captured old state, half-done commits | undo is exact; a commit moves edits without changing what is read; no assertion fails |
| Vector layer (`qgsvectorlayer`) | fields, selection, edit buffer, undo stack | start, edit, edit commands, commit, roll back, select | all of the above, renderers, tables | order of fields by origin, temporary ids becoming permanent | selection follows its features; temporary ids are never reused |
| Feature source and iterator (`qgsvectorlayerfeatureiterator`) | a copy of the edit buffer | iterate | edit buffer, provider | runs in other threads on a copy | reads the provider under the buffer |
| Geometry cache (`qgsgeometrycache`, render jobs) | geometries by feature id | fill, read, replace, clear | undo commands, render jobs | replaced at any time by a render job | agrees with the layer while editing |
| Connection pool (`qgsconnectionpool.h`, `qgsogrconnpool`, `qgspostgresconnpool.h`) | semaphore, pooled and lent connections, timer, reference counts | acquire, release, invalidate, expire, ref, unref | iterators in all threads, the providers | blocking, calls queued between threads, deletion of groups | permits balance, the limit holds, nobody loses its group, stale handles are marked, idle ones close |
| OGR provider (`qgsogrprovider`) | data source, reference to its group | write, `syncToDisc`, open, close | connection pool | re-creation of spatial indexes | references balance |
| Vector layer cache (`qgsvectorlayercache`, `qgscachedfeatureiterator`) | LRU of features, attribute subset, full-cache flag | get features, feature by id, slots for the layer's signals | layer, attribute table | iterators open across edits, eviction | cached features are the layer's; a full cache is complete |
| Rendering (`qgsmaprendererjob`, `qgsmaprendererparalleljob`, `qgsmaprenderercache`, `qgsmapcanvas`) | job, layer jobs, image cache, timers, settings | refresh, start, cancel, wait, finish, freeze, switch caching | layers, registry, layer tree bridge, worker threads, network layers | cancel inside a nested event loop, changes while a job runs, squashed requests, layers deleted while they are drawn | images fit the view, none is outdated, a cancelled job leaves nothing, the map ends up current |
| Edit passthrough, transactions (`qgsvectorlayereditpassthrough`, `qgstransaction`) | open transaction, layers in it | begin, commit, roll back | layers, provider | several layers, one transaction | all or nothing |
| Offline editing (`qgsofflineediting`) | SpatiaLite copy, logs of edits, pairs of ids, a commit number, the entry in the project, connected slots | go offline, follow edit mode, log a commit, synchronise | two layers, SQLite, the project file | commits that are not listened to, ids mapped twice, ids given again, one number for all layers, refusal by the server, a project that is reopened | synchronising merges the copy into the server's layer, once |
| Drawing state stack (`qgsstatestack`) | undo and redo states | update, undo, redo | redlining tools | compressed commands | undo is exact |
| Item coupling, multiple maps (`qgsitemcouplingmanager`, `qgsmultimapmanager`) | pairs of items and layers, secondary canvases | add, remove, visibility | registry, canvas | objects deleted by others | no dangling pair |
| Layer registry, layer tree, project | layers by id, tree nodes | add, remove | everything | signals during removal | no node without its layer |
| Network content, browser items, snapping indexes | running requests, populated items | fetch, abort, populate | event loop | late answers | one answer per request |

Everything else (symbology, labeling, composer, geometry, projections,
expressions, raster, server, plug-ins, user interface) is listed in
`PROJECT.json` with the reason why it is not modelled: it is numerical, drawing or
input/output code, or it only calls the components above.

The hazards of the modelled and the planned parts, each at its line, are in
`PROJECT.json` ("hazards"), with the properties that would catch them.

## 2. Modules

| Module | Models | Extends |
|---|---|---|
| `EditBuffer` | the pure part of editing: containers, the overlay of buffer and provider, redo/undo of the six commands, index shifting, the stages of `commitChanges` | community modules |
| `VectorLayerEditing` | the edit session of a layer: edits through the undo stack, macros, commit, roll back, selection, render jobs that replace the geometry cache | `EditBuffer` |
| `EditHistory` | the abstract specification: a layer with a past and a future | - |
| `MCVectorLayerEditing` | instances for TLC | `VectorLayerEditing` |
| `VectorLayerEditingProofs` | temporary ids are fresh; while features are edited: types, undo is exact, a commit keeps the layer and the selection, no assertion fails, the session implements `EditHistory`; proved | `VectorLayerEditing` |
| `ConnectionPool` | a group of the connection pool with its threads, its timer, an OGR provider that writes | - |
| `MCConnectionPool` | instances for TLC | `ConnectionPool` |
| `ConnectionPoolProofs` | accounting of permits and the limit, proved | `ConnectionPool` |
| `ConnectionPoolRefs` | reference counts and the life of the group, proved | `ConnectionPoolProofs` |
| `VectorLayerCache` | the features an attribute table keeps, its slots, its open iterators, the loading of a full cache | - |
| `MCVectorLayerCache` | instances for TLC | `VectorLayerCache` |
| `VectorLayerCacheProofs` | entries stay right, attributes stay covered, proved | `VectorLayerCache` |
| `VectorLayerCacheFullProofs` | types, a full cache stays complete, proved | `VectorLayerCacheProofs` |
| `OfflineEditing` | copies of layers, the log of their commits, synchronising with failures, the project and its file, edits by others | - |
| `LayerMerge` | the abstract specification: a layer and a copy that are edited apart and merged | - |
| `MCOfflineEditing` | instances for TLC | `OfflineEditing` |
| `OfflineEditingProofs` | the log accounts for the rows, added features stay in order, proved | `OfflineEditing` |
| `OfflineSyncProofs` | types and names of features; what is logged arrives once; with one layer, commits go past the log in one way only, and without it the lookup stays right and synchronising implements `LayerMerge`; proved | `OfflineEditingProofs` |
| `MapRendering` | the canvas, its parallel job, its cache of images, nested event loops, layers that change or go | - |
| `MCMapRendering` | instances for TLC | `MapRendering` |
| `MapRenderingProofs` | types, the job and its cache, cancelled jobs, images and view, no outdated image, proved | `MapRendering` |

Operators named "... Mutant" by their comments are wrong variants of the operator
that follows them. Nothing uses them; substituting one for its original must break
the property that `PROJECT.json` ("mutants") names, which shows that the property
depends on that piece of code.

### Editing

`provider` is the data source: the names of its fields, its rows by feature id and
the next id it will hand out. `buffer` is `QgsVectorLayerEditBuffer`, a record with
the six containers under their C++ names. `cache` is `QgsVectorLayer::mCache`.
`stack`, `index` and `macroOpen` are the `QUndoStack`; an entry is one command or a
macro. A command is a record of what its C++ constructor captured, and `Redone`,
`Undone` are its virtual methods on the record `Workspace` of everything commands
touch. `Push` is `QUndoStack::push`: redo, drop the redo tail, merge if `mergeWith`
agrees. `CommitChanges(fails)` runs all stages in one step, `fails` being the
provider calls that return false; the C++ function does not return to the event
loop in between. `alive` becomes FALSE where an assertion of the code, or of
`QVector`, would fail, and nothing happens after that: those in `undo()` and `redo()` of
the commands, among them the one that is compiled with `QGISDEBUG` only
(`src/src/core/qgsvectorlayerundocommand.cpp:48`), and those at the end of a roll back
(`EmptyAfterRollBack`). A build without assertions goes on after them. What that adds in
`edit_fields`, the run where one fails, was tried with a roll back that asserts nothing:
its properties hold there too.

`snapshots` and `damaged` are history variables: what a reader of the layer saw at
each entry of the stack, and whether a commit of this session failed, after which
undo is not claimed to be exact.

A layer is observed through `Layer`, the feature iterator's overlay of the buffer on
the provider, restricted to the layer's own fields. Feature ids are the code's;
field indices count from 1.

Abstractions: geometries and values are members of small sets; a provider call does
all it is asked or nothing; a feature that is edited is one the caller can see; no
commit and no roll back happen inside an edit command; features have a geometry;
the old value given to `changeAttributeValue` is the default one, as in all callers
in `src/core` that do not pass it.

### Connection pool

The model follows one group from the call of `acquireConnection` to the end of
`releaseConnection`, with a step wherever another thread may come in between:
the semaphore, the critical section, opening outside the mutex, noting the new
connection, putting it back, returning the permit. `pc` says where an iterator is.
An iterator may be opened while another one of the same thread reads (`Outer`).
Slots invoked by `QMetaObject::invokeMethod` run at once in the main thread and are
queued (`calls`) from any other. The provider's operations are lists of calls to the
pool (`todo`), taken from the functions of `qgsogrprovider.cpp` and carried out one
by one between the steps of other threads.
A connection is [valid, fresh]: what the pool believes, and whether it was opened
after the last write.

`sound` becomes FALSE when an assertion of the pool fails or a group is deleted
while an iterator is inside it, the use of a deleted object that would follow.

### Layer cache

`cache` is the `QCache`: entries by feature id, the order in which they were last used,
and the size (Qt's container is not in the repository and is modelled from its use:
inserting makes room first, asking for an entry makes it the newest). The other
variables are the members of `QgsVectorLayerCache` under their names; `config` holds
what is fixed when a cache is made (`mCacheGeometry`, an index by feature id) and the
number of joined fields of the layer. An entry is [value, geometry, attributes]: the
attributes are those that were read into it.

The layer is seen from outside. `features` is what a reader of it sees, edits
included, `gone` what undo may bring back. An edit, its signal and the cache's slot are
one step, since the slots are connected directly. A commit announces each new feature
as deleted under its temporary id and as added under its permanent one; `committing` is
what is still to be announced, and until the last announcement both ids can be read.
Undo and redo are `DeleteFeature`, `BringBackFeature` and changes of values.

An iterator is of one of two kinds. "writer" is `QgsCachedFeatureWriterIterator`: it
reads the provider and the edits of the time it was opened, and inserts what it reads.
"cached" is `QgsCachedFeatureIterator`: it has ids only. `Loader` is the writer inside
`setFullCache`; its steps are interleaved with everything else, because the progress
signal leads to `processEvents`. `crashed` becomes TRUE where the code dereferences the
null pointer that `mCache[ id ]` returns.

`excused` is a history variable: something happened after which a full cache is not
claimed to be complete. The reasons are named where they are given: fields changed (the
cache is emptied and not loaded again), a feature was taken out or the size was set, the
load was cancelled, a late iterator wrote into it, or more than one new feature was not
stored at a time.

Abstractions: one value and one geometry stand for a feature's contents; no commit
starts while a writer still reads the provider; the joins of the layer and the
configuration of the cache do not change during its life; `layerDeleted` and rewinding
are left out.

### Offline editing

A table of the SpatiaLite database is a function from SQLite's rowids to rows; a new row
gets the greatest rowid in use plus one, so that the id of a deleted last row is given
again. `log[l]` holds the log tables of layer `l` under short names (`fids` is
`log_fids`, `added` is `log_added_features`), `commitNo` the one counter of
`log_indices`. `project` is what the open project knows (offline layers, the entry with
the database's path), `saved` what the file knows.

`CommitOffline` is `commitChanges()` of a copy: `Committed` goes through its stages in the
order of the edit buffer, each followed by the slot that its signal reaches, if it is
connected, which logs only if `openLoggingDb()` finds the entry (`IsLogging`). The slots are
connected when a layer enters edit mode and disconnected when it leaves it.
`RollBackKeepEditing` is "Rollback edits": `rollBack( false )` says `editingStopped` and keeps
the edit buffer, and the `startEditing()` that follows finds it and returns before it says
`editingStarted`. `disconnected` holds the layers that are in edit mode without their slots
since then. A commit, `CancelEdits` and reopening the project end that; a commit that fails
leaves the layer in edit mode as it is, which is why `CommitOffline` may keep `disconnected`.
`synchronize()` is a step per layer:
`RemoteInvalid` passes over it, `CommitRefused` is a commit that the server refuses,
`LayerSynchronized` a success, with `Replayed` (what the `apply...` functions and the
commit of the remote layer do), `LookupUpdated` and `ClearedLog`. In between the program
may be killed (`ReopenProject`). `OthersChange`, `OthersDelete` and `OthersAdd` are other
clients of the server.

Names of features are history: they say which rows are the same feature. `base` is the
copy as of the last merge, `unlogged` the layers with a commit that was not logged.
`LayerMerge` promises that synchronising leaves on the server
what the user changed, and of everything else what others left there; `SynchronizeMerges`
states that `OfflineEditing`, with features identified by name, implements it as long as
every commit was logged (`EditsAreLogged`). Null and an
empty text count as equal in it, because the log stores both as an empty text.

Abstractions: a session changes at most one value of a feature; fields have no types and
the geometry column comes last; all fields can be added on the server. Not modelled:
failures while the database is made or a layer is copied, a crash inside the replay of one
layer, default values of the server, joins, styles, fields added by others. A remote
commit succeeds or changes nothing, and after a refusal the only retry is by the saved
project.

### Map rendering

The canvas lives in the main thread, so an action is one handler of an event: `RefreshMap`
is the slot of `mRefreshTimer`, `RenderLayersFinished` and `RenderingFinished` the slots of
the future watchers, `MapUpdateTimeout` that of the update timer, `SetCanvasLayers` the
queued call from the layer tree bridge. `RenderLayer` is a worker thread. The exception is
a network layer: creating its renderer clones its provider, the constructor of the ArcGIS
provider asks the service for its description, and runs an event loop without input of the
user meanwhile. `nested` is the stack of `start()` calls that wait in such a loop; `Prepare`
is `prepareJobs()` from where it is up to the next such wait; `ReplyArrives` returns into
the innermost one. A frame is `live` while its job is the canvas's. A job has the status
"Preparing" while `start()` waits, for which the code has no value of its own: there
`mStatus` is `RenderingLayers` and the list of layer jobs empty.

A layer is a version number; an image is the version it shows and the view it was drawn
for. Vector layers are read when they are drawn, others when their renderer is created,
as in `qgsvectorlayerrenderer.cpp` and `qgsrasterlayerrenderer.cpp`. `cache` is
`QgsMapRendererCache`, `shown` the content of `mMap`. `missed` is a history variable: a
refresh was refused (frozen, render flag off) or the user stopped its job, and no job has
started since; the map may then be out of date by intention. `strayRead` becomes TRUE when
a worker reads a deleted layer.

Abstractions: rendering labels takes its step always (it may be switched off); what a
worker has drawn so far of a layer shows all of it or nothing; `waitForFinished()` and
`cancel()` wait inside their handler, as in the code; extent stands for extent and scale.
After `cancel()` a job is deleted by a deferred call, and a frame that returns into it is
taken to read `Idle`. Not modelled: the sequential job, previews while panning, the
overview, blend modes and visibility by scale, adding, ordering and hiding layers,
`reloadAllLayers()`, the geometry caches that jobs hand over (`VectorLayerEditing` has
their effect).

## 3. Runs

| Run | Question | Instance |
|---|---|---|
| `edit_features` | Is a session an edit history with exact undo, through edits, macros, merges, undo, redo, commits and roll backs in any order? | one stored feature, two new, a changed value, two geometries, two entries of two commands |
| `edit_fields` | Do indices, values and new features stay aligned with the fields? Does a commit write nothing after everything was undone? | two fields, a join and an expression field, two new fields, four entries |
| `edit_failures` | What does a reader see when any one stage of a commit fails, and after a retry? Do render jobs upset attributes? | one stored feature, two new, two entries, any stage fails |
| `connection_pool` | Are permits and references exact, is the limit kept, does who waits find a permit? | three iterators (one nested, one in the main thread), two connections, both kinds of group |
| `layer_cache` | Which orders of edits, commits, evictions and open iterators make an entry wrong? Does a full cache stay complete? Do requests for all attributes stay covered? | one stored feature, two new, a writer and a loader, with geometries and index, or with neither and a join |
| `offline_editing` | Which commits go past the log? Does what was logged arrive, once, whatever fails, is interrupted or is done by others? | one layer with one feature, two sessions, two new features at a time, one edit by others |
| `map_rendering` | Which images can be shown or cached, what do cancelled jobs leave, is the map current in the end? | a vector and a network layer, two extents, two nested loops, four events |
| `geometry_cache_race` | Does undo restore geometries when render jobs finish in between? It does not. | |
| `pool_shape_index` | Does a group survive the re-creation of an .sbn index? Not with one reader. | |
| `offline_lookup` | Does the table of ids lead to the same feature? Not once a layer has two. | two stored features |
| `offline_layers` | Is every layer merged? Only the first one in full. | two layers, one session |
| `map_deleted_layer` | Do renderers leave deleted layers alone? Not those of vector layers. | a vector layer that the user removes |

The last five are expected to violate their one property; "findings" quotes what the
repository says and where the code differs.

**Bounds.** `MaxEntries` and `MaxMacroCommands` bound the undo stack: two entries of
two commands are what it takes to merge, to undo into and out of a macro, and to cut
off a redo tail; four entries for fields allow an attribute to be deleted between the
change of a value and its undo. `MaxNewFeatures`, `MaxStoredFid`, `MaxSessions` and
`MaxSelected` bound counters that otherwise only grow. One stored and two new features
are enough since commands of different features touch disjoint entries, except for
the merge of geometry changes, which needs two features. Ids start at 1 in
`edit_fields`, so that the loops of `handleAttributeAdded` really grow their map.
In the pool, two permits and three iterators let one wait, one nest and one hold;
`MaxCalls` bounds the queue and is a guard where it delays nobody who waits.
In the layer cache three edits (`MaxEdits`) allow a feature to be added, committed and
changed, or changed twice while an iterator is open; two temporary ids (`MaxNew`) and
three permanent ones let a commit announce two features, so that one is announced while
the other is still readable under both ids. `Slack` is 100 in the code and 1 here, and the
size that callers set is 1, so that evictions happen with two features. `MaxFields` is 2:
the one field and an added one, or the one field and a join.
Offline, two sessions (`MaxSessions`) allow a feature to be added, deleted and its rowid
given again before the log is replayed; `MaxAdded` is 2 so that the order of added features
matters, `MaxEdited` bounds the stored features a session changes, `MaxTheirs` the edits of
others. A second stored feature meets the finding of `offline_lookup`, a second layer that
of `offline_layers`, so that `offline_editing` has one of each. `EditsAfterSync` (editing a
copy again after it was synchronised, in the project as it was saved) and `QuotedValues`
(values with an apostrophe) are off: see section 5.
In `map_rendering`, `MaxEvents` counts events from outside; four are enough to enter edit
mode, change a feature, leave it and zoom, and each may meet every state of a job.
`MaxNested` is 2, one job cancelled inside the loop of another. `RemovesLayers` is the
network layer: removing the other one is `map_deleted_layer`. `TransformsWithCache` and
`RepaintsDuringCachedJob` are off: see section 5.

**Deadlock.** Checked in `edit_features`. `edit_fields` and `edit_failures`
stop after a failed assertion (section 5), and the run of the layer cache after
a null pointer was dereferenced, as the program does. In the pool
runs everything may be closed for good. Offline editing stops when everything is
synchronised and the bounds are used up, rendering when no event is left and the map is
drawn.

**Fairness of the pool** (`FairSpec`, used for `WaitersFindPermit` and `IdleConnectionsClose`).
Weak fairness for a step of an iterator that is inside `acquire` or `release`: a
thread that is not blocked runs. That includes closing an iterator which reads: every
reader in the code is a loop that ends. For iterators of the main thread closing gets
strong fairness, because the main thread may be inside an operation of the provider
again and again, but comes back in between. Weak fairness for queued calls, the
timer and the provider's calls: the main thread returns to its event loop. Opening
iterators, writing and closing are not fair.

**Fairness of rendering** (`Spec` of `MapRendering`, used for `EventuallyCurrent`). Weak
fairness for what happens without anybody's doing: the refresh timer fires, queued calls
and signals are delivered, the threads of the pool draw, and the network layer's request
is answered or times out (`QgsNetworkAccessManager` aborts requests). Events from outside
are not fair; there are at most `MaxEvents` of them, and `EventuallyCurrent` says that the
map has caught up after the last one. With ever more refreshes it need not: each cancels
the job of the one before.

With as many nesting iterators as permits the pool deadlocks (each holds one permit
and waits for a second); `connection_pool` has one nesting iterator and two permits.

## 4. Proofs

The theorems hold for every value of the constants under `PoolAssumption` (any finite
set of iterators, nested at most one deep, any number of connections), under
`CacheAssumption` (any finite set of permanent ids, any iterators, sizes and bounds), under
`OfflineAssumption` (any layers, values, geometries and bounds), under
`RenderingAssumption` (any layers in any order, any extents and bounds), and for editing
under `EditingAssumption`, `FieldListsAssumption`, `ProviderAssumption` (the data source of
a loaded layer: ids from 0 below the next one, a geometry and a value for each field) and
`DrawnAssumption` (what a user draws is not a null geometry). Theorems that need more say
so in their `ASSUME`:

| Condition | Meaning | Why it is needed |
|---|---|---|
| `NoShapeIndex` | no .sbn index is re-created | `pool_shape_index` |
| `~TransformsWithCache`, `~RepaintsDuringCachedJob` | see section 5 | TLC finds the violation otherwise |
| `OneLayer` | one layer can be taken offline | `offline_layers`: the first synchronised layer takes the project's entry with it |
| `NoRollBackKeepsEditing` | nobody goes on editing a copy after "Rollback edits" | section 5: what is committed then is not logged |
| `~EditsAfterSync` | a copy is not edited again after it was synchronised | section 5: a second pair for a rowid is never found |
| `QuotedValues = {}` | no value contains an apostrophe | section 5: its change is not logged |
| `StoredRows <= 1` | the layer has at most one feature when it is copied | `offline_lookup`: two or more are paired in reverse |
| `FeaturesOnly` | no attribute is added or deleted | undo of attributes depends on joins (section 5); with it, TLC only |
| `Undrawn` | no render job draws the layer that is edited | `geometry_cache_race`; for `UndoAlwaysRestores` and `SessionImplementsHistory` only |
| `NoFailure` | no call of the provider fails | section 5: `NoAssertionFails`; a half-done commit is no step of `EditHistory` |

*Accounting* (`ConnectionPoolProofs`). `PermitsBalance` says that available permits and
iterators that will return one add up to the limit. It is nearly inductive: deleting
and re-creating a group resets the semaphore, so one must know that nobody was inside.
`IInv` therefore adds `GoneIsEmpty` (a group that does not exist has nobody in it, and
would be as good as new), which in turn needs `sound`: `Unref` sets it to FALSE when it
deletes a group in use, and everything is claimed only as long as it is TRUE.
`ConnectionLimit` is inductive with the balance: who opens a connection found the pool
empty and has a permit, and pooled connections exist only where permits are. The step
lemmas follow the disjuncts of `Next`; `CountAdded` and `CountRemoved` are the only
facts about cardinalities they use.

*Reference counts* (`ConnectionPoolRefs`). That `sound` stays TRUE needs the count to be
exact: a group is deleted by the last reference, and whoever is inside has a feature
source that holds one. `RInv` adds `RefsCounted`, that iterators inside have their
sources (nesting), and that the calls still to be made by the provider's operation are
the rest of a known list, since a reference put down in `syncToDisc` is taken up later
by the same list. These theorems assume `NoShapeIndex`; `pool_shape_index` shows that
the assumption is needed: with an .sbn index the same list puts down two references and
takes up one.

*Layer cache* (`VectorLayerCacheProofs`). `EntriesStayRight`: no step makes an entry differ
from the layer, except that of an iterator which writes what it read before a change. An
entry can become wrong because the cache changes or because the layer does. The first is a
matter of the operations: removing, resizing and using only leave entries, inserting adds
one, and what is added is what the layer delivers now. The second needs an invariant in
one place: when the last new feature of a commit is announced, the temporary ids end, and
every entry left under one would be wrong. `AnnouncedAreGone` says that entries under
temporary ids are those of features still to be announced; it holds because
`featureDeleted` comes before `featureAdded` for each of them, and because nothing else
runs in between. `CInv` adds types. `AttributesStayCovered` follows from
`AnnouncedIndices`, without joins, and from the type of the configuration.

*A full cache* (`VectorLayerCacheFullProofs`). `FullCacheStaysComplete`: a cache marked as
full, for which nothing counts as an excuse, holds every feature of the layer once it is
loaded. Inserting may evict, so completeness is a matter of numbers: entries are right
(first part of `FInv`), hence they are entries of features (`RightOnesExist`), hence they
are no more than the layer has, and the size covers those. While a commit announces its
features that argument fails, since both ids of a feature can be read: `OnesCommitting` says
exactly which ones are cached then, and `AnnouncedOnce` that the exchange of a temporary id
for a permanent one keeps their number. `TInv` has the types, among them that the order of
use lists each entry once (`IsQueue`), from lemmas about the operations on the queue.

*Offline editing* (`OfflineEditingProofs`). `LogAlwaysAccountsForRows`: the rows of a copy
are the copied ones not logged as removed, and the ones logged as added. Deleting the newest
row and adding another gives its id again, so the log must have forgotten the old one: it
does, because `committedFeaturesRemoved` takes an added feature out of the log instead of
logging its removal. `AddedAlwaysInOrder`: the log names added features in ascending order;
that needs to know that every id in the log is that of a row, hence below the next rowid,
which is the first fact again. `IInv` has both per layer, and that rows, log and pairs have
the shape of tables (finite sets of positive ids, `OfflineShape`), also on the server
(`ServerShape`), whose ids become those of pairs. `Preserves` says what a stage of a commit
has to keep; deletions and additions are the two lemmas with content, and
`CommittedPreserves` joins the stages. A copy edited while there was no log is excepted,
and for the first fact one that was synchronised, since `updateFidLookup` gives up when
numbers differ.

*Synchronising* (`OfflineSyncProofs`). `TInv` adds the types of rows, logs, pairs, project and
queue to `IInv`, and where names of features occur: no two rows of a table have the same,
and a name made offline is not on the server before the layer's log has been replayed.
`Typing` and `FeaturesOnce` follow from it: no feature of a layer whose commits were all
logged arrives twice, for any number of layers and whatever became of the others.
`CommitsAreLogged` is proved for `OneLayer`: the entry of the project, without which
`openLoggingDb()` finds no log, is there exactly as long as the layer is offline
(`LogInProject`), so that a commit goes past the log only if the slots are disconnected. That
happens in the code: no theorem says that all commits are logged, but `EditsAlwaysLogged`
does under `NoRollBackKeepsEditing`, which excludes the one step that disconnects them.

*The lookup and the merge* (same module, for `OneLayer` and `~EditsAfterSync`). A layer is
not taken, or its log is waiting to be replayed (`Ready`), or it was replayed (`Done`: the
log is empty but for its pairs, which are right, and `base` is the copy). Waiting means that
the log tells what happened to the copy since `base`: which rows came and went
(`CopiedRows`), what the last logged value and geometry of each row is (`RowsTold`,
`CommitsPast`), and which fields there were at each commit (`FieldsTold`); that what is new
in the copy is not on the server yet; and that pairs lead to the feature of the same name or
to none, if others deleted it (`Paired`). `ReplayInv` joins this with `LogFound`, and
`LoggedInv` claims it as long as no commit went past the log: a commit that was not logged
leaves it for good. The part of `ReplayInv` on each layer was checked by TLC on the instance of
`offline_editing` before it was proved.
`LookupFindsFeature` is a consequence, and the steps that endanger it are a commit, whose
stages each have to keep what the log tells, and the end of synchronising, where the ids of
new rows are found by counting back from the highest (`LookupUpdated`).

For the merge, `ReplayMerges` takes the log apart: a row of the server is removed, changed by
the rows of the log that name its feature, left alone, or added, and each of these is what
`IsMerge` allows by name. `SynchronizingMerges` maps the conversion to `TakeOffline`, the
commit of a copy to `EditCopy`, a success to `Synchronize`, what others do to `EditServer`,
and everything else, refusals and crashes among it, to a stutter; of executions with a
commit that was not logged it claims nothing from there on. `OfflineImplementsMerge` joins it
with `EditsAlwaysLogged`: under `NoRollBackKeepsEditing` offline editing implements
`LayerMerge` without exception.

Both results are stated twice. With `StoredRows <= 1` they hold of `Spec`; any number of
features may be added on both sides. For any number of copied features they
(`LookupStaysRight`, `StepsMerge`) start from a state that satisfies `ReplayInv`, and assume
`CopiesRight`: that a conversion leaves a right lookup. The conversion of two or more
features never does (`offline_lookup`), so for them these theorems speak only of executions
that begin with layers offline and paired right, and claim nothing of the conversion. They
say that the pairing in `copyVectorLayer` and commits that are not logged are all that keeps
one layer of many features from being merged. TLC agrees: with the ids in `CopyOf` paired in the order in
which rows are stored, `offline_editing` with two stored features (one geometry, one field,
one added feature) has no violation.

*Rendering* (`MapRenderingProofs`). The control state (`CInv`) has one fact with content:
of the interrupted `start()` calls only the innermost may belong to the canvas's job, and it
does exactly if that is still preparing. `CancelKillsFrames` shows that a cancellation keeps
it, `LiveOnTop` that a new frame may be put on top only after one. From it follow
`JobsUseTheCanvasCache` (caching is switched by the user, whose events no nested loop takes,
so that no frame outlives its cache) and `CancelledJobsNeverStart`. `ImagesAlwaysFitView`
needs in addition that all images of the cache were drawn for the cache's extent and the
present projection flag, and all tasks of the job and of live frames for the job's view
(`VInv`). The flag is not part of the cache's key, so the theorem assumes
`~TransformsWithCache`; TLC shows that it is needed.

`CancelledJobsAlwaysLeaveNoTrace` needs of the control state only that a cache has its
shape: an abandoned job may drop images, it never shows or stores one. `CacheNeverStale` is
an invariant about versions (`FInv`): the cache's images of the layers it is connected to
are of the present version, and so are the images of a job, and of the live frames that will
become it, which will be stored. A repaint removes the image of a layer that is cached;
of a layer whose image is not yet stored it removes nothing, which is why the theorem
assumes `~RepaintsDuringCachedJob`. `Typing` states the types of this module.

*Ids of an edit session* (`VectorLayerEditingProofs`, first part). `SInv` holds with all
operations, attributes, failures and render jobs included: the buffer, the stack and the
data source have their shape, every id in the buffer or on the stack was handed out
(`IdsWithin`, `KnownStack`), and the commands that add a feature are apart
(`AdditionsApart`). A macro, an undo and a roll back run any number of commands, and
`AllRedone`, `AllUndone` and `UndoneToBottom` are recursive functions for it. Induction over
the steps of such a walk is derived here (`NatInd`) from the well-foundedness of inclusion
on finite sets, which is stated about sets, not about operators: `Upward` and `Downward`
carry a set of states from one end of a walk to the other, and `RedoneWalk`, `UndoneWalk` and
`BottomWalk` give the states on the way. `IdsAlwaysFresh` follows.

*Types and commits* (second part). While only features are edited the data source keeps its
fields, no attribute is in the buffer as added or deleted, every new feature, in the buffer or noted
by a command, has a value for each of the layer's fields, and the stored features with changed
geometries have ids below the next one (`RInv`): without that last conjunct the id
that a commit gives to a new feature could be one for which the buffer still has a
geometry. `AttributesStayTyped` follows; `RInv` does not ask that no commit failed, since the
stages of a commit only take from the buffer. A commit is followed stage by stage
(`AttributesKeep`, `DeletedKeep`, `GeometriesKeep`, `AddedCarried`): each leaves what is read the
same, done or refused, except that the one that adds features gives them other ids. `Carried` says
how two layers are related then: there is a bijection between the ids of one and of the
other that is the identity on stored features and takes each to the same row, and selected
ids to selected ones. `CarriedOn` adds the stages that read alike, and from the bijection
follows that each row occurs as often after as before (`CarriedContent`), which is
`SameContent`. `CommitAlwaysKeepsLayer` and `SelectionAlwaysFollowsCommit` need no more than
`FeaturesOnly`: any stage may fail, and the commit be tried again.

*Undo* (third part). While only features are edited the undo stack is a chain
of buffers: there is a function `b` with `b[0]` the empty buffer and `Linked(stack[i].commands,
b[i - 1], b[i])` for each entry (`Chain`), the layer's buffer is `b` at the entry in
effect, and the history shows the buffers of the chain. `Does(c, x, y)` says of one command
what it made of buffer `x`, and what it has to have noted of `x` to take that back; seven cases,
since new and stored features are kept differently. Three lemmas carry the argument:
`RedoDoes` and `UndoDoes` (a command that did `y` from `x` does it again, and gives `x`
back, in the workspace as well as in the history) and `MergeDoes` (two merged changes
of a geometry do what both did). `PushAdds`, `PushDeletes`, `PushMoves` and `PushWrites` show
that each constructor notes what is needed; `PushChain` that a push makes the chain longer,
bends its last link (merges, open macros) or replaces its tail (redo dropped);
`UndoStackChain` that undo, redo and the edit commands only move along it. Whoever comes back
to an entry finds its buffer, so what a reader sees is what the history has:
`UndoAlwaysRestores` and `BottomIsEmpty`. The old geometry of a stored feature is not noted from
the buffer but from the layer's cache, so the chain also needs that changed geometries
are cached (`Cached`), which a render job destroys; without `Undrawn` all that is said of the
changed geometries is that no other feature has one (`Within`, in `Matches`), which leaves
`UndoAlwaysRestoresAttributes`. It also leaves `BottomIsEmpty`, since no feature but those of
the empty buffer can have a changed geometry at the bottom (`EmptiedBuffer`).

`AssertionsNeverFail` covers all assertions in `undo()` and `redo()` of the commands
(`src/src/core/qgsvectorlayerundocommand.cpp`, lines 48, 170, 207, 254, 291), and those at the
end of a roll back (`src/src/core/qgsvectorlayereditbuffer.cpp:546-550`), which `EmptiedBuffer`
gives. It needs that commits succeed (`CommitSucceeds`), since a failed one takes features
from the buffer that commands still look for: `edit_failures` violates the property.
`FeaturesOnly` is needed for it as well: `edit_fields` violates it at the end of a roll back.
Both are described in section 5.

*The edit history* (fourth part). `SessionImplementsHistory` shows that every step of a session
is a step of `EditHistory`, or changes none of what it observes. The past is the layers shown up to the entry in
effect, the future those after it (`PastOf`, `FutureOf`), and the present is the layer itself,
which the chain of the third part shows to be the entry in effect (`HistoryTyped`). An
undo goes one step back in that list (`StepBack`), a redo one on (`StepOn`), a roll back to
its first entry (`AtStart`), a push is `Edit` or, where commands merge, `Amend`
(`PushIsEdit`), and a commit is `Save` by the second part. It needs `Undrawn`, for geometries,
and `NoFailure`: the history has no step for a commit that stays in edit mode with half of its
buffer stored.

Model-checked only, and why: everything about adding and deleting attributes, whose commands
shift the indices of all features; liveness (fairness is out of the prover's reach);
`StaleHandlesMarked` and `IdleConnectionsClose`, which do not hold. The induction theorems
of the library take an operator as parameter, which the installed provers cannot instantiate;
where an induction is needed it goes over sets of numbers, as above.

## 5. What the checks show, and what they do not

Undo and redo are exact, commits move edits without changing what is read, and the
selection follows its features, while features are edited by proof, with added and deleted
attributes in every interleaving of the instances, as long as no
render job replaces the geometry cache, no commit fails half way and no virtual field
stands behind new attributes on a layer without joins. No assertion fails while features
are edited and commits succeed, by proof; after failed commits, and at a roll back with
attributes added or deleted, some do. Permits and the limit of the
connection pool are right for every number of threads. References are right except for .sbn
indexes. A cached feature goes stale only through an iterator that was open across a
change, and a full cache stays complete unless something counts as an excuse. One layer with
one feature, and whatever is added to it on both sides, is merged into the server's, by
proof, whatever fails, as long as every commit of the copy was logged; with more, two
findings apply. A commit goes past the log in one way, editing on after "Rollback edits".
The map shows images of its view, caches no outdated one, gets nothing from cancelled jobs
and catches up with its layers, with the exceptions below.

*Editing on after "Rollback edits" of an offline layer.* `QgisApp::cancelEdits` calls
`rollBack( false )` and then `startEditing()` (`src/src/app/qgisapp.cpp:5752` and 5766;
`src/src/app/qgisapp.h:501` says "start new transaction(s)"). The roll back keeps the edit
buffer and says `editingStopped` (`src/src/core/qgsvectorlayer.cpp:2329-2335`), on which the
slots that log commits are disconnected (`src/src/core/qgsofflineediting.cpp:1317`).
`startEditing()` finds the buffer and returns before it says `editingStarted`
(`src/src/core/qgsvectorlayer.cpp:1251-1255`). The layer can be edited and saved as before,
but what is saved until the buffer goes is in the copy only. Synchronising drops it, and the
copy leaves the project. `offline_editing` violates `EditsAreLogged` with a conversion, such a
roll back and a commit; `Merge!Spec` without its hypothesis, hence the merge of the copy; and
`LookupFindsFeature` for layers that are not left out, since the unlogged commit may delete a
row of which the lookup knows and add a feature that gets its rowid. `NoFeatureTwice` needs
a third session (`MaxSessions` 3) for that: a feature is added and logged, deleted unlogged, and
another one, given its rowid, is logged as added again, so that it is sent to the server twice.
The properties of the run are therefore stated of layers without such a commit, and
`UnloggedOnlyIfDisconnected` says that there is no other way past the log.

*Assertions.* `NoAssertionFails` is violated

- by `edit_fields`, at the end of a roll back. A value of feature 1 is changed and an attribute
  added; the loop of `handleAttributeAdded` (`src/src/core/qgsvectorlayereditbuffer.cpp:573`)
  counts from 0 and uses its counter as a feature id, and `operator[]` leaves an empty map for
  feature 0, which nobody takes away. With everything undone `mChangedAttributeValues` is not
  empty, and `Q_ASSERT( mChangedAttributeValues.isEmpty() )` fails (line 548). The instance
  violates `NothingPendingAtBottom` in the same way; `BottomCommitsNothing` is what holds there.
- by `edit_failures`. A feature is added and the stored one moved; the commit stores the new one
  and then fails at the geometries. The undo stack still holds the addition, and rolling back
  undoes it: the assertion at `src/src/core/qgsvectorlayerundocommand.cpp:48` fails, in a build
  with `QGISDEBUG`. Had the new feature been moved as well, the undo of that would fail the
  `Q_ASSERT` at line 170 in any build with assertions.

Properties that hold only under a condition the instances meet. Setting the constant as
said makes TLC find the violation:

- `TransformsWithCache` TRUE violates `ImagesFitView`: `QgsMapRendererCache::init` compares
  extent and scale only, so after projections are switched on or off at the same extent
  layers not drawn anew come from the cache, in the other projection.
- `RepaintsDuringCachedJob` TRUE violates `NoStaleImage`: the cache connects to
  `repaintRequested()` of a layer when it stores its image, at the end of the job. A layer
  that was drawn and changes before that keeps the outdated image, and later maps at
  this extent show it.
- `EditsAfterSync` TRUE violates `SynchronizeMerges`: pairs are never removed from
  `log_fids`. When a feature is deleted and another is added under the same rowid,
  synchronising adds a second pair for that rowid, and `remoteFid` keeps finding the first:
  a change in a second round, from the saved project, goes to an id that is gone, and is lost.
- A value in `QuotedValues` violates `SynchronizeMerges`: its change is not logged, because
  the statement with the unescaped apostrophe fails.
- `CommitKeepsLayer` is violated by `edit_fields` with `ProviderFailures <-
  MCDeleteAttributesFails` and no join or expression field: when the provider refuses to
  delete an attribute, `attributeChangesOk` stays true, and values whose indices leave out
  the attribute go to other columns
  (`src/src/core/qgsvectorlayereditbuffer.cpp:366`).
- `StaleHandlesMarked` is violated by `connection_pool` with two iterators
  (`MCTwoIterators`, `MCNotNested`): a handle that is being opened during a write is in
  neither list that `invalidateConnections()` walks, and is pooled as valid
  (`src/src/core/qgsconnectionpool.h:112`).
- `IdleConnectionsClose` is violated under `FairSpec` by the same instance with the kind
  "server": `release()` does not start the timer while it is active, and a stop that was
  queued before arrives afterwards (`src/src/core/qgsconnectionpool.h:135`).
- `ReadersFindEntries` is violated by `layer_cache`: a full cache answers a request for an id
  it does not hold with an iterator that dereferences a null entry
  (`src/src/core/qgscachedfeatureiterator.cpp:62`).

Seen while modelling as well:

- The constructor of the command that adds an attribute counts the fields before the
  first joined one (`src/src/core/qgsvectorlayerundocommand.cpp:315`). Without a join it
  counts the expression fields too, although a new attribute stands before them, and undo
  then removes another attribute or none. `edit_fields` has an expression field and a
  join, where the index is right; with an empty `JoinFields` it violates `UndoRestores`.
- Undoing an addition announces the feature as deleted but leaves the selection as it is
  (`src/src/core/qgsvectorlayerundocommand.cpp:54`): it keeps an id nobody has, and a redo finds
  the feature selected again. The code promises nothing about it.
- A full cache has sure room for one feature more than the provider stores, because the
  size is compared with `featureCount()`, which does not count edits. Beyond the slack of
  100 new features it starts to evict, and stays marked as full.
- A change of fields empties a full cache, a cancelled load leaves it half filled; in both
  cases it stays marked as full, and iterators deliver what happens to be there.
- On a layer with joins, a new attribute is announced with its own index. The index of the
  last joined attribute, which has moved up by one, is not added to the cached ones, so
  requests for all attributes go to the layer from then on.

Not shown: that the provider does what it says; the geometry of features; what happens
when a macro is left open across a commit; signals to attribute tables and forms; layers
edited through a transaction; more than one group of a pool (groups share nothing but
the map that holds them); and the wrap-around of times of day at midnight.

## 6. Plan

Done, in this order: editing, connection pool, layer cache, offline editing, rendering.
What is left, each with an MC module, one run per question and its hazards:

1. `AttributeTable`: the two maps between rows and ids of `qgsattributetablemodel`, composed
   with `VectorLayerCache`; they stay inverse through slots that come while `loadLayer`
   lets the event loop run.
2. `EditPassthrough` with transactions of several layers.
3. `StateStack` and `ItemCoupling`.
4. Rendering: previews while panning, the sequential job, layers that are added and hidden.
5. Proofs: undo and commits when attributes are added and deleted too, on layers with joins,
   which needs a chain of buffers up to a renumbering of fields.

At most twelve runs are kept: when a new component comes in, the findings that are fixed
or least surprising give way, and stay described under "hazards" and in section 5.
