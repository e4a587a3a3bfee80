--------------------------- MODULE VectorLayerCache ---------------------------
(***************************************************************************)
(* QgsVectorLayerCache: the features of a layer an attribute table keeps,  *)
(* its slots for the signals of the layer, and the iterators it hands out. *)
(* All of it runs in the main thread; iterators stay open while the layer  *)
(* is edited, since the progress signal of setFullCache() and of the       *)
(* tables lets the event loop run.                                         *)
(*                                                                         *)
(* The layer is seen from outside: its features by id, permanent ids       *)
(* positive and temporary ones negative.  A feature is one value of an     *)
(* attribute and one geometry; the cache adds which attributes were read.  *)
(***************************************************************************)
EXTENDS Integers, Sequences, FiniteSets, Functions

CONSTANTS
    StoredFids,       \* ids the provider may give to features
    InitialFids,      \* those it has at first
    Values,           \* values and geometries
    NewContents,      \* what features are when they are read or made first
    NoValue,          \* the geometry of a feature read without it
    Readers,          \* iterators of callers
    Loader,           \* the iterator inside setFullCache
    Configurations,   \* ways to set up the cache to look at
    Slack,            \* the features setFullCache makes room for beyond those stored
    CacheSizes,       \* sizes given to setCacheSize
    MaxNew,           \* bound: temporary ids
    MaxFields,        \* bound: fields of the layer
    MaxEdits          \* bound: changes of the layer

ASSUME CacheAssumption ==
    /\ StoredFids \subseteq Nat \ {0} /\ IsFiniteSet(StoredFids)
    /\ InitialFids \subseteq StoredFids
    /\ NoValue \notin Values
    /\ NewContents \subseteq [value : Values, geometry : Values]
    /\ Loader \notin Readers
    /\ Configurations \subseteq [geometry : BOOLEAN, idIndex : BOOLEAN, joined : Nat]
    /\ Slack \in Nat \ {0} /\ CacheSizes \subseteq Nat /\ CacheSizes # {}
    /\ MaxNew \in Nat /\ MaxFields \in Nat /\ MaxEdits \in Nat

VARIABLES
    config,        \* mCacheGeometry, whether there is a QgsCacheIndexFeatureId,
                   \* and how many joined fields the layer has
    features,      \* the features of the layer, uncommitted edits included
    gone,          \* those deleted and not committed, as undo would restore them
    lastTemp,      \* the last temporary id
    width,         \* number of fields of the layer
    committing,    \* inside commitChanges: the permanent ids still to be announced
    cache,         \* mCache
    cachedAttributes,  \* mCachedAttributes
    fullCache,     \* mFullCache
    readers,       \* the open iterators
    crashed,       \* a null entry was dereferenced
    excused,       \* history: why a full cache need not be complete
    edits          \* bound

layerVars == <<features, gone, lastTemp, width, committing, edits>>
vars == <<config, features, gone, lastTemp, width, committing, cache,
          cachedAttributes, fullCache, readers, crashed, excused, edits>>

Fids == StoredFids \cup {-n : n \in 1..MaxNew}
IsStored(fid) == fid > 0
Content == [value : Values, geometry : Values]

\* mDataProvider->featureCount(): edits that are not committed do not count.
FeatureCount(layer, deleted) ==
    Cardinality({fid \in DOMAIN layer \cup DOMAIN deleted : IsStored(fid)})

(***************************************************************************)
(* QCache: entries by id, the least recently used first.                   *)
(***************************************************************************)
EmptyMap == <<>>
Without(order, fid) ==
    IF fid \notin Range(order) THEN order
    ELSE LET at == CHOOSE i \in DOMAIN order : order[i] = fid
         IN SubSeq(order, 1, at - 1) \o SubSeq(order, at + 1, Len(order))
Newest(order, n) ==
    IF Len(order) <= n THEN order
    ELSE SubSeq(order, Len(order) - n + 1, Len(order))

\* What is left of the cache when these ids are.
Keeping(c, order) ==
    [entries |-> Restrict(c.entries, DOMAIN c.entries \cap Range(order)),
     order |-> order, size |-> c.size]

Has(c, fid) == fid \in DOMAIN c.entries
Removed(c, fid) ==
    [entries |-> Restrict(c.entries, DOMAIN c.entries \ {fid}),
     order |-> Without(c.order, fid), size |-> c.size]
Cleared(c) == Keeping(c, <<>>)
Resized(c, size) == Keeping([c EXCEPT !.size = size], Newest(c.order, size))
Used(c, fid) ==
    IF Has(c, fid) THEN [c EXCEPT !.order = Append(Without(c.order, fid), fid)]
    ELSE c
\* The newest entry joins those there is room for.
Joined(c, fid, entry, room) ==
    LET rest == Keeping(Removed(c, fid), Newest(Without(c.order, fid), room))
    IN [entries |-> [f \in DOMAIN rest.entries \cup {fid} |->
                       IF f = fid THEN entry ELSE rest.entries[f]],
        order |-> Append(rest.order, fid), size |-> c.size]
Inserted(c, fid, entry) ==
    IF c.size < 1 THEN Removed(c, fid)
    ELSE Joined(c, fid, entry, c.size - 1)

\* What an iterator of the layer delivers of a feature for the cache.
Fetched(content) ==
    [value |-> content.value,
     geometry |-> IF config.geometry THEN content.geometry ELSE NoValue,
     attributes |-> cachedAttributes \cap (0..width - 1)]

\* An entry is right while it is what the layer would deliver now.
Right(fid) ==
    fid \in DOMAIN features /\ cache.entries[fid] = Fetched(features[fid])
Wrong == {fid \in DOMAIN cache.entries : ~Right(fid)}

(***************************************************************************)
(* Asking for one feature, and the slots.                                  *)
(***************************************************************************)
FeatureAtId(c, layer, fid, skipCache) ==
    IF ~skipCache /\ Has(c, fid) THEN Used(c, fid)
    ELSE IF fid \in DOMAIN layer THEN Inserted(c, fid, Fetched(layer[fid]))
    ELSE c

\* Mutant: room is made when the features no longer fit, not before.
OnFeatureAddedLate(c, layer, fid, count) ==
    IF ~fullCache THEN c
    ELSE FeatureAtId(IF c.size < count THEN Resized(c, count + Slack) ELSE c,
                     layer, fid, FALSE)
OnFeatureAdded(c, layer, fid, count) ==
    IF ~fullCache THEN c
    ELSE FeatureAtId(IF c.size <= count THEN Resized(c, count + Slack) ELSE c,
                     layer, fid, FALSE)

FeatureDeleted(c, fid) == Removed(c, fid)

\* onAttributeValueChanged and geometryChanged; the latter is not connected
\* when geometries are not cached.
ValueChanged(c, fid, value) ==
    IF Has(c, fid) THEN [Used(c, fid) EXCEPT !.entries[fid].value = value] ELSE c
\* Mutant: the slot leaves the cached geometry alone.
GeometryChangedNever(c, fid, geometry) == c
GeometryChanged(c, fid, geometry) ==
    IF config.geometry /\ Has(c, fid)
    THEN [Used(c, fid) EXCEPT !.entries[fid].geometry = geometry] ELSE c

NoReader == [kind |-> "none", left |-> {}, fetched |-> EmptyMap]
Loading == readers[Loader] # NoReader

Init ==
    /\ config \in Configurations
    /\ features \in [InitialFids -> NewContents]
    /\ gone = EmptyMap /\ lastTemp = 0
    /\ width = 1 + config.joined
    /\ committing = EmptyMap
    /\ \E size \in CacheSizes :
         cache = [entries |-> EmptyMap, order |-> <<>>, size |-> size]
    /\ cachedAttributes = 0..width - 1
    /\ fullCache = FALSE
    /\ readers = [r \in Readers \cup {Loader} |-> NoReader]
    /\ crashed = FALSE /\ excused = FALSE /\ edits = 0

(***************************************************************************)
(* The layer changes.                                                      *)
(***************************************************************************)
With(map, key, value) ==
    [k \in DOMAIN map \cup {key} |-> IF k = key THEN value ELSE map[k]]
ButNot(map, key) == Restrict(map, DOMAIN map \ {key})

Committing == DOMAIN committing # {}
Idle == ~crashed /\ ~Committing
Editing == Idle /\ edits < MaxEdits /\ edits' = edits + 1

\* More than one new feature has not been stored yet, on balance: the room
\* that is sure to be there is one more than what the provider counts.
Held == {fid \in DOMAIN features : ~Committing \/ IsStored(fid)}
Crowded == Cardinality(Held) > FeatureCount(features, gone) + 1
Excusing(reason) == excused' = (excused \/ reason \/ Crowded')

Announces(fid) ==
    cache' = OnFeatureAdded(cache, features', fid, FeatureCount(features', gone'))

AddFeature ==
    /\ Editing /\ lastTemp > -MaxNew
    /\ lastTemp' = lastTemp - 1
    /\ \E content \in NewContents : features' = With(features, lastTemp - 1, content)
    /\ UNCHANGED <<config, gone, width, committing, cachedAttributes, fullCache,
                   readers, crashed>>
    /\ Announces(lastTemp - 1) /\ Excusing(FALSE)

\* A deletion, or the undo of an addition.
DeleteFeature(fid) ==
    /\ Editing /\ fid \in DOMAIN features
    /\ features' = ButNot(features, fid)
    /\ gone' = With(gone, fid, features[fid])
    /\ cache' = FeatureDeleted(cache, fid)
    /\ UNCHANGED <<config, lastTemp, width, committing, cachedAttributes,
                   fullCache, readers, crashed>>
    /\ Excusing(FALSE)

\* The undo of a deletion, or the redo of an addition.
BringBackFeature(fid) ==
    /\ Editing /\ fid \in DOMAIN gone
    /\ features' = With(features, fid, gone[fid])
    /\ gone' = ButNot(gone, fid)
    /\ UNCHANGED <<config, lastTemp, width, committing, cachedAttributes,
                   fullCache, readers, crashed>>
    /\ Announces(fid) /\ Excusing(FALSE)

ChangeAttributeValue(fid, value) ==
    /\ Editing /\ fid \in DOMAIN features
    /\ features' = [features EXCEPT ![fid].value = value]
    /\ cache' = ValueChanged(cache, fid, value)
    /\ UNCHANGED <<config, gone, lastTemp, width, committing, cachedAttributes,
                   fullCache, readers, crashed, excused>>

ChangeGeometry(fid, geometry) ==
    /\ Editing /\ fid \in DOMAIN features
    /\ features' = [features EXCEPT ![fid].geometry = geometry]
    /\ cache' = GeometryChanged(cache, fid, geometry)
    /\ UNCHANGED <<config, gone, lastTemp, width, committing, cachedAttributes,
                   fullCache, readers, crashed, excused>>

\* Mutant: the index of the last field instead of that of the new one.
AnnouncedLast == {width - 1}
\* The index attributeAdded carries: a new attribute stands before the joined
\* ones, an expression field behind them, an attribute whose deletion is undone
\* where it was (there were more fields before, and their indices are cached).
AnnouncedIndices ==
    {width - config.joined, width}
      \cup {index \in 0..width : width \in cachedAttributes}

\* Mutant: the entries stay when the fields change.
UpdatedFieldsNever == UNCHANGED cache
UpdatedFields == cache' = Cleared(cache)

AddField ==
    /\ Editing /\ width < MaxFields
    /\ width' = width + 1
    /\ \E index \in AnnouncedIndices :
         cachedAttributes' = cachedAttributes \cup {index}
    /\ UpdatedFields
    /\ UNCHANGED <<config, features, gone, lastTemp, committing, fullCache,
                   readers, crashed>>
    /\ Excusing(TRUE)

\* attributeDeleted comes after updatedFields and finds an empty cache;
\* mCachedAttributes keeps the index.
DeleteField ==
    /\ Editing /\ width > 1 + config.joined
    /\ width' = width - 1
    /\ UpdatedFields
    /\ UNCHANGED <<config, features, gone, lastTemp, committing,
                   cachedAttributes, fullCache, readers, crashed>>
    /\ Excusing(TRUE)

(***************************************************************************)
(* A commit that succeeds.  The provider has stored the new features when  *)
(* the first of them is announced; until the last one has been, they are   *)
(* there under both ids.  Nothing else happens in between.  That the       *)
(* provider may show a half-read iterator old or new features is left out: *)
(* no commit starts while an iterator still reads the provider.            *)
(***************************************************************************)
NewFids == {fid \in DOMAIN features : ~IsStored(fid)}
StoredNow == DOMAIN features \ NewFids

CommitChanges ==
    /\ Editing
    /\ \A r \in DOMAIN readers : readers[r].kind # "writer"
    /\ \E permanent \in [NewFids -> StoredFids \ StoredNow] :
         /\ IsInjective(permanent)
         /\ committing' = permanent
         /\ features' = [fid \in DOMAIN features \cup Range(permanent) |->
                           IF fid \in DOMAIN features THEN features[fid]
                           ELSE features[CHOOSE new \in NewFids : permanent[new] = fid]]
    /\ gone' = EmptyMap
    /\ UNCHANGED <<config, lastTemp, width, cache, cachedAttributes, fullCache,
                   readers, crashed>>
    /\ Excusing(FALSE)

\* Mutant: the new features leave the buffer before they have been announced.
AnnounceCommittedCleared(temp) ==
    /\ ~crashed /\ temp \in DOMAIN committing
    /\ committing' = ButNot(committing, temp)
    /\ cache' = OnFeatureAdded(FeatureDeleted(cache, temp), features,
                               committing[temp], FeatureCount(features, gone))
    /\ features' = Restrict(features, StoredNow)
    /\ UNCHANGED <<config, gone, lastTemp, width, cachedAttributes, fullCache,
                   readers, crashed, edits>>
    /\ Excusing(FALSE)

\* featureDeleted for the temporary id, featureAdded for the permanent one.
AnnounceCommitted(temp) ==
    /\ ~crashed /\ temp \in DOMAIN committing
    /\ committing' = ButNot(committing, temp)
    /\ cache' = OnFeatureAdded(FeatureDeleted(cache, temp), features,
                               committing[temp], FeatureCount(features, gone))
    /\ features' = IF Committing' THEN features ELSE Restrict(features, StoredNow)
    /\ UNCHANGED <<config, gone, lastTemp, width, cachedAttributes, fullCache,
                   readers, crashed, edits>>
    /\ Excusing(FALSE)

(***************************************************************************)
(* Callers of the cache.                                                   *)
(***************************************************************************)
CallFeatureAtId(fid, skipCache) ==
    /\ Idle
    /\ cache' = FeatureAtId(cache, features, fid, skipCache)
    /\ UNCHANGED <<config, layerVars, cachedAttributes, fullCache, readers,
                   crashed, excused>>

RemoveCachedFeature(fid) ==
    /\ Idle /\ Has(cache, fid)
    /\ cache' = Removed(cache, fid)
    /\ UNCHANGED <<config, layerVars, cachedAttributes, fullCache, readers, crashed>>
    /\ Excusing(TRUE)

SetCacheSize(size) ==
    /\ Idle
    /\ cache' = Resized(cache, size)
    /\ UNCHANGED <<config, layerVars, cachedAttributes, fullCache, readers, crashed>>
    /\ Excusing(TRUE)

\* A QgsCachedFeatureWriterIterator reads the features, and edits, of the time
\* it was made; a QgsCachedFeatureIterator has only ids.
WriterIterator(fids) ==
    [kind |-> "writer", left |-> fids,
     fetched |-> [fid \in fids |-> Fetched(features[fid])]]
CachedIterator(fids) == [kind |-> "cached", left |-> fids, fetched |-> EmptyMap]

SetFullCache(full) ==
    /\ Idle /\ ~Loading
    /\ fullCache' = full
    /\ IF full
       THEN /\ cache' = Resized(cache, FeatureCount(features, gone) + Slack)
            /\ readers' = [readers EXCEPT ![Loader] = WriterIterator(DOMAIN features)]
            /\ excused' = (Wrong # {} \/ Crowded)
       ELSE UNCHANGED <<cache, readers, excused>>
    /\ UNCHANGED <<config, layerVars, cachedAttributes, crashed>>

\* getFeatures: all features, or the one of FilterFid.  Requests that
\* checkInformationCovered refuses go to the layer and leave the cache alone.
GetFeatures(r, byId, fid) ==
    /\ Idle /\ readers[r] = NoReader
    /\ readers' = [readers EXCEPT ![r] =
         IF fullCache
         THEN CachedIterator(IF byId THEN {fid} ELSE DOMAIN cache.entries)
         ELSE IF config.idIndex /\ byId /\ Has(cache, fid)
         THEN CachedIterator({fid})
         ELSE WriterIterator(IF byId THEN {fid} \cap DOMAIN features
                             ELSE DOMAIN features)]
    /\ UNCHANGED <<config, layerVars, cache, cachedAttributes, fullCache,
                   crashed, excused>>

Advances(r, fid) == readers' = [readers EXCEPT ![r].left = @ \ {fid}]
Stale(r, fid) ==
    fid \notin DOMAIN features \/ readers[r].fetched[fid] # Fetched(features[fid])

FetchAndCache(r, fid) ==
    /\ Idle /\ readers[r].kind = "writer" /\ fid \in readers[r].left
    /\ cache' = Inserted(cache, fid, readers[r].fetched[fid])
    /\ Advances(r, fid)
    /\ UNCHANGED <<config, layerVars, cachedAttributes, fullCache, crashed>>
    /\ Excusing(Stale(r, fid))

\* mCache[ id ]->feature(): without the entry a null pointer is dereferenced.
FetchCached(r, fid) ==
    /\ Idle /\ readers[r].kind = "cached" /\ fid \in readers[r].left
    /\ IF Has(cache, fid)
       THEN cache' = Used(cache, fid) /\ UNCHANGED crashed
       ELSE crashed' = TRUE /\ UNCHANGED cache
    /\ Advances(r, fid)
    /\ UNCHANGED <<config, layerVars, cachedAttributes, fullCache, excused>>

\* At the end, or earlier if the caller has enough; the loop of setFullCache
\* breaks when its progress is cancelled.
CloseReader(r) ==
    /\ Idle /\ readers[r] # NoReader
    /\ readers' = [readers EXCEPT ![r] = NoReader]
    /\ UNCHANGED <<config, layerVars, cache, cachedAttributes, fullCache, crashed>>
    /\ Excusing(r = Loader /\ readers[r].left # {})

Next ==
    \/ AddFeature \/ AddField \/ DeleteField \/ CommitChanges
    \/ \E fid \in Fids :
         \/ DeleteFeature(fid) \/ BringBackFeature(fid) \/ AnnounceCommitted(fid)
         \/ \E v \in Values : ChangeAttributeValue(fid, v) \/ ChangeGeometry(fid, v)
         \/ \E skipCache \in BOOLEAN : CallFeatureAtId(fid, skipCache)
         \/ RemoveCachedFeature(fid)
         \/ \E r \in Readers, byId \in BOOLEAN : GetFeatures(r, byId, fid)
         \/ \E r \in Readers \cup {Loader} :
              FetchAndCache(r, fid) \/ FetchCached(r, fid)
    \/ \E size \in CacheSizes : SetCacheSize(size)
    \/ \E full \in BOOLEAN : SetFullCache(full)
    \/ \E r \in Readers \cup {Loader} : CloseReader(r)

Spec == Init /\ [][Next]_vars

(***************************************************************************)
(* Properties                                                              *)
(***************************************************************************)

\* The cache never holds more than it may, each feature once, and what it holds
\* are features; iterators only have ids they can deliver.
Entry == [value : Values, geometry : Values \cup {NoValue}, attributes : SUBSET Int]
TypeOK ==
    /\ DOMAIN features \subseteq Fids /\ DOMAIN gone \subseteq Fids
    /\ DOMAIN features \cap DOMAIN gone = {}
    /\ \A fid \in DOMAIN features : features[fid] \in Content
    /\ \A fid \in DOMAIN gone : gone[fid] \in Content
    /\ Len(cache.order) <= cache.size /\ IsInjective(cache.order)
    /\ Range(cache.order) = DOMAIN cache.entries
    /\ DOMAIN cache.entries \subseteq Fids
    /\ \A fid \in DOMAIN cache.entries : cache.entries[fid] \in Entry
    /\ \A r \in Readers \cup {Loader} :
         readers[r].kind = "writer" => readers[r].left \subseteq DOMAIN readers[r].fetched
    /\ DOMAIN committing \subseteq NewFids

WrittenLate(fid) ==
    \E r \in Readers \cup {Loader} :
      /\ readers[r].kind = "writer"
      /\ fid \in readers[r].left \ readers'[r].left
      /\ Stale(r, fid)

\* Through edits, undo, changes of fields and commits, an entry only becomes one
\* that differs from the layer when an iterator that was open across the change
\* writes what it read before (qgscachedfeatureiterator.cpp:96).
OnlyLateReadersSpoil == [][\A fid \in Wrong' \ Wrong : WrittenLate(fid)]_vars

\* A full cache that was loaded to the end holds every feature, through edits and
\* commits, as long as the fields stay, nobody takes features out of it, no late
\* reader wrote to it, and at most one new feature at a time is not stored.
FullCacheComplete ==
    fullCache /\ ~Loading /\ ~Committing /\ ~excused
       => DOMAIN features \subseteq DOMAIN cache.entries

\* On a layer without joins the cache keeps covering requests for all attributes
\* while fields come and go (checkInformationCovered).
AllAttributesCovered == 0..width - 1 \subseteq cachedAttributes
NewAttributesCovered ==
    [][config.joined = 0 /\ AllAttributesCovered => AllAttributesCovered']_vars

\* An iterator over the cache finds the entries it was made for.
ReadersFindEntries == ~crashed
=============================================================================
