------------------------ MODULE VectorLayerCacheProofs ------------------------
(***************************************************************************)
(* For every layer, every size of the cache and any number of open         *)
(* iterators: entries that differ from the layer come from iterators that  *)
(* were open across a change, and from nothing else; and fields that come  *)
(* and go leave the cache able to answer for all of them.                  *)
(***************************************************************************)
EXTENDS VectorLayerCache, TLAPS

\* What the proofs need to know of the records.
IsCache(c) ==
    /\ c = [entries |-> c.entries, order |-> c.order, size |-> c.size]
    /\ \A fid \in DOMAIN c.entries : c.entries[fid] \in Entry
IsReader(reader) ==
    /\ reader = [kind |-> reader.kind, left |-> reader.left,
                 fetched |-> reader.fetched]
    /\ reader.kind = "writer" =>
         \A fid \in reader.left : reader.fetched[fid] \in Entry

Shape ==
    /\ config \in Configurations
    /\ IsCache(cache)
    /\ \A fid \in DOMAIN features : features[fid] \in Content
    /\ \A fid \in DOMAIN gone : gone[fid] \in Content
    /\ DOMAIN features \cap DOMAIN gone = {}
    /\ lastTemp \in Int /\ lastTemp <= 0
    /\ \A fid \in DOMAIN features \cup DOMAIN gone : fid \in Int /\ fid >= lastTemp
    /\ readers = [r \in Readers \cup {Loader} |-> readers[r]]
    /\ \A r \in Readers \cup {Loader} : IsReader(readers[r])

\* While a commit announces the new features, those still cached under their
\* temporary ids are yet to be announced: when the temporary ids end, no entry
\* is left behind.
AnnouncedAreGone ==
    Committing =>
      /\ \A temp \in DOMAIN committing : IsStored(committing[temp])
      /\ NewFids \cap DOMAIN cache.entries \subseteq DOMAIN committing

CInv == Shape /\ AnnouncedAreGone

\* Every entry of d is one of c.
Within(d, c) ==
    \A fid \in DOMAIN d.entries :
      fid \in DOMAIN c.entries /\ d.entries[fid] = c.entries[fid]

\* Every entry of d is one of c, but that of a feature is this one.
Gains(d, c, fid, entry) ==
    \A f \in DOMAIN d.entries :
      IF f = fid THEN d.entries[f] = entry
      ELSE f \in DOMAIN c.entries /\ d.entries[f] = c.entries[f]

(***************************************************************************)
(* Lemmas about QCache.                                                    *)
(***************************************************************************)

\* Taking out an entry leaves the others.
LEMMA RemovedLeaves ==
  ASSUME NEW c, NEW fid, IsCache(c)
  PROVE  /\ IsCache(Removed(c, fid)) /\ Within(Removed(c, fid), c)
         /\ fid \notin DOMAIN Removed(c, fid).entries
BY DEF IsCache, Removed, Within, Restrict

\* Trimming the cache leaves entries as they are.
LEMMA KeepingLeaves ==
  ASSUME NEW c, NEW order, IsCache(c)
  PROVE  IsCache(Keeping(c, order)) /\ Within(Keeping(c, order), c)
BY DEF IsCache, Keeping, Within, Restrict

\* Changing the size leaves entries as they are.
LEMMA ResizedLeaves ==
  ASSUME NEW c, NEW size, IsCache(c)
  PROVE  IsCache(Resized(c, size)) /\ Within(Resized(c, size), c)
<1> DEFINE d == [entries |-> c.entries, order |-> c.order, size |-> size]
<1>1. [c EXCEPT !.size = size] = d
  BY DEF IsCache
<1>2. IsCache(d) /\ Within(d, c)
  BY DEF IsCache, Within
<1> HIDE DEF d
<1>3. Resized(c, size) = Keeping(d, Newest(c.order, size))
  BY <1>1 DEF Resized
<1> QED
  BY <1>2, <1>3, KeepingLeaves DEF Within

\* Clearing the cache leaves nothing.
LEMMA ClearedLeavesNothing ==
  ASSUME NEW c, IsCache(c)
  PROVE  IsCache(Cleared(c)) /\ DOMAIN Cleared(c).entries = {}
<1>1. Range(<<>>) = {}
  BY DEF Range
<1> QED
  BY <1>1, KeepingLeaves DEF Cleared, Keeping, Restrict, IsCache

\* Using an entry changes the order only.
LEMMA UsedLeaves ==
  ASSUME NEW c, NEW fid, IsCache(c)
  PROVE  IsCache(Used(c, fid)) /\ Used(c, fid).entries = c.entries
BY DEF IsCache, Used, Has

\* Inserting changes one entry and may drop others.
LEMMA InsertedGains ==
  ASSUME NEW c, NEW fid, NEW entry \in Entry, IsCache(c)
  PROVE  /\ IsCache(Inserted(c, fid, entry))
         /\ Gains(Inserted(c, fid, entry), c, fid, entry)
<1>1. CASE c.size < 1
  BY <1>1, RemovedLeaves DEF Inserted, Gains, Within
<1>2. CASE ~(c.size < 1)
  <2> DEFINE rest == Keeping(Removed(c, fid), Newest(Without(c.order, fid), c.size - 1))
  <2>1. IsCache(rest) /\ Within(rest, c)
    BY RemovedLeaves, KeepingLeaves DEF Within
  <2>2. Inserted(c, fid, entry)
          = [entries |-> [f \in DOMAIN rest.entries \cup {fid} |->
                            IF f = fid THEN entry ELSE rest.entries[f]],
             order |-> Append(rest.order, fid), size |-> c.size]
    BY <1>2 DEF Inserted, Joined
  <2> HIDE DEF rest
  <2> QED
    BY <2>1, <2>2 DEF IsCache, Within, Gains
<1> QED
  BY <1>1, <1>2

\* What the cache asks of the layer is an entry.
LEMMA FetchedIsEntry ==
  ASSUME Shape, NEW content \in Content
  PROVE  Fetched(content) \in Entry
BY CacheAssumption DEF Fetched, Content, Entry

\* A feature is looked up in the cache, or becomes what the layer has.
LEMMA FeatureAtIdGains ==
  ASSUME Shape, NEW c, IsCache(c), NEW layer, NEW fid, NEW skipCache \in BOOLEAN,
         \A f \in DOMAIN layer : layer[f] \in Content
  PROVE  LET d == FeatureAtId(c, layer, fid, skipCache)
         IN /\ IsCache(d)
            /\ \/ Within(d, c)
               \/ fid \in DOMAIN layer /\ Gains(d, c, fid, Fetched(layer[fid]))
<1>1. CASE ~skipCache /\ Has(c, fid)
  BY <1>1, UsedLeaves DEF FeatureAtId, Within
<1>2. CASE ~(~skipCache /\ Has(c, fid)) /\ fid \in DOMAIN layer
  BY <1>2, FetchedIsEntry, InsertedGains DEF FeatureAtId
<1>3. CASE ~(~skipCache /\ Has(c, fid)) /\ fid \notin DOMAIN layer
  BY <1>3 DEF FeatureAtId, Within
<1> QED
  BY <1>1, <1>2, <1>3

\* So does a feature that is announced.
LEMMA OnFeatureAddedGains ==
  ASSUME Shape, NEW c, IsCache(c), NEW layer, NEW fid, NEW count,
         \A f \in DOMAIN layer : layer[f] \in Content
  PROVE  LET d == OnFeatureAdded(c, layer, fid, count)
         IN /\ IsCache(d)
            /\ \/ Within(d, c)
               \/ fid \in DOMAIN layer /\ Gains(d, c, fid, Fetched(layer[fid]))
<1> DEFINE base == IF c.size <= count THEN Resized(c, count + Slack) ELSE c
           d == FeatureAtId(base, layer, fid, FALSE)
<1>1. IsCache(base) /\ Within(base, c)
  BY ResizedLeaves DEF Within
<1> HIDE DEF base
<1>2. /\ IsCache(d)
      /\ \/ Within(d, base)
         \/ fid \in DOMAIN layer /\ Gains(d, base, fid, Fetched(layer[fid]))
  BY <1>1, FeatureAtIdGains
<1>3. OnFeatureAdded(c, layer, fid, count) = IF ~fullCache THEN c ELSE d
  BY DEF OnFeatureAdded, base
<1> HIDE DEF d
<1>4. Within(c, c)
  BY DEF Within
<1> QED
  BY <1>1, <1>2, <1>3, <1>4 DEF Within, Gains

(***************************************************************************)
(* The steps.                                                              *)
(***************************************************************************)

\* A step spoils nothing if each entry stays with its feature, or is the
\* feature as the layer has it.
LEMMA Unspoiled ==
  ASSUME UNCHANGED <<config, width, cachedAttributes>>,
         \A f \in DOMAIN cache'.entries :
           \/ /\ f \in DOMAIN cache.entries /\ cache'.entries[f] = cache.entries[f]
              /\ f \in DOMAIN features =>
                   f \in DOMAIN features' /\ features'[f] = features[f]
           \/ f \in DOMAIN features' /\ cache'.entries[f] = Fetched(features'[f])
  PROVE  Wrong' \subseteq Wrong
BY DEF Wrong, Right, Fetched

\* A step of a caller that leaves the layer and the iterators alone.
LEMMA CallerStep ==
  ASSUME CInv, Idle, UNCHANGED <<config, layerVars, cachedAttributes, readers>>,
         IsCache(cache'),
         \/ Within(cache', cache)
         \/ \E fid \in DOMAIN features :
              Gains(cache', cache, fid, Fetched(features[fid]))
  PROVE  CInv' /\ Wrong' \subseteq Wrong
<1>1. CInv'
  BY DEF CInv, Shape, AnnouncedAreGone, Idle, Committing, layerVars, IsCache, IsReader
<1>2. Wrong' \subseteq Wrong
  BY Unspoiled DEF Within, Gains, layerVars
<1> QED
  BY <1>1, <1>2

\* A new feature has an id that no feature has, and none that undo may restore.
LEMMA AddFeatureStep ==
  ASSUME CInv, AddFeature
  PROVE  CInv' /\ Wrong' \subseteq Wrong
<1> DEFINE fid == lastTemp - 1
<1>1. PICK content \in Content : features' = With(features, fid, content)
  BY CacheAssumption DEF AddFeature, Content
<1>2. /\ fid \notin DOMAIN features /\ fid \notin DOMAIN gone /\ fid \in Int
      /\ lastTemp' = fid
  BY DEF CInv, Shape, AddFeature
<1>3. /\ DOMAIN features' = DOMAIN features \cup {fid}
      /\ features'[fid] = content
      /\ \A f \in DOMAIN features : features'[f] = features[f]
  BY <1>1, <1>2 DEF With
<1>4. \A f \in DOMAIN features' : features'[f] \in Content
  BY <1>1, <1>3 DEF CInv, Shape
<1>5. /\ IsCache(cache')
      /\ \/ Within(cache', cache)
         \/ Gains(cache', cache, fid, Fetched(features'[fid]))
  BY <1>4, OnFeatureAddedGains DEF AddFeature, Announces, CInv, Shape
<1>6. Shape'
  <2>1. /\ UNCHANGED <<config, gone, readers>>
        /\ lastTemp' <= 0
        /\ \A f \in DOMAIN features' \cup DOMAIN gone' : f \in Int /\ f >= lastTemp'
        /\ DOMAIN features' \cap DOMAIN gone' = {}
    BY <1>2, <1>3 DEF AddFeature, CInv, Shape
  <2> QED
    BY <1>2, <1>4, <1>5, <2>1 DEF CInv, Shape, IsCache, IsReader
<1>7. AnnouncedAreGone'
  BY DEF AddFeature, Editing, Idle, Committing, AnnouncedAreGone
<1>8. Wrong' \subseteq Wrong
  BY <1>2, <1>3, <1>5, Unspoiled DEF AddFeature, Within, Gains
<1> QED
  BY <1>6, <1>7, <1>8 DEF CInv

\* A deleted feature leaves the cache.
LEMMA DeleteFeatureStep ==
  ASSUME CInv, NEW fid, DeleteFeature(fid)
  PROVE  CInv' /\ Wrong' \subseteq Wrong
<1>1. /\ DOMAIN features' = DOMAIN features \ {fid}
      /\ \A f \in DOMAIN features' : features'[f] = features[f]
      /\ DOMAIN gone' = DOMAIN gone \cup {fid}
      /\ gone'[fid] = features[fid]
      /\ \A f \in DOMAIN gone : f # fid => gone'[f] = gone[f]
  BY DEF DeleteFeature, ButNot, With, Restrict
<1>2. IsCache(cache') /\ Within(cache', cache) /\ fid \notin DOMAIN cache'.entries
  BY RemovedLeaves DEF DeleteFeature, FeatureDeleted, CInv, Shape
<1>3. Shape'
  <2>1. /\ UNCHANGED <<config, lastTemp, readers>>
        /\ fid \in DOMAIN features
    BY DEF DeleteFeature
  <2>2. /\ \A f \in DOMAIN features' : features'[f] \in Content
        /\ \A f \in DOMAIN gone' : gone'[f] \in Content
        /\ DOMAIN features' \cap DOMAIN gone' = {}
        /\ \A f \in DOMAIN features' \cup DOMAIN gone' : f \in Int /\ f >= lastTemp'
    BY <1>1, <2>1 DEF CInv, Shape
  <2> QED
    BY <1>2, <2>1, <2>2 DEF CInv, Shape, IsCache, IsReader
<1>4. AnnouncedAreGone'
  BY DEF DeleteFeature, Editing, Idle, Committing, AnnouncedAreGone
<1>5. Wrong' \subseteq Wrong
  BY <1>1, <1>2, Unspoiled DEF DeleteFeature, Within
<1> QED
  BY <1>3, <1>4, <1>5 DEF CInv

\* A feature that comes back was not there.
LEMMA BringBackFeatureStep ==
  ASSUME CInv, NEW fid, BringBackFeature(fid)
  PROVE  CInv' /\ Wrong' \subseteq Wrong
<1>1. /\ fid \in DOMAIN gone /\ fid \notin DOMAIN features
      /\ DOMAIN features' = DOMAIN features \cup {fid}
      /\ features'[fid] = gone[fid]
      /\ \A f \in DOMAIN features : features'[f] = features[f]
      /\ DOMAIN gone' = DOMAIN gone \ {fid}
      /\ \A f \in DOMAIN gone' : gone'[f] = gone[f]
  BY DEF BringBackFeature, ButNot, With, Restrict, CInv, Shape
<1>2. \A f \in DOMAIN features' : features'[f] \in Content
  BY <1>1 DEF CInv, Shape
<1>3. /\ IsCache(cache')
      /\ \/ Within(cache', cache)
         \/ Gains(cache', cache, fid, Fetched(features'[fid]))
  BY <1>2, OnFeatureAddedGains DEF BringBackFeature, Announces, CInv, Shape
<1>4. Shape'
  <2>1. /\ UNCHANGED <<config, lastTemp, readers>>
        /\ \A f \in DOMAIN gone' : gone'[f] \in Content
        /\ DOMAIN features' \cap DOMAIN gone' = {}
        /\ \A f \in DOMAIN features' \cup DOMAIN gone' : f \in Int /\ f >= lastTemp'
    BY <1>1 DEF BringBackFeature, CInv, Shape
  <2> QED
    BY <1>2, <1>3, <2>1 DEF CInv, Shape, IsCache, IsReader
<1>5. AnnouncedAreGone'
  BY DEF BringBackFeature, Editing, Idle, Committing, AnnouncedAreGone
<1>6. Wrong' \subseteq Wrong
  BY <1>1, <1>3, Unspoiled DEF BringBackFeature, Within, Gains
<1> QED
  BY <1>4, <1>5, <1>6 DEF CInv

\* Changing a value changes it in the cached feature, too.
LEMMA ChangeAttributeValueStep ==
  ASSUME CInv, NEW fid, NEW value \in Values, ChangeAttributeValue(fid, value)
  PROVE  CInv' /\ Wrong' \subseteq Wrong
<1>1. /\ fid \in DOMAIN features /\ features[fid] \in Content
      /\ DOMAIN features' = DOMAIN features
      /\ features'[fid] = [value |-> value, geometry |-> features[fid].geometry]
      /\ \A f \in DOMAIN features : f # fid => features'[f] = features[f]
  <2>1. fid \in DOMAIN features /\ features[fid] \in Content
    BY DEF ChangeAttributeValue, CInv, Shape
  <2>2. features' = [features EXCEPT ![fid] = [features[fid] EXCEPT !.value = value]]
    BY DEF ChangeAttributeValue
  <2>3. [features[fid] EXCEPT !.value = value]
          = [value |-> value, geometry |-> features[fid].geometry]
    BY <2>1 DEF Content
  <2> QED
    BY <2>1, <2>2, <2>3
<1>2. \A f \in DOMAIN features' : features'[f] \in Content
  BY <1>1 DEF CInv, Shape, Content
<1>3. CASE ~Has(cache, fid)
  <2>1. cache' = cache
    BY <1>3 DEF ChangeAttributeValue, ValueChanged
  <2>2. Wrong' \subseteq Wrong
    BY <1>1, <1>3, <2>1, Unspoiled DEF ChangeAttributeValue, Has
  <2> QED
    BY <1>1, <1>2, <2>1, <2>2 DEF CInv, Shape, IsCache, IsReader, AnnouncedAreGone,
                                  ChangeAttributeValue, Editing, Idle, Committing
<1>4. CASE Has(cache, fid)
  <2> DEFINE used == Used(cache, fid)
             entry == cache.entries[fid]
             changed == [entry EXCEPT !.value = value]
  <2>1. IsCache(used) /\ used.entries = cache.entries
    BY UsedLeaves DEF CInv, Shape
  <2>2. cache' = [used EXCEPT !.entries = [used.entries EXCEPT ![fid] = changed]]
    BY <1>4, <2>1 DEF ChangeAttributeValue, ValueChanged
  <2> HIDE DEF used
  <2>3. fid \in DOMAIN cache.entries /\ entry \in Entry
    BY <1>4 DEF Has, CInv, Shape, IsCache
  <2>4. /\ changed \in Entry
        /\ changed = [value |-> value, geometry |-> entry.geometry,
                      attributes |-> entry.attributes]
    BY <2>3 DEF Entry
  <2> HIDE DEF changed
  <2>5. cache' = [entries |-> [cache.entries EXCEPT ![fid] = changed],
                  order |-> used.order, size |-> used.size]
    BY <2>1, <2>2 DEF IsCache
  <2>6. IsCache(cache')
    BY <2>1, <2>3, <2>4, <2>5 DEF IsCache
  <2>7. Wrong' \subseteq Wrong
    <3> SUFFICES ASSUME NEW f \in Wrong', f \notin Wrong PROVE FALSE
      OBVIOUS
    <3>1. UNCHANGED <<config, width, cachedAttributes>>
      BY DEF ChangeAttributeValue
    <3>2. f \in DOMAIN cache.entries /\ Right(f)
      BY <2>5 DEF Wrong
    <3>3. CASE f # fid
      BY <1>1, <2>5, <3>1, <3>2, <3>3 DEF Wrong, Right, Fetched
    <3>4. CASE f = fid
      <4>1. entry = Fetched(features[fid])
        BY <3>2, <3>4 DEF Right
      <4>2. changed = Fetched(features'[fid])
        BY <1>1, <2>4, <4>1 DEF Fetched
      <4> QED
        BY <1>1, <2>3, <2>5, <3>1, <3>4, <4>2 DEF Wrong, Right, Fetched
    <3> QED
      BY <3>3, <3>4
  <2>8. Shape'
    BY <1>1, <1>2, <2>6 DEF CInv, Shape, IsReader, IsCache, ChangeAttributeValue
  <2> QED
    BY <2>7, <2>8 DEF CInv, AnnouncedAreGone, ChangeAttributeValue, Editing, Idle, Committing
<1> QED
  BY <1>3, <1>4

\* Changing a geometry changes it in the cached feature, if that has one.
LEMMA ChangeGeometryStep ==
  ASSUME CInv, NEW fid, NEW geometry \in Values, ChangeGeometry(fid, geometry)
  PROVE  CInv' /\ Wrong' \subseteq Wrong
<1>1. /\ fid \in DOMAIN features /\ features[fid] \in Content
      /\ DOMAIN features' = DOMAIN features
      /\ features'[fid] = [value |-> features[fid].value, geometry |-> geometry]
      /\ \A f \in DOMAIN features : f # fid => features'[f] = features[f]
  <2>1. fid \in DOMAIN features /\ features[fid] \in Content
    BY DEF ChangeGeometry, CInv, Shape
  <2>2. features' = [features EXCEPT ![fid] = [features[fid] EXCEPT !.geometry = geometry]]
    BY DEF ChangeGeometry
  <2>3. [features[fid] EXCEPT !.geometry = geometry]
          = [value |-> features[fid].value, geometry |-> geometry]
    BY <2>1 DEF Content
  <2> QED
    BY <2>1, <2>2, <2>3
<1>2. \A f \in DOMAIN features' : features'[f] \in Content
  BY <1>1 DEF CInv, Shape, Content
<1>3. CASE ~(config.geometry /\ Has(cache, fid))
  <2>1. cache' = cache
    BY <1>3 DEF ChangeGeometry, GeometryChanged
  <2>2. Wrong' \subseteq Wrong
    BY <1>1, <1>3, <2>1, ZenonT(30) DEF Wrong, Right, Fetched, ChangeGeometry, Has
  <2> QED
    BY <1>1, <1>2, <2>1, <2>2 DEF CInv, Shape, IsCache, IsReader, AnnouncedAreGone,
                                  ChangeGeometry, Editing, Idle, Committing
<1>4. CASE config.geometry /\ Has(cache, fid)
  <2> DEFINE used == Used(cache, fid)
             entry == cache.entries[fid]
             changed == [entry EXCEPT !.geometry = geometry]
  <2>1. IsCache(used) /\ used.entries = cache.entries
    BY UsedLeaves DEF CInv, Shape
  <2>2. cache' = [used EXCEPT !.entries = [used.entries EXCEPT ![fid] = changed]]
    BY <1>4, <2>1 DEF ChangeGeometry, GeometryChanged
  <2> HIDE DEF used
  <2>3. fid \in DOMAIN cache.entries /\ entry \in Entry
    BY <1>4 DEF Has, CInv, Shape, IsCache
  <2>4. /\ changed \in Entry
        /\ changed = [value |-> entry.value, geometry |-> geometry,
                      attributes |-> entry.attributes]
    BY <2>3 DEF Entry
  <2> HIDE DEF changed
  <2>5. cache' = [entries |-> [cache.entries EXCEPT ![fid] = changed],
                  order |-> used.order, size |-> used.size]
    BY <2>1, <2>2 DEF IsCache
  <2>6. IsCache(cache')
    BY <2>1, <2>3, <2>4, <2>5 DEF IsCache
  <2>7. Wrong' \subseteq Wrong
    <3> SUFFICES ASSUME NEW f \in Wrong', f \notin Wrong PROVE FALSE
      OBVIOUS
    <3>1. UNCHANGED <<config, width, cachedAttributes>>
      BY DEF ChangeGeometry
    <3>2. f \in DOMAIN cache.entries /\ Right(f)
      BY <2>5 DEF Wrong
    <3>3. CASE f # fid
      BY <1>1, <2>5, <3>1, <3>2, <3>3 DEF Wrong, Right, Fetched
    <3>4. CASE f = fid
      <4>1. entry = Fetched(features[fid])
        BY <3>2, <3>4 DEF Right
      <4>2. changed = Fetched(features'[fid])
        BY <1>1, <1>4, <2>4, <4>1 DEF Fetched
      <4> QED
        BY <1>1, <2>3, <2>5, <3>1, <3>4, <4>2 DEF Wrong, Right, Fetched
    <3> QED
      BY <3>3, <3>4
  <2>8. Shape'
    BY <1>1, <1>2, <2>6 DEF CInv, Shape, IsReader, IsCache, ChangeGeometry
  <2> QED
    BY <2>7, <2>8 DEF CInv, AnnouncedAreGone, ChangeGeometry, Editing, Idle, Committing
<1> QED
  BY <1>3, <1>4

\* When the fields change nothing stays in the cache.
LEMMA FieldStep ==
  ASSUME CInv, AddField \/ DeleteField
  PROVE  CInv' /\ Wrong' \subseteq Wrong
<1>1. IsCache(cache') /\ DOMAIN cache'.entries = {}
  BY ClearedLeavesNothing DEF AddField, DeleteField, UpdatedFields, CInv, Shape
<1>2. UNCHANGED <<config, features, gone, lastTemp, committing, readers>>
  BY DEF AddField, DeleteField
<1>3. CInv'
  BY <1>1, <1>2 DEF CInv, Shape, AnnouncedAreGone, NewFids, Committing, IsReader, IsCache
<1>4. Wrong' \subseteq Wrong
  BY <1>1 DEF Wrong
<1> QED
  BY <1>3, <1>4

\* The commit adds features under ids that nothing has.
LEMMA CommitChangesStep ==
  ASSUME CInv, CommitChanges
  PROVE  CInv' /\ Wrong' \subseteq Wrong
<1>1. PICK permanent \in [NewFids -> StoredFids \ StoredNow] :
        /\ committing' = permanent
        /\ features' = [fid \in DOMAIN features \cup Range(permanent) |->
                         IF fid \in DOMAIN features THEN features[fid]
                         ELSE features[CHOOSE new \in NewFids : permanent[new] = fid]]
  BY DEF CommitChanges
<1>2. UNCHANGED <<config, lastTemp, width, cache, cachedAttributes, readers>>
      /\ DOMAIN gone' = {}
  BY DEF CommitChanges, EmptyMap
<1>3. \A fid \in Range(permanent) :
        fid \in Nat \ {0} /\ \E new \in NewFids : permanent[new] = fid
  BY CacheAssumption DEF Range
<1>4. /\ DOMAIN features' = DOMAIN features \cup Range(permanent)
      /\ \A fid \in DOMAIN features : features'[fid] = features[fid]
  BY <1>1
<1>5. \A fid \in DOMAIN features' : features'[fid] \in Content
  <2> SUFFICES ASSUME NEW fid \in Range(permanent), fid \notin DOMAIN features
               PROVE  features'[fid] \in Content
    BY <1>4 DEF CInv, Shape
  <2> DEFINE new == CHOOSE new \in NewFids : permanent[new] = fid
  <2>1. new \in NewFids
    BY <1>3
  <2>2. features'[fid] = features[new]
    BY <1>1
  <2> HIDE DEF new
  <2> QED
    BY <2>1, <2>2 DEF NewFids, CInv, Shape
<1>6. NewFids' = NewFids
  BY <1>3, <1>4 DEF NewFids, IsStored
<1>7. Shape'
  <2>1. \A f \in DOMAIN features' \cup DOMAIN gone' : f \in Int /\ f >= lastTemp'
    BY <1>2, <1>3, <1>4 DEF CInv, Shape
  <2> QED
    BY <1>2, <1>5, <2>1 DEF CInv, Shape, IsCache, IsReader
<1>8. AnnouncedAreGone'
  <2>1. DOMAIN committing' = NewFids'
    BY <1>1, <1>6
  <2>2. \A temp \in NewFids : permanent[temp] \in Nat \ {0}
    BY CacheAssumption
  <2>3. \A temp \in DOMAIN committing' : IsStored(committing'[temp])
    BY <1>1, <2>2 DEF IsStored
  <2> QED
    BY <2>1, <2>3 DEF AnnouncedAreGone
<1>9. Wrong' \subseteq Wrong
  BY <1>2, <1>4, Unspoiled
<1> QED
  BY <1>7, <1>8, <1>9 DEF CInv

\* The announcement moves an entry to its permanent id.  With the last one the
\* temporary ids end, and no entry is left under them.
LEMMA AnnounceCommittedStep ==
  ASSUME CInv, NEW temp, AnnounceCommitted(temp)
  PROVE  CInv' /\ Wrong' \subseteq Wrong
<1> DEFINE taken == FeatureDeleted(cache, temp)
           new == committing[temp]
<1>1. /\ UNCHANGED <<config, gone, lastTemp, width, cachedAttributes, readers>>
      /\ temp \in DOMAIN committing
      /\ cache' = OnFeatureAdded(taken, features, new, FeatureCount(features, gone))
      /\ DOMAIN committing' = DOMAIN committing \ {temp}
      /\ \A t \in DOMAIN committing' : committing'[t] = committing[t]
  BY DEF AnnounceCommitted, ButNot, Restrict
<1>2. IsCache(taken) /\ Within(taken, cache) /\ temp \notin DOMAIN taken.entries
  BY RemovedLeaves DEF FeatureDeleted, CInv, Shape
<1> HIDE DEF taken
<1>3. /\ IsCache(cache')
      /\ \/ Within(cache', taken)
         \/ new \in DOMAIN features /\ Gains(cache', taken, new, Fetched(features[new]))
  BY <1>1, <1>2, OnFeatureAddedGains DEF CInv, Shape
<1>4. IsStored(new) /\ NewFids \cap DOMAIN cache.entries \subseteq DOMAIN committing
  BY <1>1 DEF CInv, AnnouncedAreGone, Committing
<1>5. NewFids \cap DOMAIN cache'.entries \subseteq DOMAIN committing'
  BY <1>1, <1>2, <1>3, <1>4 DEF Within, Gains, NewFids
<1>6. CASE Committing'
  <2>1. UNCHANGED features
    BY <1>6 DEF AnnounceCommitted
  <2>2. CInv'
    BY <1>1, <1>3, <1>5, <1>6, <2>1
       DEF CInv, Shape, AnnouncedAreGone, Committing, NewFids, IsReader, IsCache
  <2>3. Wrong' \subseteq Wrong
    BY <1>1, <1>2, <1>3, <2>1, Unspoiled DEF Within, Gains
  <2> QED
    BY <2>2, <2>3
<1>7. CASE ~Committing'
  <2>1. /\ DOMAIN features' = StoredNow
        /\ \A fid \in StoredNow : features'[fid] = features[fid]
    BY <1>7 DEF AnnounceCommitted, Restrict
  <2>2. Shape'
    BY <1>1, <1>3, <2>1 DEF CInv, Shape, StoredNow, IsReader, IsCache
  <2>3. NewFids \cap DOMAIN cache'.entries = {}
    BY <1>5, <1>7 DEF Committing
  <2>4. new \in DOMAIN features => new \in StoredNow
    BY <1>4 DEF StoredNow, NewFids
  <2>5. Wrong' \subseteq Wrong
    BY <1>1, <1>2, <1>3, <2>1, <2>3, <2>4, Unspoiled DEF Within, Gains, StoredNow
  <2> QED
    BY <1>7, <2>2, <2>5 DEF CInv, AnnouncedAreGone
<1> QED
  BY <1>6, <1>7

\* A step that concerns one iterator, or none, and keeps the cache in shape.
LEMMA ReaderStep ==
  ASSUME CInv, Idle, UNCHANGED <<config, layerVars, cachedAttributes>>,
         NEW r \in Readers \cup {Loader}, NEW reader, IsReader(reader),
         readers' = [readers EXCEPT ![r] = reader], IsCache(cache')
  PROVE  CInv'
<1>1. UNCHANGED <<features, gone, lastTemp, committing>>
  BY DEF layerVars
<1>2. /\ readers' = [q \in Readers \cup {Loader} |-> readers'[q]]
      /\ \A q \in Readers \cup {Loader} : IsReader(readers'[q])
  BY DEF CInv, Shape
<1> QED
  BY <1>1, <1>2 DEF CInv, Shape, AnnouncedAreGone, Idle, Committing, IsReader, IsCache

\* Iterators are made, and closed, in shape.
LEMMA NewReaders ==
  ASSUME Shape
  PROVE  /\ IsReader(NoReader)
         /\ \A fids : IsReader(CachedIterator(fids))
         /\ \A fids \in SUBSET DOMAIN features : IsReader(WriterIterator(fids))
<1>1. IsReader(NoReader) /\ \A fids : IsReader(CachedIterator(fids))
  BY DEF IsReader, NoReader, CachedIterator
<1>2. ASSUME NEW fids \in SUBSET DOMAIN features
      PROVE  IsReader(WriterIterator(fids))
  <2>1. \A fid \in fids : Fetched(features[fid]) \in Entry
    BY FetchedIsEntry DEF Shape
  <2> QED
    BY <2>1 DEF IsReader, WriterIterator
<1> QED
  BY <1>1, <1>2

\* An iterator moves on and stays in shape.
LEMMA AdvancedReader ==
  ASSUME Shape, NEW r \in Readers \cup {Loader}, NEW fid, Advances(r, fid)
  PROVE  \E reader : /\ IsReader(reader)
                     /\ readers' = [readers EXCEPT ![r] = reader]
                     /\ reader.left = readers[r].left \ {fid}
<1> DEFINE reader == [readers[r] EXCEPT !.left = readers[r].left \ {fid}]
<1>1. IsReader(readers[r])
  BY DEF Shape
<1>2. reader = [kind |-> readers[r].kind, left |-> readers[r].left \ {fid},
                fetched |-> readers[r].fetched]
  BY <1>1 DEF IsReader
<1>3. readers' = [readers EXCEPT ![r] = reader]
  BY Zenon DEF Advances
<1> HIDE DEF reader
<1>4. IsReader(reader)
  BY <1>1, <1>2 DEF IsReader
<1>5. reader.left = readers[r].left \ {fid}
  BY <1>2
<1> QED
  BY <1>3, <1>4, <1>5, Zenon

\* An iterator that writes what it fetched spoils an entry only if that is stale.
LEMMA FetchAndCacheStep ==
  ASSUME CInv, NEW r \in Readers \cup {Loader}, NEW fid, FetchAndCache(r, fid)
  PROVE  CInv' /\ \A f \in Wrong' \ Wrong : WrittenLate(f)
<1> DEFINE entry == readers[r].fetched[fid]
<1>1. /\ readers[r].kind = "writer" /\ fid \in readers[r].left /\ Idle
      /\ UNCHANGED <<config, layerVars, cachedAttributes>>
      /\ cache' = Inserted(cache, fid, entry)
  BY DEF FetchAndCache
<1>2. entry \in Entry
  BY <1>1 DEF CInv, Shape, IsReader
<1> HIDE DEF entry
<1>3. IsCache(cache') /\ Gains(cache', cache, fid, entry)
  BY <1>1, <1>2, InsertedGains DEF CInv, Shape
<1>4. PICK reader : /\ IsReader(reader)
                    /\ readers' = [readers EXCEPT ![r] = reader]
                    /\ reader.left = readers[r].left \ {fid}
  BY AdvancedReader DEF FetchAndCache, CInv
<1>5. CInv'
  BY <1>1, <1>3, <1>4, ReaderStep
<1>6. ASSUME NEW f \in Wrong', f \notin Wrong PROVE WrittenLate(f)
  <2>1. f = fid
    BY <1>1, <1>3, <1>6 DEF Wrong, Right, Gains, Fetched, layerVars
  <2>2. Stale(r, fid)
    BY <1>1, <1>3, <1>6, <2>1 DEF Wrong, Right, Gains, Fetched, layerVars, Stale, entry
  <2>3. fid \notin readers'[r].left
    BY <1>4 DEF CInv, Shape
  <2> QED
    BY <1>1, <2>1, <2>2, <2>3 DEF WrittenLate
<1> QED
  BY <1>5, <1>6

\* Iterators over the cache change the order of its entries at most.
LEMMA FetchCachedStep ==
  ASSUME CInv, NEW r \in Readers \cup {Loader}, NEW fid, FetchCached(r, fid)
  PROVE  CInv' /\ Wrong' \subseteq Wrong
<1>1. Idle /\ UNCHANGED <<config, layerVars, cachedAttributes>>
  BY DEF FetchCached
<1>2. IsCache(cache') /\ cache'.entries = cache.entries
  BY UsedLeaves DEF FetchCached, CInv, Shape
<1>3. CInv'
  BY <1>1, <1>2, AdvancedReader, ReaderStep DEF FetchCached, CInv
<1>4. Wrong' \subseteq Wrong
  BY <1>1, <1>2, Unspoiled DEF layerVars
<1> QED
  BY <1>3, <1>4

\* Loading starts with an iterator that knows the features of now.
LEMMA SetFullCacheStep ==
  ASSUME CInv, NEW full, SetFullCache(full)
  PROVE  CInv' /\ Wrong' \subseteq Wrong
<1>1. Idle /\ UNCHANGED <<config, layerVars, cachedAttributes>>
  BY DEF SetFullCache
<1>2. IsCache(cache') /\ Within(cache', cache)
  <2>1. CASE full
    BY <2>1, ResizedLeaves DEF SetFullCache, CInv, Shape
  <2>2. CASE ~full
    BY <2>2 DEF SetFullCache, CInv, Shape, IsCache, Within
  <2> QED
    BY <2>1, <2>2
<1>3. Wrong' \subseteq Wrong
  BY <1>1, <1>2, Unspoiled DEF layerVars, Within
<1>4. CASE full
  <2>1. IsReader(WriterIterator(DOMAIN features))
    BY NewReaders DEF CInv
  <2> QED
    BY <1>1, <1>2, <1>3, <1>4, <2>1, ReaderStep DEF SetFullCache
<1>5. CASE ~full
  BY <1>1, <1>2, <1>3, <1>5, CallerStep DEF SetFullCache
<1> QED
  BY <1>4, <1>5

\* Making and closing an iterator leaves the cache alone.
LEMMA GetFeaturesStep ==
  ASSUME CInv, NEW r \in Readers, NEW byId \in BOOLEAN, NEW fid,
         GetFeatures(r, byId, fid)
  PROVE  CInv' /\ Wrong' \subseteq Wrong
<1>1. Idle /\ UNCHANGED <<config, layerVars, cache, cachedAttributes>>
  BY DEF GetFeatures
<1>2. PICK reader : IsReader(reader) /\ readers' = [readers EXCEPT ![r] = reader]
  <2>1. {fid} \cap DOMAIN features \in SUBSET DOMAIN features
    OBVIOUS
  <2> QED
    BY <2>1, NewReaders DEF GetFeatures, CInv
<1>3. CInv'
  BY <1>1, <1>2, ReaderStep DEF CInv, Shape, IsCache
<1>4. Wrong' \subseteq Wrong
  BY <1>1, Unspoiled DEF layerVars
<1> QED
  BY <1>3, <1>4

\* Closing one, at its end or before it, does so too.
LEMMA CloseReaderStep ==
  ASSUME CInv, NEW r \in Readers \cup {Loader}, CloseReader(r)
  PROVE  CInv' /\ Wrong' \subseteq Wrong
<1>1. Idle /\ UNCHANGED <<config, layerVars, cache, cachedAttributes>>
  BY DEF CloseReader
<1>2. CInv'
  BY <1>1, NewReaders, ReaderStep DEF CloseReader, CInv, Shape, IsCache
<1>3. Wrong' \subseteq Wrong
  BY <1>1, Unspoiled DEF layerVars
<1> QED
  BY <1>2, <1>3

(***************************************************************************)
(* The theorems.                                                           *)
(***************************************************************************)

\* The cache is empty at first.
LEMMA InitCInv == Init => CInv
<1> SUFFICES ASSUME Init PROVE CInv
  OBVIOUS
<1>1. DOMAIN <<>> = {}
  OBVIOUS
<1>2. Shape
  <2>1. IsCache(cache) /\ DOMAIN gone = {}
    BY <1>1 DEF Init, EmptyMap, IsCache
  <2>2. \A fid \in DOMAIN features :
          fid \in Nat \ {0} /\ features[fid] \in Content
    BY CacheAssumption DEF Init, Content
  <2>3. IsReader(NoReader)
    BY DEF IsReader, NoReader
  <2>4. /\ readers = [r \in Readers \cup {Loader} |-> readers[r]]
        /\ \A r \in Readers \cup {Loader} : IsReader(readers[r])
    BY <2>3 DEF Init
  <2> QED
    BY <2>1, <2>2, <2>4 DEF Shape, Init
<1>3. ~Committing
  BY <1>1 DEF Init, Committing, EmptyMap
<1> QED
  BY <1>2, <1>3 DEF CInv, AnnouncedAreGone

\* Every step keeps the invariant, and spoils only what a late reader writes.
LEMMA NextKeepsCInv ==
  ASSUME CInv, [Next]_vars
  PROVE  CInv' /\ \A fid \in Wrong' \ Wrong : WrittenLate(fid)
<1> DEFINE Unspoiling == CInv' /\ Wrong' \subseteq Wrong
<1>0. IsCache(cache) /\ Within(cache, cache)
  BY DEF CInv, Shape, Within
<1>1. ASSUME AddFeature PROVE Unspoiling
  BY <1>1, AddFeatureStep
<1>2. ASSUME AddField \/ DeleteField PROVE Unspoiling
  BY <1>2, FieldStep
<1>3. ASSUME CommitChanges PROVE Unspoiling
  BY <1>3, CommitChangesStep
<1>4. ASSUME NEW fid \in Fids,
             DeleteFeature(fid) \/ BringBackFeature(fid) \/ AnnounceCommitted(fid)
      PROVE  Unspoiling
  BY <1>4, DeleteFeatureStep, BringBackFeatureStep, AnnounceCommittedStep
<1>5. ASSUME NEW fid \in Fids, NEW v \in Values,
             ChangeAttributeValue(fid, v) \/ ChangeGeometry(fid, v)
      PROVE  Unspoiling
  BY <1>5, ChangeAttributeValueStep, ChangeGeometryStep
<1>6. ASSUME NEW fid \in Fids, NEW skipCache \in BOOLEAN,
             CallFeatureAtId(fid, skipCache)
      PROVE  Unspoiling
  <2>1. LET d == FeatureAtId(cache, features, fid, skipCache)
        IN /\ IsCache(d)
           /\ \/ Within(d, cache)
              \/ fid \in DOMAIN features /\ Gains(d, cache, fid, Fetched(features[fid]))
    BY <1>0, FeatureAtIdGains DEF CInv, Shape
  <2> QED
    BY <1>6, <2>1, CallerStep DEF CallFeatureAtId
<1>7. ASSUME NEW fid \in Fids, RemoveCachedFeature(fid) PROVE Unspoiling
  BY <1>0, <1>7, RemovedLeaves, CallerStep DEF RemoveCachedFeature
<1>8. ASSUME NEW size \in CacheSizes, SetCacheSize(size) PROVE Unspoiling
  BY <1>0, <1>8, ResizedLeaves, CallerStep DEF SetCacheSize
<1>9. ASSUME NEW full \in BOOLEAN, SetFullCache(full) PROVE Unspoiling
  BY <1>9, SetFullCacheStep
<1>10. ASSUME NEW r \in Readers, NEW byId \in BOOLEAN, NEW fid \in Fids,
              GetFeatures(r, byId, fid)
       PROVE  Unspoiling
  BY <1>10, GetFeaturesStep
<1>11. ASSUME NEW r \in Readers \cup {Loader}, NEW fid \in Fids, FetchCached(r, fid)
       PROVE  Unspoiling
  BY <1>11, FetchCachedStep
<1>12. ASSUME NEW r \in Readers \cup {Loader}, NEW fid \in Fids, FetchAndCache(r, fid)
       PROVE  CInv' /\ \A f \in Wrong' \ Wrong : WrittenLate(f)
  BY <1>12, FetchAndCacheStep
<1>13. ASSUME NEW r \in Readers \cup {Loader}, CloseReader(r) PROVE Unspoiling
  BY <1>13, CloseReaderStep
<1>14. CASE UNCHANGED vars
  <2>1. CInv'
    BY <1>14 DEF vars, CInv, Shape, AnnouncedAreGone, Committing, NewFids,
                 IsCache, IsReader
  <2>2. Wrong' \subseteq Wrong
    BY <1>14, Unspoiled DEF vars
  <2> QED
    BY <2>1, <2>2
<1>15. ASSUME Unspoiling
       PROVE  CInv' /\ \A fid \in Wrong' \ Wrong : WrittenLate(fid)
  BY <1>15
<1> HIDE DEF Unspoiling
<1> QED
  BY <1>1, <1>2, <1>3, <1>4, <1>5, <1>6, <1>7, <1>8, <1>9, <1>10, <1>11, <1>12,
     <1>13, <1>14, <1>15 DEF Next

\* The invariant holds in every state.
THEOREM CacheInvariant == Spec => []CInv
<1>1. CInv /\ [Next]_vars => CInv'
  BY NextKeepsCInv
<1> QED
  BY InitCInv, <1>1, PTL DEF Spec

\* However the layer is edited, undone and committed, and whatever callers do,
\* an entry of the cache becomes wrong only when an iterator that was open
\* across the change writes it.
THEOREM EntriesStayRight == Spec => OnlyLateReadersSpoil
<1>1. CInv /\ [Next]_vars => [\A fid \in Wrong' \ Wrong : WrittenLate(fid)]_vars
  BY NextKeepsCInv
<1> QED
  BY CacheInvariant, <1>1, PTL DEF Spec, OnlyLateReadersSpoil

\* The width of the layer is a number.
WidthInv == width \in Nat /\ config \in Configurations

\* Steps other than those of fields leave fields alone.
LEMMA FieldsUnchanged ==
  ASSUME [Next]_vars, ~AddField, ~DeleteField
  PROVE  UNCHANGED <<config, width, cachedAttributes>>
BY DEF Next, vars, layerVars, AddFeature, CommitChanges, DeleteFeature,
       BringBackFeature, AnnounceCommitted, ChangeAttributeValue, ChangeGeometry,
       CallFeatureAtId, RemoveCachedFeature, GetFeatures, FetchAndCache,
       FetchCached, SetCacheSize, SetFullCache, CloseReader

\* A cache that covers every attribute keeps covering them while attributes are
\* added, deleted and restored, on layers without joins.
THEOREM AttributesStayCovered == Spec => NewAttributesCovered
<1>1. Init => WidthInv
  BY CacheAssumption DEF Init, WidthInv
<1>2. ASSUME WidthInv, [Next]_vars
      PROVE  /\ WidthInv'
             /\ config.joined = 0 /\ AllAttributesCovered => AllAttributesCovered'
  <2>1. CASE AddField
    <3>1. PICK index \in AnnouncedIndices :
            cachedAttributes' = cachedAttributes \cup {index}
      BY <2>1 DEF AddField
    <3>2. width' = width + 1 /\ config' = config
      BY <2>1 DEF AddField
    <3>3. ASSUME config.joined = 0, AllAttributesCovered
          PROVE  AllAttributesCovered'
      <4>1. width \in cachedAttributes \/ index = width
        BY <1>2, <3>3 DEF AnnouncedIndices, WidthInv
      <4> QED
        BY <1>2, <3>1, <3>2, <3>3, <4>1 DEF AllAttributesCovered, WidthInv
    <3> QED
      BY <1>2, <3>2, <3>3 DEF WidthInv
  <2>2. CASE DeleteField
    <3>1. /\ width' = width - 1 /\ UNCHANGED <<config, cachedAttributes>>
          /\ width > 1 + config.joined
      BY <2>2 DEF DeleteField
    <3>2. config.joined \in Nat
      BY <1>2, CacheAssumption DEF WidthInv
    <3> QED
      BY <1>2, <3>1, <3>2 DEF WidthInv, AllAttributesCovered
  <2>3. CASE ~AddField /\ ~DeleteField
    BY <1>2, <2>3, FieldsUnchanged DEF WidthInv, AllAttributesCovered
  <2> QED
    BY <2>1, <2>2, <2>3
<1>3. WidthInv /\ [Next]_vars
        => [config.joined = 0 /\ AllAttributesCovered => AllAttributesCovered']_vars
  BY <1>2
<1> QED
  BY <1>1, <1>2, <1>3, PTL DEF Spec, NewAttributesCovered
=============================================================================
