----------------------------- MODULE LayerMerge -----------------------------
(***************************************************************************)
(* What offline editing promises.  A layer is taken offline: its user gets *)
(* a copy.  The copy and the layer on the server are then edited apart,    *)
(* and synchronising merges the copy into the layer: what the user did to  *)
(* the copy arrives, what others did elsewhere stays.                      *)
(*                                                                         *)
(* A view of a layer is its number of fields and its features by name: a   *)
(* feature keeps its name wherever it is copied, its id does not.          *)
(***************************************************************************)
EXTENDS Integers

CONSTANTS
    Layers,
    Null           \* the value of a field that a feature does not have yet

VARIABLES
    server,        \* the layers on the server
    copy,          \* the copies
    base,          \* what the layers were when they were copied or merged last
    theirs         \* how many edits others made on the server

Attribute(feature, f) ==
    IF f \in DOMAIN feature.attrs THEN feature.attrs[f] ELSE Null

\* What was changed in the copy is merged; what was not may be replayed all
\* the same, when it was changed and changed back.
Merged(original, edited, other) ==
    IF edited # original THEN {edited} ELSE {edited, other}

IsMergeOfFeature(b, c, s, merged, fields) ==
    /\ merged.geom \in Merged(b.geom, c.geom, s.geom)
    /\ \A f \in 1..fields :
           merged.attrs[f] \in
               Merged(Attribute(b, f), Attribute(c, f), Attribute(s, f))

IsMerge(b, c, s, merged) ==
    LET deleted == DOMAIN b.rows \ DOMAIN c.rows
        new == DOMAIN c.rows \ DOMAIN b.rows
    IN  /\ merged.fields = c.fields
        /\ DOMAIN merged.rows = (DOMAIN s.rows \ deleted) \cup new
        /\ \A n \in DOMAIN merged.rows :
               IF n \in new THEN merged.rows[n] = c.rows[n]
               ELSE IF n \in DOMAIN b.rows
               THEN IsMergeOfFeature(b.rows[n], c.rows[n], s.rows[n],
                                     merged.rows[n], c.fields)
               ELSE /\ merged.rows[n].geom = s.rows[n].geom
                    /\ \A f \in DOMAIN s.rows[n].attrs :
                           merged.rows[n].attrs[f] = s.rows[n].attrs[f]

-----------------------------------------------------------------------------

Others(l, before, after) == \A m \in Layers \ {l} : after[m] = before[m]

Init == copy = base

TakeOffline(taken) ==
    /\ \A l \in taken : copy'[l] = server[l]
    /\ \A l \in Layers \ taken : copy'[l] = copy[l]
    /\ base' = copy'
    /\ UNCHANGED <<server, theirs>>

EditCopy(l) ==
    /\ Others(l, copy, copy')
    /\ UNCHANGED <<server, base, theirs>>

EditServer(l) ==
    /\ theirs' = theirs + 1
    /\ Others(l, server, server')
    /\ UNCHANGED <<copy, base>>

Synchronize(l) ==
    /\ IsMerge(base[l], copy[l], server[l], server'[l])
    /\ Others(l, server, server')
    /\ base' = [base EXCEPT ![l] = copy[l]]
    /\ UNCHANGED <<copy, theirs>>

Next ==
    \/ \E taken \in SUBSET Layers : TakeOffline(taken)
    \/ \E l \in Layers : EditCopy(l) \/ EditServer(l) \/ Synchronize(l)

Spec == Init /\ [][Next]_<<server, copy, base, theirs>>
=============================================================================
