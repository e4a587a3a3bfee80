------------------------- MODULE MCVectorLayerEditing -------------------------
(* Small instances of VectorLayerEditing for TLC.                          *)
EXTENDS VectorLayerEditing

Row(value, geom, width) == [attrs |-> [i \in 1..width |-> value], geom |-> geom]

MCNoFields == <<>>
MCOneJoin == <<"j">>
MCOneExpression == <<"e">>
MCStoredName == [name \in {"b", "c", "d"} |-> name]

\* One field, one feature.
MCOneRow ==
    [fields |-> <<"a">>, nextFid |-> 1,
     rows |-> [fid \in {0} |-> Row("v0", "g0", 1)]]

\* Two fields, one feature.
MCTwoFields ==
    [fields |-> <<"a", "b">>, nextFid |-> 2,
     rows |-> [fid \in {1} |-> Row("v0", "g0", 2)]]

MCFeatureEdits == {"addFeature", "deleteFeature", "changeGeometry",
                   "changeAttributeValue"}
MCFieldEdits == {"addFeature", "changeAttributeValue", "addAttribute",
                 "deleteAttribute"}

MCNoFailure == {{}}
MCDeleteAttributesFails == {{"deleteAttributes"}}
MCAnyStageFails == {{}} \cup {{stage} : stage \in Stages}

MCWholeMap == {{0}}
MCPanningMap == {{}, {0}}

=============================================================================
