-------------------------- MODULE MCVectorLayerCache --------------------------
(* Instances of VectorLayerCache for TLC. *)
EXTENDS VectorLayerCache

\* With geometries and an index; without either, on a layer with a join.
MCConfigurations ==
    {[geometry |-> TRUE, idIndex |-> TRUE, joined |-> 0],
     [geometry |-> FALSE, idIndex |-> FALSE, joined |-> 1]}

\* Features start with the first value and the first geometry.
MCNewContents == {[value |-> 0, geometry |-> 0]}
=============================================================================
