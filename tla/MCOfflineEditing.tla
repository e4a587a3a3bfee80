-------------------------- MODULE MCOfflineEditing --------------------------
(* Instances of OfflineEditing for TLC. *)
EXTENDS OfflineEditing
=============================================================================
