-------------------------- MODULE MCDAppConnection --------------------------
(* Instances of DAppConnection for TLC. *)
EXTENDS DAppConnection
=============================================================================
