--------------------------- MODULE MCDAppRequests ---------------------------
(* Instances of DAppRequests for TLC. *)
EXTENDS DAppRequests

\* The wallet grants operations, but no signatures.
Granting == {"operation_request"}
=============================================================================
