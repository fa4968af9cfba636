---------------------------- MODULE MCRelayServer ----------------------------
(* The instance of RelayServer for TLC. *)
EXTENDS RelayServer

CONSTANTS c1, c2, c3, s1, s2
=============================================================================
