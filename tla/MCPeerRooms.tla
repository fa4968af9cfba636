----------------------------- MODULE MCPeerRooms -----------------------------
(* Instances of PeerRooms for TLC. *)
EXTENDS PeerRooms
=============================================================================
