---------------------------- MODULE MCPeerRegistry ----------------------------
(* PeerRegistry for TLC. *)
EXTENDS PeerRegistry
===============================================================================
