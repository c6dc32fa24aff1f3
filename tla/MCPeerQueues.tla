----------------------------- MODULE MCPeerQueues -----------------------------
(* Small instances of PeerQueues for TLC. *)
EXTENDS PeerQueues
=============================================================================
