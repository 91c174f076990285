----------------------------- MODULE MCPeerTime -----------------------------
(***************************************************************************)
(* PeerTime for TLC: the numbers are in the configuration.                 *)
(***************************************************************************)
EXTENDS PeerTime

=============================================================================
