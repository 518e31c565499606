------------------------------ MODULE MCPeers -------------------------------
(***************************************************************************)
(* MCOne: one thread opens connections, and a peer connects to us.         *)
(* MCShared: two threads try the same address.                             *)
(***************************************************************************)
EXTENDS Peers

MCShared == [added |-> {"a"}, outbound |-> {"a"}]
MCOne == [outbound |-> {"a"}]
=============================================================================
