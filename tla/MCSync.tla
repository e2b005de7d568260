------------------------------- MODULE MCSync -------------------------------
(* Peers p1 and p2, the second one behind by a block when there are two.   *)
EXTENDS Sync

CONSTANTS p1, p2

MCPeerHeight == [p \in Peer |-> IF p = p1 THEN MaxHeight ELSE MaxHeight - 1]
=============================================================================
