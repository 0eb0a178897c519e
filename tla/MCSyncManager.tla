--------------------------- MODULE MCSyncManager ---------------------------
(* The instance of SyncManager for TLC: a peer with the whole chain and one *)
(* that is behind.  Up to its root the chain takes two ranges, and only the *)
(* first peer serves the second.                                            *)
EXTENDS SyncManager, TLC

CONSTANTS p1, p2

Roots == p1 :> 5 @@ p2 :> 3
Heads == p1 :> 6 @@ p2 :> 3
=============================================================================
