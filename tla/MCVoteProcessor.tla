-------------------------- MODULE MCVoteProcessor --------------------------
(* Two connections, one of which sends more than it may.                   *)
EXTENDS VoteProcessor

CONSTANTS honest, busy

MCVotes ==
    {[connection |-> busy, block |-> 1], [connection |-> busy, block |-> 2],
     [connection |-> honest, block |-> 1]}

=============================================================================
