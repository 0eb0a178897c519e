--------------------------- MODULE VoteProcessor ---------------------------
(***************************************************************************)
(* vote_processor_t: a pool of threads that hands the votes of the network *)
(* to the blocks they are for.  Votes for blocks that are not known yet    *)
(* wait in an index until a block comes.                                   *)
(*                                                                         *)
(* One mutex guards the index, the counts and the last block, and it is    *)
(* let go while a block is looked up and a vote is aggregated.  A step of  *)
(* a thread goes from one of the places where the mutex is free to the     *)
(* next.  Waiting votes are visited in the order of a clock that may jump: *)
(* any of them may be the next one, and any may have become too old.       *)
(***************************************************************************)
EXTENDS Integers, FiniteSets

CONSTANTS
    Threads,
    Votes,                      \* the votes that come: records of a connection and a block
    MaxBlock,
    max_votes_per_connection,
    MaxNotices                  \* posted calls of process_any_queued at a time

Connections == {v.connection : v \in Votes}
Blocks == 1..MaxBlock

ASSUME VotesAssumption ==
    /\ IsFiniteSet(Votes) /\ MaxBlock \in Nat
    /\ Votes \subseteq [connection : Connections, block : Blocks]
    /\ max_votes_per_connection \in Nat /\ MaxNotices \in Nat \ {0}

VARIABLES
    known,          \* the blocks fetch_block_func finds
    lib,
    posted,         \* votes posted to the thread pool; queued_votes counts them
    notices,        \* posted calls of process_any_queued
    index,
    last_bsp,       \* 0 for none
    num_messages,
    thread,         \* what each thread is doing, and the votes it holds
    outcome         \* what has become of each vote

vars == << known, lib, posted, notices, index, last_bsp, num_messages, thread, outcome >>

NoVote == [block |-> 0]

Resting == [pc |-> "idle", vote |-> NoVote, caught_up |-> FALSE, scanning |-> FALSE, unprocessed |-> {}]

Init ==
    /\ known = {} /\ lib = 0
    /\ posted = {} /\ notices = 0
    /\ index = {} /\ last_bsp = 0
    /\ num_messages = [c \in Connections |-> 0]
    /\ thread = [t \in Threads |-> Resting]
    /\ outcome = [v \in Votes |-> "unsent"]

Ended(votes, how) == outcome' = [v \in Votes |-> IF v \in votes THEN how ELSE outcome[v]]

-----------------------------------------------------------------------------
(* What the other threads of the node do *)

(* A block comes to the fork database, and notify_new_block is called.     *)
AddBlock(b) ==
    /\ b \notin known /\ b > lib
    /\ notices < MaxNotices
    /\ known' = known \cup {b}
    /\ notices' = notices + 1
    /\ UNCHANGED << lib, posted, index, last_bsp, num_messages, thread, outcome >>

(* A block that none of the votes is for.                                  *)
AddOtherBlock ==
    /\ notices < MaxNotices
    /\ notices' = notices + 1
    /\ UNCHANGED << known, lib, posted, index, last_bsp, num_messages, thread, outcome >>

(* The blocks up to the LIB leave the fork database some time later.       *)
notify_lib(n) ==
    /\ n > lib
    /\ lib' = n
    /\ known' \in {known, {b \in known : b > n}}
    /\ UNCHANGED << posted, notices, index, last_bsp, num_messages, thread, outcome >>

process_vote_message(v) ==
    /\ outcome[v] = "unsent"
    /\ IF v.block <= lib
       THEN Ended({v}, "late") /\ UNCHANGED posted
       ELSE Ended({v}, "underway") /\ posted' = posted \cup {v}
    /\ UNCHANGED << known, lib, notices, index, last_bsp, num_messages, thread >>

-----------------------------------------------------------------------------
(* The steps of a thread *)

Rest(t) == thread' = [thread EXCEPT ![t] = Resting]

(* get_block, up to where it lets the mutex go.                            *)
Lookup(t, v, scanning, unprocessed) ==
    thread' = [thread EXCEPT ![t] =
        [pc |-> IF last_bsp = v.block THEN "found" ELSE "get_block", vote |-> v,
         caught_up |-> FALSE, scanning |-> scanning, unprocessed |-> unprocessed]]

(* remove_before_lib *)
before_lib(votes) == {v \in votes : v.block <= lib}

(* Mutant: a vote is looked at where it is. *)
erased_after(votes, v) == votes

erased(votes, v) == votes \ {v}

(* Mutant: the loop ends at the first vote whose block is not known. *)
loop_ends_at_unknown(votes, unprocessed) == votes = {} \/ unprocessed # {}

loop_ends(votes, unprocessed) == votes = {}

(* The loop of process_any_queued_for_later takes the next vote, or puts   *)
(* back those it could not process.                                        *)
NextQueued(t, votes, unprocessed) ==
    \/ /\ loop_ends(votes, unprocessed)
       /\ index' = votes \cup unprocessed
       /\ Rest(t)
    \/ /\ ~loop_ends(votes, unprocessed)
       /\ \E v \in votes :
            /\ index' = erased(votes, v)
            /\ Lookup(t, v, TRUE, unprocessed)

(* process_any_queued_for_later: remove_too_old, remove_before_lib and the *)
(* start of the loop.  done: votes that have just been aggregated.         *)
process_any_queued_for_later(t, done) ==
    \E old \in SUBSET index :
        LET gone == before_lib(index) \ old
        IN  /\ outcome' = [v \in Votes |-> IF v \in done THEN "aggregated"
                                           ELSE IF v \in old THEN "expired"
                                           ELSE IF v \in gone THEN "late"
                                           ELSE outcome[v]]
            /\ NextQueued(t, index \ (old \cup gone), {})

(* The posted call of notify_new_block.                                    *)
StartQueued(t) ==
    /\ thread[t].pc = "idle" /\ notices > 0
    /\ notices' = notices - 1
    /\ process_any_queued_for_later(t, {})
    /\ UNCHANGED << known, lib, posted, last_bsp, num_messages >>

(* process_vote counts the vote off queued_votes before it has the mutex.  *)
StartVote(t, v) ==
    /\ thread[t].pc = "idle" /\ v \in posted
    /\ posted' = posted \ {v}
    /\ IF v.block <= lib
       THEN Ended({v}, "late") /\ UNCHANGED thread
       ELSE /\ thread' = [thread EXCEPT ![t] =
                 [pc |-> "process_vote", vote |-> v, caught_up |-> posted' = {}, scanning |-> FALSE, unprocessed |-> {}]]
            /\ UNCHANGED outcome
    /\ UNCHANGED << known, lib, notices, index, last_bsp, num_messages >>

(* The first locked part of process_vote; a connection with too many votes *)
(* loses those that wait as well.                                          *)
CountVote(t) ==
    LET v == thread[t].vote
        counts == IF thread[t].caught_up /\ index = {} THEN [c \in Connections |-> 0] ELSE num_messages
        own == {w \in index : w.connection = v.connection}
    IN  /\ thread[t].pc = "process_vote"
        /\ num_messages' = [counts EXCEPT ![v.connection] = @ + 1]
        /\ \/ /\ num_messages'[v.connection] > max_votes_per_connection
              /\ index' = index \ own
              /\ Ended(own \cup {v}, "exceeded")
              /\ Rest(t)
           \/ /\ num_messages'[v.connection] <= max_votes_per_connection
              /\ Lookup(t, v, FALSE, {})
              /\ UNCHANGED << index, outcome >>
        /\ UNCHANGED << known, lib, posted, notices, last_bsp >>

(* fetch_block_func, without the mutex, and the update of last_bsp.        *)
GetBlock(t) ==
    LET v == thread[t].vote
    IN  /\ thread[t].pc = "get_block"
        /\ \/ /\ v.block \in known
              /\ last_bsp' = v.block
              /\ thread' = [thread EXCEPT ![t].pc = "found"]
           \/ /\ v.block \notin known
              /\ thread' = [thread EXCEPT ![t].pc = "missed"]
              /\ UNCHANGED last_bsp
        /\ UNCHANGED << known, lib, posted, notices, index, num_messages, outcome >>

(* A new vote for an unknown block: queue_for_later.                       *)
QueueForLater(t) ==
    LET v == thread[t].vote
    IN  /\ thread[t].pc = "missed" /\ ~thread[t].scanning
        /\ \E old \in SUBSET index :
              LET gone == before_lib(index) \ old
              IN  /\ index' = (index \ (old \cup gone)) \cup {v}
                  /\ outcome' = [w \in Votes |-> IF w \in old THEN "expired"
                                                 ELSE IF w \in gone THEN "late" ELSE outcome[w]]
        /\ Rest(t)
        /\ UNCHANGED << known, lib, posted, notices, last_bsp, num_messages >>

(* Mutant: the vote goes back to the index at once. *)
Unprocessed_put_back(t) ==
    /\ thread[t].pc = "missed" /\ thread[t].scanning
    /\ NextQueued(t, index \cup {thread[t].vote}, {})
    /\ UNCHANGED << known, lib, posted, notices, last_bsp, num_messages, outcome >>

(* A waiting vote whose block is still unknown is kept aside.              *)
Unprocessed(t) ==
    /\ thread[t].pc = "missed" /\ thread[t].scanning
    /\ NextQueued(t, index, thread[t].unprocessed \cup {thread[t].vote})
    /\ UNCHANGED << known, lib, posted, notices, last_bsp, num_messages, outcome >>

counted_off(counts, c) == [counts EXCEPT ![c] = IF @ # 0 THEN @ - 1 ELSE @]

(* The block aggregates the vote; then the waiting ones are looked at, or  *)
(* the loop over them goes on.                                             *)
Aggregate(t) ==
    LET v == thread[t].vote
    IN  /\ thread[t].pc = "found"
        /\ num_messages' = counted_off(num_messages, v.connection)
        /\ \/ /\ thread[t].scanning
              /\ Ended({v}, "aggregated")
              /\ NextQueued(t, index, thread[t].unprocessed)
           \/ /\ ~thread[t].scanning
              /\ process_any_queued_for_later(t, {v})
        /\ UNCHANGED << known, lib, posted, notices, last_bsp >>

ThreadStep(t) ==
    \/ StartQueued(t)
    \/ \E v \in Votes : StartVote(t, v)
    \/ CountVote(t)
    \/ GetBlock(t)
    \/ QueueForLater(t)
    \/ Unprocessed(t)
    \/ Aggregate(t)

Next ==
    \/ \E b \in Blocks : AddBlock(b) \/ notify_lib(b)
    \/ AddOtherBlock
    \/ \E v \in Votes : process_vote_message(v)
    \/ \E t \in Threads : ThreadStep(t)

(* Threads of a pool run, and the chain goes on: blocks keep coming.       *)
Spec ==
    /\ Init /\ [][Next]_vars
    /\ \A t \in Threads : WF_vars(ThreadStep(t))
    /\ WF_vars(AddOtherBlock)

-----------------------------------------------------------------------------
(* Properties *)

Holds(t) == thread[t].unprocessed \cup {thread[t].vote}

(* A vote that is underway is in one place: in the pool, in the index, or  *)
(* in the hands of one thread; and one that is done with is in none.  No   *)
(* vote is lost or aggregated twice because two threads go through the     *)
(* index at the same time and let the mutex go in between.  Nor do the     *)
(* counts of the connections, which are cleared while other threads are    *)
(* still to count votes off, go below zero or above the votes there are.   *)
OnePlace ==
    /\ \A c \in Connections : num_messages[c] \in 0..Cardinality({v \in Votes : v.connection = c})
    /\ \A v \in Votes :
        LET places == (IF v \in posted THEN {<< "pool" >>} ELSE {})
                        \cup (IF v \in index THEN {<< "index" >>} ELSE {})
                        \cup {<< t >> : t \in {u \in Threads : v \in Holds(u)}}
        IN  Cardinality(places) = IF outcome[v] = "underway" THEN 1 ELSE 0

(* A vote that waits for a block that has come, or that the LIB has        *)
(* passed, does not wait for ever, although the notice of the block may    *)
(* find the index empty while a thread holds the vote.                     *)
QueuedVotesLeave ==
    \A v \in Votes :
        (v \in index /\ (v.block \in known \/ v.block <= lib)) ~> (outcome[v] # "underway")

(* A thread that goes through the index comes to an end, although other    *)
(* threads put votes back meanwhile.                                       *)
ScansEnd == \A t \in Threads : (thread[t].pc # "idle") ~> (thread[t].pc = "idle")

=============================================================================
