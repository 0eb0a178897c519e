------------------------ MODULE VoteProcessorProofs ------------------------
(***************************************************************************)
(* Proofs about VoteProcessor, for any number of threads and any votes: no *)
(* vote is lost or aggregated twice, and the counts of the connections     *)
(* stay within bounds.                                                     *)
(***************************************************************************)
EXTENDS VoteProcessor, FiniteSetTheorems, TLAPS

ThreadType ==
    [pc          : {"idle", "process_vote", "get_block", "found", "missed"},
     vote        : Votes \cup {NoVote},
     caught_up   : BOOLEAN,
     scanning    : BOOLEAN,
     unprocessed : SUBSET Votes]

Outcomes == {"unsent", "underway", "late", "expired", "exceeded", "aggregated"}

(* The votes in the hands of a thread in the state s. *)
InHand(s) == s.unprocessed \cup (IF s.pc = "idle" THEN {} ELSE {s.vote})

(* A thread holds a vote when it is not idle, and has votes set aside only *)
(* while it goes through the index.                                        *)
StateOK(s) ==
    /\ s \in ThreadType
    /\ s.pc = "idle" => s.vote = NoVote /\ s.unprocessed = {}
    /\ s.pc # "idle" => s.vote \in Votes /\ s.vote \notin s.unprocessed
    /\ ~s.scanning => s.unprocessed = {}
    /\ s.pc = "process_vote" => ~s.scanning

Shapes ==
    /\ posted \subseteq Votes
    /\ index \subseteq Votes
    /\ outcome \in [Votes -> Outcomes]
    /\ DOMAIN thread = Threads /\ thread = [t \in Threads |-> thread[t]]
    /\ \A t \in Threads : StateOK(thread[t])

(* The pool, the index and the hands of the threads have no vote in        *)
(* common, and hold the votes that are underway.                           *)
Placed ==
    /\ posted \cap index = {}
    /\ \A t \in Threads : InHand(thread[t]) \cap (posted \cup index) = {}
    /\ \A t, u \in Threads : t # u => InHand(thread[t]) \cap InHand(thread[u]) = {}
    /\ \A v \in Votes :
          outcome[v] = "underway" <=>
              (v \in posted \/ v \in index \/ \E t \in Threads : v \in InHand(thread[t]))

(* The votes that CountVote may have counted for a connection. *)
Seen(v) ==
    /\ outcome[v] # "unsent"
    /\ v \notin posted
    /\ \A t \in Threads : thread[t].pc = "process_vote" => thread[t].vote # v

SeenOf(c) == {v \in Votes : v.connection = c /\ Seen(v)}

Bounded ==
    /\ num_messages \in [Connections -> Nat]
    /\ \A c \in Connections : num_messages[c] <= Cardinality(SeenOf(c))

(* The inductive invariant. *)
IInv == Shapes /\ Placed /\ Bounded

-----------------------------------------------------------------------------
(* No vote is the one an idle thread has.                                  *)
LEMMA NoVoteIsNone == NoVote \notin Votes
<1>1. \A v \in Votes : v.block # 0
    BY VotesAssumption DEF Blocks
<1>2. NoVote.block = 0
    BY DEF NoVote
<1>3. QED
    BY <1>1, <1>2

(* An idle thread holds nothing.                                           *)
LEMMA RestingOK == StateOK(Resting) /\ InHand(Resting) = {}
<1>1. Resting \in ThreadType
    BY DEF Resting, ThreadType
<1>2. QED
    BY <1>1 DEF Resting, StateOK, InHand

(* The states of a thread that looks for the block of a vote: of a waiting *)
(* one, and of a new one.                                                  *)
ScanState(pc, v, unprocessed) ==
    [pc |-> pc, vote |-> v, caught_up |-> FALSE, scanning |-> TRUE, unprocessed |-> unprocessed]

NewState(pc, v) ==
    [pc |-> pc, vote |-> v, caught_up |-> FALSE, scanning |-> FALSE, unprocessed |-> {}]

(* A thread in the loop over the index holds the vote it looks at and      *)
(* those it has set aside.                                                 *)
LEMMA ScanStateOK ==
    ASSUME NEW v \in Votes, NEW unprocessed \in SUBSET Votes, v \notin unprocessed,
           NEW pc \in {"found", "get_block", "missed"}
    PROVE  /\ StateOK(ScanState(pc, v, unprocessed))
           /\ InHand(ScanState(pc, v, unprocessed)) = unprocessed \cup {v}
           /\ ScanState(pc, v, unprocessed).pc = pc
<1> DEFINE s == ScanState(pc, v, unprocessed)
<1>1. s \in ThreadType
    BY DEF ThreadType, ScanState
<1>2. s.pc = pc /\ s.vote = v /\ s.unprocessed = unprocessed /\ s.scanning
    BY DEF ScanState
<1> HIDE DEF s
<1>3. StateOK(s)
    BY <1>1, <1>2 DEF StateOK
<1>4. InHand(s) = unprocessed \cup {v}
    BY <1>2 DEF InHand
<1>5. QED
    BY <1>2, <1>3, <1>4, Zenon DEF s

(* A thread with a new vote, counted, holds that vote alone.               *)
LEMMA NewStateOK ==
    ASSUME NEW v \in Votes, NEW pc \in {"found", "get_block", "missed"}
    PROVE  /\ StateOK(NewState(pc, v))
           /\ InHand(NewState(pc, v)) = {v}
           /\ NewState(pc, v).pc = pc
<1> DEFINE s == NewState(pc, v)
<1>1. s \in ThreadType
    BY DEF ThreadType, NewState
<1>2. s.pc = pc /\ s.vote = v /\ s.unprocessed = {} /\ ~s.scanning
    BY DEF NewState
<1> HIDE DEF s
<1>3. StateOK(s)
    BY <1>1, <1>2 DEF StateOK
<1>4. InHand(s) = {v}
    BY <1>2 DEF InHand
<1>5. QED
    BY <1>2, <1>3, <1>4, Zenon DEF s

(* What a thread holds is underway, and nowhere else. *)
LEMMA HandFacts ==
    ASSUME Shapes, Placed, NEW t \in Threads
    PROVE  /\ outcome \in [Votes -> Outcomes]
           /\ posted \cap index = {}
           /\ InHand(thread[t]) \cap (posted \cup index) = {}
           /\ \A v \in posted \cup index \cup InHand(thread[t]) : v \in Votes /\ outcome[v] = "underway"
<1>1. StateOK(thread[t]) /\ posted \subseteq Votes /\ index \subseteq Votes /\ outcome \in [Votes -> Outcomes]
    BY DEF Shapes
<1>2. InHand(thread[t]) \subseteq Votes
    BY <1>1 DEF StateOK, InHand, ThreadType
<1>3. QED
    BY <1>1, <1>2 DEF Placed

(* One thread moves votes between the pool, the index and its hands, or    *)
(* ends them.                                                              *)
LEMMA Moves ==
    ASSUME Shapes, Placed, NEW t \in Threads,
           DOMAIN thread' = Threads, thread' = [u \in Threads |-> thread'[u]],
           \A u \in Threads \ {t} : thread'[u] = thread[u],
           StateOK(thread'[t]),
           outcome' \in [Votes -> Outcomes],
           posted' \cap index' = {},
           InHand(thread'[t]) \cap (posted' \cup index') = {},
           posted' \cup index' \cup InHand(thread'[t]) \subseteq posted \cup index \cup InHand(thread[t]),
           \A v \in posted \cup index \cup InHand(thread[t]) :
              outcome'[v] = "underway" <=> v \in posted' \cup index' \cup InHand(thread'[t]),
           \A v \in Votes : v \notin posted \cup index \cup InHand(thread[t]) => outcome'[v] = outcome[v]
    PROVE  Shapes' /\ Placed'
<1> DEFINE mine == posted \cup index \cup InHand(thread[t])
           then == posted' \cup index' \cup InHand(thread'[t])
<1>1. mine \subseteq Votes
    BY DEF Shapes, StateOK, InHand, ThreadType
<1>2. Shapes'
    BY <1>1 DEF Shapes
<1>3. \A u \in Threads \ {t} : InHand(thread'[u]) = InHand(thread[u]) /\ InHand(thread[u]) \cap mine = {}
    BY DEF Placed
<1>4. \A u \in Threads \ {t} : InHand(thread'[u]) \cap then = {}
    BY <1>3
<1>5. \A u \in Threads : InHand(thread'[u]) \cap (posted' \cup index') = {}
    BY <1>4
<1>6. \A u, w \in Threads : u # w => InHand(thread'[u]) \cap InHand(thread'[w]) = {}
    <2>1. ASSUME NEW u \in Threads, NEW w \in Threads, u # w, u # t, w # t
          PROVE  InHand(thread'[u]) \cap InHand(thread'[w]) = {}
        BY <1>3, <2>1 DEF Placed
    <2>2. QED
        BY <1>4, <2>1
<1>7. ASSUME NEW v \in Votes
      PROVE  outcome'[v] = "underway" <=>
                 (v \in posted' \/ v \in index' \/ \E u \in Threads : v \in InHand(thread'[u]))
    <2>1. CASE v \in mine
        <3>1. outcome'[v] = "underway" <=> v \in then
            BY <2>1
        <3>2. \A u \in Threads \ {t} : v \notin InHand(thread'[u])
            BY <1>3, <2>1
        <3>3. QED
            BY <3>1, <3>2
    <2>2. CASE v \notin mine
        <3>1. outcome'[v] = outcome[v] /\ v \notin then
            BY <2>2
        <3>2. outcome[v] = "underway" <=> \E u \in Threads \ {t} : v \in InHand(thread[u])
            BY <2>2 DEF Placed
        <3>3. QED
            BY <1>3, <3>1, <3>2
    <2>3. QED
        BY <2>1, <2>2
<1>8. Placed'
    BY <1>5, <1>6, <1>7 DEF Placed
<1>9. QED
    BY <1>2, <1>8

(* The loop over the index takes a vote or puts back those set aside.      *)
LEMMA NextQueuedMoves ==
    ASSUME Shapes, NEW t \in Threads, NEW votes \in SUBSET Votes, NEW unprocessed \in SUBSET Votes,
           votes \cap unprocessed = {}, NextQueued(t, votes, unprocessed)
    PROVE  /\ DOMAIN thread' = Threads /\ thread' = [u \in Threads |-> thread'[u]]
           /\ \A u \in Threads \ {t} : thread'[u] = thread[u]
           /\ StateOK(thread'[t])
           /\ thread'[t].pc # "process_vote"
           /\ InHand(thread'[t]) \cap index' = {}
           /\ index' \cup InHand(thread'[t]) = votes \cup unprocessed
<1>1. CASE votes = {} /\ index' = votes \cup unprocessed /\ Rest(t)
    <2>1. /\ DOMAIN thread' = Threads /\ thread' = [u \in Threads |-> thread'[u]]
          /\ \A u \in Threads \ {t} : thread'[u] = thread[u]
          /\ thread'[t] = Resting
        BY <1>1 DEF Rest, Shapes
    <2>2. thread'[t].pc # "process_vote"
        BY <2>1 DEF Resting
    <2>3. QED
        BY <1>1, <2>1, <2>2, RestingOK
<1>2. ASSUME NEW v \in votes, index' = votes \ {v}, Lookup(t, v, TRUE, unprocessed)
      PROVE  /\ DOMAIN thread' = Threads /\ thread' = [u \in Threads |-> thread'[u]]
             /\ \A u \in Threads \ {t} : thread'[u] = thread[u]
             /\ StateOK(thread'[t])
             /\ thread'[t].pc # "process_vote"
             /\ InHand(thread'[t]) \cap index' = {}
             /\ index' \cup InHand(thread'[t]) = votes \cup unprocessed
    <2>1. PICK pc \in {"found", "get_block", "missed"} :
              thread' = [thread EXCEPT ![t] = ScanState(pc, v, unprocessed)]
        BY <1>2, Zenon DEF Lookup, ScanState
    <2>2. /\ DOMAIN thread' = Threads /\ thread' = [u \in Threads |-> thread'[u]]
          /\ \A u \in Threads \ {t} : thread'[u] = thread[u]
          /\ thread'[t] = ScanState(pc, v, unprocessed)
        BY <2>1, Zenon DEF Shapes
    <2>3. v \in Votes /\ v \notin unprocessed
        OBVIOUS
    <2>4. StateOK(thread'[t]) /\ InHand(thread'[t]) = unprocessed \cup {v} /\ thread'[t].pc = pc
        BY <2>2, <2>3, ScanStateOK
    <2>5. thread'[t].pc # "process_vote"
        BY <2>4
    <2>6. QED
        BY <1>2, <2>2, <2>3, <2>4, <2>5, Zenon
<1>3. QED
    BY <1>1, <1>2, Zenon DEF NextQueued, loop_ends, erased

-----------------------------------------------------------------------------
(* A vote that was counted stays one that may have been counted. *)
SeenKept == \A v \in Votes : Seen(v) => Seen(v)'

(* A step of one thread that takes no vote back keeps the counted ones.    *)
LEMMA KeepsSeen ==
    ASSUME NEW t \in Threads,
           \A u \in Threads \ {t} : thread'[u] = thread[u],
           posted' \subseteq posted,
           \A v \in Votes : outcome'[v] = "unsent" => outcome[v] = "unsent",
           thread'[t].pc = "process_vote" => thread'[t].vote \in posted
    PROVE  SeenKept
<1> SUFFICES ASSUME NEW v \in Votes, Seen(v) PROVE Seen(v)'
    BY DEF SeenKept
<1>1. outcome'[v] # "unsent" /\ v \notin posted'
    BY DEF Seen
<1>2. ASSUME NEW u \in Threads, thread'[u].pc = "process_vote" PROVE thread'[u].vote # v
    <2>1. CASE u = t
        BY <1>2, <2>1 DEF Seen
    <2>2. CASE u # t
        BY <1>2, <2>2 DEF Seen
    <2>3. QED
        BY <2>1, <2>2
<1>3. QED
    BY <1>1, <1>2 DEF Seen

(* process_any_queued_for_later: the votes that are too old or that the    *)
(* LIB has passed end, and the thread takes the first of the others.       *)
LEMMA QueuedStep ==
    ASSUME Shapes, Placed, NEW t \in Threads, NEW done, InHand(thread[t]) = done, posted' = posted,
           process_any_queued_for_later(t, done)
    PROVE  Shapes' /\ Placed' /\ SeenKept
<1>1. PICK old \in SUBSET index :
         /\ outcome' = [v \in Votes |-> IF v \in done THEN "aggregated"
                                        ELSE IF v \in old THEN "expired"
                                        ELSE IF v \in before_lib(index) \ old THEN "late"
                                        ELSE outcome[v]]
         /\ NextQueued(t, index \ (old \cup (before_lib(index) \ old)), {})
    BY Zenon DEF process_any_queued_for_later
<1> DEFINE gone == before_lib(index) \ old
           rest == index \ (old \cup gone)
<1>2. gone \subseteq index /\ rest \subseteq index /\ index \subseteq Votes
    BY DEF before_lib, Shapes
<1>3. NextQueued(t, rest, {})
    BY <1>1
<1>4. done \subseteq Votes /\ posted \subseteq Votes
    BY DEF Shapes, StateOK, InHand, ThreadType
<1>5. outcome' = [v \in Votes |-> IF v \in done THEN "aggregated"
                                  ELSE IF v \in old THEN "expired"
                                  ELSE IF v \in gone THEN "late"
                                  ELSE outcome[v]]
    BY <1>1
<1> HIDE DEF gone
<1>6. old \cup gone \cup rest = index /\ rest \cap (old \cup gone) = {}
    BY <1>2
<1> HIDE DEF rest
<1>7. /\ DOMAIN thread' = Threads /\ thread' = [u \in Threads |-> thread'[u]]
      /\ \A u \in Threads \ {t} : thread'[u] = thread[u]
      /\ StateOK(thread'[t])
      /\ thread'[t].pc # "process_vote"
      /\ InHand(thread'[t]) \cap index' = {}
      /\ index' \cup InHand(thread'[t]) = rest
    <2>1. rest \in SUBSET Votes /\ {} \in SUBSET Votes /\ rest \cap {} = {} /\ rest \cup {} = rest
        BY <1>2
    <2>2. QED
        BY <1>3, <2>1, NextQueuedMoves, ZenonT(30)
<1>8. posted \cap index = {} /\ done \cap (posted \cup index) = {}
    BY DEF Placed
<1>9. \A v \in Votes : outcome[v] \in Outcomes /\ (v \in posted \cup index => outcome[v] = "underway")
    BY DEF Shapes, Placed
<1>10. outcome' \in [Votes -> Outcomes]
    BY <1>5, <1>9 DEF Outcomes
<1>11. ASSUME NEW v \in posted \cup index \cup done
       PROVE  outcome'[v] = "underway" <=> v \in posted' \cup index' \cup InHand(thread'[t])
    <2>1. v \in Votes
        BY <1>2, <1>4
    <2>2. CASE v \in done
        BY <1>5, <1>6, <1>7, <1>8, <2>1, <2>2
    <2>3. CASE v \in posted
        <3>1. outcome'[v] = outcome[v]
            BY <1>5, <1>6, <1>8, <2>1, <2>3
        <3>2. QED
            BY <1>9, <2>1, <2>3, <3>1
    <2>4. CASE v \in rest
        <3>1. outcome'[v] = outcome[v]
            BY <1>2, <1>5, <1>6, <1>8, <2>1, <2>4
        <3>2. QED
            BY <1>2, <1>7, <1>9, <2>1, <2>4, <3>1
    <2>5. CASE v \in old \cup gone
        <3>1. outcome'[v] # "underway"
            BY <1>5, <2>1, <2>5
        <3>2. v \notin posted' \cup index' \cup InHand(thread'[t])
            BY <1>6, <1>7, <1>8, <2>5
        <3>3. QED
            BY <3>1, <3>2
    <2>6. QED
        BY <1>6, <2>2, <2>3, <2>4, <2>5
<1>12. \A v \in Votes : v \notin posted \cup index \cup done => outcome'[v] = outcome[v]
    BY <1>2, <1>5, <1>6
<1>13. /\ posted' \cap index' = {}
       /\ InHand(thread'[t]) \cap (posted' \cup index') = {}
       /\ posted' \cup index' \cup InHand(thread'[t]) \subseteq posted \cup index \cup InHand(thread[t])
    BY <1>2, <1>7, <1>8
<1>14. Shapes' /\ Placed'
    BY <1>7, <1>10, <1>11, <1>12, <1>13, Moves
<1>15. \A v \in Votes : outcome'[v] = "unsent" => outcome[v] = "unsent"
    BY <1>5
<1>16. SeenKept
    BY <1>7, <1>15, KeepsSeen
<1>17. QED
    BY <1>14, <1>16

-----------------------------------------------------------------------------
(* The steps of a thread *)

(* The posted call of notify_new_block keeps every vote in one place.      *)
LEMMA StartQueuedStep ==
    ASSUME IInv, NEW t \in Threads, StartQueued(t)
    PROVE  Shapes' /\ Placed' /\ SeenKept
<1>1. Shapes /\ Placed /\ StateOK(thread[t]) /\ thread[t].pc = "idle"
    BY DEF IInv, Shapes, StartQueued
<1>2. InHand(thread[t]) = {}
    BY <1>1 DEF InHand, StateOK
<1>3. process_any_queued_for_later(t, {}) /\ posted' = posted
    BY Zenon DEF StartQueued
<1>4. QED
    BY <1>1, <1>2, <1>3, QueuedStep

(* So does the start of process_vote, which takes the vote from the pool;  *)
LEMMA StartVoteStep ==
    ASSUME IInv, NEW t \in Threads, NEW v \in Votes, StartVote(t, v)
    PROVE  Shapes' /\ Placed' /\ SeenKept
<1>1. /\ Shapes /\ Placed /\ StateOK(thread[t])
      /\ thread[t].pc = "idle" /\ v \in posted
      /\ posted' = posted \ {v} /\ index' = index
      /\ posted \subseteq Votes /\ index \subseteq Votes
    BY DEF IInv, Shapes, StartVote
<1>2. InHand(thread[t]) = {}
    BY <1>1 DEF InHand, StateOK
<1>3. posted \cap index = {}
    BY <1>1 DEF Placed
<1>4. /\ outcome \in [Votes -> Outcomes]
      /\ \A w \in posted \cup index : outcome[w] = "underway"
    BY <1>1 DEF Shapes, Placed
<1>5. CASE v.block <= lib /\ Ended({v}, "late") /\ UNCHANGED thread
    <2>1. /\ outcome' \in [Votes -> Outcomes]
          /\ outcome'[v] = "late"
          /\ \A w \in Votes : w # v => outcome'[w] = outcome[w]
        BY <1>4, <1>5 DEF Ended, Outcomes
    <2>2. /\ DOMAIN thread' = Threads /\ thread' = [u \in Threads |-> thread'[u]]
          /\ \A u \in Threads \ {t} : thread'[u] = thread[u]
          /\ thread'[t] = thread[t]
        BY <1>1, <1>5 DEF Shapes
    <2>3. Shapes' /\ Placed'
        <3>1. \A w \in posted \cup index \cup InHand(thread[t]) :
                 outcome'[w] = "underway" <=> w \in posted' \cup index' \cup InHand(thread'[t])
            BY <1>1, <1>2, <1>3, <1>4, <2>1, <2>2
        <3>2. QED
            BY <1>1, <1>2, <1>3, <2>1, <2>2, <3>1, Moves
    <2>4. SeenKept
        <3>1. \A w \in Votes : outcome'[w] = "unsent" => outcome[w] = "unsent"
            BY <2>1
        <3>2. QED
            BY <1>1, <2>2, <3>1, KeepsSeen
    <2>5. QED
        BY <2>3, <2>4
<1>6. CASE /\ UNCHANGED outcome
           /\ thread' = [thread EXCEPT ![t] =
                 [pc |-> "process_vote", vote |-> v, caught_up |-> posted' = {}, scanning |-> FALSE, unprocessed |-> {}]]
    <2>1. PICK b \in BOOLEAN :
              thread' = [thread EXCEPT ![t] =
                 [pc |-> "process_vote", vote |-> v, caught_up |-> b, scanning |-> FALSE, unprocessed |-> {}]]
        BY <1>6, Zenon
    <2> DEFINE s == [pc |-> "process_vote", vote |-> v, caught_up |-> b, scanning |-> FALSE, unprocessed |-> {}]
    <2>2. s \in ThreadType
        BY DEF ThreadType
    <2>3. s.pc = "process_vote" /\ s.vote = v /\ s.unprocessed = {} /\ ~s.scanning
        OBVIOUS
    <2> HIDE DEF s
    <2>4. StateOK(s) /\ InHand(s) = {v}
        BY <2>2, <2>3 DEF StateOK, InHand
    <2>5. /\ DOMAIN thread' = Threads /\ thread' = [u \in Threads |-> thread'[u]]
          /\ \A u \in Threads \ {t} : thread'[u] = thread[u]
          /\ thread'[t] = s
        BY <1>1, <2>1, Zenon DEF Shapes, s
    <2>6. Shapes' /\ Placed'
        <3>1. \A w \in posted \cup index \cup InHand(thread[t]) :
                 outcome'[w] = "underway" <=> w \in posted' \cup index' \cup InHand(thread'[t])
            BY <1>1, <1>2, <1>4, <1>6, <2>4, <2>5, Zenon
        <3>2. outcome' \in [Votes -> Outcomes] /\ \A w \in Votes : outcome'[w] = outcome[w]
            BY <1>4, <1>6
        <3>3. QED
            BY <1>1, <1>2, <1>3, <2>4, <2>5, <3>1, <3>2, Moves
    <2>7. SeenKept
        BY <1>1, <1>6, <2>3, <2>5, KeepsSeen
    <2>8. QED
        BY <2>6, <2>7
<1>7. QED
    BY <1>5, <1>6, Zenon DEF StartVote

(* the fetch of the block, without the mutex;                              *)
LEMMA GetBlockStep ==
    ASSUME IInv, NEW t \in Threads, GetBlock(t)
    PROVE  Shapes' /\ Placed' /\ SeenKept
<1>1. /\ Shapes /\ Placed /\ StateOK(thread[t]) /\ thread[t].pc = "get_block"
      /\ posted' = posted /\ index' = index /\ outcome' = outcome
    BY DEF IInv, Shapes, GetBlock
<1>2. PICK pc \in {"found", "missed"} : thread' = [thread EXCEPT ![t].pc = pc]
    BY Zenon DEF GetBlock
<1>3. /\ DOMAIN thread' = Threads /\ thread' = [u \in Threads |-> thread'[u]]
      /\ \A u \in Threads \ {t} : thread'[u] = thread[u]
      /\ thread'[t] = [thread[t] EXCEPT !.pc = pc]
    BY <1>1, <1>2 DEF Shapes
<1>4. /\ thread'[t] \in ThreadType
      /\ thread'[t].pc = pc /\ thread'[t].vote = thread[t].vote
      /\ thread'[t].unprocessed = thread[t].unprocessed
      /\ thread'[t].scanning <=> thread[t].scanning
    BY <1>1, <1>3 DEF StateOK, ThreadType
<1>5. StateOK(thread'[t]) /\ InHand(thread'[t]) = InHand(thread[t])
    BY <1>1, <1>4 DEF StateOK, InHand
<1>6. Shapes' /\ Placed'
    <2>1. /\ outcome' \in [Votes -> Outcomes]
          /\ posted' \cap index' = {}
          /\ InHand(thread'[t]) \cap (posted' \cup index') = {}
          /\ \A v \in posted \cup index \cup InHand(thread[t]) : v \in Votes /\ outcome[v] = "underway"
        BY <1>1, <1>5, HandFacts
    <2>2. /\ \A v \in posted \cup index \cup InHand(thread[t]) :
                outcome'[v] = "underway" <=> v \in posted' \cup index' \cup InHand(thread'[t])
          /\ posted' \cup index' \cup InHand(thread'[t]) \subseteq posted \cup index \cup InHand(thread[t])
          /\ \A v \in Votes : v \notin posted \cup index \cup InHand(thread[t]) => outcome'[v] = outcome[v]
        BY <1>1, <1>5, <2>1
    <2>3. QED
        BY <1>1, <1>3, <1>5, <2>1, <2>2, Moves, Zenon
<1>7. SeenKept
    BY <1>1, <1>3, <1>4, KeepsSeen, Zenon
<1>8. QED
    BY <1>6, <1>7

(* What a busy thread holds: its vote and the votes set aside. *)
LEMMA BusyHand ==
    ASSUME Shapes, NEW t \in Threads, thread[t].pc # "idle"
    PROVE  /\ thread[t].vote \in Votes
           /\ thread[t].unprocessed \in SUBSET Votes
           /\ thread[t].vote \notin thread[t].unprocessed
           /\ InHand(thread[t]) = thread[t].unprocessed \cup {thread[t].vote}
           /\ ~thread[t].scanning => InHand(thread[t]) = {thread[t].vote}
<1>1. StateOK(thread[t])
    BY DEF Shapes
<1>2. InHand(thread[t]) = thread[t].unprocessed \cup {thread[t].vote}
    BY DEF InHand
<1>3. QED
    BY <1>1, <1>2 DEF StateOK, ThreadType

(* the first locked part of process_vote, which drops the waiting votes of *)
(* a connection that sends too many;                                       *)
LEMMA CountVoteStep ==
    ASSUME IInv, NEW t \in Threads, CountVote(t)
    PROVE  Shapes' /\ Placed' /\ SeenKept
<1> DEFINE v   == thread[t].vote
           own == {w \in index : w.connection = v.connection}
<1>1. /\ Shapes /\ Placed /\ StateOK(thread[t])
      /\ thread[t].pc = "process_vote" /\ thread[t].pc # "idle"
      /\ posted' = posted
    BY DEF IInv, Shapes, CountVote
<1>2. InHand(thread[t]) = {v} /\ v \in Votes
    BY <1>1, BusyHand DEF StateOK
<1>3. /\ outcome \in [Votes -> Outcomes]
      /\ posted \cap index = {}
      /\ v \notin posted \cup index
      /\ \A w \in posted \cup index \cup {v} : w \in Votes /\ outcome[w] = "underway"
    BY <1>1, <1>2, HandFacts
<1> HIDE DEF v
<1>4. CASE index' = index \ own /\ Ended(own \cup {v}, "exceeded") /\ Rest(t)
    <2>1. own \subseteq index
        OBVIOUS
    <2> HIDE DEF own
    <2>2. /\ outcome' \in [Votes -> Outcomes]
          /\ \A w \in Votes : outcome'[w] = IF w \in own \cup {v} THEN "exceeded" ELSE outcome[w]
        BY <1>3, <1>4 DEF Ended, Outcomes
    <2>3. /\ DOMAIN thread' = Threads /\ thread' = [u \in Threads |-> thread'[u]]
          /\ \A u \in Threads \ {t} : thread'[u] = thread[u]
          /\ thread'[t] = Resting
        BY <1>1, <1>4 DEF Rest, Shapes
    <2>4. StateOK(thread'[t]) /\ InHand(thread'[t]) = {}
        BY <2>3, RestingOK
    <2>5. \A w \in posted \cup index \cup InHand(thread[t]) :
             outcome'[w] = "underway" <=> w \in posted' \cup index' \cup InHand(thread'[t])
        BY <1>1, <1>2, <1>3, <1>4, <2>1, <2>2, <2>4
    <2>6. \A w \in Votes : w \notin posted \cup index \cup InHand(thread[t]) => outcome'[w] = outcome[w]
        BY <1>2, <2>1, <2>2
    <2>7. /\ posted' \cap index' = {}
          /\ InHand(thread'[t]) \cap (posted' \cup index') = {}
          /\ posted' \cup index' \cup InHand(thread'[t]) \subseteq posted \cup index \cup InHand(thread[t])
        BY <1>1, <1>3, <1>4, <2>4
    <2>8. Shapes' /\ Placed'
        BY <1>1, <2>2, <2>3, <2>4, <2>5, <2>6, <2>7, Moves
    <2>9. \A w \in Votes : outcome'[w] = "unsent" => outcome[w] = "unsent"
        BY <2>2
    <2>10. thread'[t].pc # "process_vote"
        BY <2>3 DEF Resting
    <2>11. SeenKept
        BY <1>1, <2>3, <2>9, <2>10, KeepsSeen
    <2>12. QED
        BY <2>8, <2>11
<1>5. CASE index' = index /\ outcome' = outcome /\ Lookup(t, v, FALSE, {})
    <2>1. PICK pc \in {"found", "get_block", "missed"} : thread' = [thread EXCEPT ![t] = NewState(pc, v)]
        BY <1>5, Zenon DEF Lookup, NewState
    <2>2. /\ DOMAIN thread' = Threads /\ thread' = [u \in Threads |-> thread'[u]]
          /\ \A u \in Threads \ {t} : thread'[u] = thread[u]
          /\ thread'[t] = NewState(pc, v)
        BY <1>1, <2>1, Zenon DEF Shapes
    <2>3. StateOK(thread'[t]) /\ InHand(thread'[t]) = {v} /\ thread'[t].pc # "process_vote"
        BY <1>2, <2>2, NewStateOK
    <2>4. /\ \A w \in posted \cup index \cup InHand(thread[t]) :
                outcome'[w] = "underway" <=> w \in posted' \cup index' \cup InHand(thread'[t])
          /\ \A w \in Votes : w \notin posted \cup index \cup InHand(thread[t]) => outcome'[w] = outcome[w]
          /\ posted' \cap index' = {}
          /\ InHand(thread'[t]) \cap (posted' \cup index') = {}
          /\ posted' \cup index' \cup InHand(thread'[t]) \subseteq posted \cup index \cup InHand(thread[t])
          /\ outcome' \in [Votes -> Outcomes]
        BY <1>1, <1>2, <1>3, <1>5, <2>3
    <2>5. Shapes' /\ Placed'
        BY <1>1, <2>2, <2>3, <2>4, Moves, Zenon
    <2>6. SeenKept
        BY <1>1, <1>5, <2>2, <2>3, KeepsSeen
    <2>7. QED
        BY <2>5, <2>6
<1>6. QED
    BY <1>4, <1>5, Zenon DEF CountVote, v

(* queue_for_later;                                                        *)
LEMMA QueueForLaterStep ==
    ASSUME IInv, NEW t \in Threads, QueueForLater(t)
    PROVE  Shapes' /\ Placed' /\ SeenKept
<1> DEFINE v == thread[t].vote
<1>1. /\ Shapes /\ Placed
      /\ thread[t].pc = "missed" /\ thread[t].pc # "idle" /\ ~thread[t].scanning
      /\ posted' = posted
    BY DEF IInv, QueueForLater
<1>2. InHand(thread[t]) = {v} /\ v \in Votes
    BY <1>1, BusyHand
<1>3. /\ outcome \in [Votes -> Outcomes]
      /\ posted \cap index = {}
      /\ v \notin posted \cup index
      /\ \A w \in posted \cup index \cup {v} : w \in Votes /\ outcome[w] = "underway"
    BY <1>1, <1>2, HandFacts
<1>4. PICK old \in SUBSET index :
         /\ index' = (index \ (old \cup (before_lib(index) \ old))) \cup {v}
         /\ outcome' = [w \in Votes |-> IF w \in old THEN "expired"
                                        ELSE IF w \in before_lib(index) \ old THEN "late" ELSE outcome[w]]
    BY Zenon DEF QueueForLater
<1>5. /\ DOMAIN thread' = Threads /\ thread' = [u \in Threads |-> thread'[u]]
      /\ \A u \in Threads \ {t} : thread'[u] = thread[u]
      /\ thread'[t] = Resting
    BY <1>1 DEF QueueForLater, Rest, Shapes
<1> DEFINE gone == before_lib(index) \ old
           rest == index \ (old \cup gone)
<1>6. gone \subseteq index
    BY DEF before_lib
<1>7. /\ index' = rest \cup {v}
      /\ outcome' = [w \in Votes |-> IF w \in old THEN "expired" ELSE IF w \in gone THEN "late" ELSE outcome[w]]
    BY <1>4
<1> HIDE DEF v, gone
<1>8. StateOK(thread'[t]) /\ InHand(thread'[t]) = {} /\ thread'[t].pc # "process_vote"
    <2>1. Resting.pc # "process_vote"
        BY DEF Resting
    <2>2. QED
        BY <1>5, <2>1, RestingOK
<1>9. outcome' \in [Votes -> Outcomes]
    BY <1>3, <1>7 DEF Outcomes
<1>10. ASSUME NEW w \in posted \cup index \cup InHand(thread[t])
       PROVE  outcome'[w] = "underway" <=> w \in posted' \cup index' \cup InHand(thread'[t])
    <2>1. w \in Votes /\ outcome[w] = "underway"
        BY <1>2, <1>3
    <2>2. CASE w \in old \cup gone
        BY <1>1, <1>3, <1>6, <1>7, <1>8, <2>1, <2>2
    <2>3. CASE w \notin old \cup gone
        BY <1>1, <1>2, <1>7, <2>1, <2>3
    <2>4. QED
        BY <2>2, <2>3
<1>11. /\ \A w \in Votes : w \notin posted \cup index \cup InHand(thread[t]) => outcome'[w] = outcome[w]
       /\ \A w \in Votes : outcome'[w] = "unsent" => outcome[w] = "unsent"
    BY <1>6, <1>7
<1>12. /\ posted' \cap index' = {}
       /\ InHand(thread'[t]) \cap (posted' \cup index') = {}
       /\ posted' \cup index' \cup InHand(thread'[t]) \subseteq posted \cup index \cup InHand(thread[t])
    BY <1>1, <1>2, <1>3, <1>7, <1>8
<1>13. Shapes' /\ Placed'
    BY <1>1, <1>5, <1>8, <1>9, <1>10, <1>11, <1>12, Moves
<1>14. SeenKept
    BY <1>1, <1>5, <1>8, <1>11, KeepsSeen
<1>15. QED
    BY <1>13, <1>14

(* The loop over the index goes on, after the vote at hand was set aside   *)
(* or aggregated: kept is what the thread keeps.                           *)
LEMMA LoopStep ==
    ASSUME Shapes, Placed, NEW t \in Threads, posted' = posted,
           NEW kept \in SUBSET InHand(thread[t]),
           outcome' = [w \in Votes |-> IF w \in InHand(thread[t]) \ kept THEN "aggregated" ELSE outcome[w]],
           NextQueued(t, index, kept)
    PROVE  Shapes' /\ Placed' /\ SeenKept
<1>1. /\ outcome \in [Votes -> Outcomes]
      /\ posted \cap index = {}
      /\ InHand(thread[t]) \cap (posted \cup index) = {}
      /\ \A w \in posted \cup index \cup InHand(thread[t]) : w \in Votes /\ outcome[w] = "underway"
    BY HandFacts
<1>2. /\ DOMAIN thread' = Threads /\ thread' = [u \in Threads |-> thread'[u]]
      /\ \A u \in Threads \ {t} : thread'[u] = thread[u]
      /\ StateOK(thread'[t])
      /\ thread'[t].pc # "process_vote"
      /\ InHand(thread'[t]) \cap index' = {}
      /\ index' \cup InHand(thread'[t]) = index \cup kept
    <2>1. index \in SUBSET Votes /\ kept \in SUBSET Votes /\ index \cap kept = {}
        BY <1>1
    <2>2. QED
        BY <2>1, NextQueuedMoves, ZenonT(30)
<1>3. outcome' \in [Votes -> Outcomes]
    BY <1>1 DEF Outcomes
<1>4. /\ posted' \cap index' = {}
      /\ InHand(thread'[t]) \cap (posted' \cup index') = {}
      /\ posted' \cup index' \cup InHand(thread'[t]) \subseteq posted \cup index \cup InHand(thread[t])
    BY <1>1, <1>2
<1>5. ASSUME NEW w \in posted \cup index \cup InHand(thread[t])
      PROVE  outcome'[w] = "underway" <=> w \in posted' \cup index' \cup InHand(thread'[t])
    <2>1. w \in Votes /\ outcome[w] = "underway"
        BY <1>1
    <2>2. CASE w \in InHand(thread[t]) \ kept
        BY <1>1, <1>2, <2>1, <2>2
    <2>3. CASE w \notin InHand(thread[t]) \ kept
        BY <1>1, <1>2, <2>1, <2>3
    <2>4. QED
        BY <2>2, <2>3
<1>6. /\ \A w \in Votes : w \notin posted \cup index \cup InHand(thread[t]) => outcome'[w] = outcome[w]
      /\ \A w \in Votes : outcome'[w] = "unsent" => outcome[w] = "unsent"
    OBVIOUS
<1>7. Shapes' /\ Placed'
    BY <1>2, <1>3, <1>4, <1>5, <1>6, Moves
<1>8. SeenKept
    BY <1>2, <1>6, KeepsSeen
<1>9. QED
    BY <1>7, <1>8

(* a waiting vote whose block is still unknown;                            *)
LEMMA UnprocessedStep ==
    ASSUME IInv, NEW t \in Threads, Unprocessed(t)
    PROVE  Shapes' /\ Placed' /\ SeenKept
<1>1. /\ Shapes /\ Placed /\ thread[t].pc # "idle" /\ posted' = posted /\ outcome' = outcome
      /\ NextQueued(t, index, thread[t].unprocessed \cup {thread[t].vote})
    BY DEF IInv, Unprocessed
<1>2. InHand(thread[t]) = thread[t].unprocessed \cup {thread[t].vote}
    BY <1>1, BusyHand
<1>3. outcome' = [w \in Votes |-> IF w \in InHand(thread[t]) \ InHand(thread[t]) THEN "aggregated" ELSE outcome[w]]
    <2>1. outcome \in [Votes -> Outcomes]
        BY <1>1 DEF Shapes
    <2>2. QED
        BY <1>1, <2>1
<1>4. QED
    BY <1>1, <1>2, <1>3, LoopStep

(* and the aggregation of a vote.                                          *)
LEMMA AggregateStep ==
    ASSUME IInv, NEW t \in Threads, Aggregate(t)
    PROVE  Shapes' /\ Placed' /\ SeenKept
<1> DEFINE v == thread[t].vote
<1>1. Shapes /\ Placed /\ thread[t].pc # "idle" /\ posted' = posted
    BY DEF IInv, Aggregate
<1>2. /\ v \in Votes /\ v \notin thread[t].unprocessed
      /\ InHand(thread[t]) = thread[t].unprocessed \cup {v}
      /\ ~thread[t].scanning => InHand(thread[t]) = {v}
    BY <1>1, BusyHand
<1>3. CASE Ended({v}, "aggregated") /\ NextQueued(t, index, thread[t].unprocessed)
    <2>1. InHand(thread[t]) \ thread[t].unprocessed = {v}
        BY <1>2
    <2>2. outcome' = [w \in Votes |-> IF w \in InHand(thread[t]) \ thread[t].unprocessed
                                      THEN "aggregated" ELSE outcome[w]]
        BY <1>3, <2>1, Zenon DEF Ended
    <2>3. thread[t].unprocessed \in SUBSET InHand(thread[t])
        BY <1>2
    <2>4. QED
        BY <1>1, <1>3, <2>2, <2>3, LoopStep
<1>4. CASE ~thread[t].scanning /\ process_any_queued_for_later(t, {v})
    BY <1>1, <1>2, <1>4, QueuedStep
<1>5. QED
    BY <1>3, <1>4, Zenon DEF Aggregate

-----------------------------------------------------------------------------
(* The counts of the connections *)

(* A vote that CountVote counts was not counted before, and is from then   *)
(* on one that was.                                                        *)
LEMMA CountedOnce ==
    ASSUME IInv, NEW t \in Threads, CountVote(t), NEW v \in Votes, v = thread[t].vote
    PROVE  ~Seen(v) /\ Seen(v)'
<1>1. /\ Shapes /\ Placed
      /\ thread[t].pc = "process_vote" /\ thread[t].pc # "idle"
      /\ posted' = posted
    BY DEF IInv, CountVote
<1>2. v \in Votes /\ v \in InHand(thread[t])
    BY <1>1, BusyHand
<1>3. ~Seen(v)
    BY <1>1 DEF Seen
<1>4. v \notin posted' /\ outcome \in [Votes -> Outcomes] /\ outcome[v] = "underway"
    BY <1>1, <1>2, HandFacts
<1>7. /\ outcome'[v] # "unsent"
      /\ \A u \in Threads \ {t} : thread'[u] = thread[u]
      /\ thread'[t].pc # "process_vote"
    <2>1. CASE /\ \E own \in SUBSET index : Ended(own \cup {v}, "exceeded")
               /\ Rest(t)
        <3>1. outcome'[v] # "unsent"
            BY <1>2, <2>1 DEF Ended
        <3>2. /\ \A u \in Threads \ {t} : thread'[u] = thread[u]
              /\ thread'[t] = Resting
            BY <1>1, <2>1 DEF Rest, Shapes
        <3>3. thread'[t].pc # "process_vote"
            BY <3>2 DEF Resting
        <3>4. QED
            BY <3>1, <3>2, <3>3
    <2>2. CASE outcome' = outcome /\ Lookup(t, v, FALSE, {})
        <3>1. outcome'[v] # "unsent"
            BY <1>4, <2>2
        <3>2. PICK pc \in {"found", "get_block", "missed"} : thread' = [thread EXCEPT ![t] = NewState(pc, v)]
            BY <2>2, Zenon DEF Lookup, NewState
        <3>3. /\ \A u \in Threads \ {t} : thread'[u] = thread[u]
              /\ thread'[t] = NewState(pc, v)
            BY <1>1, <3>2, Zenon DEF Shapes
        <3>4. thread'[t].pc # "process_vote"
            BY <1>2, <3>3, NewStateOK
        <3>5. QED
            BY <3>1, <3>3, <3>4
    <2>3. \/ (\E own \in SUBSET index : Ended(own \cup {v}, "exceeded")) /\ Rest(t)
          \/ outcome' = outcome /\ Lookup(t, v, FALSE, {})
        BY Zenon DEF CountVote
    <2>4. QED
        BY <2>1, <2>2, <2>3, Zenon
<1>8. ASSUME NEW u \in Threads, thread'[u].pc = "process_vote", thread'[u].vote = v PROVE FALSE
    <2>1. u # t /\ thread'[u] = thread[u]
        BY <1>7, <1>8
    <2>2. v \in InHand(thread[u])
        BY <1>8, <2>1 DEF InHand
    <2>3. QED
        BY <1>1, <1>2, <2>1, <2>2 DEF Placed
<1>9. QED
    BY <1>3, <1>4, <1>7, <1>8 DEF Seen

(* The counted votes of a connection are finitely many.                    *)
LEMMA SeenFinite ==
    ASSUME NEW c \in Connections
    PROVE  /\ SeenOf(c) \in SUBSET Votes /\ IsFiniteSet(SeenOf(c)) /\ Cardinality(SeenOf(c)) \in Nat
           /\ SeenOf(c)' \in SUBSET Votes /\ IsFiniteSet(SeenOf(c)') /\ Cardinality(SeenOf(c)') \in Nat
<1>1. SeenOf(c) \in SUBSET Votes /\ SeenOf(c)' \in SUBSET Votes
    BY DEF SeenOf
<1>2. IsFiniteSet(SeenOf(c)) /\ IsFiniteSet(SeenOf(c)')
    BY <1>1, VotesAssumption, FS_Subset
<1>3. QED
    BY <1>1, <1>2, FS_CardinalityType

(* The counts stay within bounds when none of them grows. *)
LEMMA NotCounted ==
    ASSUME Bounded, SeenKept,
           num_messages' \in [Connections -> Nat],
           \A c \in Connections : num_messages'[c] <= num_messages[c]
    PROVE  Bounded'
<1> SUFFICES ASSUME NEW c \in Connections
             PROVE  num_messages'[c] <= Cardinality(SeenOf(c)')
    BY DEF Bounded
<1>1. SeenOf(c) \in SUBSET SeenOf(c)'
    BY DEF SeenKept, SeenOf
<1>2. Cardinality(SeenOf(c)) <= Cardinality(SeenOf(c)')
    BY <1>1, SeenFinite, FS_Subset
<1>3. num_messages[c] <= Cardinality(SeenOf(c))
    BY DEF Bounded
<1>4. num_messages[c] \in Nat /\ num_messages'[c] \in Nat /\ num_messages'[c] <= num_messages[c]
    BY DEF Bounded
<1>5. QED
    BY <1>2, <1>3, <1>4, SeenFinite

(* CountVote may clear the counts, and counts one vote. *)
LEMMA CountVoteBounded ==
    ASSUME IInv, NEW t \in Threads, CountVote(t)
    PROVE  Bounded'
<1>1. Shapes /\ Placed /\ thread[t].pc # "idle" /\ num_messages \in [Connections -> Nat]
    BY DEF IInv, CountVote, Bounded
<1> PICK v \in Votes : v = thread[t].vote
    BY <1>1, BusyHand
<1>2. v \in Votes /\ v.connection \in Connections
    BY VotesAssumption
<1>3. PICK counts \in {num_messages, [c \in Connections |-> 0]} :
         num_messages' = [counts EXCEPT ![v.connection] = @ + 1]
    BY Zenon DEF CountVote
<1>4. /\ counts \in [Connections -> Nat]
      /\ \A c \in Connections : counts[c] <= num_messages[c]
    BY <1>1
<1>5. /\ num_messages' \in [Connections -> Nat]
      /\ \A c \in Connections : num_messages'[c] = IF c = v.connection THEN counts[c] + 1 ELSE counts[c]
    BY <1>2, <1>3, <1>4
<1>6. SeenKept
    BY CountVoteStep
<1>7. ~Seen(v) /\ Seen(v)'
    BY CountedOnce
<1>8. ASSUME NEW c \in Connections
      PROVE  num_messages'[c] <= Cardinality(SeenOf(c)')
    <2>1. SeenOf(c) \in SUBSET SeenOf(c)'
        BY <1>6 DEF SeenKept, SeenOf
    <2>2. Cardinality(SeenOf(c)) <= Cardinality(SeenOf(c)')
        BY <2>1, SeenFinite, FS_Subset
    <2>3. num_messages[c] <= Cardinality(SeenOf(c)) /\ num_messages[c] \in Nat
        BY <1>1 DEF IInv, Bounded
    <2>4. counts[c] \in Nat /\ counts[c] <= num_messages[c]
        BY <1>4
    <2>5. CASE c # v.connection
        BY <1>5, <2>2, <2>3, <2>4, <2>5, SeenFinite
    <2>6. CASE c = v.connection
        <3>1. v \notin SeenOf(c)
            BY <1>7 DEF SeenOf
        <3>2. v \in SeenOf(c)'
            BY <1>2, <1>7, <2>6 DEF SeenOf
        <3>3. SeenOf(c) \cup {v} \in SUBSET SeenOf(c)'
            BY <2>1, <3>2
        <3>4. Cardinality(SeenOf(c) \cup {v}) = Cardinality(SeenOf(c)) + 1
            BY <3>1, SeenFinite, FS_AddElement, Zenon
        <3>5. Cardinality(SeenOf(c) \cup {v}) <= Cardinality(SeenOf(c)')
            BY <3>3, SeenFinite, FS_Subset
        <3>6. num_messages'[c] = counts[c] + 1
            BY <1>5, <2>6
        <3>7. QED
            BY <2>3, <2>4, <3>4, <3>5, <3>6, SeenFinite
    <2>7. QED
        BY <2>5, <2>6
<1>9. QED
    BY <1>5, <1>8 DEF Bounded

-----------------------------------------------------------------------------
(* The inductive invariant *)

(* A thread that is done with a vote counts it off, never below zero. *)
LEMMA CountedOff ==
    ASSUME NEW counts \in [Connections -> Nat], NEW c \in Connections
    PROVE  /\ counted_off(counts, c) \in [Connections -> Nat]
           /\ \A d \in Connections : counted_off(counts, c)[d] <= counts[d]
BY DEF counted_off

(* Every step of a thread preserves the invariant. *)
LEMMA ThreadStepKeeps ==
    ASSUME IInv, NEW t \in Threads, ThreadStep(t)
    PROVE  IInv'
<1>1. Bounded /\ num_messages \in [Connections -> Nat] /\ \A c \in Connections : num_messages[c] \in Nat
    BY DEF IInv, Bounded
<1>2. ASSUME num_messages' = num_messages, SeenKept PROVE Bounded'
    BY <1>1, <1>2, NotCounted
<1>3. CASE StartQueued(t)
    <2>1. num_messages' = num_messages
        BY <1>3 DEF StartQueued
    <2>2. QED
        BY <1>2, <1>3, <2>1, StartQueuedStep DEF IInv
<1>4. ASSUME NEW v \in Votes, StartVote(t, v) PROVE IInv'
    <2>1. num_messages' = num_messages
        BY <1>4 DEF StartVote
    <2>2. QED
        BY <1>2, <1>4, <2>1, StartVoteStep DEF IInv
<1>5. CASE CountVote(t)
    BY <1>5, CountVoteStep, CountVoteBounded DEF IInv
<1>6. CASE GetBlock(t)
    <2>1. num_messages' = num_messages
        BY <1>6 DEF GetBlock
    <2>2. QED
        BY <1>2, <1>6, <2>1, GetBlockStep DEF IInv
<1>7. CASE QueueForLater(t)
    <2>1. num_messages' = num_messages
        BY <1>7 DEF QueueForLater
    <2>2. QED
        BY <1>2, <1>7, <2>1, QueueForLaterStep DEF IInv
<1>8. CASE Unprocessed(t)
    <2>1. num_messages' = num_messages
        BY <1>8 DEF Unprocessed
    <2>2. QED
        BY <1>2, <1>8, <2>1, UnprocessedStep DEF IInv
<1>9. CASE Aggregate(t)
    <2>1. Shapes /\ thread[t].pc # "idle"
        BY <1>9 DEF IInv, Aggregate
    <2>2. thread[t].vote.connection \in Connections
        BY <2>1, BusyHand, VotesAssumption
    <2>3. num_messages' = counted_off(num_messages, thread[t].vote.connection)
        BY <1>9 DEF Aggregate
    <2>4. Shapes' /\ Placed' /\ SeenKept
        BY <1>9, AggregateStep
    <2>5. Bounded'
        BY <1>1, <2>2, <2>3, <2>4, CountedOff, NotCounted
    <2>6. QED
        BY <2>4, <2>5 DEF IInv
<1>10. QED
    BY <1>3, <1>4, <1>5, <1>6, <1>7, <1>8, <1>9 DEF ThreadStep

(* A step that leaves the votes alone preserves the invariant: blocks come *)
(* and the LIB advances.                                                   *)
LEMMA FrameKeeps ==
    ASSUME IInv, UNCHANGED << posted, index, num_messages, thread, outcome >>
    PROVE  IInv'
<1>1. Shapes'
    BY DEF IInv, Shapes, StateOK
<1>2. Placed'
    BY DEF IInv, Placed, InHand
<1>3. \A c \in Connections : SeenOf(c)' = SeenOf(c)
    BY DEF SeenOf, Seen
<1>4. Bounded'
    BY <1>3 DEF IInv, Bounded
<1>5. QED
    BY <1>1, <1>2, <1>4 DEF IInv

(* A vote that comes from a connection goes to the pool, or is late.       *)
LEMMA MessageKeeps ==
    ASSUME IInv, NEW v \in Votes, process_vote_message(v)
    PROVE  IInv'
<1>1. /\ Shapes /\ Placed /\ Bounded
      /\ index' = index /\ thread' = thread /\ num_messages' = num_messages
      /\ outcome[v] = "unsent"
    BY DEF IInv, process_vote_message
<1>2. /\ outcome \in [Votes -> Outcomes] /\ index \subseteq Votes /\ posted \subseteq Votes
      /\ v \notin posted /\ v \notin index
      /\ \A t \in Threads : v \notin InHand(thread[t])
    BY <1>1 DEF Shapes, Placed
<1>3. PICK how \in {"late", "underway"} :
         /\ outcome' = [w \in Votes |-> IF w = v THEN how ELSE outcome[w]]
         /\ posted' = IF how = "underway" THEN posted \cup {v} ELSE posted
    BY DEF process_vote_message, Ended
<1>4. /\ outcome' \in [Votes -> Outcomes] /\ outcome'[v] = how
      /\ \A w \in Votes \ {v} : outcome'[w] = outcome[w]
    BY <1>2, <1>3 DEF Outcomes
<1>5. posted' \subseteq Votes
    BY <1>2, <1>3
<1>6. Shapes'
    BY <1>1, <1>4, <1>5 DEF Shapes, StateOK
<1>7. \A t \in Threads : InHand(thread'[t]) = InHand(thread[t])
    BY <1>1
<1>8. /\ posted' \cap index' = {}
      /\ \A t \in Threads : InHand(thread'[t]) \cap (posted' \cup index') = {}
      /\ \A t, u \in Threads : t # u => InHand(thread'[t]) \cap InHand(thread'[u]) = {}
    BY <1>1, <1>2, <1>3, <1>7 DEF Placed
<1>9. ASSUME NEW w \in Votes
      PROVE  outcome'[w] = "underway" <=>
                (w \in posted' \/ w \in index' \/ \E t \in Threads : w \in InHand(thread'[t]))
    <2>1. CASE w = v
        BY <1>1, <1>2, <1>3, <1>4, <1>7, <2>1
    <2>2. CASE w # v
        <3>1. w \in posted' <=> w \in posted
            BY <1>3, <2>2
        <3>2. outcome'[w] = outcome[w]
            BY <1>4, <2>2
        <3>3. QED
            BY <1>1, <1>7, <3>1, <3>2 DEF Placed
    <2>3. QED
        BY <2>1, <2>2
<1>10. Placed'
    BY <1>8, <1>9 DEF Placed
<1>11. SeenKept
    <2> SUFFICES ASSUME NEW w \in Votes, Seen(w) PROVE Seen(w)'
        BY DEF SeenKept
    <2>1. w # v
        BY <1>1 DEF Seen
    <2>2. QED
        BY <1>1, <1>3, <1>4, <2>1 DEF Seen
<1>12. Bounded'
    <2>1. /\ num_messages \in [Connections -> Nat]
          /\ \A c \in Connections : num_messages[c] <= num_messages[c]
        BY <1>1 DEF Bounded
    <2>2. QED
        BY <1>1, <1>11, <2>1, NotCounted
<1>13. QED
    BY <1>6, <1>10, <1>12 DEF IInv

(* The invariant holds when the processor starts: no vote has come. *)
LEMMA InitIInv == Init => IInv
<1> SUFFICES ASSUME Init PROVE IInv
    OBVIOUS
<1>1. /\ posted = {} /\ index = {}
      /\ thread = [t \in Threads |-> Resting]
      /\ outcome = [v \in Votes |-> "unsent"]
      /\ num_messages = [c \in Connections |-> 0]
    BY DEF Init
<1>2. \A t \in Threads : thread[t] = Resting
    BY <1>1
<1>3. \A t \in Threads : StateOK(thread[t]) /\ InHand(thread[t]) = {}
    BY <1>2, RestingOK
<1>4. Shapes
    BY <1>1, <1>3 DEF Shapes, Outcomes
<1>5. Placed
    BY <1>1, <1>3 DEF Placed
<1>6. Bounded
    <2>1. num_messages \in [Connections -> Nat] /\ \A c \in Connections : num_messages[c] = 0
        BY <1>1
    <2>2. ASSUME NEW c \in Connections PROVE num_messages[c] <= Cardinality(SeenOf(c))
        BY <2>1, SeenFinite
    <2>3. QED
        BY <2>1, <2>2 DEF Bounded
<1>7. QED
    BY <1>4, <1>5, <1>6 DEF IInv

(* The invariant holds in every state, whatever the threads of the pool    *)
(* do while one of them goes through the index without the mutex.          *)
THEOREM Inductive == Spec => []IInv
<1>1. IInv /\ [Next]_vars => IInv'
    <2> SUFFICES ASSUME IInv, [Next]_vars PROVE IInv'
        OBVIOUS
    <2>1. ASSUME NEW b \in Blocks, AddBlock(b) \/ notify_lib(b) PROVE IInv'
        BY <2>1, FrameKeeps DEF AddBlock, notify_lib
    <2>2. CASE AddOtherBlock
        BY <2>2, FrameKeeps DEF AddOtherBlock
    <2>3. ASSUME NEW v \in Votes, process_vote_message(v) PROVE IInv'
        BY <2>3, MessageKeeps
    <2>4. ASSUME NEW t \in Threads, ThreadStep(t) PROVE IInv'
        BY <2>4, ThreadStepKeeps
    <2>5. CASE UNCHANGED vars
        BY <2>5, FrameKeeps DEF vars
    <2>6. QED
        BY <2>1, <2>2, <2>3, <2>4, <2>5 DEF Next
<1>2. QED
    BY <1>1, InitIInv, PTL DEF Spec

(* What the invariant says of the places of a vote. *)
LEMMA PlacesOf ==
    ASSUME IInv, NEW v \in Votes
    PROVE  LET places == (IF v \in posted THEN {<< "pool" >>} ELSE {})
                            \cup (IF v \in index THEN {<< "index" >>} ELSE {})
                            \cup {<< t >> : t \in {u \in Threads : v \in Holds(u)}}
           IN  Cardinality(places) = IF outcome[v] = "underway" THEN 1 ELSE 0
<1> DEFINE holders == {u \in Threads : v \in Holds(u)}
           places  == (IF v \in posted THEN {<< "pool" >>} ELSE {})
                         \cup (IF v \in index THEN {<< "index" >>} ELSE {})
                         \cup {<< t >> : t \in holders}
<1>1. Shapes /\ Placed
    BY DEF IInv
<1>2. \A u \in Threads : v \in Holds(u) <=> v \in InHand(thread[u])
    <2> SUFFICES ASSUME NEW u \in Threads PROVE v \in Holds(u) <=> v \in InHand(thread[u])
        OBVIOUS
    <2>1. StateOK(thread[u]) /\ v # NoVote
        BY <1>1, NoVoteIsNone DEF Shapes
    <2>2. QED
        BY <2>1 DEF StateOK, Holds, InHand
<1>3. /\ \A u, w \in holders : u = w
      /\ v \in posted => v \notin index /\ holders = {}
      /\ v \in index => holders = {}
      /\ outcome[v] = "underway" <=> (v \in posted \/ v \in index \/ holders # {})
    BY <1>1, <1>2 DEF Placed
<1> HIDE DEF holders
<1>4. CASE outcome[v] = "underway"
    <2>1. \E x : places = {x}
        <3>1. CASE v \in posted
            BY <1>3, <3>1, Zenon
        <3>2. CASE v \in index
            BY <1>3, <3>2, Zenon
        <3>3. CASE holders # {}
            <4>1. PICK u \in holders : holders = {u}
                BY <1>3, <3>3
            <4>2. v \notin posted /\ v \notin index
                BY <1>3, <3>3
            <4>3. {<< t >> : t \in holders} = {<< u >>}
                BY <4>1
            <4>4. QED
                BY <4>2, <4>3, Zenon
        <3>4. QED
            BY <1>3, <1>4, <3>1, <3>2, <3>3, Zenon
    <2>2. Cardinality(places) = 1
        BY <2>1, FS_Singleton, Zenon
    <2>3. QED
        BY <1>4, <2>2 DEF holders
<1>5. CASE outcome[v] # "underway"
    <2>1. v \notin posted /\ v \notin index /\ holders = {}
        BY <1>3, <1>5
    <2>2. places = {}
        BY <2>1
    <2>3. Cardinality(places) = 0
        BY <2>2, FS_EmptySet
    <2>4. QED
        BY <1>5, <2>3 DEF holders
<1>6. QED
    BY <1>4, <1>5

(* OnePlace, for any number of threads, votes and connections: a vote that *)
(* is underway is in the pool, in the index or in the hands of exactly one *)
(* thread, and no count goes below zero or above the votes there are,      *)
(* although the loop of process_any_queued_for_later lets the mutex go for *)
(* every block it fetches.                                                 *)
THEOREM VotesInOnePlace == Spec => []OnePlace
<1>1. IInv => OnePlace
    <2> SUFFICES ASSUME IInv PROVE OnePlace
        OBVIOUS
    <2>1. ASSUME NEW c \in Connections
          PROVE  num_messages[c] \in 0..Cardinality({v \in Votes : v.connection = c})
        <3> DEFINE sent == {v \in Votes : v.connection = c}
        <3>1. sent \in SUBSET Votes /\ SeenOf(c) \in SUBSET sent
            BY DEF SeenOf
        <3>2. IsFiniteSet(sent)
            BY <3>1, VotesAssumption, FS_Subset
        <3>3. Cardinality(SeenOf(c)) <= Cardinality(sent) /\ Cardinality(sent) \in Nat
            BY <3>1, <3>2, FS_Subset, FS_CardinalityType
        <3>4. num_messages[c] \in Nat /\ num_messages[c] <= Cardinality(SeenOf(c))
            BY DEF IInv, Bounded
        <3> HIDE DEF sent
        <3>5. num_messages[c] \in 0..Cardinality(sent)
            BY <3>3, <3>4, SeenFinite
        <3>6. QED
            BY <3>5 DEF sent
    <2>2. QED
        BY <2>1, PlacesOf, Zenon DEF OnePlace
<1>2. QED
    BY <1>1, Inductive, PTL

=============================================================================
