----------------------------- MODULE SafetyRules -----------------------------
(***************************************************************************)
(* What the finalizers of a Savanna chain promise, and what follows from   *)
(* it: the block tree, the votes of the finalizers, and three rules on the *)
(* votes of one honest finalizer that finalizer::decide_vote enforces.     *)
(* Nothing is said of how a finalizer remembers what it has voted for;     *)
(* module Savanna does that with the code's safety information.            *)
(*                                                                         *)
(* The rest of the network is taken at its worst: faulty finalizers are    *)
(* ready to add any vote to any QC, any block may be proposed on any       *)
(* parent, and votes and QCs are seen by everyone or by no one.            *)
(***************************************************************************)
EXTENDS Integers

CONSTANTS
    Blocks,    \* identities of blocks
    Genesis,   \* the Savanna genesis block
    Times,     \* timestamps of blocks after the genesis block
    Honest,    \* the finalizers that follow the rules
    Quorums    \* the sets of finalizers whose weight reaches the threshold

ASSUME GenesisAssumption == Genesis \in Blocks
ASSUME TimesAssumption   == Times \subseteq Nat

(* Two quorums have an honest finalizer in common.  set_finalizers only    *)
(* asks for a threshold above half of the weight, so that two quorums meet *)
(* (privileged.cpp:203); that not all they share are faulty is assumed.    *)
ASSUME QuorumAssumption  == \A Q1, Q2 \in Quorums : \E f \in Honest : f \in Q1 /\ f \in Q2

VARIABLES
    known,       \* the blocks proposed so far
    timestamp,   \* of every known block
    ancestors,   \* the blocks from the genesis block to the parent
    claim,       \* the block of the latest QC claim
    votes        \* the votes that honest finalizers have sent

vars == << known, timestamp, ancestors, claim, votes >>

Votes == [finalizer : Honest, block : Blocks, strong : BOOLEAN]

VotesOf(f) == {v \in votes : v.finalizer = f}

Extends(b, a) == a = b \/ a \in ancestors[b]

(* A QC on the block can be put together: the honest members of a quorum   *)
(* have voted for it.                                                      *)
HasQC(b) ==
    \/ b = Genesis
    \/ \E Q \in Quorums : \A f \in Q \cap Honest : \E v \in VotesOf(f) : v.block = b

HasStrongQC(b) ==
    \E Q \in Quorums : \A f \in Q \cap Honest : \E v \in VotesOf(f) : v.block = b /\ v.strong

Init ==
    /\ known = {Genesis}
    /\ timestamp = [b \in Blocks |-> 0]
    /\ ancestors = [b \in Blocks |-> {}]
    /\ claim = [b \in Blocks |-> Genesis]
    /\ votes = {}

(* A block is proposed whose QC claim is backed by a QC on an ancestor.    *)
Propose(b, parent, time, c) ==
    /\ b \notin known
    /\ parent \in known
    /\ time > timestamp[parent]
    /\ Extends(parent, c)
    /\ HasQC(c)
    /\ known' = known \cup {b}
    /\ timestamp' = [timestamp EXCEPT ![b] = time]
    /\ ancestors' = [ancestors EXCEPT ![b] = ancestors[parent] \cup {parent}]
    /\ claim' = [claim EXCEPT ![b] = c]
    /\ UNCHANGED votes

-----------------------------------------------------------------------------
(* The rules *)

(* Votes are cast in the order of block timestamps.                        *)
Monotone(f, b) == \A v \in VotesOf(f) : timestamp[v.block] < timestamp[b]

(* A strong vote says: since the block I vouch to lock, I have voted for   *)
(* ancestors of this block only.                                           *)
NoForkSinceClaim(f, b) ==
    \A v \in VotesOf(f) : timestamp[v.block] > timestamp[claim[b]] => Extends(b, v.block)

(* A strong vote locks the claimed block: later votes are for blocks that  *)
(* extend it, or that extend a more recent block with a QC.                *)
RespectsLocks(f, b) ==
    \A v \in VotesOf(f) : v.strong =>
        \/ Extends(b, claim[v.block])
        \/ \E c \in ancestors[b] : HasQC(c) /\ timestamp[c] > timestamp[claim[v.block]]

(* Mutant: a finalizer always votes strong. *)
MayVote_always_strong(f, b, strong) == Monotone(f, b) /\ RespectsLocks(f, b)

MayVote(f, b, strong) ==
    /\ Monotone(f, b)
    /\ RespectsLocks(f, b)
    /\ strong => NoForkSinceClaim(f, b)

VotesFor(b, voters, strong) == {[finalizer |-> f, block |-> b, strong |-> strong] : f \in voters}

(* Some finalizers vote for a block, those of one node at a time.          *)
Vote(b, strong, weak) ==
    /\ b \in known \ {Genesis}
    /\ \A f \in strong : MayVote(f, b, TRUE)
    /\ \A f \in weak : MayVote(f, b, FALSE)
    /\ votes' = votes \cup VotesFor(b, strong, TRUE) \cup VotesFor(b, weak, FALSE)
    /\ UNCHANGED << known, timestamp, ancestors, claim >>

Next ==
    \/ \E b \in Blocks \ known, parent \in known :
          \E c \in known, time \in Times : Propose(b, parent, time, c)
    \/ \E b \in Blocks, strong, weak \in SUBSET Honest :
          strong \cap weak = {} /\ Vote(b, strong, weak)

Spec == Init /\ [][Next]_vars

-----------------------------------------------------------------------------
(* Properties *)

TypeOK ==
    /\ known \subseteq Blocks
    /\ timestamp \in [Blocks -> Nat]
    /\ ancestors \in [Blocks -> SUBSET Blocks]
    /\ claim \in [Blocks -> Blocks]
    /\ votes \subseteq Votes

(* Two-chain rule: a strong QC on a block finalizes the block it claims.   *)
Final(a) == a = Genesis \/ \E b \in known \ {Genesis} : claim[b] = a /\ HasStrongQC(b)

(* Blocks that any two nodes, at any two times, take for final are on one  *)
(* branch.                                                                 *)
Agreement == \A a, b \in known : Final(a) /\ Final(b) => Extends(a, b) \/ Extends(b, a)

(* The fork database orders branches by the timestamp of their latest QC   *)
(* block.  That order never prefers a branch without the final block a to  *)
(* one that holds a QC on a: a block whose claim is as recent as a extends *)
(* a.                                                                      *)
BestBranchExtendsFinal ==
    \A a, b \in known :
        Final(a) /\ timestamp[claim[b]] >= timestamp[a] => Extends(b, a)

=============================================================================
