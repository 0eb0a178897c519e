------------------------- MODULE BlockHeaderBranch -------------------------
(***************************************************************************)
(* One branch of a Savanna chain whose blocks propose finalizer policies   *)
(* and producer schedules.  Only the header state of the head is kept by   *)
(* the code; the history of the branch is kept here in full, so that what  *)
(* the header state retrieves, keeps and promotes can be compared with     *)
(* what happened.                                                          *)
(***************************************************************************)
EXTENDS BlockHeaderState, FiniteSets

CONSTANTS
    FirstFinalizers,  \* the policy of the genesis block
    FirstProducers,   \* the schedule of the genesis block
    Lists,            \* what may be proposed
    Kinds             \* the kinds of branches, each with the bounds that it has to keep

(* finalizers, producers: what its blocks may propose with set_finalizers  *)
(* and set_proposed_producers; slot: that of the genesis block; blocks:    *)
(* bound on the block numbers; skips: on the slots without a block; lag:   *)
(* on the blocks between a block and the one it claims; proposals: on the  *)
(* proposals of either kind.                                               *)
ASSUME KindsAssumption ==
    Kinds \subseteq [finalizers : SUBSET Lists, producers : SUBSET Lists, slot : Nat,
                     blocks : Nat, skips : Nat, lag : Nat, proposals : Nat]

(* The lists in play, the policies and the differences made of them.       *)
AllLists == Lists \cup {FirstFinalizers, FirstProducers}

Diffs == {diff(x, y) : x \in AllLists, y \in Lists}

FinalizerPolicies == [generation : Nat, finalizers : AllLists]

InFlightPolicies == [block_num : Nat, policy : FinalizerPolicies]

ProposerPolicies == [proposal_time : Nat, version : Nat, producers : AllLists]

(* nullptr is none of them. *)
ASSUME NullptrAssumption ==
    /\ nullptr \notin Lists
    /\ nullptr \notin FinalizerPolicies
    /\ nullptr \notin InFlightPolicies
    /\ nullptr \notin ProposerPolicies
    /\ nullptr \notin [generation : Nat, finalizers_diff : Diffs]
    /\ nullptr \notin [version : Nat, proposal_time : Nat, producer_auth_diff : Diffs]

(* They are vectors. *)
ASSUME ListsAssumption == \A x \in AllLists : x \in Seq({x[i] : i \in DOMAIN x})

VARIABLES
    bhs,       \* header state of the head
    history,   \* the blocks from genesis to head
    kind       \* the kind of the branch

vars == << bhs, history, kind >>

GenesisNum == 1

None == nullptr

(* What the history remembers of a block: the last two are the proposals   *)
(* that its transactions made.                                             *)
Recorded(h, finalizers, producers) ==
    [timestamp  |-> h.timestamp,
     last_final |-> last_final_block_num(h.core),
     active     |-> h.active_finalizer_policy,
     pending    |-> h.pending_finalizer_policy,
     proposer   |-> h.active_proposer_policy,
     finalizers |-> finalizers,
     producers  |-> producers]

Blocks == 1 .. Len(history)

Skips == bhs.timestamp - kind.slot - (bhs.block_num - GenesisNum)

Proposals == Cardinality({n \in Blocks : history[n].finalizers # None})
             + Cardinality({n \in Blocks : history[n].producers # None})

LegalClaims ==
    {claim \in [block_num : GenesisNum .. bhs.block_num, is_strong_qc : BOOLEAN] :
        /\ bhs.block_num - claim.block_num <= kind.lag
        /\ verify_qc_claim(claim, latest_qc_claim(bhs.core), bhs.block_num)}

Init ==
    /\ kind \in Kinds
    /\ bhs = create_if_genesis_block(GenesisNum, kind.slot, FirstFinalizers, FirstProducers)
    /\ history = << Recorded(bhs, None, None) >>

(* A block is built on the head and accepted. *)
AppendBlock(gap, claim, finalizers, producers) ==
    LET t     == bhs.timestamp + gap
        f_ext == finality_extension(bhs, t, claim, finalizers, producers)
    IN  /\ bhs.block_num < kind.blocks
        /\ Skips + gap - 1 <= kind.skips
        /\ Proposals + Cardinality({p \in {<< 1, finalizers >>, << 2, producers >>} : p[2] # None}) <= kind.proposals
        /\ ~finish_next_throws(bhs, t, f_ext)
        /\ bhs' = finish_next(bhs, t, f_ext)
        /\ history' = Append(history, Recorded(bhs', finalizers, producers))
        /\ UNCHANGED kind

Next ==
    \E gap \in 1 .. kind.skips + 1, claim \in LegalClaims,
       finalizers \in kind.finalizers \cup {None}, producers \in kind.producers \cup {None} :
        AppendBlock(gap, claim, finalizers, producers)

Spec == Init /\ [][Next]_vars

-----------------------------------------------------------------------------
(* Properties *)

(* For every block from the latest QC claim to the head,                   *)
(* get_finalizer_policies finds the policies that were active and pending  *)
(* at that block: a QC on any of them can be verified, although the header *)
(* state only keeps the active, the pending and one older policy           *)
(* (block_header_state.hpp:132-143).                                       *)
PoliciesRetrievable ==
    \A num \in latest_qc_claim(bhs.core).block_num .. bhs.block_num :
        LET ref == ref_at(bhs, num)
            was == history[num]
        IN  /\ ~get_finalizer_policies_throws(bhs, ref)
            /\ get_finalizer_policies(bhs, ref) =
                  [active_finalizer_policy  |-> was.active,
                   pending_finalizer_policy |-> IF was.pending = None THEN None ELSE was.pending.policy]

(* Nothing that the controller may ask of the head makes finish_next or    *)
(* get_finality_mroot_claim throw, and the finality root that a producer   *)
(* puts in the header is that of the claimed block (none for the genesis   *)
(* block, as block_header_state::next checks): a node never rejects its    *)
(* own block, or the block of a node that computed the same parent.        *)
NextNeverThrows ==
    \A claim \in LegalClaims, finalizers \in kind.finalizers \cup {None}, producers \in kind.producers \cup {None} :
        /\ ~finish_next_throws(bhs, bhs.timestamp + 1,
                               finality_extension(bhs, bhs.timestamp + 1, claim, finalizers, producers))
        /\ ~get_finality_mroot_claim_throws(bhs, claim)
        /\ get_finality_mroot_claim(bhs, claim) = IF claim.block_num = GenesisNum THEN 0 ELSE claim.block_num

(* The last policy proposed on the branch is never lost: it is the last    *)
(* proposed, the pending or the active one, with the number of proposals   *)
(* for generation (it grows "by one each time a new finalizer_policy is    *)
(* proposed", block_header_state.hpp:145) and with the finalizers that     *)
(* were proposed, although the header only carried a difference.  Nor is   *)
(* the last schedule: it is the last proposed, the pending or the active   *)
(* one, with the producers that were proposed.                             *)
LatestProposalKept ==
    LET proposing  == {n \in Blocks : history[n].finalizers # None}
        scheduling == {n \in Blocks : history[n].producers # None}
    IN  /\ bhs.finalizer_policy_generation = 1 + Cardinality(proposing)
        /\ get_last_proposed_finalizer_policy(bhs).generation = bhs.finalizer_policy_generation
        /\ \A n \in proposing :
              (\A m \in proposing : m <= n) =>
                 get_last_proposed_finalizer_policy(bhs).finalizers = history[n].finalizers
        /\ \A n \in scheduling :
              (\A m \in scheduling : m <= n) =>
                 get_last_proposed_proposer_policy(bhs).producers = history[n].producers

(* A policy is only active once the block at which it became pending is    *)
(* final, and it only became pending once a block that proposed it was     *)
(* final: no policy change takes effect on a branch that can still be      *)
(* abandoned (block_header_state.hpp:56-63).                               *)
ActiveWasFinalTwice ==
    bhs.active_finalizer_policy.generation > 1 =>
        \E proposed \in Blocks, pending \in Blocks :
            /\ history[proposed].finalizers = bhs.active_finalizer_policy.finalizers
            /\ history[pending].pending # None
            /\ history[pending].pending.policy = bhs.active_finalizer_policy
            /\ history[pending].pending.block_num = pending
            /\ proposed <= history[pending].last_final
            /\ pending <= last_final_block_num(bhs.core)

(* The policies in flight are in order: a pending policy is newer than the *)
(* active one and its block is not final, the proposed ones are newer than *)
(* both, in the order of their blocks, and at most the first of them is    *)
(* final (it waits for the pending slot).                                  *)
PoliciesInOrder ==
    LET lib      == last_final_block_num(bhs.core)
        pending  == bhs.pending_finalizer_policy
        proposed == bhs.proposed_finalizer_policies
    IN  /\ pending # None => /\ pending.policy.generation > bhs.active_finalizer_policy.generation
                             /\ pending.block_num > lib
        /\ \A i \in DOMAIN proposed :
              /\ proposed[i].policy.generation > get_last_pending_finalizer_policy(bhs).generation
              /\ proposed[i].block_num <= lib => i = 1 /\ pending # None
              /\ i > 1 => /\ proposed[i - 1].block_num < proposed[i].block_num
                          /\ proposed[i - 1].policy.generation < proposed[i].policy.generation

Round(t) == t \div producer_repetitions

(* All the blocks of a round on a branch have the same producer schedule.  *)
ScheduleFixedInRound ==
    \A n \in Blocks : Round(history[n].timestamp) = Round(bhs.timestamp) =>
        history[n].proposer = bhs.active_proposer_policy

(* A schedule is only active once the block that proposed it is final on   *)
(* the branch, and no sooner than two rounds after its proposal; and no    *)
(* schedule comes after a newer one: a proposal that is promoted past an   *)
(* older pending one also discards it.                                     *)
ScheduleWasFinal ==
    LET policy == bhs.active_proposer_policy
    IN  /\ policy.version > 1 =>
              \E n \in Blocks :
                  /\ history[n].timestamp = policy.proposal_time
                  /\ history[n].producers = policy.producers
                  /\ n <= last_final_block_num(bhs.core)
                  /\ Round(policy.proposal_time) + 2 <= Round(bhs.timestamp)
        /\ \A n \in Blocks : history[n].proposer.version <= policy.version

=============================================================================
