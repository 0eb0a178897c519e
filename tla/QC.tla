--------------------------------- MODULE QC ---------------------------------
(***************************************************************************)
(* Quorum certificates (qc.hpp, qc.cpp): the value a QC is, how it is      *)
(* verified against the finalizer policies of a block, and how one         *)
(* aggregator (aggregating_qc_sig_t) turns votes into one.                 *)
(*                                                                         *)
(*   policy   [finalizers, weight, threshold, generation]                  *)
(*   qc_sig   [strong_votes, weak_votes, is_weak]                          *)
(*   qc       [active_policy_sig, pending_policy_sig]                      *)
(*   agg      [state, strong_sum, weak_sum, strong_votes, weak_votes,      *)
(*             received_qc_sig]                                            *)
(*                                                                         *)
(* A bitset over the finalizers of a policy is the set of their keys; an   *)
(* absent strong bitset is an empty one, an absent weak bitset makes the   *)
(* signature strong (is_weak = FALSE).  Signatures are left out: a bit is  *)
(* set exactly when the vote of that finalizer is in the aggregate.        *)
(***************************************************************************)
EXTENDS Integers, FiniteSets, Functions

CONSTANTS
    IntModulus,     \* 2^32: how many values an int has
    Uint64Modulus,  \* 2^64: how many a uint64_t has
    NoPolicy,       \* a block without a pending policy
    NoSig           \* an absent qc_sig_t

ASSUME WidthsAssumption ==
    /\ IntModulus \in Nat \ {0} /\ IntModulus % 2 = 0
    /\ Uint64Modulus \in Nat \ {0} /\ Uint64Modulus % IntModulus = 0

weight_sum(policy, keys) == FoldFunctionOnSet(+, 0, policy.weight, keys)

(* Mutant: the threshold itself. *)
max_weak_sum_is_threshold(policy) == policy.threshold

(* finalizer_policy::max_weak_sum_before_weak_final: std::accumulate folds *)
(* into an int, its result is subtracted from as an unsigned number.       *)
max_weak_sum_before_weak_final(policy) ==
    LET total   == weight_sum(policy, policy.finalizers) % IntModulus
        sum_int == IF total < IntModulus \div 2 THEN total ELSE total - IntModulus
    IN  (sum_int - policy.threshold) % Uint64Modulus

(***************************************************************************)
(* qc_sig_t and qc_t                                                       *)
(***************************************************************************)

strong_sig(strong_votes) == [strong_votes |-> strong_votes, weak_votes |-> {}, is_weak |-> FALSE]

weak_sig(strong_votes, weak_votes) ==
    [strong_votes |-> strong_votes, weak_votes |-> weak_votes, is_weak |-> TRUE]

verify_vote_format(sig, policy) ==
    /\ sig.strong_votes \subseteq policy.finalizers
    /\ sig.weak_votes \subseteq policy.finalizers
    /\ sig.strong_votes \cap sig.weak_votes = {}

verify_weights(sig, policy) ==
    IF sig.is_weak
    THEN weight_sum(policy, sig.strong_votes) + weight_sum(policy, sig.weak_votes) >= policy.threshold
    ELSE weight_sum(policy, sig.strong_votes) >= policy.threshold

vote_same_at(sig, other, key) ==
    /\ key \in sig.strong_votes <=> key \in other.strong_votes
    /\ key \in sig.weak_votes <=> key \in other.weak_votes

verify_dual_finalizers_votes(active_policy, pending_policy, active_sig, pending_sig) ==
    \A key \in active_policy.finalizers \cap pending_policy.finalizers :
        vote_same_at(active_sig, pending_sig, key)

verify_basic(qc, active_policy, pending_policy) ==
    /\ verify_vote_format(qc.active_policy_sig, active_policy)
    /\ verify_weights(qc.active_policy_sig, active_policy)
    /\ qc.pending_policy_sig = NoSig <=> pending_policy = NoPolicy
    /\ qc.pending_policy_sig # NoSig =>
          /\ verify_dual_finalizers_votes(active_policy, pending_policy,
                                          qc.active_policy_sig, qc.pending_policy_sig)
          /\ verify_vote_format(qc.pending_policy_sig, pending_policy)
          /\ verify_weights(qc.pending_policy_sig, pending_policy)

(***************************************************************************)
(* aggregating_qc_sig_t                                                    *)
(***************************************************************************)

new_agg == [state           |-> "unrestricted",
            strong_sum      |-> 0,
            weak_sum        |-> 0,
            strong_votes    |-> {},
            weak_votes      |-> {},
            received_qc_sig |-> NoSig]

is_quorum_met(agg) == agg.state \in {"strong", "weak_achieved", "weak_final"}

agg_has_voted(agg, key) == key \in agg.strong_votes \cup agg.weak_votes

(* Mutant: weak votes count towards a strong quorum. *)
state_after_strong_counts_weak(agg, policy, strong_sum) ==
    IF agg.weak_sum + strong_sum >= policy.threshold THEN "strong" ELSE agg.state

(* The state after a strong vote that brings the strong sum to the given   *)
(* value.                                                                  *)
state_after_strong(agg, policy, strong_sum) ==
    CASE agg.state \in {"unrestricted", "restricted"} ->
            IF strong_sum >= policy.threshold THEN "strong"
            ELSE IF agg.weak_sum + strong_sum < policy.threshold THEN agg.state
            ELSE IF agg.state = "restricted" THEN "weak_final" ELSE "weak_achieved"
      [] agg.state = "weak_achieved" ->
            IF strong_sum >= policy.threshold THEN "strong" ELSE agg.state
      [] OTHER -> agg.state

add_strong_vote(agg, policy, key) ==
    LET strong_sum == agg.strong_sum + policy.weight[key]
    IN  [agg EXCEPT !.strong_votes = @ \cup {key},
                    !.strong_sum   = strong_sum,
                    !.state        = state_after_strong(agg, policy, strong_sum)]

(* The state after a weak vote that brings the weak sum to the given       *)
(* value.  The comparison that ends weak_achieved is not the one that ends *)
(* the two states before it.                                               *)
state_after_weak(agg, policy, weak_sum) ==
    LET max      == max_weak_sum_before_weak_final(policy)
        achieved == weak_sum + agg.strong_sum >= policy.threshold
    IN  CASE agg.state \in {"unrestricted", "restricted"} ->
                IF achieved THEN (IF weak_sum > max THEN "weak_final" ELSE "weak_achieved")
                ELSE IF weak_sum > max THEN "restricted" ELSE agg.state
          [] agg.state = "weak_achieved" ->
                IF weak_sum >= max THEN "weak_final" ELSE agg.state
          [] OTHER -> agg.state

add_weak_vote(agg, policy, key) ==
    LET weak_sum == agg.weak_sum + policy.weight[key]
    IN  [agg EXCEPT !.weak_votes = @ \cup {key},
                    !.weak_sum   = weak_sum,
                    !.state      = state_after_weak(agg, policy, weak_sum)]

(* Under the mutex; check_duplicate leaves a finalizer's first vote.       *)
add_vote(agg, policy, strong, key) ==
    IF agg_has_voted(agg, key) THEN agg
    ELSE IF strong THEN add_strong_vote(agg, policy, key)
    ELSE add_weak_vote(agg, policy, key)

extract_qc_sig_from_aggregating(agg) ==
    IF agg.state = "strong" THEN strong_sig(agg.strong_votes)
    ELSE weak_sig(agg.strong_votes, agg.weak_votes)

(* Mutant: the aggregated signature always wins. *)
sig_get_best_qc_ignores_received(agg) ==
    IF is_quorum_met(agg) THEN extract_qc_sig_from_aggregating(agg) ELSE agg.received_qc_sig

(* aggregating_qc_sig_t::get_best_qc: strong beats weak, received beats    *)
(* aggregated.                                                             *)
sig_get_best_qc(agg) ==
    LET received  == agg.received_qc_sig
        from_agg  == extract_qc_sig_from_aggregating(agg)
    IN  IF ~is_quorum_met(agg) THEN received
        ELSE IF received = NoSig THEN from_agg
        ELSE IF ~received.is_weak \/ from_agg.is_weak THEN received
        ELSE from_agg

set_received_qc_sig(agg, sig) ==
    IF agg.received_qc_sig = NoSig \/ (agg.received_qc_sig.is_weak /\ ~sig.is_weak)
    THEN [agg EXCEPT !.received_qc_sig = sig]
    ELSE agg

=============================================================================
