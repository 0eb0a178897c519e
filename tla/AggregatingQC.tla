---------------------------- MODULE AggregatingQC ----------------------------
(***************************************************************************)
(* The votes and QCs that one block collects (aggregating_qc_t): vote      *)
(* threads aggregate the votes that arrive, other threads store the QCs    *)
(* that blocks carry, and the producer asks for the best QC.  Every call   *)
(* touches the aggregator of the active policy first and the one of the    *)
(* pending policy after it; each has its own mutex, so the calls           *)
(* interleave between the two.                                             *)
(***************************************************************************)
EXTENDS QC

CONSTANTS
    ActivePolicy,    \* active finalizer policy of the block
    PendingPolicy,   \* its pending finalizer policy, or NoPolicy
    Keys,            \* the keys that vote messages can name
    Threads,         \* threads that process vote messages
    SharedKeys,      \* keys configured on two nodes: both may vote
    MaxReceives      \* bound on the QCs that blocks bring for this block

VARIABLES
    cast,       \* votes that finalizers sign for this block
    relayed,    \* per vote: how often aggregate_vote returned success, and peers got it
    active,     \* active_policy_sig
    pending,    \* pending_policy_sig, NoSig when the block has no pending policy
    threads,    \* per thread: where it is in aggregate_vote, with which vote
    receiver,   \* where set_received_qc is, with which QC
    proposer    \* where get_best_qc is; the QC it returned last

vars == << cast, relayed, active, pending, threads, receiver, proposer >>

HasPending == PendingPolicy # NoPolicy

Finalizers == ActivePolicy.finalizers \cup (IF HasPending THEN PendingPolicy.finalizers ELSE {})

ASSUME PoliciesAssumption == Finalizers \subseteq Keys /\ SharedKeys \subseteq Finalizers

(* What set_finalizers (privileged.cpp) lets pass: the weights add up to a *)
(* uint64_t, whatever an int can hold, and the threshold exceeds half of   *)
(* the sum but not the sum.                                                *)
WellFormed(policy) ==
    /\ IsFiniteSet(policy.finalizers)
    /\ policy.weight \in [policy.finalizers -> Nat]
    /\ policy.threshold \in Nat \ {0}
    /\ LET total == weight_sum(policy, policy.finalizers)
       IN  total < Uint64Modulus /\ total \div 2 < policy.threshold /\ policy.threshold <= total

ASSUME WeightsAssumption ==
    WellFormed(ActivePolicy) /\ (HasPending => WellFormed(PendingPolicy))

(* An absent signature is told apart from every signature.                 *)
ASSUME NoSigAssumption ==
    \A s, w \in SUBSET Keys : strong_sig(s) # NoSig /\ weak_sig(s, w) # NoSig

Votes == [key : Finalizers, strong : BOOLEAN]

in_active(key)  == key \in ActivePolicy.finalizers
in_pending(key) == HasPending /\ key \in PendingPolicy.finalizers

cast_by(strong) == {v.key : v \in {w \in cast : w.strong = strong}}

(* A finalizer signs one vote for the block, a key that two nodes share    *)
(* perhaps both; when they arrive, if ever, is up to the threads.          *)
Init ==
    /\ cast \in {votes \in SUBSET Votes :
                   \A key \in Finalizers :
                       {v.strong : v \in {w \in votes : w.key = key}}
                          \in IF key \in SharedKeys THEN SUBSET BOOLEAN \ {{}} ELSE {{TRUE}, {FALSE}}}
    /\ relayed = [vote \in [key : Keys, strong : BOOLEAN] |-> 0]
    /\ active = new_agg
    /\ pending = IF HasPending THEN new_agg ELSE NoSig
    /\ threads = [t \in Threads |-> [pc |-> "idle"]]
    /\ receiver = [pc |-> "idle", count |-> 0]
    /\ proposer = [pc |-> "idle"]

-----------------------------------------------------------------------------
(* aggregate_vote *)

(* Vote messages: copies of the votes that were cast, and ones whose       *)
(* signature does not verify, whatever strength they name.                 *)
VoteMessages ==
    {[key |-> v.key, strong |-> v.strong, sig_ok |-> TRUE] : v \in cast}
        \cup [key : Keys, strong : {TRUE}, sig_ok : {FALSE}]

Goto(t, pc, result) ==
    /\ threads' = [threads EXCEPT ![t] = [pc |-> pc, msg |-> threads[t].msg, result |-> result]]
    /\ UNCHANGED relayed

(* The caller (vote_processor_t::emit) has a successful vote sent on.      *)
Return(t, result) ==
    /\ threads' = [threads EXCEPT ![t] = [pc |-> "idle"]]
    /\ relayed' = IF result # "success" THEN relayed
                  ELSE [relayed EXCEPT ![[key |-> threads[t].msg.key, strong |-> threads[t].msg.strong]] = @ + 1]

StartVote(t, msg) ==
    /\ threads[t].pc = "idle"
    /\ threads' = [threads EXCEPT ![t] = [pc |-> "check_active", msg |-> msg, result |-> "unknown_public_key"]]
    /\ UNCHANGED << cast, relayed, active, pending, receiver, proposer >>

(* The lookup in the active policy and the unlocked duplicate check; the   *)
(* signature is verified before the lock is taken.                         *)
CheckActive(t) ==
    /\ threads[t].pc = "check_active"
    /\ LET msg == threads[t].msg
       IN  IF ~in_active(msg.key) THEN Goto(t, "check_pending", threads[t].result)
           ELSE IF agg_has_voted(active, msg.key) THEN Return(t, "duplicate")
           ELSE IF ~msg.sig_ok THEN Return(t, "invalid_signature")
           ELSE Goto(t, "add_active", threads[t].result)
    /\ UNCHANGED << cast, active, pending, receiver, proposer >>

(* Mutant: a duplicate in the active policy goes on to the pending one. *)
AddActive_goes_on(t) ==
    /\ threads[t].pc = "add_active"
    /\ LET msg == threads[t].msg
       IN  /\ active' = add_vote(active, ActivePolicy, msg.strong, msg.key)
           /\ Goto(t, "check_pending", "success")
    /\ UNCHANGED << cast, pending, receiver, proposer >>

AddActive(t) ==
    /\ threads[t].pc = "add_active"
    /\ LET msg == threads[t].msg
       IN  /\ active' = add_vote(active, ActivePolicy, msg.strong, msg.key)
           /\ IF agg_has_voted(active, msg.key) THEN Return(t, "duplicate")
              ELSE Goto(t, "check_pending", "success")
    /\ UNCHANGED << cast, pending, receiver, proposer >>

(* Mutant: a finalizer found in the active policy is done. *)
CheckPending_skips_dual(t) ==
    /\ threads[t].pc = "check_pending"
    /\ LET msg == threads[t].msg
       IN  IF ~in_pending(msg.key) \/ in_active(msg.key) THEN Return(t, threads[t].result)
           ELSE IF agg_has_voted(pending, msg.key) THEN Return(t, "duplicate")
           ELSE IF ~msg.sig_ok THEN Return(t, "invalid_signature")
           ELSE Goto(t, "add_pending", threads[t].result)
    /\ UNCHANGED << cast, active, pending, receiver, proposer >>

CheckPending(t) ==
    /\ threads[t].pc = "check_pending"
    /\ LET msg == threads[t].msg
       IN  IF ~in_pending(msg.key) THEN Return(t, threads[t].result)
           ELSE IF agg_has_voted(pending, msg.key) THEN Return(t, "duplicate")
           ELSE IF ~msg.sig_ok THEN Return(t, "invalid_signature")
           ELSE Goto(t, "add_pending", threads[t].result)
    /\ UNCHANGED << cast, active, pending, receiver, proposer >>

AddPending(t) ==
    /\ threads[t].pc = "add_pending"
    /\ LET msg == threads[t].msg
       IN  /\ pending' = add_vote(pending, PendingPolicy, msg.strong, msg.key)
           /\ Return(t, IF agg_has_voted(pending, msg.key) THEN "duplicate" ELSE "success")
    /\ UNCHANGED << cast, active, receiver, proposer >>

-----------------------------------------------------------------------------
(* set_received_qc *)

SigsOver(policy) ==
    LET strong == cast_by(TRUE) \cap policy.finalizers
        weak   == cast_by(FALSE) \cap policy.finalizers
    IN  {strong_sig(s) : s \in SUBSET strong}
            \cup UNION {{weak_sig(s, w) : s \in SUBSET strong} : w \in SUBSET weak}

(* The QCs that other blocks can carry for this block: made of votes that  *)
(* were cast, and verified before they are stored.                         *)
ReceivableQCs ==
    {qc \in [active_policy_sig  : SigsOver(ActivePolicy),
             pending_policy_sig : IF HasPending THEN SigsOver(PendingPolicy) ELSE {NoSig}] :
        verify_basic(qc, ActivePolicy, PendingPolicy)}

StartReceive ==
    /\ receiver.pc = "idle"
    /\ receiver.count < MaxReceives
    /\ \E qc \in ReceivableQCs :
          receiver' = [pc |-> "set_active", qc |-> qc, count |-> receiver.count + 1]
    /\ UNCHANGED << cast, relayed, active, pending, threads, proposer >>

ReceiveActive ==
    /\ receiver.pc = "set_active"
    /\ active' = set_received_qc_sig(active, receiver.qc.active_policy_sig)
    /\ receiver' = IF HasPending THEN [receiver EXCEPT !.pc = "set_pending"]
                   ELSE [pc |-> "idle", count |-> receiver.count]
    /\ UNCHANGED << cast, relayed, pending, threads, proposer >>

ReceivePending ==
    /\ receiver.pc = "set_pending"
    /\ pending' = set_received_qc_sig(pending, receiver.qc.pending_policy_sig)
    /\ receiver' = [pc |-> "idle", count |-> receiver.count]
    /\ UNCHANGED << cast, relayed, active, threads, proposer >>

-----------------------------------------------------------------------------
(* get_best_qc *)

ReadActive ==
    LET best == sig_get_best_qc(active)
    IN  /\ proposer.pc # "read_pending"
        /\ best # NoSig
        /\ proposer' = IF HasPending THEN [pc |-> "read_pending", active_best |-> best]
                       ELSE [pc |-> "returned", qc |-> [active_policy_sig |-> best, pending_policy_sig |-> NoSig]]
        /\ UNCHANGED << cast, relayed, active, pending, threads, receiver >>

(* Without a quorum on the pending policy there is no QC.                  *)
ReadPending ==
    LET best == sig_get_best_qc(pending)
    IN  /\ proposer.pc = "read_pending"
        /\ proposer' = IF best = NoSig THEN [pc |-> "idle"]
                       ELSE [pc |-> "returned", qc |-> [active_policy_sig  |-> proposer.active_best,
                                                        pending_policy_sig |-> best]]
        /\ UNCHANGED << cast, relayed, active, pending, threads, receiver >>

-----------------------------------------------------------------------------
Next ==
    \/ \E t \in Threads, msg \in VoteMessages : StartVote(t, msg)
    \/ \E t \in Threads : CheckActive(t)
    \/ \E t \in Threads : AddActive(t)
    \/ \E t \in Threads : CheckPending(t)
    \/ \E t \in Threads : AddPending(t)
    \/ StartReceive
    \/ ReceiveActive
    \/ ReceivePending
    \/ ReadActive
    \/ ReadPending

Spec == Init /\ [][Next]_vars

-----------------------------------------------------------------------------
(* Properties *)

ForBoth(P(_, _)) == P(active, ActivePolicy) /\ (HasPending => P(pending, PendingPolicy))

CountedOnce(agg, policy) ==
    /\ agg.strong_votes \cap agg.weak_votes = {}
    /\ agg.strong_votes \cup agg.weak_votes \subseteq policy.finalizers
    /\ agg.strong_sum = weight_sum(policy, agg.strong_votes)
    /\ agg.weak_sum = weight_sum(policy, agg.weak_votes)

StateMatches(agg, policy) ==
    LET total           == weight_sum(policy, policy.finalizers)
        strong_possible == total - agg.weak_sum >= policy.threshold
        quorum          == agg.strong_sum + agg.weak_sum >= policy.threshold
    IN  /\ is_quorum_met(agg) <=> quorum
        /\ agg.state = "strong" => agg.strong_sum >= policy.threshold
        /\ agg.state = "restricted" => ~strong_possible
        /\ agg.state = "weak_achieved" => agg.strong_sum < policy.threshold
        /\ agg.state = "weak_final" => total - agg.weak_sum <= policy.threshold
        /\ total < IntModulus \div 2 /\ agg.state \in {"unrestricted", "weak_achieved"} => strong_possible

(* However vote threads race between the unlocked duplicate check and the  *)
(* lock, the weight of a finalizer is counted at most once, on one side,   *)
(* and the aggregator's state is what the votes counted so far say, for    *)
(* every order of strong and weak votes and every policy set_finalizers    *)
(* accepts.  When the sum of the weights overflows the int it is folded    *)
(* into, the state may go on calling a strong QC possible after it is not, *)
(* but none rules one out too early, save weak_final when the weights that *)
(* did not vote weak are exactly the threshold.                            *)
StateMatchesVotes == ForBoth(CountedOnce) /\ ForBoth(StateMatches)

(* A dual finalizer has voted in the pending policy only as it has in the  *)
(* active one, and once no thread is between the two, exactly as it has:   *)
(* the early returns of aggregate_vote lose no half of a vote.             *)
DualVotesAgree ==
    HasPending =>
        \A key \in ActivePolicy.finalizers \cap PendingPolicy.finalizers :
            /\ key \in pending.strong_votes => key \in active.strong_votes
            /\ key \in pending.weak_votes => key \in active.weak_votes
            /\ (\A t \in Threads : threads[t].pc # "idle" => threads[t].msg.key # key) =>
                  vote_same_at(active, pending, key)

(* A vote is relayed to the peers at most once, only one that counts for   *)
(* its finalizer is, and every vote that counts has been relayed exactly   *)
(* once by the time no thread is at work on that finalizer: the check      *)
(* without the lock and the early return on a duplicate neither relay a    *)
(* vote twice nor swallow one.                                             *)
CountedIsRelayed ==
    \A vote \in DOMAIN relayed :
        LET counts(agg) == vote.key \in (IF vote.strong THEN agg.strong_votes ELSE agg.weak_votes)
            due == IF (in_active(vote.key) /\ counts(active)) \/ (in_pending(vote.key) /\ counts(pending))
                   THEN 1 ELSE 0
        IN  /\ relayed[vote] <= due
            /\ (\A t \in Threads : threads[t].pc # "idle" => threads[t].msg.key # vote.key) =>
                  relayed[vote] = due

SigRank(sig) == IF sig = NoSig THEN 0 ELSE IF sig.is_weak THEN 1 ELSE 2

NotWeaker ==
    /\ SigRank(sig_get_best_qc(active)) <= SigRank(sig_get_best_qc(active'))
    /\ HasPending => SigRank(sig_get_best_qc(pending)) <= SigRank(sig_get_best_qc(pending'))

(* What get_best_qc finds for a policy never gets weaker, whatever QCs and *)
(* votes arrive in whatever order: a producer never claims less for a      *)
(* block than it has claimed before.                                       *)
BestQcNeverWeakens == [][NotWeaker]_vars

(* Each signature of a QC that get_best_qc returns passes the checks a     *)
(* receiver makes on it alone, and is made of votes that were cast.        *)
ProposedSigsVerify ==
    proposer.pc = "returned" =>
        LET verifies(sig, policy) ==
                /\ verify_vote_format(sig, policy)
                /\ verify_weights(sig, policy)
                /\ sig.strong_votes \subseteq cast_by(TRUE)
                /\ sig.weak_votes \subseteq cast_by(FALSE)
        IN  /\ verifies(proposer.qc.active_policy_sig, ActivePolicy)
            /\ HasPending => verifies(proposer.qc.pending_policy_sig, PendingPolicy)

-----------------------------------------------------------------------------
(* Statements of the source that the code does not meet *)

(* qc.hpp:124 of state weak_final: "Enough `weak` + `strong` votes for a   *)
(* valid `weak` QC, `strong` not possible anymore."                        *)
WeakFinalExcludesStrong ==
    active.state = "weak_final" =>
        weight_sum(ActivePolicy, ActivePolicy.finalizers) - active.weak_sum < ActivePolicy.threshold

(* qc.cpp:74 of the check a receiver makes: "verify that every finalizer   *)
(* included in both policies voted the same".  Every one did, so the QC    *)
(* that get_best_qc returns should pass the check.                         *)
ProposedQcVerifies ==
    proposer.pc = "returned" => verify_basic(proposer.qc, ActivePolicy, PendingPolicy)

=============================================================================
