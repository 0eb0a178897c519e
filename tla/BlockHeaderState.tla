-------------------------- MODULE BlockHeaderState --------------------------
(***************************************************************************)
(* The part of a Savanna block header state that every node computes from  *)
(* the parent's (block_header_state.cpp): its finality core, the finalizer *)
(* policies on their way from proposed to pending to active, the proposer  *)
(* policies on theirs, and the roots of the validation trees               *)
(* (block_state.cpp).  The module only has operators on a header state.    *)
(*                                                                         *)
(* A finalizer policy is [generation, finalizers] and a proposer policy    *)
(* [proposal_time, version, producers]; thresholds, weights and keys are   *)
(* carried along with the finalizers and are left out.  A digest of a      *)
(* policy is the policy itself (SHA-256 has no collisions here), and the   *)
(* root of the validation tree of a block of the branch is the number of   *)
(* that block.                                                             *)
(***************************************************************************)
EXTENDS FinalityCore, OrderedDiff

CONSTANTS
    nullptr,               \* an absent policy
    producer_repetitions   \* slots in a round

ASSUME ProducerRepetitionsAssumption == producer_repetitions \in Nat \ {0}

finalizer_policy(generation, finalizers) ==
    [generation |-> generation, finalizers |-> finalizers]

proposer_policy(time, version, producers) ==
    [proposal_time |-> time, version |-> version, producers |-> producers]

(* An in-flight policy and the block it is associated with. *)
in_flight(num, policy) == [block_num |-> num, policy |-> policy]

id_of(num) == [num |-> num, name |-> "b"]

generation_of(flight) == IF flight = nullptr THEN 0 ELSE flight.policy.generation

make_block_ref(bhs) ==
    block_ref(id_of(bhs.block_num), bhs.timestamp,
              bhs.active_finalizer_policy.generation,
              generation_of(bhs.pending_finalizer_policy))

(***************************************************************************)
(* Proposer policies                                                       *)
(***************************************************************************)

get_current_round_start_slot(t) == t - (t % producer_repetitions)

(* Mutant: a schedule may take effect in the middle of a round. *)
in_same_round_never(t, curr) == FALSE

in_same_round(t, curr) == t < get_current_round_start_slot(curr) + producer_repetitions

first_block_of_round(curr, parent) == parent < get_current_round_start_slot(curr)

(* get_prior_round_start_slot has a value and t is before it. *)
before_prior_round(t, curr) ==
    /\ curr >= producer_repetitions
    /\ t < get_current_round_start_slot(curr) - producer_repetitions

(* Mutant: the finality of the proposal is not asked for. *)
get_active_proposer_policy_for_block_at_unfinal(bhs, t) ==
    IF in_same_round(t, bhs.timestamp) \/ bhs.latest_pending_proposer_policy = nullptr
    THEN bhs.active_proposer_policy
    ELSE bhs.latest_pending_proposer_policy

get_active_proposer_policy_for_block_at(bhs, t) ==
    LET proposed == bhs.latest_proposed_proposer_policy
        pending  == bhs.latest_pending_proposer_policy
        final(p) == p.proposal_time <= last_final_block_timestamp(bhs.core)
    IN  IF in_same_round(t, bhs.timestamp) THEN bhs.active_proposer_policy
        ELSE IF /\ proposed # nullptr
                /\ before_prior_round(proposed.proposal_time, bhs.timestamp)
                /\ final(proposed)
             THEN proposed
             ELSE IF pending # nullptr /\ final(pending) THEN pending
                  ELSE bhs.active_proposer_policy

get_last_proposed_proposer_policy(bhs) ==
    CASE bhs.latest_proposed_proposer_policy # nullptr -> bhs.latest_proposed_proposer_policy
      [] /\ bhs.latest_proposed_proposer_policy = nullptr
         /\ bhs.latest_pending_proposer_policy # nullptr -> bhs.latest_pending_proposer_policy
      [] OTHER -> bhs.active_proposer_policy

(* What is pending once active is: a promoted proposal also discards the   *)
(* older policy that was pending.                                          *)
pending_proposer_left(prev, active) ==
    IF /\ active # prev.active_proposer_policy
       /\ active \in {prev.latest_proposed_proposer_policy, prev.latest_pending_proposer_policy}
    THEN nullptr ELSE prev.latest_pending_proposer_policy

proposed_proposer_left(prev, active) ==
    IF active # prev.active_proposer_policy /\ active = prev.latest_proposed_proposer_policy
    THEN nullptr ELSE prev.latest_proposed_proposer_policy

moves_to_pending(t, prev, proposed, pending) ==
    first_block_of_round(t, prev.timestamp) /\ proposed # nullptr /\ pending = nullptr

evaluate_proposer_policies_for_promotion(prev, t) ==
    LET active   == get_active_proposer_policy_for_block_at(prev, t)
        proposed == proposed_proposer_left(prev, active)
        pending  == pending_proposer_left(prev, active)
        moves    == moves_to_pending(t, prev, proposed, pending)
    IN  [active   |-> active,
         proposed |-> IF moves THEN nullptr ELSE proposed,
         pending  |-> IF moves THEN proposed ELSE pending]

(***************************************************************************)
(* Finalizer policies                                                      *)
(***************************************************************************)

get_last_proposed_finalizer_policy(bhs) ==
    LET proposed == bhs.proposed_finalizer_policies
    IN  CASE proposed # << >> -> proposed[Len(proposed)].policy
          [] proposed = << >> /\ bhs.pending_finalizer_policy # nullptr -> bhs.pending_finalizer_policy.policy
          [] OTHER -> bhs.active_finalizer_policy

get_last_pending_finalizer_policy(bhs) ==
    IF bhs.pending_finalizer_policy # nullptr THEN bhs.pending_finalizer_policy.policy
    ELSE bhs.active_finalizer_policy

(* The block that ref refers to had an active policy that is neither the   *)
(* current one nor the one kept for the latest QC claim, or a pending one  *)
(* that is neither active nor pending: "Logic error in finalizer policy    *)
(* retrieval".                                                             *)
get_finalizer_policies_throws(bhs, ref) ==
    LET kept == bhs.latest_qc_claim_block_active_finalizer_policy
        same(policy, gen) == policy # nullptr /\ policy.generation = gen
    IN  \/ /\ bhs.active_finalizer_policy.generation # ref.active_policy_generation
           /\ ~same(kept, ref.active_policy_generation)
        \/ /\ ref.pending_policy_generation \notin {0, bhs.active_finalizer_policy.generation}
           /\ generation_of(bhs.pending_finalizer_policy) # ref.pending_policy_generation

get_finalizer_policies(bhs, ref) ==
    [active_finalizer_policy |->
        IF bhs.active_finalizer_policy.generation = ref.active_policy_generation
        THEN bhs.active_finalizer_policy
        ELSE bhs.latest_qc_claim_block_active_finalizer_policy,
     pending_finalizer_policy |->
        CASE ref.pending_policy_generation = 0 -> nullptr
          [] ref.pending_policy_generation = bhs.active_finalizer_policy.generation ->
                bhs.active_finalizer_policy
          [] OTHER -> bhs.pending_finalizer_policy.policy]

(* block_state::get_finalizer_policies and get_active_finalizer_policy_generation: *)
(* the block itself is not among the references of its core.               *)
ref_at(bhs, num) ==
    IF num = bhs.block_num THEN make_block_ref(bhs) ELSE get_block_reference(bhs.core, num)

get_active_finalizer_policy_generation(bhs, num) == ref_at(bhs, num).active_policy_generation

(***************************************************************************)
(* evaluate_finalizer_policies_for_promotion: the pending policy becomes   *)
(* active once its block is final; the latest of the proposed policies     *)
(* whose block is final (the target) takes the pending slot if it is open, *)
(* and the older ones go in either case.                                   *)
(***************************************************************************)

(* Mutant: being pending is enough. *)
pending_is_final_at_once(prev, lib) == prev.pending_finalizer_policy # nullptr

pending_is_final(prev, lib) ==
    prev.pending_finalizer_policy # nullptr /\ prev.pending_finalizer_policy.block_num <= lib

pending_slot_open(prev, lib) ==
    prev.pending_finalizer_policy = nullptr \/ pending_is_final(prev, lib)

(* Mutant: the policy proposed in the last final block is reversible. *)
first_reversible_from_lib(proposed, lib) ==
    LET reversible == {i \in DOMAIN proposed : proposed[i].block_num >= lib}
    IN  CHOOSE i \in reversible \cup {Len(proposed) + 1} : \A j \in reversible : i <= j

first_reversible(proposed, lib) ==
    LET reversible == {i \in DOMAIN proposed : proposed[i].block_num > lib}
    IN  CHOOSE i \in reversible \cup {Len(proposed) + 1} : \A j \in reversible : i <= j

(* 0 when no proposed policy is final. *)
target(prev, lib) == first_reversible(prev.proposed_finalizer_policies, lib) - 1

(* Mutant: the target goes too, although the pending slot is taken. *)
proposed_left_drops_target(prev, lib) ==
    LET proposed == prev.proposed_finalizer_policies
    IN  SubSeq(proposed, target(prev, lib) + 1, Len(proposed))

proposed_left(prev, lib) ==
    LET proposed == prev.proposed_finalizer_policies
    IN  IF pending_slot_open(prev, lib) \/ target(prev, lib) = 0
        THEN SubSeq(proposed, target(prev, lib) + 1, Len(proposed))
        ELSE SubSeq(proposed, target(prev, lib), Len(proposed))

promotes_target(prev, lib) == pending_slot_open(prev, lib) /\ target(prev, lib) # 0

(* last_pending_finalizer_policy_start_timestamp *)
pending_start(prev, lib, t) ==
    IF promotes_target(prev, lib) THEN t ELSE prev.last_pending_finalizer_policy_start_timestamp

evaluate_finalizer_policies_for_promotion(prev, lib, num) ==
    [active   |-> IF pending_is_final(prev, lib) THEN prev.pending_finalizer_policy.policy
                  ELSE prev.active_finalizer_policy,
     pending  |-> CASE promotes_target(prev, lib) ->
                          in_flight(num, prev.proposed_finalizer_policies[target(prev, lib)].policy)
                    [] ~pending_slot_open(prev, lib) -> prev.pending_finalizer_policy
                    [] OTHER -> nullptr,
     proposed |-> proposed_left(prev, lib)]

(***************************************************************************)
(* The next header state                                                   *)
(***************************************************************************)

(* building_block_if::get_next_proposer_schedule_version: the version of a *)
(* new schedule, 0 when the producers are those of the last one.           *)
get_next_proposer_schedule_version(prev, t, producers) ==
    LET last == IF prev.latest_proposed_proposer_policy # nullptr \/ prev.latest_pending_proposer_policy # nullptr
                THEN get_last_proposed_proposer_policy(prev)
                ELSE get_active_proposer_policy_for_block_at(prev, t)
    IN  IF last.producers # producers THEN last.version + 1 ELSE 0

create_diff(base, finalizers, generation) ==
    [generation |-> generation, finalizers_diff |-> diff(base.finalizers, finalizers)]

create_proposer_diff(base, producers, version, t) ==
    [version |-> version, proposal_time |-> t, producer_auth_diff |-> diff(base.producers, producers)]

(* The finality extension of the header: finish_block of the controller    *)
(* decides what the block proposes, block_header_state::next(input)        *)
(* encodes it as a difference with the last proposed policy.               *)
finality_extension(prev, t, qc_claim, finalizers, producers) ==
    [qc_claim |-> qc_claim,
     new_finalizer_policy_diff |->
        IF finalizers = nullptr THEN nullptr
        ELSE create_diff(get_last_proposed_finalizer_policy(prev), finalizers,
                         prev.finalizer_policy_generation + 1),
     new_proposer_policy_diff |->
        IF producers = nullptr \/ get_next_proposer_schedule_version(prev, t, producers) = 0 THEN nullptr
        ELSE create_proposer_diff(get_last_proposed_proposer_policy(prev), producers,
                                  get_next_proposer_schedule_version(prev, t, producers), t)]

apply_finalizer_diff(base, d) ==
    finalizer_policy(d.generation, apply_diff(base.finalizers, d.finalizers_diff))

apply_proposer_diff(base, d) ==
    proposer_policy(d.proposal_time, d.version, apply_diff(base.producers, d.producer_auth_diff))

(* Mutant: the roots of the last final block are dropped as well. *)
new_valid_drops_final(prev, core) ==
    Append(IF last_final_block_num(core) = last_final_block_num(prev.core) THEN prev.validation_mroots
           ELSE drop_front(prev.validation_mroots, last_final_block_num(core) - last_final_block_num(prev.core) + 1),
           prev.block_num + 1)

(* block_state::new_valid: the roots of the blocks that have become final  *)
(* go, the root of the tree with the new block is appended.                *)
new_valid(prev, core) ==
    Append(drop_front(prev.validation_mroots, last_final_block_num(core) - last_final_block_num(prev.core)),
           prev.block_num + 1)

(* Mutant: the policy active at the claimed block is never kept.           *)
claim_block_policy_dropped(prev, core, active) == nullptr

(* latest_qc_claim_block_active_finalizer_policy of the next header state. *)
claim_block_policy(prev, core, active) ==
    LET num == latest_qc_claim(core).block_num
    IN  IF get_active_finalizer_policy_generation(prev, num) = active.generation THEN nullptr
        ELSE get_finalizer_policies(prev, get_block_reference(core, num)).active_finalizer_policy

finish_next(prev, t, f_ext) ==
    LET num      == prev.block_num + 1
        core     == next(prev.core, make_block_ref(prev), f_ext.qc_claim)
        proposer == evaluate_proposer_policies_for_promotion(prev, t)
        lib      == last_final_block_num(core)
        policies == evaluate_finalizer_policies_for_promotion(prev, lib, num)
        f_diff   == f_ext.new_finalizer_policy_diff
        p_diff   == f_ext.new_proposer_policy_diff
    IN  [block_num |-> num,
         timestamp |-> t,
         core |-> core,
         active_proposer_policy |-> proposer.active,
         latest_proposed_proposer_policy |->
            IF p_diff = nullptr THEN proposer.proposed
            ELSE apply_proposer_diff(get_last_proposed_proposer_policy(prev), p_diff),
         latest_pending_proposer_policy |-> proposer.pending,
         active_finalizer_policy |-> policies.active,
         pending_finalizer_policy |-> policies.pending,
         proposed_finalizer_policies |->
            IF f_diff = nullptr THEN policies.proposed
            ELSE Append(policies.proposed,
                        in_flight(num, apply_finalizer_diff(get_last_proposed_finalizer_policy(prev), f_diff))),
         finalizer_policy_generation |->
            IF f_diff = nullptr THEN prev.finalizer_policy_generation ELSE f_diff.generation,
         last_pending_finalizer_policy_start_timestamp |-> pending_start(prev, lib, t),
         latest_qc_claim_block_active_finalizer_policy |-> claim_block_policy(prev, core, policies.active),
         validation_mroots |-> new_valid(prev, core)]

(* What finish_next and block_header_state::next(header) refuse: a         *)
(* generation that does not grow, a malformed difference, a policy that    *)
(* cannot be retrieved.                                                    *)
finish_next_throws(prev, t, f_ext) ==
    LET f_diff == f_ext.new_finalizer_policy_diff
        p_diff == f_ext.new_proposer_policy_diff
        core   == next(prev.core, make_block_ref(prev), f_ext.qc_claim)
        num    == f_ext.qc_claim.block_num
        active == evaluate_finalizer_policies_for_promotion(prev, last_final_block_num(core), prev.block_num + 1).active
    IN  \/ t <= prev.timestamp
        \/ p_diff # nullptr /\ ~applies(get_last_proposed_proposer_policy(prev).producers, p_diff.producer_auth_diff)
        \/ f_diff # nullptr /\ \/ ~applies(get_last_proposed_finalizer_policy(prev).finalizers, f_diff.finalizers_diff)
                               \/ f_diff.generation <= prev.finalizer_policy_generation
        \/ /\ get_active_finalizer_policy_generation(prev, num) # active.generation
           /\ get_finalizer_policies_throws(prev, get_block_reference(core, num))

(* The root of the finality tree that a child claiming the given QC must   *)
(* commit to: none (0) while the claim is the genesis block.               *)
get_finality_mroot_claim(bhs, claim) ==
    LET num == next_metadata(bhs.core, claim).latest_qc_claim_block_num
    IN  IF is_genesis_block_num(bhs.core, num) THEN 0
        ELSE bhs.validation_mroots[num - last_final_block_num(bhs.core) + 1]

(* get_validation_mroot throws. *)
get_finality_mroot_claim_throws(bhs, claim) ==
    LET num == next_metadata(bhs.core, claim).latest_qc_claim_block_num
        low == last_final_block_num(bhs.core)
    IN  /\ ~is_genesis_block_num(bhs.core, num)
        /\ num \notin low .. low + Len(bhs.validation_mroots) - 1

(* block_state::create_if_genesis_block *)
create_if_genesis_block(num, t, finalizers, producers) ==
    [block_num |-> num,
     timestamp |-> t,
     core |-> create_core_for_genesis_block(id_of(num), t),
     active_proposer_policy |-> proposer_policy(0, 1, producers),
     latest_proposed_proposer_policy |-> nullptr,
     latest_pending_proposer_policy |-> nullptr,
     active_finalizer_policy |-> finalizer_policy(1, finalizers),
     pending_finalizer_policy |-> nullptr,
     proposed_finalizer_policies |-> << >>,
     finalizer_policy_generation |-> 1,
     last_pending_finalizer_policy_start_timestamp |-> t,
     latest_qc_claim_block_active_finalizer_policy |-> nullptr,
     validation_mroots |-> << num >>]

=============================================================================
