------------------------------ MODULE Finalizer ------------------------------
(***************************************************************************)
(* One finalizer (finalizer.cpp): its safety information, how it decides   *)
(* on a vote and what it remembers of it, and how a node restores the      *)
(* information at startup.  Operators only.                                *)
(*                                                                         *)
(* The references of the safety information keep the id and the timestamp  *)
(* of a block: the finality digest is a function of the id, and the policy *)
(* generations are neither written to the safety file nor read.            *)
(*                                                                         *)
(* A block (block_state) is a record with its block_ref and its finality   *)
(* core in the fields ref and core.                                        *)
(***************************************************************************)
EXTENDS FinalityCore

ref_of(ref) == [block_id |-> ref.block_id, timestamp |-> ref.timestamp]

no_ref == [block_id |-> [num |-> 0, name |-> "none"], timestamp |-> 0]

empty(ref) == ref.block_id.num = 0

safety_information(last_vote, lock, other_branch_latest_time) ==
    [last_vote                |-> last_vote,
     lock                     |-> lock,
     other_branch_latest_time |-> other_branch_latest_time]

unset_fsi == safety_information(no_ref, no_ref, NoTimestamp)

(* The block of the latest QC claim. *)
latest_qc_claim__block_ref(b) == ref_of(get_block_reference(b.core, latest_qc_claim(b.core).block_num))

-----------------------------------------------------------------------------
(* finalizer::decide_vote *)

monotony_check(fsi, b) == empty(fsi.last_vote) \/ b.ref.timestamp > fsi.last_vote.timestamp

liveness_check(fsi, b) ==
    /\ ~empty(fsi.lock)
    /\ latest_qc_block_timestamp(b.core) > fsi.lock.timestamp

safety_check(fsi, b) == ~empty(fsi.lock) /\ extends(b.core, fsi.lock.block_id)

(* Mutant: votes on another branch are forgotten after one vote. *)
strong_check_ignores_other_branch(fsi, b) ==
    \/ fsi.last_vote.timestamp <= latest_qc_block_timestamp(b.core)
    \/ extends(b.core, fsi.last_vote.block_id)

(* A vote may be strong when no vote since the claimed block was for       *)
(* another branch.                                                         *)
strong_check(fsi, b) ==
    \/ fsi.last_vote.timestamp <= latest_qc_block_timestamp(b.core)
    \/ /\ extends(b.core, fsi.last_vote.block_id)
       /\ fsi.other_branch_latest_time <= latest_qc_block_timestamp(b.core)

decision(fsi, b) ==
    IF ~(monotony_check(fsi, b) /\ (liveness_check(fsi, b) \/ safety_check(fsi, b))) THEN "no_vote"
    ELSE IF strong_check(fsi, b) THEN "strong_vote" ELSE "weak_vote"

(* Mutant: the block voted for is locked. *)
after_strong_vote_locks_block(fsi, b) ==
    safety_information(ref_of(b.ref), ref_of(b.ref), NoTimestamp)

(* The safety information after a strong vote: the claimed block is locked *)
(* when it is more recent than the lock.                                   *)
after_strong_vote(fsi, b) ==
    safety_information(
        ref_of(b.ref),
        IF latest_qc_block_timestamp(b.core) > fsi.lock.timestamp
        THEN latest_qc_claim__block_ref(b) ELSE fsi.lock,
        NoTimestamp)

(* After a weak vote: the time of the last vote is kept when it was for    *)
(* another branch.                                                         *)
after_weak_vote(fsi, b) ==
    safety_information(
        ref_of(b.ref),
        fsi.lock,
        IF extends(b.core, fsi.last_vote.block_id)
        THEN fsi.other_branch_latest_time ELSE fsi.last_vote.timestamp)

fsi_after(fsi, b) ==
    CASE decision(fsi, b) = "no_vote"     -> fsi
      [] decision(fsi, b) = "strong_vote" -> after_strong_vote(fsi, b)
      [] decision(fsi, b) = "weak_vote"   -> after_weak_vote(fsi, b)

-----------------------------------------------------------------------------
(* finalizer::maybe_update_fsi: a QC shows a strong vote of the finalizer  *)
(* on a block.                                                             *)

maybe_update_fsi(fsi, b) ==
    IF /\ latest_qc_claim__block_ref(b).timestamp > fsi.lock.timestamp
       /\ b.ref.timestamp > fsi.last_vote.timestamp
    THEN safety_information(ref_of(b.ref), latest_qc_claim__block_ref(b), NoTimestamp)
    ELSE fsi

-----------------------------------------------------------------------------
(* my_finalizers_t: the finalizers of a node map keys to safety            *)
(* information, and so does what the safety file holds.                    *)

(* Finalizers that have no safety information yet take the default. *)
set_default_safety_information(finalizers, default_fsi) ==
    [key \in DOMAIN finalizers |->
        IF empty(finalizers[key].last_vote) /\ empty(finalizers[key].lock)
        THEN default_fsi ELSE finalizers[key]]

(* The configured finalizers after startup, given what the file holds...   *)
set_keys(keys, info, default_fsi) ==
    [key \in keys |-> IF key \in DOMAIN info THEN info[key] ELSE default_fsi]

(* ... and the information of the others, which is kept for the next save. *)
inactive_info(keys, info) == [key \in DOMAIN info \ keys |-> info[key]]

(* What a save writes. *)
saved_info(finalizers, inactive) ==
    [key \in DOMAIN finalizers \cup DOMAIN inactive |->
        IF key \in DOMAIN finalizers THEN finalizers[key] ELSE inactive[key]]

=============================================================================
