---------------------------- MODULE FinalityCore ----------------------------
(***************************************************************************)
(* The finality core of a Savanna block (finality_core.cpp): the QC links  *)
(* and block references that a block header commits to, from which every   *)
(* node computes the last final block and the latest QC claim of a branch. *)
(* The module only has operators: a core is a value,                       *)
(*                                                                         *)
(*   [links             : sequence of qc_link,                             *)
(*    refs              : sequence of block_ref,                           *)
(*    genesis_timestamp : timestamp]                                       *)
(*                                                                         *)
(* A block id is a record [num, name]: the code keeps the block number in  *)
(* the first four bytes of the id, the name stands for the hash.  The      *)
(* finality digest of a block_ref is a function of the block id here and   *)
(* is left out.  C++ indices start at 0, TLA+ ones at 1.                   *)
(***************************************************************************)
EXTENDS Integers, Sequences

num_from_id(id) == id.num

(* struct block_ref: the two generations are those of the block's active   *)
(* and pending finalizer policies (0 when there is no pending one).        *)
block_ref(id, timestamp, active_gen, pending_gen) ==
    [block_id                  |-> id,
     timestamp                 |-> timestamp,
     active_policy_generation  |-> active_gen,
     pending_policy_generation |-> pending_gen]

ref_block_num(ref) == num_from_id(ref.block_id)

qc_link(source, target, strong) ==
    [source_block_num |-> source, target_block_num |-> target, is_link_strong |-> strong]

qc_claim_t(num, strong) == [block_num |-> num, is_strong_qc |-> strong]

(* operator<=> of qc_claim_t: the block number decides, then the strength. *)
claim_leq(a, b) ==
    \/ a.block_num < b.block_num
    \/ a.block_num = b.block_num /\ (a.is_strong_qc => b.is_strong_qc)

(***************************************************************************)
(* Queries                                                                 *)
(***************************************************************************)

is_genesis_core(c) == c.refs = << >>

front_link(c) == c.links[1]

back_link(c) == c.links[Len(c.links)]

current_block_num(c) == back_link(c).source_block_num

last_final_block_num(c) == front_link(c).target_block_num

latest_qc_claim(c) == qc_claim_t(back_link(c).target_block_num, back_link(c).is_link_strong)

get_block_reference(c, block_num) == c.refs[block_num - last_final_block_num(c) + 1]

last_final_block_timestamp(c) ==
    IF is_genesis_core(c) THEN c.genesis_timestamp
    ELSE get_block_reference(c, last_final_block_num(c)).timestamp

latest_qc_block_timestamp(c) ==
    IF is_genesis_core(c) THEN c.genesis_timestamp
    ELSE get_block_reference(c, back_link(c).target_block_num).timestamp

(* Mutant: any block number in range is taken for an ancestor. *)
extends_by_number(c, id) ==
    /\ last_final_block_num(c) <= num_from_id(id)
    /\ num_from_id(id) < current_block_num(c)

extends(c, id) ==
    /\ last_final_block_num(c) <= num_from_id(id)
    /\ num_from_id(id) < current_block_num(c)
    /\ get_block_reference(c, num_from_id(id)).block_id = id

is_genesis_block_num(c, block_num) ==
    /\ front_link(c).source_block_num = front_link(c).target_block_num
    /\ front_link(c).source_block_num = block_num

get_qc_link_from(c, block_num) == c.links[block_num - front_link(c).source_block_num + 1]

(***************************************************************************)
(* Construction                                                            *)
(***************************************************************************)

create_core_for_genesis_block(id, timestamp) ==
    [links             |-> << qc_link(num_from_id(id), num_from_id(id), FALSE) >>,
     refs              |-> << >>,
     genesis_timestamp |-> timestamp]

(* Mutant: a weak QC finalizes like a strong one. *)
get_new_block_numbers_weak_finalizes(c, claim) ==
    LET link == get_qc_link_from(c, claim.block_num)
    IN  [last_final |-> link.target_block_num, front_source |-> link.source_block_num]

(* The new last final block and the new first link source once a block     *)
(* claims the given QC: a weak QC moves nothing, a strong one finalizes    *)
(* what the claimed block itself claimed (two-chain rule).                 *)
get_new_block_numbers(c, claim) ==
    IF ~claim.is_strong_qc
    THEN [last_final |-> last_final_block_num(c), front_source |-> front_link(c).source_block_num]
    ELSE LET link == get_qc_link_from(c, claim.block_num)
         IN  [last_final |-> link.target_block_num, front_source |-> link.source_block_num]

(* Mutant: the last final block of the parent. *)
next_metadata_stale(c, claim) ==
    [last_final_block_num      |-> last_final_block_num(c),
     latest_qc_claim_block_num |-> claim.block_num]

next_metadata(c, claim) ==
    [last_final_block_num      |-> get_new_block_numbers(c, claim).last_final,
     latest_qc_claim_block_num |-> claim.block_num]

(* A vector without its first n elements. *)
drop_front(s, n) == [i \in 1 .. Len(s) - n |-> s[i + n]]

next_links(c, claim) ==
    Append(drop_front(c.links, get_new_block_numbers(c, claim).front_source - front_link(c).source_block_num),
           qc_link(current_block_num(c) + 1, claim.block_num, claim.is_strong_qc))

(* Mutant: references are dropped up to the first link source. *)
next_refs_from_front_source(c, current_block, claim) ==
    Append(drop_front(c.refs, get_new_block_numbers(c, claim).front_source - last_final_block_num(c)),
           current_block)

next_refs(c, current_block, claim) ==
    Append(drop_front(c.refs, get_new_block_numbers(c, claim).last_final - last_final_block_num(c)),
           current_block)

(* next leaves genesis_timestamp value-initialised: only a genesis core    *)
(* reads it.                                                               *)
NoTimestamp == 0

next(c, current_block, claim) ==
    [links             |-> next_links(c, claim),
     refs              |-> next_refs(c, current_block, claim),
     genesis_timestamp |-> NoTimestamp]

(***************************************************************************)
(* What the controller accepts                                             *)
(***************************************************************************)

(* Mutant: a claim on the same block may get weaker. *)
verify_qc_claim_may_weaken(claim, prev_claim, prev_num) ==
    /\ claim.block_num >= prev_claim.block_num
    /\ claim.block_num <= prev_num

(* The conditions of controller_impl::verify_basic_proper_block_invariants *)
(* on the claim of a block, given the claim of its parent.                 *)
verify_qc_claim(claim, prev_claim, prev_num) ==
    /\ claim.block_num >= prev_claim.block_num
    /\ claim.block_num <= prev_num
    /\ claim.block_num = prev_claim.block_num =>
          claim.is_strong_qc = prev_claim.is_strong_qc \/ claim.is_strong_qc

(***************************************************************************)
(* The asserts of next, get_new_block_numbers and the functions they call. *)
(* Release builds drop them, so they are obligations of the callers.       *)
(***************************************************************************)

get_qc_link_from_asserts(c, block_num) ==
    /\ c.links # << >>
    /\ front_link(c).source_block_num <= block_num
    /\ block_num <= current_block_num(c)
    /\ block_num - front_link(c).source_block_num < Len(c.links)

get_new_block_numbers_asserts(c, claim) ==
    /\ claim.block_num <= current_block_num(c)
    /\ latest_qc_claim(c).block_num <= claim.block_num
    /\ front_link(c).source_block_num <= claim.block_num
    /\ claim.is_strong_qc =>
          /\ get_qc_link_from_asserts(c, claim.block_num)
          /\ last_final_block_num(c) <= get_qc_link_from(c, claim.block_num).target_block_num
          /\ front_link(c).source_block_num <= get_qc_link_from(c, claim.block_num).source_block_num

next_asserts(c, current_block, claim) ==
    LET new         == get_new_block_numbers(c, claim)
        links_index == new.front_source - front_link(c).source_block_num
        refs_index  == new.last_final - last_final_block_num(c)
        kept        == drop_front(c.links, links_index)
        n           == next(c, current_block, claim)
    IN  /\ ref_block_num(current_block) = current_block_num(c)
        /\ c.refs # << >> => /\ ref_block_num(c.refs[Len(c.refs)]) + 1 = ref_block_num(current_block)
                             /\ c.refs[Len(c.refs)].timestamp < current_block.timestamp
        /\ claim_leq(latest_qc_claim(c), claim)
        /\ get_new_block_numbers_asserts(c, claim)
        /\ new.last_final <= new.front_source
        /\ new.front_source <= claim.block_num
        /\ last_final_block_num(c) <= new.last_final
        /\ front_link(c).source_block_num <= new.front_source
        /\ links_index < Len(c.links)
        /\ kept[1].target_block_num = new.last_final
        /\ kept[Len(kept)].source_block_num = current_block_num(c)
        /\ kept[Len(kept)].target_block_num <= claim.block_num
        /\ IF c.refs = << >> THEN refs_index = 0
           ELSE refs_index < Len(c.refs) /\ ref_block_num(c.refs[refs_index + 1]) = new.last_final
        /\ ref_block_num(n.refs[1]) = new.last_final
        /\ latest_qc_claim(c).block_num <= latest_qc_claim(n).block_num

=============================================================================
