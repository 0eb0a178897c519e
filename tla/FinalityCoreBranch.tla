------------------------- MODULE FinalityCoreBranch -------------------------
(***************************************************************************)
(* One branch of a Savanna chain growing from its genesis block: every     *)
(* block carries a QC claim that the controller has accepted, and the core *)
(* of the branch head is the one finality_core::next computes from its     *)
(* parent.  The branch itself, which the core garbage collects as blocks   *)
(* become final, is kept in full so that what the core answers can be      *)
(* compared with what the blocks say.                                      *)
(***************************************************************************)
EXTENDS FinalityCore

CONSTANTS
    GenesisNum,     \* block number of the Savanna genesis block
    MaxBlockNum,    \* bound on the block numbers of the branch
    MaxTimeGap,     \* bound on the slots between a block and its parent
    Names           \* what tells block ids of one number apart

ASSUME GenesisNumAssumption  == GenesisNum \in Nat \ {0}
ASSUME MaxBlockNumAssumption == MaxBlockNum \in Nat
ASSUME MaxTimeGapAssumption  == MaxTimeGap \in Nat

VARIABLES
    branch,   \* the blocks from genesis to head: [id, timestamp, claim]
    core      \* finality core of the head

vars == << branch, core >>

BlockIds == [num : GenesisNum .. MaxBlockNum, name : Names]

Claims == [block_num : Nat, is_strong_qc : BOOLEAN]

head == branch[Len(branch)]

head_ref == block_ref(head.id, head.timestamp, 1, 0)

LegalClaims ==
    {claim \in [block_num : GenesisNum .. current_block_num(core), is_strong_qc : BOOLEAN] :
        verify_qc_claim(claim, head.claim, head.id.num)}

Init ==
    \E name \in Names, timestamp \in 1 .. MaxTimeGap :
        LET id == [num |-> GenesisNum, name |-> name]
        IN  /\ branch = << [id        |-> id,
                            timestamp |-> timestamp,
                            claim     |-> qc_claim_t(GenesisNum, FALSE)] >>
            /\ core = create_core_for_genesis_block(id, timestamp)

(* A block extends the head: block_header_state::next computes its core.   *)
AppendBlock(name, gap, claim) ==
    /\ head.id.num < MaxBlockNum
    /\ verify_qc_claim(claim, head.claim, head.id.num)
    /\ branch' = Append(branch, [id        |-> [num |-> head.id.num + 1, name |-> name],
                                 timestamp |-> head.timestamp + gap,
                                 claim     |-> claim])
    /\ core' = next(core, head_ref, claim)

Next == \E name \in Names, gap \in 1 .. MaxTimeGap, claim \in LegalClaims :
            AppendBlock(name, gap, claim)

Spec == Init /\ [][Next]_vars

-----------------------------------------------------------------------------
(* Properties *)

BlockAt(num) == branch[num - GenesisNum + 1]

(* Every link, reference and block is a well-formed record.                *)
TypeOK ==
    /\ branch \in Seq([id : [num : Nat, name : Names], timestamp : Nat, claim : Claims])
    /\ branch # << >>
    /\ core.links \in Seq([source_block_num : Nat, target_block_num : Nat, is_link_strong : BOOLEAN])
    /\ core.refs \in Seq([block_id : [num : Nat, name : Names], timestamp : Nat,
                          active_policy_generation : Nat, pending_policy_generation : Nat])
    /\ core.genesis_timestamp \in Nat

(* Invariants 1 to 9 of struct finality_core (finality_core.hpp:73-87). *)
LinksInvariant ==
    /\ core.links # << >>
    /\ last_final_block_num(core) <= front_link(core).source_block_num
    /\ front_link(core).source_block_num <= latest_qc_claim(core).block_num
    /\ \A i \in 1 .. Len(core.links) - 1 :
          /\ core.links[i].source_block_num + 1 = core.links[i + 1].source_block_num
          /\ core.links[i].target_block_num <= core.links[i + 1].target_block_num

RefsInvariant ==
    /\ core.refs = << >> =>
          /\ Len(core.links) = 1
          /\ back_link(core).target_block_num = back_link(core).source_block_num
    /\ core.refs # << >> =>
          /\ ref_block_num(core.refs[1]) = last_final_block_num(core)
          /\ ref_block_num(core.refs[Len(core.refs)]) + 1 = current_block_num(core)
    /\ \A i \in 1 .. Len(core.refs) - 1 :
          /\ ref_block_num(core.refs[i]) + 1 = ref_block_num(core.refs[i + 1])
          /\ core.refs[i].timestamp < core.refs[i + 1].timestamp

SizesInvariant ==
    /\ current_block_num(core) - last_final_block_num(core) = Len(core.refs)
    /\ current_block_num(core) - front_link(core).source_block_num = Len(core.links) - 1

(* The nine invariants that finality_core.hpp documents hold for the core  *)
(* of every block of every branch.                                         *)
CoreInvariants == LinksInvariant /\ RefsInvariant /\ SizesInvariant

(* No claim that the controller accepts makes one of the asserts of        *)
(* finality_core::next, or of the functions it calls, false.  (In a        *)
(* release build a violated one would be an out of range vector access.)   *)
AssertsHold == \A claim \in LegalClaims : next_asserts(core, head_ref, claim)

(* The last final block of the core is the one the two-chain rule gives on *)
(* the whole branch: the highest block claimed by a block that some later  *)
(* block claims a strong QC for, and the genesis block if there is none.   *)
(* The garbage collection of links never loses a link this needs.          *)
TwoChainFinal(num) ==
    \/ num = GenesisNum
    \/ \E i \in 1 .. Len(branch) :
          /\ branch[i].claim.is_strong_qc
          /\ BlockAt(branch[i].claim.block_num).claim.block_num = num

LastFinalIsTwoChain ==
    /\ TwoChainFinal(last_final_block_num(core))
    /\ \A i \in 1 .. Len(branch) :
          branch[i].claim.is_strong_qc =>
             BlockAt(branch[i].claim.block_num).claim.block_num <= last_final_block_num(core)

(* finality_core::extends answers exactly whether a block is an ancestor   *)
(* that is not below the last final block, and the reference it returns    *)
(* for one is that ancestor: no other block of the same number is taken    *)
(* for it.                                                                 *)
ExtendsIffAncestor ==
    \A id \in BlockIds :
        extends(core, id) <=>
            /\ id.num >= last_final_block_num(core)
            /\ \E i \in 1 .. Len(branch) - 1 :
                  /\ branch[i].id = id
                  /\ get_block_reference(core, id.num).timestamp = branch[i].timestamp

Advances ==
    /\ last_final_block_num(core) <= last_final_block_num(core')
    /\ claim_leq(latest_qc_claim(core), latest_qc_claim(core'))
    /\ next_metadata(core, latest_qc_claim(core')) =
          [last_final_block_num      |-> last_final_block_num(core'),
           latest_qc_claim_block_num |-> latest_qc_claim(core').block_num]
    /\ last_final_block_num(core') # GenesisNum =>
          last_final_block_timestamp(core') < latest_qc_block_timestamp(core')

(* Finality never regresses along a branch, the claim never weakens, and   *)
(* next_metadata, which the header state consults before it builds the     *)
(* next core, announces the values the next core has.  The last final      *)
(* block stays older than the block of the latest QC claim: what lets a    *)
(* finalizer whose lock is final pass the liveness check of                *)
(* finalizer::decide_vote.                                                 *)
FinalityAdvances == [][Advances]_vars

=============================================================================
