------------------------- MODULE FinalityCoreProofs -------------------------
(***************************************************************************)
(* Proofs about FinalityCoreBranch, for every genesis block number, every  *)
(* set of block names and branches of every length: the documented         *)
(* invariants of the finality core, and that garbage collecting the links  *)
(* never changes which block is final.                                     *)
(***************************************************************************)
EXTENDS FinalityCoreBranch, TLAPS

LinkType == [source_block_num : Nat, target_block_num : Nat, is_link_strong : BOOLEAN]

RefType == [block_id : [num : Nat, name : Names], timestamp : Nat,
            active_policy_generation : Nat, pending_policy_generation : Nat]

BlockType == [id : [num : Nat, name : Names], timestamp : Nat, claim : Claims]

(* The blocks of the branch are numbered without gaps, their timestamps    *)
(* increase and their claims never decrease.                               *)
BranchShape ==
    /\ branch \in Seq(BlockType)
    /\ Len(branch) >= 1
    /\ \A i \in 1 .. Len(branch) : branch[i].id.num = GenesisNum + i - 1
    /\ branch[1].claim = qc_claim_t(GenesisNum, FALSE)
    /\ \A i \in 2 .. Len(branch) : branch[i].claim.block_num \in GenesisNum .. GenesisNum + i - 2
    /\ \A i, j \in 1 .. Len(branch) :
          i < j => branch[i].timestamp < branch[j].timestamp
    /\ \A i, j \in 1 .. Len(branch) :
          i <= j => branch[i].claim.block_num <= branch[j].claim.block_num

(* The links are the claims of the blocks from some block f to the head.   *)
LinksAre(f) ==
    /\ core.links \in Seq(LinkType)
    /\ f \in GenesisNum .. GenesisNum + Len(branch) - 1
    /\ Len(core.links) = Len(branch) - (f - GenesisNum)
    /\ \A i \in 1 .. Len(core.links) :
          core.links[i] = qc_link(f + i - 1,
                                  BlockAt(f + i - 1).claim.block_num,
                                  BlockAt(f + i - 1).claim.is_strong_qc)

(* The references are the blocks from block l to the parent of the head.   *)
RefsAre(l) ==
    /\ core.refs \in Seq(RefType)
    /\ l \in GenesisNum .. GenesisNum + Len(branch) - 1
    /\ Len(core.refs) = GenesisNum + Len(branch) - 1 - l
    /\ \A i \in 1 .. Len(core.refs) :
          core.refs[i] = block_ref(BlockAt(l + i - 1).id, BlockAt(l + i - 1).timestamp, 1, 0)

(* The inductive invariant: the core is what the branch says it is. *)
CoreMatchesBranch ==
    /\ BranchShape
    /\ core.genesis_timestamp \in Nat
    /\ LinksAre(front_link(core).source_block_num)
    /\ RefsAre(last_final_block_num(core))
    /\ front_link(core).source_block_num <= head.claim.block_num
    /\ LastFinalIsTwoChain

(* Names for the two results of get_new_block_numbers. *)
NewFrontSource(claim, g) == g = get_new_block_numbers(core, claim).front_source

NewLastFinal(claim, g) == g = get_new_block_numbers(core, claim).last_final

-----------------------------------------------------------------------------
(* Dropping the first n elements of a vector leaves the others in order:   *)
(* the garbage collection of finality_core::next.                          *)
LEMMA DropFront ==
    ASSUME NEW S, NEW s \in Seq(S), NEW n \in 0 .. Len(s)
    PROVE  /\ drop_front(s, n) \in Seq(S)
           /\ Len(drop_front(s, n)) = Len(s) - n
           /\ \A i \in 1 .. Len(s) - n : drop_front(s, n)[i] = s[i + n]
BY DEF drop_front

(* The head of the branch, the current block of the core and its latest    *)
(* claim agree.                                                            *)
LEMMA CoreHead ==
    ASSUME CoreMatchesBranch
    PROVE  /\ GenesisNum \in Nat
           /\ Len(branch) \in Nat
           /\ Len(branch) >= 1
           /\ branch[Len(branch)] \in BlockType
           /\ head.id.num = GenesisNum + Len(branch) - 1
           /\ current_block_num(core) = head.id.num
           /\ latest_qc_claim(core) = qc_claim_t(head.claim.block_num, head.claim.is_strong_qc)
           /\ Len(core.links) >= 1
<1>1. GenesisNum \in Nat
    BY GenesisNumAssumption
<1>2. /\ Len(branch) \in Nat
      /\ Len(branch) >= 1
      /\ branch[Len(branch)] \in BlockType
      /\ head.id.num = GenesisNum + Len(branch) - 1
    BY <1>1 DEF CoreMatchesBranch, BranchShape, head
<1>3. Len(core.links) >= 1
    BY <1>1, <1>2 DEF CoreMatchesBranch, LinksAre
<1>4. PICK f : LinksAre(f)
    BY DEF CoreMatchesBranch
<1>5. back_link(core) = qc_link(GenesisNum + Len(branch) - 1,
                                head.claim.block_num, head.claim.is_strong_qc)
    BY <1>1, <1>2, <1>3, <1>4 DEF LinksAre, back_link, head, BlockAt
<1>6. QED
    BY <1>1, <1>2, <1>3, <1>5 DEF current_block_num, latest_qc_claim, qc_link

(* Where the links of the core start and what they say: the last final     *)
(* block is the claim of the block that the first link starts from.        *)
LEMMA Numbers ==
    ASSUME CoreMatchesBranch
    PROVE  LET f == front_link(core).source_block_num
               l == last_final_block_num(core)
           IN  /\ f \in GenesisNum .. head.id.num
               /\ l \in GenesisNum .. head.id.num
               /\ l = BlockAt(f).claim.block_num
               /\ \A k \in f .. head.id.num :
                     core.links[k - f + 1] = qc_link(k, BlockAt(k).claim.block_num,
                                                     BlockAt(k).claim.is_strong_qc)
               /\ \A k \in f .. head.id.num : BlockAt(k).claim.block_num \in l .. k
<1> DEFINE f == front_link(core).source_block_num
           l == last_final_block_num(core)
           N == Len(branch)
<1>1. /\ GenesisNum \in Nat /\ N \in Nat /\ N >= 1
      /\ head.id.num = GenesisNum + N - 1
      /\ current_block_num(core) = head.id.num
      /\ Len(core.links) >= 1
    BY CoreHead
<1>2. LinksAre(f) /\ RefsAre(l) /\ f <= head.claim.block_num /\ BranchShape
    BY DEF CoreMatchesBranch
<1>3. f \in GenesisNum .. head.id.num /\ l \in GenesisNum .. head.id.num
    BY <1>1, <1>2 DEF LinksAre, RefsAre
<1>4. \A k \in f .. head.id.num :
         core.links[k - f + 1] = qc_link(k, BlockAt(k).claim.block_num, BlockAt(k).claim.is_strong_qc)
    <2> SUFFICES ASSUME NEW k \in f .. head.id.num
                 PROVE  core.links[k - f + 1] = qc_link(k, BlockAt(k).claim.block_num,
                                                        BlockAt(k).claim.is_strong_qc)
        OBVIOUS
    <2>1. k - f + 1 \in 1 .. Len(core.links) /\ f + (k - f + 1) - 1 = k
        BY <1>1, <1>2, <1>3, SMTT(30) DEF LinksAre
    <2>2. QED
        BY <2>1, <1>2 DEF LinksAre
<1>5. l = BlockAt(f).claim.block_num
    <2>1. core.links[1] = qc_link(f, BlockAt(f).claim.block_num, BlockAt(f).claim.is_strong_qc)
        <3>1. f \in f .. head.id.num /\ f - f + 1 = 1
            BY <1>1, <1>3
        <3>2. QED
            BY <3>1, <1>4
    <2>2. QED
        BY <2>1 DEF last_final_block_num, front_link, qc_link
<1>6. \A k \in f .. head.id.num : BlockAt(k).claim.block_num \in l .. k
    <2> SUFFICES ASSUME NEW k \in f .. head.id.num
                 PROVE  BlockAt(k).claim.block_num \in l .. k
        OBVIOUS
    <2>1. /\ f - GenesisNum + 1 \in 1 .. N
          /\ k - GenesisNum + 1 \in 1 .. N
          /\ f - GenesisNum + 1 <= k - GenesisNum + 1
        BY <1>1, <1>3, SMTT(30)
    <2>2. /\ branch[k - GenesisNum + 1] \in BlockType
          /\ branch[f - GenesisNum + 1].claim.block_num <= branch[k - GenesisNum + 1].claim.block_num
        BY <2>1, <1>2 DEF BranchShape
    <2>3. branch[k - GenesisNum + 1].claim.block_num <= k
        <3>1. CASE k = GenesisNum
            <4>1. k - GenesisNum + 1 = 1
                BY <3>1, <1>1
            <4>2. branch[1].claim.block_num = GenesisNum
                BY <1>2 DEF BranchShape, qc_claim_t
            <4>3. QED
                BY <4>1, <4>2, <3>1, <1>1
        <3>2. CASE k # GenesisNum
            <4>1. k - GenesisNum + 1 \in 2 .. N
                BY <3>2, <2>1, <1>1, <1>3
            <4>2. branch[k - GenesisNum + 1].claim.block_num \in GenesisNum .. GenesisNum + (k - GenesisNum + 1) - 2
                BY <4>1, <1>2 DEF BranchShape
            <4>3. QED
                BY <4>2, <1>1, <1>3, SMTT(30)
        <3>3. QED
            BY <3>1, <3>2
    <2>4. QED
        BY <2>2, <2>3, <1>3, <1>5, <1>1, SMTT(30) DEF BlockAt, BlockType, Claims
<1>7. QED
    BY <1>3, <1>4, <1>5, <1>6, Zenon

(* The first link kept and the last final block that a legal claim gives:  *)
(* both move forward, and the new last final block is the claim of the     *)
(* block the first kept link starts from.                                  *)
LEMMA NewNumbers ==
    ASSUME CoreMatchesBranch, NEW claim \in LegalClaims
    PROVE  LET f   == front_link(core).source_block_num
               l   == last_final_block_num(core)
               new == get_new_block_numbers(core, claim)
           IN  /\ claim.block_num \in GenesisNum .. head.id.num
               /\ claim.is_strong_qc \in BOOLEAN
               /\ head.claim.block_num <= claim.block_num
               /\ f \in GenesisNum .. head.id.num
               /\ l \in GenesisNum .. head.id.num
               /\ l = BlockAt(f).claim.block_num
               /\ new.front_source \in f .. claim.block_num
               /\ new.last_final \in l .. new.front_source
               /\ new.last_final = BlockAt(new.front_source).claim.block_num
               /\ claim.is_strong_qc => new.front_source = claim.block_num
               /\ ~claim.is_strong_qc => new.front_source = f /\ new.last_final = l
<1> DEFINE f   == front_link(core).source_block_num
           l   == last_final_block_num(core)
           new == get_new_block_numbers(core, claim)
           N   == Len(branch)
<1>1. /\ GenesisNum \in Nat /\ N \in Nat /\ N >= 1
      /\ head.id.num = GenesisNum + N - 1
      /\ current_block_num(core) = head.id.num
      /\ Len(core.links) >= 1
    BY CoreHead
<1>2. /\ claim.block_num \in GenesisNum .. head.id.num
      /\ claim.is_strong_qc \in BOOLEAN
      /\ head.claim.block_num <= claim.block_num
    BY <1>1 DEF LegalClaims, verify_qc_claim
<1>3. f <= head.claim.block_num
    BY DEF CoreMatchesBranch
<1>4. f \in GenesisNum .. head.id.num /\ l \in GenesisNum .. head.id.num
    BY Numbers
<1>5. \A k \in f .. head.id.num :
         core.links[k - f + 1] = qc_link(k, BlockAt(k).claim.block_num, BlockAt(k).claim.is_strong_qc)
    BY Numbers
<1>6. l = BlockAt(f).claim.block_num
    BY Numbers
<1>7. \A k \in f .. head.id.num : BlockAt(k).claim.block_num \in l .. k
    BY Numbers
<1>8. CASE claim.is_strong_qc
    <2>1. claim.block_num \in f .. head.id.num
        BY <1>1, <1>2, <1>3, <1>4, CoreHead DEF BlockType, Claims, head
    <2>2. new = [last_final |-> BlockAt(claim.block_num).claim.block_num, front_source |-> claim.block_num]
        <3>1. get_qc_link_from(core, claim.block_num) =
                 qc_link(claim.block_num, BlockAt(claim.block_num).claim.block_num,
                         BlockAt(claim.block_num).claim.is_strong_qc)
            BY <1>5, <2>1 DEF get_qc_link_from
        <3>2. QED
            BY <1>8, <3>1 DEF get_new_block_numbers, qc_link
    <2>3. QED
        BY <1>1, <1>2, <1>4, <1>6, <1>7, <1>8, <2>1, <2>2
<1>9. CASE ~claim.is_strong_qc
    <2>1. new = [last_final |-> l, front_source |-> f]
        BY <1>9 DEF get_new_block_numbers
    <2>2. f <= claim.block_num /\ l <= f
        BY <1>1, <1>2, <1>3, <1>4, <1>6, <1>7, CoreHead, SMTT(30) DEF BlockType, Claims, head
    <2>3. QED
        BY <1>1, <1>2, <1>4, <1>6, <1>9, <2>1, <2>2
<1>10. QED
    BY <1>8, <1>9, <1>2

-----------------------------------------------------------------------------
(* The core of the genesis block matches the one-block branch.             *)
LEMMA InitMatches == Init => CoreMatchesBranch
<1> SUFFICES ASSUME Init PROVE CoreMatchesBranch
    OBVIOUS
<1>1. PICK name \in Names, timestamp \in 1 .. MaxTimeGap :
        LET id == [num |-> GenesisNum, name |-> name]
        IN  /\ branch = << [id        |-> id,
                            timestamp |-> timestamp,
                            claim     |-> qc_claim_t(GenesisNum, FALSE)] >>
            /\ core = create_core_for_genesis_block(id, timestamp)
    BY Zenon DEF Init
<1>2. GenesisNum \in Nat /\ timestamp \in Nat
    BY GenesisNumAssumption, MaxTimeGapAssumption
<1> DEFINE blk == [id        |-> [num |-> GenesisNum, name |-> name],
                   timestamp |-> timestamp,
                   claim     |-> qc_claim_t(GenesisNum, FALSE)]
<1>3. branch = << blk >> /\ blk \in BlockType
    BY <1>1, <1>2 DEF BlockType, Claims, qc_claim_t
<1>4. /\ core.links = << qc_link(GenesisNum, GenesisNum, FALSE) >>
      /\ core.refs = << >>
      /\ core.genesis_timestamp = timestamp
    BY <1>1, Zenon DEF create_core_for_genesis_block, num_from_id
<1>5. branch \in Seq(BlockType) /\ Len(branch) = 1 /\ branch[1] = blk
    BY <1>3
<1>6. BranchShape
    BY <1>2, <1>5 DEF BranchShape, qc_claim_t
<1>7. /\ front_link(core) = qc_link(GenesisNum, GenesisNum, FALSE)
      /\ front_link(core).source_block_num = GenesisNum
      /\ last_final_block_num(core) = GenesisNum
      /\ head = blk
    BY <1>4, <1>5 DEF front_link, last_final_block_num, qc_link, head
<1>8. BlockAt(GenesisNum) = blk
    <2>1. GenesisNum - GenesisNum + 1 = 1
        BY <1>2
    <2>2. QED
        BY <2>1, <1>5, Zenon DEF BlockAt
<1>9. LinksAre(GenesisNum)
    <2>1. core.links \in Seq(LinkType) /\ Len(core.links) = 1
        BY <1>2, <1>4 DEF qc_link, LinkType
    <2>2. core.links[1] = qc_link(GenesisNum + 1 - 1, BlockAt(GenesisNum + 1 - 1).claim.block_num,
                                  BlockAt(GenesisNum + 1 - 1).claim.is_strong_qc)
        <3>1. GenesisNum + 1 - 1 = GenesisNum
            BY <1>2
        <3>2. QED
            <4>1. core.links[1] = qc_link(GenesisNum, GenesisNum, FALSE)
                BY <1>4
            <4>2. BlockAt(GenesisNum).claim = qc_claim_t(GenesisNum, FALSE)
                BY <1>8
            <4>3. BlockAt(GenesisNum).claim.block_num = GenesisNum /\ BlockAt(GenesisNum).claim.is_strong_qc = FALSE
                BY <4>2 DEF qc_claim_t
            <4>4. QED
                BY <3>1, <4>1, <4>3, Zenon
    <2>3. QED
        BY <1>2, <1>5, <2>1, <2>2 DEF LinksAre
<1>10. RefsAre(GenesisNum)
    BY <1>2, <1>4, <1>5 DEF RefsAre
<1>11. LastFinalIsTwoChain
    BY <1>5, <1>7 DEF LastFinalIsTwoChain, TwoChainFinal, qc_claim_t
<1>12. QED
    <2>1. head.claim.block_num = GenesisNum
        BY <1>7 DEF qc_claim_t
    <2>2. LinksAre(front_link(core).source_block_num)
        BY <1>7, <1>9, Zenon
    <2>3. RefsAre(last_final_block_num(core))
        BY <1>7, <1>10, Zenon
    <2>4. front_link(core).source_block_num <= head.claim.block_num
        <3>1. front_link(core).source_block_num = GenesisNum
            BY <1>7, Zenon
        <3>2. QED
            BY <1>2, <2>1, <3>1
    <2>5. core.genesis_timestamp \in Nat
        BY <1>2, <1>4
    <2>6. QED
        BY <1>6, <1>11, <2>2, <2>3, <2>4, <2>5, Zenon DEF CoreMatchesBranch

(* What AppendBlock does to the branch: the blocks there stay, one block   *)
(* is added after them.                                                    *)
LEMMA BranchGrows ==
    ASSUME CoreMatchesBranch,
           NEW name \in Names, NEW gap \in 1 .. MaxTimeGap, NEW claim \in LegalClaims,
           AppendBlock(name, gap, claim)
    PROVE  /\ Len(branch') = Len(branch) + 1
           /\ \A i \in 1 .. Len(branch) : branch'[i] = branch[i]
           /\ branch'[Len(branch) + 1] = [id        |-> [num |-> GenesisNum + Len(branch), name |-> name],
                                          timestamp |-> head.timestamp + gap,
                                          claim     |-> claim]
           /\ \A k \in GenesisNum .. head.id.num : BlockAt(k)' = BlockAt(k)
           /\ \A k \in Nat : k = GenesisNum + Len(branch) => BlockAt(k)'.claim = claim
           /\ head'.claim = claim
           /\ BranchShape'
<1> DEFINE N == Len(branch)
           new == [id        |-> [num |-> GenesisNum + N, name |-> name],
                   timestamp |-> head.timestamp + gap,
                   claim     |-> claim]
<1>1. /\ GenesisNum \in Nat /\ N \in Nat /\ N >= 1
      /\ head.id.num = GenesisNum + N - 1
      /\ head = branch[N] /\ branch[N] \in BlockType
      /\ BranchShape
    BY CoreHead DEF CoreMatchesBranch, head
<1>2. /\ claim.block_num \in GenesisNum .. head.id.num
      /\ claim.is_strong_qc \in BOOLEAN
      /\ head.claim.block_num <= claim.block_num
      /\ claim \in Claims
    BY <1>1, CoreHead DEF LegalClaims, verify_qc_claim, Claims
<1>3. gap \in Nat /\ gap >= 1
    BY MaxTimeGapAssumption
<1>4. new \in BlockType
    BY <1>1, <1>2, <1>3 DEF BlockType
<1>5. branch' = Append(branch, new)
    <2>1. GenesisNum + N - 1 + 1 = GenesisNum + N
        BY <1>1
    <2>2. QED
        BY <2>1, <1>1 DEF AppendBlock
<1>6. /\ branch' \in Seq(BlockType)
      /\ Len(branch') = N + 1
      /\ \A i \in 1 .. N : branch'[i] = branch[i]
      /\ branch'[N + 1] = new
    BY <1>1, <1>4, <1>5 DEF BranchShape
<1>7. \A k \in GenesisNum .. head.id.num : BlockAt(k)' = BlockAt(k)
    <2> SUFFICES ASSUME NEW k \in GenesisNum .. head.id.num PROVE BlockAt(k)' = BlockAt(k)
        OBVIOUS
    <2>1. k - GenesisNum + 1 \in 1 .. N
        BY <1>1
    <2>2. QED
        BY <2>1, <1>6 DEF BlockAt
<1>8. head'.claim = claim
    BY <1>6 DEF head
<1>9. ASSUME NEW k \in Nat, k = GenesisNum + N
      PROVE  BlockAt(k)'.claim = claim
    <2>1. k - GenesisNum + 1 = N + 1
        BY <1>1, <1>9
    <2>2. QED
        BY <2>1, <1>6 DEF BlockAt
<1>10. BranchShape'
    <2> DEFINE b(i) == branch'[i]
    <2>1. /\ \A i \in 1 .. N : b(i) = branch[i]
          /\ b(N + 1).id.num = GenesisNum + N
          /\ b(N + 1).timestamp = head.timestamp + gap
          /\ b(N + 1).claim = claim
        BY <1>6
    <2>2. \A i \in 1 .. N + 1 : i \in 1 .. N \/ i = N + 1
        BY <1>1
    <2> HIDE DEF b
    <2>3. \A i \in 1 .. N + 1 : b(i).id.num = GenesisNum + i - 1
        <3>1. \A i \in 1 .. N : branch[i].id.num = GenesisNum + i - 1
            BY <1>1 DEF BranchShape
        <3>2. GenesisNum + N = GenesisNum + (N + 1) - 1
            BY <1>1
        <3>3. QED
            BY <3>1, <3>2, <2>1, <2>2
    <2>4. b(1).claim = qc_claim_t(GenesisNum, FALSE)
        <3>1. 1 \in 1 .. N /\ branch[1].claim = qc_claim_t(GenesisNum, FALSE)
            BY <1>1 DEF BranchShape
        <3>2. QED
            BY <3>1, <2>1, Zenon
    <2>5. \A i \in 2 .. N + 1 : b(i).claim.block_num \in GenesisNum .. GenesisNum + i - 2
        <3> SUFFICES ASSUME NEW i \in 2 .. N + 1
                     PROVE  b(i).claim.block_num \in GenesisNum .. GenesisNum + i - 2
            OBVIOUS
        <3>1. CASE i \in 2 .. N
            <4>1. branch[i].claim.block_num \in GenesisNum .. GenesisNum + i - 2 /\ i \in 1 .. N
                BY <3>1, <1>1 DEF BranchShape
            <4>2. QED
                BY <4>1, <2>1
        <3>2. CASE i = N + 1
            BY <3>2, <2>1, <1>1, <1>2
        <3>3. QED
            BY <3>1, <3>2, <1>1
    <2>6. \A i, j \in 1 .. N + 1 : i < j => b(i).timestamp < b(j).timestamp
        <3>1. \A i \in 1 .. N : branch[i].timestamp \in Nat
            <4>1. \A i \in 1 .. N : branch[i] \in BlockType
                BY <1>1 DEF BranchShape
            <4>2. QED
                BY <4>1 DEF BlockType
        <3>2. \A i, j \in 1 .. N : i < j => branch[i].timestamp < branch[j].timestamp
            BY <1>1 DEF BranchShape
        <3>3. \A i \in 1 .. N : branch[i].timestamp < head.timestamp + gap
            <4> SUFFICES ASSUME NEW i \in 1 .. N PROVE branch[i].timestamp < head.timestamp + gap
                OBVIOUS
            <4>1. branch[i].timestamp <= branch[N].timestamp
                BY <3>1, <3>2, <1>1
            <4>2. QED
                BY <4>1, <3>1, <1>1, <1>3
        <3>4. QED
            BY <3>2, <3>3, <2>1, <2>2, <1>1
    <2>7. \A i, j \in 1 .. N + 1 : i <= j => b(i).claim.block_num <= b(j).claim.block_num
        <3>1. \A i \in 1 .. N : branch[i].claim.block_num \in Nat
            <4>1. \A i \in 1 .. N : branch[i] \in BlockType
                BY <1>1 DEF BranchShape
            <4>2. QED
                BY <4>1 DEF BlockType, Claims
        <3>2. \A i, j \in 1 .. N : i <= j => branch[i].claim.block_num <= branch[j].claim.block_num
            BY <1>1 DEF BranchShape
        <3>3. \A i \in 1 .. N : branch[i].claim.block_num <= claim.block_num
            <4> SUFFICES ASSUME NEW i \in 1 .. N PROVE branch[i].claim.block_num <= claim.block_num
                OBVIOUS
            <4>1. branch[i].claim.block_num <= branch[N].claim.block_num
                BY <3>2, <1>1
            <4>2. QED
                BY <4>1, <3>1, <1>1, <1>2
        <3>4. QED
            BY <3>2, <3>3, <2>1, <2>2, <1>1, <1>2, SMTT(30)
    <2>8. QED
        BY <1>1, <1>6, <2>3, <2>4, <2>5, <2>6, <2>7 DEF BranchShape, b
<1>11. QED
    BY <1>6, <1>7, <1>8, <1>9, <1>10

(* The links of the new head: those of the blocks from the first one kept. *)
LEMMA LinksGrow ==
    ASSUME CoreMatchesBranch,
           NEW name \in Names, NEW gap \in 1 .. MaxTimeGap, NEW claim \in LegalClaims,
           AppendBlock(name, gap, claim),
           NEW g, NewFrontSource(claim, g)
    PROVE  LinksAre(g)'
<1> DEFINE f  == front_link(core).source_block_num
           N  == Len(branch)
           lk == qc_link(GenesisNum + N, claim.block_num, claim.is_strong_qc)
<1>1. /\ GenesisNum \in Nat /\ N \in Nat /\ N >= 1
      /\ head.id.num = GenesisNum + N - 1
      /\ current_block_num(core) = GenesisNum + N - 1
    BY CoreHead
<1>2. /\ claim.block_num \in GenesisNum .. head.id.num
      /\ claim.is_strong_qc \in BOOLEAN
      /\ f \in GenesisNum .. head.id.num
      /\ g \in f .. claim.block_num
    BY NewNumbers DEF NewFrontSource
<1>3. /\ core.links \in Seq(LinkType)
      /\ Len(core.links) = N - (f - GenesisNum)
      /\ \A i \in 1 .. Len(core.links) :
            core.links[i] = qc_link(f + i - 1, BlockAt(f + i - 1).claim.block_num,
                                    BlockAt(f + i - 1).claim.is_strong_qc)
    BY DEF CoreMatchesBranch, LinksAre
<1>4. g - f \in 0 .. Len(core.links)
    BY <1>1, <1>2, <1>3
<1>5. PICK L \in Seq(LinkType) :
      /\ L = drop_front(core.links, g - f)
      /\ Len(L) = Len(core.links) - (g - f)
      /\ \A i \in 1 .. Len(core.links) - (g - f) : L[i] = core.links[i + (g - f)]
    <2>1. /\ drop_front(core.links, g - f) \in Seq(LinkType)
          /\ Len(drop_front(core.links, g - f)) = Len(core.links) - (g - f)
          /\ \A i \in 1 .. Len(core.links) - (g - f) :
                drop_front(core.links, g - f)[i] = core.links[i + (g - f)]
        BY <1>3, <1>4, DropFront, Zenon
    <2>2. QED
        BY <2>1, Zenon
<1>6. lk \in LinkType
    BY <1>1, <1>2 DEF LinkType, qc_link
<1>7. core'.links = Append(L, lk)
    <2>1. GenesisNum + N - 1 + 1 = GenesisNum + N
        BY <1>1
    <2>2. core'.links = next_links(core, claim)
        BY DEF AppendBlock, next
    <2>3. QED
        BY <2>1, <2>2, <1>1, <1>5 DEF next_links, NewFrontSource
<1>8. Len(L) = N - (g - GenesisNum) /\ Len(L) \in Nat
    BY <1>1, <1>2, <1>3, <1>5, SMTT(30)
<1> HIDE DEF lk
<1>9. /\ core'.links \in Seq(LinkType)
      /\ Len(core'.links) = Len(L) + 1
      /\ \A i \in 1 .. Len(L) : core'.links[i] = L[i]
      /\ core'.links[Len(L) + 1] = lk
    BY <1>5, <1>6, <1>7
<1>10. ASSUME NEW i \in 1 .. Len(L)
       PROVE  core'.links[i] = qc_link(g + i - 1, BlockAt(g + i - 1)'.claim.block_num,
                                       BlockAt(g + i - 1)'.claim.is_strong_qc)
    <2>1. /\ i + (g - f) \in 1 .. Len(core.links)
          /\ f + (i + (g - f)) - 1 = g + i - 1
          /\ g + i - 1 \in GenesisNum .. head.id.num
          /\ i \in 1 .. Len(core.links) - (g - f)
        <3>1. Len(core.links) \in Nat
            BY <1>3
        <3>2. Len(core.links) = Len(L) + (g - f)
            BY <1>2, <1>5, <1>8, <3>1
        <3>3. g \in Nat /\ f \in Nat /\ f <= g /\ GenesisNum <= f /\ N \in Nat /\ GenesisNum \in Nat
            BY <1>1, <1>2
        <3>4. i \in Nat /\ 1 <= i /\ i <= Len(L)
            BY <1>8
        <3> HIDE DEF f, N
        <3>5. i + (g - f) \in 1 .. Len(core.links)
            BY <3>1, <3>2, <3>3, <3>4, <1>8
        <3>6. f + (i + (g - f)) - 1 = g + i - 1
            BY <3>3, <3>4
        <3>7. g + i - 1 \in GenesisNum .. head.id.num
            BY <3>3, <3>4, <1>1, <1>8
        <3>8. i \in 1 .. Len(core.links) - (g - f)
            BY <3>1, <3>2, <3>3, <3>4, <1>8
        <3>9. QED
            BY <3>5, <3>6, <3>7, <3>8, Zenon
    <2>2. core'.links[i] = core.links[i + (g - f)]
        BY <1>5, <1>9, <2>1
    <2>3. core.links[i + (g - f)] = qc_link(g + i - 1, BlockAt(g + i - 1).claim.block_num,
                                            BlockAt(g + i - 1).claim.is_strong_qc)
        BY <1>3, <2>1
    <2>4. BlockAt(g + i - 1)' = BlockAt(g + i - 1)
        BY <2>1, BranchGrows, Zenon
    <2>5. QED
        BY <2>2, <2>3, <2>4, Zenon
<1>11. ASSUME NEW i \in Nat, i = Len(L) + 1
       PROVE  core'.links[i] = qc_link(g + i - 1, BlockAt(g + i - 1)'.claim.block_num,
                                       BlockAt(g + i - 1)'.claim.is_strong_qc)
    <2>1. g + i - 1 = GenesisNum + N /\ g + i - 1 \in Nat
        BY <1>1, <1>2, <1>8, <1>11, SMTT(30)
    <2>2. BlockAt(g + i - 1)'.claim = claim
        BY <2>1, BranchGrows, Zenon
    <2>3. core'.links[i] = lk
        BY <1>9, <1>11
    <2>4. QED
        BY <2>1, <2>2, <2>3, Zenon DEF lk
<1>12. \A i \in 1 .. Len(core'.links) :
          core'.links[i] = qc_link(g + i - 1, BlockAt(g + i - 1)'.claim.block_num,
                                   BlockAt(g + i - 1)'.claim.is_strong_qc)
    <2>1. \A i \in 1 .. Len(core'.links) : i \in 1 .. Len(L) \/ (i \in Nat /\ i = Len(L) + 1)
        BY <1>8, <1>9
    <2>2. QED
        BY <2>1, <1>10, <1>11, Zenon
<1>13. /\ g \in GenesisNum .. GenesisNum + Len(branch') - 1
       /\ Len(core'.links) = Len(branch') - (g - GenesisNum)
    <2>1. Len(branch') = N + 1
        BY BranchGrows, Zenon
    <2>2. QED
        BY <2>1, <1>1, <1>2, <1>8, <1>9, SMTT(30)
<1>14. QED
    BY <1>9, <1>12, <1>13 DEF LinksAre

(* The references of the new head: the blocks from the last final one.     *)
LEMMA RefsGrow ==
    ASSUME CoreMatchesBranch,
           NEW name \in Names, NEW gap \in 1 .. MaxTimeGap, NEW claim \in LegalClaims,
           AppendBlock(name, gap, claim),
           NEW g, NewLastFinal(claim, g)
    PROVE  RefsAre(g)'
<1> DEFINE l == last_final_block_num(core)
           N == Len(branch)
<1>1. /\ GenesisNum \in Nat /\ N \in Nat /\ N >= 1
      /\ head.id.num = GenesisNum + N - 1
      /\ head \in BlockType /\ head = branch[N]
    BY CoreHead DEF head
<1>2. /\ l \in GenesisNum .. head.id.num
      /\ g \in l .. head.id.num
    <2>1. LET new == get_new_block_numbers(core, claim)
              f   == front_link(core).source_block_num
          IN  /\ claim.block_num \in GenesisNum .. head.id.num
              /\ l \in GenesisNum .. head.id.num
              /\ f \in GenesisNum .. head.id.num
              /\ new.front_source \in f .. claim.block_num
              /\ g \in l .. new.front_source
        BY NewNumbers DEF NewLastFinal
    <2>2. QED
        BY <2>1, <1>1
<1>3. /\ core.refs \in Seq(RefType)
      /\ Len(core.refs) = GenesisNum + N - 1 - l
      /\ \A i \in 1 .. Len(core.refs) :
            core.refs[i] = block_ref(BlockAt(l + i - 1).id, BlockAt(l + i - 1).timestamp, 1, 0)
    BY DEF CoreMatchesBranch, RefsAre
<1>4. g - l \in 0 .. Len(core.refs)
    BY <1>1, <1>2, <1>3
<1>5. PICK R \in Seq(RefType) :
      /\ R = drop_front(core.refs, g - l)
      /\ Len(R) = Len(core.refs) - (g - l)
      /\ \A i \in 1 .. Len(core.refs) - (g - l) : R[i] = core.refs[i + (g - l)]
    <2>1. /\ drop_front(core.refs, g - l) \in Seq(RefType)
          /\ Len(drop_front(core.refs, g - l)) = Len(core.refs) - (g - l)
          /\ \A i \in 1 .. Len(core.refs) - (g - l) :
                drop_front(core.refs, g - l)[i] = core.refs[i + (g - l)]
        BY <1>3, <1>4, DropFront, Zenon
    <2>2. QED
        BY <2>1, Zenon
<1>6. head_ref \in RefType
    BY <1>1 DEF head_ref, block_ref, RefType, BlockType
<1>7. core'.refs = Append(R, head_ref)
    <2>1. core'.refs = next_refs(core, head_ref, claim)
        BY DEF AppendBlock, next
    <2>2. QED
        BY <2>1, <1>5 DEF next_refs, NewLastFinal
<1>8. Len(R) = GenesisNum + N - 1 - g /\ Len(R) \in Nat
    <2>1. Len(R) = Len(core.refs) - (g - l) /\ Len(core.refs) = GenesisNum + N - 1 - l
        BY <1>3, <1>5
    <2>2. g \in Nat /\ l \in Nat /\ g <= GenesisNum + N - 1
        BY <1>1, <1>2
    <2> HIDE DEF l, N
    <2>3. QED
        BY <2>1, <2>2, <1>1
<1>9. /\ core'.refs \in Seq(RefType)
      /\ Len(core'.refs) = Len(R) + 1
      /\ \A i \in 1 .. Len(R) : core'.refs[i] = R[i]
      /\ core'.refs[Len(R) + 1] = head_ref
    BY <1>5, <1>6, <1>7
<1>10. ASSUME NEW i \in 1 .. Len(R)
       PROVE  core'.refs[i] = block_ref(BlockAt(g + i - 1)'.id, BlockAt(g + i - 1)'.timestamp, 1, 0)
    <2>1. /\ i + (g - l) \in 1 .. Len(core.refs)
          /\ l + (i + (g - l)) - 1 = g + i - 1
          /\ g + i - 1 \in GenesisNum .. head.id.num
          /\ i \in 1 .. Len(core.refs) - (g - l)
        <3>1. Len(core.refs) \in Nat
            BY <1>3
        <3>2. Len(core.refs) = Len(R) + (g - l)
            BY <1>2, <1>5, <1>8, <3>1, SMTT(30)
        <3>3. g \in Nat /\ l \in Nat /\ l <= g /\ GenesisNum <= l /\ N \in Nat /\ GenesisNum \in Nat
            BY <1>1, <1>2
        <3>4. i \in Nat /\ 1 <= i /\ i <= Len(R)
            BY <1>8
        <3> HIDE DEF l, N
        <3>5. i + (g - l) \in 1 .. Len(core.refs)
            BY <3>1, <3>2, <3>3, <3>4, <1>8
        <3>6. l + (i + (g - l)) - 1 = g + i - 1
            BY <3>3, <3>4
        <3>7. g + i - 1 \in GenesisNum .. head.id.num
            BY <3>3, <3>4, <1>1, <1>8
        <3>8. i \in 1 .. Len(core.refs) - (g - l)
            BY <3>1, <3>2, <3>3, <3>4, <1>8
        <3>9. QED
            BY <3>5, <3>6, <3>7, <3>8, Zenon
    <2>2. core'.refs[i] = core.refs[i + (g - l)]
        BY <1>5, <1>9, <2>1
    <2>3. core.refs[i + (g - l)] = block_ref(BlockAt(g + i - 1).id, BlockAt(g + i - 1).timestamp, 1, 0)
        BY <1>3, <2>1
    <2>4. BlockAt(g + i - 1)' = BlockAt(g + i - 1)
        BY <2>1, BranchGrows, Zenon
    <2>5. QED
        BY <2>2, <2>3, <2>4, Zenon
<1>11. ASSUME NEW i \in Nat, i = Len(R) + 1
       PROVE  core'.refs[i] = block_ref(BlockAt(g + i - 1)'.id, BlockAt(g + i - 1)'.timestamp, 1, 0)
    <2>1. /\ (g + i - 1) - GenesisNum + 1 = N
          /\ g + i - 1 \in GenesisNum .. head.id.num
        <3>1. g \in Nat /\ N \in Nat /\ GenesisNum \in Nat /\ GenesisNum <= g
            BY <1>1, <1>2
        <3> HIDE DEF N
        <3>2. i = GenesisNum + N - g
            BY <3>1, <1>8, <1>11
        <3>3. (g + i - 1) - GenesisNum + 1 = N
            BY <3>1, <3>2
        <3>4. g + i - 1 = GenesisNum + N - 1
            BY <3>1, <3>2
        <3>5. QED
            BY <3>1, <3>3, <3>4, <1>1
    <2>2. BlockAt(g + i - 1)' = BlockAt(g + i - 1)
        BY <2>1, BranchGrows, Zenon
    <2>3. BlockAt(g + i - 1) = head
        BY <2>1, <1>1 DEF BlockAt
    <2>4. core'.refs[i] = head_ref
        BY <1>9, <1>11
    <2>5. QED
        BY <2>2, <2>3, <2>4, Zenon DEF head_ref
<1>12. \A i \in 1 .. Len(core'.refs) :
          core'.refs[i] = block_ref(BlockAt(g + i - 1)'.id, BlockAt(g + i - 1)'.timestamp, 1, 0)
    <2>1. \A i \in 1 .. Len(core'.refs) : i \in 1 .. Len(R) \/ (i \in Nat /\ i = Len(R) + 1)
        BY <1>8, <1>9
    <2>2. QED
        BY <2>1, <1>10, <1>11, Zenon
<1>13. /\ g \in GenesisNum .. GenesisNum + Len(branch') - 1
       /\ Len(core'.refs) = GenesisNum + Len(branch') - 1 - g
    <2>1. Len(branch') = N + 1
        BY BranchGrows, Zenon
    <2>2. QED
        BY <2>1, <1>1, <1>2, <1>8, <1>9, SMTT(30)
<1>14. QED
    BY <1>9, <1>12, <1>13 DEF RefsAre

(* The first link and the last final block of the new core. *)
LEMMA NewFront ==
    ASSUME CoreMatchesBranch,
           NEW name \in Names, NEW gap \in 1 .. MaxTimeGap, NEW claim \in LegalClaims,
           AppendBlock(name, gap, claim),
           NEW g, NewFrontSource(claim, g)
    PROVE  /\ front_link(core').source_block_num = g
           /\ NewLastFinal(claim, last_final_block_num(core'))
<1>1. LinksAre(g)'
    BY LinksGrow
<1>2. /\ GenesisNum \in Nat /\ Len(branch) \in Nat /\ Len(branch') = Len(branch) + 1
      /\ head.id.num = GenesisNum + Len(branch) - 1
    BY CoreHead, BranchGrows, Zenon
<1>3. /\ g \in GenesisNum .. head.id.num
      /\ BlockAt(g).claim.block_num = get_new_block_numbers(core, claim).last_final
    <2>1. LET new == get_new_block_numbers(core, claim)
              f   == front_link(core).source_block_num
          IN  /\ claim.block_num \in GenesisNum .. head.id.num
              /\ f \in GenesisNum .. head.id.num
              /\ g \in f .. claim.block_num
              /\ new.last_final = BlockAt(g).claim.block_num
        BY NewNumbers DEF NewFrontSource
    <2>2. QED
        BY <2>1, <1>2
<1>4. BlockAt(g)' = BlockAt(g)
    BY <1>3, BranchGrows, Zenon
<1>5. front_link(core') = qc_link(g, BlockAt(g).claim.block_num, BlockAt(g).claim.is_strong_qc)
    <2>1. 1 \in 1 .. Len(core'.links) /\ g + 1 - 1 = g
        BY <1>1, <1>2, <1>3, SMTT(30) DEF LinksAre
    <2>2. core'.links[1] = qc_link(g + 1 - 1, BlockAt(g + 1 - 1)'.claim.block_num,
                                   BlockAt(g + 1 - 1)'.claim.is_strong_qc)
        BY <1>1, <2>1 DEF LinksAre
    <2>3. QED
        BY <2>1, <2>2, <1>4, Zenon DEF front_link
<1>6. QED
    BY <1>3, <1>5, SMTT(30) DEF qc_link, last_final_block_num, NewLastFinal

(* The two-chain rule on the longer branch. *)
LEMMA TwoChainGrows ==
    ASSUME CoreMatchesBranch,
           NEW name \in Names, NEW gap \in 1 .. MaxTimeGap, NEW claim \in LegalClaims,
           AppendBlock(name, gap, claim)
    PROVE  LastFinalIsTwoChain'
<1> DEFINE l  == last_final_block_num(core)
           l2 == last_final_block_num(core')
           N  == Len(branch)
<1>1. /\ GenesisNum \in Nat /\ N \in Nat /\ N >= 1
      /\ head.id.num = GenesisNum + N - 1
      /\ Len(branch') = N + 1
      /\ \A i \in 1 .. N : branch'[i] = branch[i]
      /\ branch'[N + 1].claim = claim
      /\ \A k \in GenesisNum .. head.id.num : BlockAt(k)' = BlockAt(k)
    <2>1. /\ Len(branch') = N + 1
          /\ \A i \in 1 .. N : branch'[i] = branch[i]
          /\ branch'[N + 1] = [id        |-> [num |-> GenesisNum + N, name |-> name],
                               timestamp |-> head.timestamp + gap,
                               claim     |-> claim]
          /\ \A k \in GenesisNum .. head.id.num : BlockAt(k)' = BlockAt(k)
        BY BranchGrows
    <2>2. branch'[N + 1].claim = claim
        BY <2>1
    <2>3. QED
        BY <2>1, <2>2, CoreHead
<1>2. PICK g : NewFrontSource(claim, g)
    BY DEF NewFrontSource
<1>3. NewLastFinal(claim, l2)
    BY <1>2, NewFront
<1>4. /\ claim.block_num \in GenesisNum .. head.id.num
      /\ claim.is_strong_qc \in BOOLEAN
      /\ l \in Int /\ l2 \in Int /\ l <= l2
      /\ claim.is_strong_qc => l2 = BlockAt(claim.block_num).claim.block_num
      /\ ~claim.is_strong_qc => l2 = l
    <2>1. LET new == get_new_block_numbers(core, claim)
              f   == front_link(core).source_block_num
          IN  /\ claim.block_num \in GenesisNum .. head.id.num
              /\ claim.is_strong_qc \in BOOLEAN
              /\ l \in GenesisNum .. head.id.num
              /\ f \in GenesisNum .. head.id.num
              /\ new.front_source \in f .. claim.block_num
              /\ l2 \in l .. new.front_source
              /\ l2 = BlockAt(new.front_source).claim.block_num
              /\ claim.is_strong_qc => new.front_source = claim.block_num
              /\ ~claim.is_strong_qc => l2 = l
        BY NewNumbers, <1>3 DEF NewLastFinal
    <2>2. QED
        BY <2>1, <1>1, SMTT(30)
<1>5. \A i \in 1 .. N : branch[i].claim.block_num \in GenesisNum .. head.id.num
    <2> SUFFICES ASSUME NEW i \in 1 .. N
                 PROVE  branch[i].claim.block_num \in GenesisNum .. head.id.num
        OBVIOUS
    <2>1. BranchShape
        BY DEF CoreMatchesBranch
    <2>2. CASE i = 1
        BY <2>1, <2>2, <1>1 DEF BranchShape, qc_claim_t
    <2>3. CASE i # 1
        <3>1. i \in 2 .. N
            BY <2>3, <1>1, SMTT(30)
        <3>2. branch[i].claim.block_num \in GenesisNum .. GenesisNum + i - 2
            BY <3>1, <2>1 DEF BranchShape
        <3>3. QED
            BY <3>1, <3>2, <1>1, SMTT(30)
    <2>4. QED
        BY <2>2, <2>3
<1>6. /\ \A i \in 1 .. N : branch'[i].claim = branch[i].claim
      /\ \A i \in 1 .. N : BlockAt(branch[i].claim.block_num)' = BlockAt(branch[i].claim.block_num)
      /\ BlockAt(claim.block_num)' = BlockAt(claim.block_num)
    BY <1>1, <1>4, <1>5, SMTT(30)
<1>7. TwoChainFinal(l) /\ \A i \in 1 .. N : branch[i].claim.is_strong_qc =>
                             BlockAt(branch[i].claim.block_num).claim.block_num <= l
    BY DEF CoreMatchesBranch, LastFinalIsTwoChain
<1>8. ASSUME NEW i \in 1 .. N + 1, branch'[i].claim.is_strong_qc
      PROVE  BlockAt(branch[i].claim.block_num)'.claim.block_num <= l2
    <2>1. CASE i \in 1 .. N
        <3>1. BlockAt(branch[i].claim.block_num)' = BlockAt(branch[i].claim.block_num)
            BY <2>1, <1>6
        <3>2. BlockAt(branch[i].claim.block_num).claim.block_num <= l
            BY <2>1, <1>6, <1>7, <1>8
        <3>3. BlockAt(branch[i].claim.block_num).claim.block_num \in Int
            <4>1. branch[i].claim.block_num - GenesisNum + 1 \in 1 .. N
                BY <2>1, <1>1, <1>5, SMTT(30)
            <4>2. QED
                BY <4>1, <1>1, <1>5 DEF BlockAt
        <3>4. QED
            BY <3>1, <3>2, <3>3, <1>4
    <2>2. CASE i = N + 1
        <3>1. branch'[i].claim = claim
            BY <2>2, <1>1
        <3>2. BlockAt(branch[i].claim.block_num)' = BlockAt(claim.block_num)'
            BY <3>1 DEF BlockAt
        <3>3. BlockAt(branch[i].claim.block_num)'.claim.block_num = l2
            BY <3>1, <3>2, <1>4, <1>6, <1>8
        <3>4. QED
            BY <3>3, <1>4, SMTT(30)
    <2>3. QED
        BY <2>1, <2>2, <1>1
<1>9. TwoChainFinal(last_final_block_num(core))'
    <2>1. CASE claim.is_strong_qc
        <3>1. branch'[N + 1].claim.is_strong_qc /\ N + 1 \in 1 .. Len(branch')
            BY <2>1, <1>1
        <3>2. branch'[branch'[N + 1].claim.block_num - GenesisNum + 1].claim.block_num = l2
            BY <2>1, <1>1, <1>4, <1>6, SMTT(30) DEF BlockAt
        <3>3. QED
            BY <3>1, <3>2 DEF TwoChainFinal, BlockAt
    <2>2. CASE ~claim.is_strong_qc
        <3>1. l2 = l
            BY <2>2, <1>4
        <3>2. CASE l = GenesisNum
            BY <3>1, <3>2 DEF TwoChainFinal
        <3>3. CASE l # GenesisNum
            <4>1. PICK i \in 1 .. N : /\ branch[i].claim.is_strong_qc
                                     /\ BlockAt(branch[i].claim.block_num).claim.block_num = l
                BY <3>3, <1>7 DEF TwoChainFinal
            <4>2. i \in 1 .. Len(branch') /\ branch'[i].claim.is_strong_qc
                BY <4>1, <1>1, <1>6
            <4>3. BlockAt(branch[i].claim.block_num)'.claim.block_num = l2
                BY <4>1, <3>1, <1>6
            <4>4. QED
                BY <4>2, <4>3 DEF TwoChainFinal
        <3>4. QED
            BY <3>2, <3>3
    <2>3. QED
        BY <2>1, <2>2
<1>10. QED
    BY <1>1, <1>8, <1>9 DEF LastFinalIsTwoChain

(* Appending a block keeps the core in step with the branch. *)
LEMMA AppendMatches ==
    ASSUME CoreMatchesBranch,
           NEW name \in Names, NEW gap \in 1 .. MaxTimeGap, NEW claim \in LegalClaims,
           AppendBlock(name, gap, claim)
    PROVE  CoreMatchesBranch'
<1>1. PICK g : NewFrontSource(claim, g)
    BY DEF NewFrontSource
<1>2. front_link(core').source_block_num = g /\ NewLastFinal(claim, last_final_block_num(core'))
    BY <1>1, NewFront
<1>3. LinksAre(front_link(core).source_block_num)'
    <2>1. LinksAre(g)'
        BY <1>1, LinksGrow
    <2>2. QED
        BY <1>2, <2>1 DEF LinksAre
<1>4. RefsAre(last_final_block_num(core))'
    <2>1. PICK l : NewLastFinal(claim, l)
        BY <1>2
    <2>2. RefsAre(l)' /\ l = last_final_block_num(core')
        BY <1>2, <2>1, RefsGrow DEF NewLastFinal
    <2>3. QED
        BY <2>2 DEF RefsAre
<1>5. core'.genesis_timestamp \in Nat
    BY DEF AppendBlock, next, NoTimestamp
<1>6. front_link(core').source_block_num <= head'.claim.block_num
    <2>1. head'.claim = claim
        BY BranchGrows, Zenon
    <2>2. g \in front_link(core).source_block_num .. claim.block_num
        BY <1>1, NewNumbers DEF NewFrontSource
    <2>3. QED
        BY <2>1, <2>2, <1>2
<1>7. BranchShape'
    BY BranchGrows, Zenon
<1>8. QED
    BY <1>3, <1>4, <1>5, <1>6, <1>7, TwoChainGrows DEF CoreMatchesBranch

(* CoreMatchesBranch is an invariant of the growing branch.                *)
THEOREM MatchesInvariant == Spec => []CoreMatchesBranch
<1>1. Init => CoreMatchesBranch
    BY InitMatches
<1>2. CoreMatchesBranch /\ [Next]_vars => CoreMatchesBranch'
    <2> SUFFICES ASSUME CoreMatchesBranch, [Next]_vars PROVE CoreMatchesBranch'
        OBVIOUS
    <2>1. CASE Next
        BY <2>1, AppendMatches DEF Next
    <2>2. CASE UNCHANGED vars
        BY <2>2, Zenon DEF vars, CoreMatchesBranch, BranchShape, LinksAre, RefsAre, BlockAt, head,
                    LastFinalIsTwoChain, TwoChainFinal
    <2>3. QED
        BY <2>1, <2>2
<1>3. QED
    BY <1>1, <1>2, PTL DEF Spec

(* The last final block that the core of the head reports is the one that  *)
(* the two-chain rule gives on the whole branch, however many links        *)
(* finality_core::next has garbage collected.                              *)
THEOREM TwoChainFinality == Spec => []LastFinalIsTwoChain
<1>1. CoreMatchesBranch => LastFinalIsTwoChain
    BY DEF CoreMatchesBranch
<1>2. QED
    BY <1>1, MatchesInvariant, PTL

(* Every branch, core, link and reference is well formed.                  *)
THEOREM TypeCorrect == Spec => []TypeOK
<1>1. CoreMatchesBranch => TypeOK
    <2> SUFFICES ASSUME CoreMatchesBranch PROVE TypeOK
        OBVIOUS
    <2>1. branch \in Seq(BlockType) /\ branch # << >>
        BY DEF CoreMatchesBranch, BranchShape
    <2>2. core.links \in Seq(LinkType) /\ core.refs \in Seq(RefType) /\ core.genesis_timestamp \in Nat
        BY DEF CoreMatchesBranch, LinksAre, RefsAre
    <2>3. QED
        BY <2>1, <2>2 DEF TypeOK, BlockType, LinkType, RefType
<1>2. QED
    BY <1>1, MatchesInvariant, PTL

(* The invariants of struct finality_core that its header documents hold   *)
(* for the core of every block that finality_core::next builds.            *)
THEOREM CoreInvariantsHold == Spec => []CoreInvariants
<1>1. ASSUME CoreMatchesBranch PROVE CoreInvariants
    <2> DEFINE f == front_link(core).source_block_num
               l == last_final_block_num(core)
               N == Len(branch)
    <2>1. /\ GenesisNum \in Nat /\ N \in Nat /\ N >= 1
          /\ head.id.num = GenesisNum + N - 1
          /\ current_block_num(core) = GenesisNum + N - 1
          /\ latest_qc_claim(core).block_num = head.claim.block_num
          /\ Len(core.links) >= 1
        BY <1>1, CoreHead DEF qc_claim_t
    <2>2. f \in GenesisNum .. head.id.num /\ l \in GenesisNum .. head.id.num
        BY <1>1, Numbers
    <2>3. /\ core.links \in Seq(LinkType)
          /\ Len(core.links) = N - (f - GenesisNum)
          /\ core.refs \in Seq(RefType)
          /\ Len(core.refs) = GenesisNum + N - 1 - l
          /\ BranchShape
        BY <1>1 DEF CoreMatchesBranch, LinksAre, RefsAre
    <2>sizes. /\ GenesisNum \in Nat /\ N \in Nat /\ f \in Nat /\ l \in Nat
              /\ GenesisNum <= f /\ f <= GenesisNum + N - 1
              /\ GenesisNum <= l /\ l <= GenesisNum + N - 1
              /\ head.id.num = GenesisNum + N - 1
              /\ current_block_num(core) = GenesisNum + N - 1
              /\ Len(core.links) = N - (f - GenesisNum)
              /\ Len(core.refs) = GenesisNum + N - 1 - l
        <3>1. Len(core.links) = N - (f - GenesisNum) /\ Len(core.refs) = GenesisNum + N - 1 - l
            BY <2>3
        <3> HIDE DEF f, l, N
        <3>2. QED
            BY <2>1, <2>2, <3>1, SMTT(30)
    <2>4. \A i \in 1 .. Len(core.links) :
             core.links[i] = qc_link(f + i - 1, BlockAt(f + i - 1).claim.block_num,
                                     BlockAt(f + i - 1).claim.is_strong_qc)
        BY <1>1 DEF CoreMatchesBranch, LinksAre
    <2>5. \A i \in 1 .. Len(core.refs) :
             core.refs[i] = block_ref(BlockAt(l + i - 1).id, BlockAt(l + i - 1).timestamp, 1, 0)
        BY <1>1 DEF CoreMatchesBranch, RefsAre
    <2>6. \A k \in GenesisNum .. head.id.num :
             /\ BlockAt(k).id.num = k
             /\ BlockAt(k).timestamp \in Nat
             /\ BlockAt(k).claim.block_num \in Nat
             /\ k + 1 <= head.id.num => /\ BlockAt(k).timestamp < BlockAt(k + 1).timestamp
                                        /\ BlockAt(k).claim.block_num <= BlockAt(k + 1).claim.block_num
        <3> SUFFICES ASSUME NEW k \in GenesisNum .. head.id.num
                     PROVE  /\ BlockAt(k).id.num = k
                            /\ BlockAt(k).timestamp \in Nat
                            /\ BlockAt(k).claim.block_num \in Nat
                            /\ k + 1 <= head.id.num =>
                                  /\ BlockAt(k).timestamp < BlockAt(k + 1).timestamp
                                  /\ BlockAt(k).claim.block_num <= BlockAt(k + 1).claim.block_num
            OBVIOUS
        <3>1. k - GenesisNum + 1 \in 1 .. N /\ GenesisNum + (k - GenesisNum + 1) - 1 = k
            BY <2>1
        <3>2. BlockAt(k) \in BlockType /\ BlockAt(k).id.num = k
            BY <3>1, <2>3 DEF BranchShape, BlockAt
        <3>3. ASSUME k + 1 <= head.id.num
              PROVE  /\ BlockAt(k).timestamp < BlockAt(k + 1).timestamp
                     /\ BlockAt(k).claim.block_num <= BlockAt(k + 1).claim.block_num
            <4>1. (k + 1) - GenesisNum + 1 \in 1 .. N /\ k - GenesisNum + 1 < (k + 1) - GenesisNum + 1
                BY <3>3, <2>1
            <4>2. QED
                BY <3>1, <4>1, <2>3, SMTT(30) DEF BranchShape, BlockAt
        <3>4. BlockAt(k).timestamp \in Nat /\ BlockAt(k).claim.block_num \in Nat
            BY <3>2 DEF BlockType, Claims
        <3>5. QED
            BY <3>2, <3>3, <3>4, Zenon
    <2>7. LinksInvariant
        <3>1. l <= f
            <4>1. BlockAt(f).claim.block_num \in l .. f
                BY <1>1, <2>1, <2>2, Numbers, SMTT(30)
            <4>2. QED
                BY <4>1, <2>1, <2>2
        <3>2. f <= latest_qc_claim(core).block_num
            BY <1>1, <2>1 DEF CoreMatchesBranch
        <3>3. ASSUME NEW i \in 1 .. Len(core.links) - 1
              PROVE  /\ core.links[i].source_block_num + 1 = core.links[i + 1].source_block_num
                     /\ core.links[i].target_block_num <= core.links[i + 1].target_block_num
            <4> HIDE DEF f, l, N
            <4>1. i \in 1 .. Len(core.links) /\ i + 1 \in 1 .. Len(core.links) /\ i \in Nat
                BY <2>sizes, SMTT(30)
            <4>2. f + i - 1 \in GenesisNum .. head.id.num
                BY <4>1, <2>sizes, SMTT(30)
            <4>3. f + (i + 1) - 1 = (f + i - 1) + 1
                BY <4>1, <2>1, <2>2
            <4>4. (f + i - 1) + 1 <= head.id.num
                BY <4>1, <2>sizes, SMTT(30)
            <4>5. /\ core.links[i].source_block_num = f + i - 1
                  /\ core.links[i].target_block_num = BlockAt(f + i - 1).claim.block_num
                <5>1. core.links[i] = qc_link(f + i - 1, BlockAt(f + i - 1).claim.block_num,
                                              BlockAt(f + i - 1).claim.is_strong_qc)
                    BY <4>1, <2>4
                <5>2. QED
                    BY <5>1 DEF qc_link
            <4>6. /\ core.links[i + 1].source_block_num = (f + i - 1) + 1
                  /\ core.links[i + 1].target_block_num = BlockAt((f + i - 1) + 1).claim.block_num
                <5>1. core.links[i + 1] = qc_link((f + i - 1) + 1, BlockAt((f + i - 1) + 1).claim.block_num,
                                                  BlockAt((f + i - 1) + 1).claim.is_strong_qc)
                    BY <4>1, <4>3, <2>4
                <5>2. QED
                    BY <5>1 DEF qc_link
            <4>7. BlockAt(f + i - 1).claim.block_num <= BlockAt((f + i - 1) + 1).claim.block_num
                BY <4>2, <4>4, <2>6
            <4>8. QED
                BY <4>5, <4>6, <4>7, Zenon
        <3>4. QED
            BY <3>1, <3>2, <3>3, <2>1, SMTT(30) DEF LinksInvariant
    <2>8. SizesInvariant
        <3> HIDE DEF f, l, N
        <3>1. current_block_num(core) - l = Len(core.refs)
            BY <2>sizes, SMTT(30)
        <3>2. current_block_num(core) - f = Len(core.links) - 1
            BY <2>sizes, SMTT(30)
        <3>3. QED
            BY <3>1, <3>2 DEF SizesInvariant, f, l
    <2>9. \A i \in 1 .. Len(core.refs) :
             /\ l + i - 1 \in GenesisNum .. head.id.num - 1
             /\ ref_block_num(core.refs[i]) = l + i - 1
             /\ core.refs[i].timestamp = BlockAt(l + i - 1).timestamp
        <3> SUFFICES ASSUME NEW i \in 1 .. Len(core.refs)
                     PROVE  /\ l + i - 1 \in GenesisNum .. head.id.num - 1
                            /\ ref_block_num(core.refs[i]) = l + i - 1
                            /\ core.refs[i].timestamp = BlockAt(l + i - 1).timestamp
            OBVIOUS
        <3> HIDE DEF f, l, N
        <3>1. i \in Nat /\ l \in Nat
            BY <2>sizes, SMTT(30)
        <3>2. l + i - 1 \in GenesisNum .. head.id.num - 1
            BY <3>1, <2>sizes, SMTT(30)
        <3>3. BlockAt(l + i - 1).id.num = l + i - 1
            BY <3>2, <2>1, <2>6
        <3>4. core.refs[i] = block_ref(BlockAt(l + i - 1).id, BlockAt(l + i - 1).timestamp, 1, 0)
            BY <2>5
        <3>5. core.refs[i].block_id = BlockAt(l + i - 1).id /\ core.refs[i].timestamp = BlockAt(l + i - 1).timestamp
            BY <3>4 DEF block_ref
        <3>6. QED
            BY <3>2, <3>3, <3>5, Zenon DEF ref_block_num, num_from_id
    <2>10. RefsInvariant
        <3>1. ASSUME core.refs = << >>
              PROVE  Len(core.links) = 1 /\ back_link(core).target_block_num = back_link(core).source_block_num
            <4>2. head.id.num \in f .. head.id.num
                BY <2>1, <2>2
            <4>3. BlockAt(f).claim.block_num \in l .. f /\ BlockAt(head.id.num).claim.block_num \in l .. head.id.num
                BY <1>1, <2>1, <2>2, <4>2, Numbers, SMTT(30)
            <4> HIDE DEF f, l, N
            <4>1. l = head.id.num
                <5>1. Len(core.refs) = 0
                    BY <3>1
                <5>2. QED
                    BY <5>1, <2>sizes, SMTT(30)
            <4>4. f = head.id.num /\ Len(core.links) = 1
                BY <4>1, <4>3, <2>sizes, SMTT(30)
            <4>5. BlockAt(head.id.num) = head
                <5>1. head.id.num - GenesisNum + 1 = N
                    BY <2>1
                <5>2. QED
                    BY <5>1 DEF BlockAt, head, N
            <4>6. head.claim.block_num = head.id.num
                BY <4>1, <4>3, <4>5, <2>1
            <4>7. /\ back_link(core).source_block_num = current_block_num(core)
                  /\ back_link(core).target_block_num = latest_qc_claim(core).block_num
                BY DEF current_block_num, latest_qc_claim, qc_claim_t
            <4>8. QED
                BY <4>4, <4>6, <4>7, <2>1
        <3>2. ASSUME core.refs # << >>
              PROVE  /\ ref_block_num(core.refs[1]) = l
                     /\ ref_block_num(core.refs[Len(core.refs)]) + 1 = current_block_num(core)
            <4>1. 1 \in 1 .. Len(core.refs) /\ Len(core.refs) \in 1 .. Len(core.refs) /\ Len(core.refs) \in Nat
                BY <3>2, <2>3
            <4>2. /\ ref_block_num(core.refs[1]) = l + 1 - 1
                  /\ ref_block_num(core.refs[Len(core.refs)]) = l + Len(core.refs) - 1
                BY <4>1, <2>9
            <4> HIDE DEF f, l, N
            <4>3. l \in Nat /\ Len(core.refs) = GenesisNum + N - 1 - l
                BY <2>sizes
            <4>4. l + 1 - 1 = l
                BY <4>3
            <4>5. l + Len(core.refs) - 1 + 1 = GenesisNum + N - 1
                BY <4>3, <2>1
            <4>6. QED
                BY <4>2, <4>4, <4>5, <2>1, Zenon
        <3>3. ASSUME NEW i \in 1 .. Len(core.refs) - 1
              PROVE  /\ ref_block_num(core.refs[i]) + 1 = ref_block_num(core.refs[i + 1])
                     /\ core.refs[i].timestamp < core.refs[i + 1].timestamp
            <4> HIDE DEF f, l, N
            <4>1. i \in 1 .. Len(core.refs) /\ i + 1 \in 1 .. Len(core.refs) /\ i \in Nat /\ l \in Nat
                BY <2>sizes, SMTT(30)
            <4>2. l + (i + 1) - 1 = (l + i - 1) + 1
                BY <4>1
            <4>3. l + i - 1 \in GenesisNum .. head.id.num - 1
                BY <4>1, <2>9
            <4>4. l + i - 1 \in GenesisNum .. head.id.num /\ (l + i - 1) + 1 <= head.id.num
                BY <4>1, <4>3, <2>1
            <4>5. BlockAt(l + i - 1).timestamp < BlockAt((l + i - 1) + 1).timestamp
                BY <4>4, <2>6
            <4>6. /\ ref_block_num(core.refs[i]) = l + i - 1
                  /\ core.refs[i].timestamp = BlockAt(l + i - 1).timestamp
                BY <4>1, <2>9
            <4>7. /\ ref_block_num(core.refs[i + 1]) = l + (i + 1) - 1
                  /\ core.refs[i + 1].timestamp = BlockAt(l + (i + 1) - 1).timestamp
                BY <4>1, <2>9
            <4>8. QED
                BY <4>2, <4>5, <4>6, <4>7, Zenon
        <3>4. QED
            BY <3>1, <3>2, <3>3, Zenon DEF RefsInvariant
    <2>11. QED
        BY <2>7, <2>8, <2>10 DEF CoreInvariants
<1>2. QED
    BY <1>1, MatchesInvariant, PTL

(* The reference that the core keeps for a block from the last final one   *)
(* to the parent of the head (finality_core::get_block_reference).         *)
LEMMA ReferenceOf ==
    ASSUME CoreMatchesBranch,
           NEW n \in last_final_block_num(core) .. head.id.num - 1
    PROVE  /\ n \in GenesisNum .. head.id.num
           /\ n - GenesisNum + 1 \in 1 .. Len(branch) - 1
           /\ get_block_reference(core, n).block_id = BlockAt(n).id
           /\ get_block_reference(core, n).timestamp = BlockAt(n).timestamp
<1> DEFINE l == last_final_block_num(core)
           N == Len(branch)
<1>1. /\ GenesisNum \in Nat /\ N \in Nat /\ N >= 1
      /\ head.id.num = GenesisNum + N - 1
      /\ l \in GenesisNum .. head.id.num
    BY CoreHead, Numbers
<1>2. Len(core.refs) = GenesisNum + N - 1 - l
    BY DEF CoreMatchesBranch, RefsAre
<1>3. \A i \in 1 .. Len(core.refs) :
         core.refs[i] = block_ref(BlockAt(l + i - 1).id, BlockAt(l + i - 1).timestamp, 1, 0)
    BY DEF CoreMatchesBranch, RefsAre
<1>4. n \in l .. head.id.num - 1
    OBVIOUS
<1> HIDE DEF l, N
<1>5. /\ n \in GenesisNum .. head.id.num
      /\ n - GenesisNum + 1 \in 1 .. N - 1
      /\ n - l + 1 \in 1 .. Len(core.refs)
      /\ l + (n - l + 1) - 1 = n
    BY <1>1, <1>2, <1>4
<1>6. core.refs[n - l + 1] = block_ref(BlockAt(n).id, BlockAt(n).timestamp, 1, 0)
    BY <1>3, <1>5
<1>7. get_block_reference(core, n) = block_ref(BlockAt(n).id, BlockAt(n).timestamp, 1, 0)
    BY <1>6 DEF get_block_reference, l
<1>8. QED
    BY <1>5, <1>7 DEF block_ref, N

(* finality_core::extends, on which the votes of finalizers rest, answers  *)
(* exactly whether a block is an ancestor that is not below the last final *)
(* one, and refers to that ancestor.                                       *)
THEOREM ExtendsExact == Spec => []ExtendsIffAncestor
<1>1. ASSUME CoreMatchesBranch PROVE ExtendsIffAncestor
    <2> SUFFICES ASSUME NEW id \in BlockIds
                 PROVE  extends(core, id) <=>
                          /\ id.num >= last_final_block_num(core)
                          /\ \E i \in 1 .. Len(branch) - 1 :
                                /\ branch[i].id = id
                                /\ get_block_reference(core, id.num).timestamp = branch[i].timestamp
        BY DEF ExtendsIffAncestor
    <2>1. /\ GenesisNum \in Nat /\ Len(branch) \in Nat /\ id.num \in Int
          /\ head.id.num = GenesisNum + Len(branch) - 1
          /\ current_block_num(core) = head.id.num
          /\ last_final_block_num(core) \in GenesisNum .. head.id.num
        BY <1>1, CoreHead, Numbers DEF BlockIds
    <2>2. \A i \in 1 .. Len(branch) : branch[i].id.num = GenesisNum + i - 1
        BY <1>1 DEF CoreMatchesBranch, BranchShape
    <2>3. ASSUME extends(core, id)
          PROVE  /\ id.num >= last_final_block_num(core)
                 /\ \E i \in 1 .. Len(branch) - 1 :
                       /\ branch[i].id = id
                       /\ get_block_reference(core, id.num).timestamp = branch[i].timestamp
        <3>1. id.num \in last_final_block_num(core) .. head.id.num - 1
            BY <2>1, <2>3 DEF extends, num_from_id
        <3>2. get_block_reference(core, id.num).block_id = id
            BY <2>3 DEF extends, num_from_id
        <3>3. /\ id.num - GenesisNum + 1 \in 1 .. Len(branch) - 1
              /\ get_block_reference(core, id.num).block_id = branch[id.num - GenesisNum + 1].id
              /\ get_block_reference(core, id.num).timestamp = branch[id.num - GenesisNum + 1].timestamp
            BY <1>1, <3>1, ReferenceOf DEF BlockAt
        <3>4. id.num >= last_final_block_num(core)
            BY <2>1, <3>1
        <3>5. QED
            BY <3>2, <3>3, <3>4, Zenon
    <2>4. ASSUME id.num >= last_final_block_num(core),
                 NEW i \in 1 .. Len(branch) - 1, branch[i].id = id
          PROVE  extends(core, id)
        <3>1. i \in 1 .. Len(branch) /\ id.num = GenesisNum + i - 1
            BY <2>1, <2>2, <2>4
        <3>2. id.num \in last_final_block_num(core) .. head.id.num - 1 /\ id.num - GenesisNum + 1 = i
            BY <2>1, <2>4, <3>1
        <3>3. get_block_reference(core, id.num).block_id = id
            BY <1>1, <2>4, <3>2, ReferenceOf DEF BlockAt
        <3>4. last_final_block_num(core) <= id.num /\ id.num < current_block_num(core)
            BY <2>1, <3>2
        <3>5. QED
            BY <3>3, <3>4 DEF extends, num_from_id
    <2>5. QED
        BY <2>3, <2>4, Zenon
<1>2. QED
    BY <1>1, MatchesInvariant, PTL

(* What the core of the head says about the head itself: its latest claim  *)
(* is the claim of the head, and the last final block, unless it is the    *)
(* genesis block, is older than the claimed one.                           *)
ClaimOfHead == latest_qc_claim(core) = qc_claim_t(head.claim.block_num, head.claim.is_strong_qc)

FinalIsOlder ==
    last_final_block_num(core) # GenesisNum =>
        last_final_block_timestamp(core) < latest_qc_block_timestamp(core)

(* A block that claims itself is the genesis block, so that a last final   *)
(* block other than it is below the first link, and that one not above the *)
(* latest claim.                                                           *)
LEMMA FinalOlder == CoreMatchesBranch => FinalIsOlder
<1> SUFFICES ASSUME CoreMatchesBranch, last_final_block_num(core) # GenesisNum
             PROVE  last_final_block_timestamp(core) < latest_qc_block_timestamp(core)
    BY DEF FinalIsOlder
<1> DEFINE f == front_link(core).source_block_num
           l == last_final_block_num(core)
           c == back_link(core).target_block_num
           N == Len(branch)
<1>1. /\ GenesisNum \in Nat /\ N \in Nat /\ N >= 1
      /\ head.id.num = GenesisNum + N - 1
      /\ c = head.claim.block_num
      /\ head = branch[N]
    BY CoreHead DEF latest_qc_claim, qc_claim_t, head
<1>2. /\ f \in GenesisNum .. head.id.num
      /\ l \in GenesisNum .. head.id.num
      /\ l = branch[f - GenesisNum + 1].claim.block_num
    BY Numbers DEF BlockAt
<1>3. f <= c
    BY <1>1 DEF CoreMatchesBranch
<1>4. /\ branch[1].claim.block_num = GenesisNum
      /\ \A i \in 2 .. N : branch[i].claim.block_num \in GenesisNum .. GenesisNum + i - 2
      /\ \A i, j \in 1 .. N : i < j => branch[i].timestamp < branch[j].timestamp
    BY DEF CoreMatchesBranch, BranchShape, qc_claim_t
<1> HIDE DEF f, l, c, N
<1>5. l < f
    <2>1. f - GenesisNum + 1 \in 2 .. N
        <3>1. f # GenesisNum
            BY <1>1, <1>2, <1>4 DEF l
        <3>2. QED
            BY <1>1, <1>2, <3>1
    <2>2. l \in GenesisNum .. GenesisNum + (f - GenesisNum + 1) - 2
        BY <2>1, <1>2, <1>4
    <2>3. QED
        BY <1>1, <1>2, <2>2
<1>6. N >= 2
    BY <1>1, <1>2, <1>5
<1>7. c \in GenesisNum .. GenesisNum + N - 2
    BY <1>1, <1>4, <1>6
<1>8. l \in l .. head.id.num - 1 /\ c \in l .. head.id.num - 1
    BY <1>1, <1>2, <1>3, <1>5, <1>7
<1>9. /\ get_block_reference(core, l).timestamp = BlockAt(l).timestamp
      /\ get_block_reference(core, c).timestamp = BlockAt(c).timestamp
    BY <1>8, ReferenceOf DEF l
<1>10. BlockAt(l).timestamp < BlockAt(c).timestamp
    <2>1. l - GenesisNum + 1 \in 1 .. N /\ c - GenesisNum + 1 \in 1 .. N
        BY <1>1, <1>2, <1>7
    <2>2. l - GenesisNum + 1 < c - GenesisNum + 1
        BY <1>1, <1>2, <1>3, <1>5, <1>7
    <2>3. QED
        BY <2>1, <2>2, <1>4 DEF BlockAt
<1>11. ~is_genesis_core(core)
    <2>1. Len(core.refs) = GenesisNum + N - 1 - l
        BY DEF CoreMatchesBranch, RefsAre, l, N
    <2>2. Len(core.refs) # 0
        BY <2>1, <1>1, <1>8
    <2>3. QED
        BY <2>2 DEF is_genesis_core
<1>12. QED
    BY <1>9, <1>10, <1>11 DEF last_final_block_timestamp, latest_qc_block_timestamp, l, c

(* A step that appends a block. *)
LEMMA StepAdvances ==
    ASSUME CoreMatchesBranch, ClaimOfHead', FinalIsOlder',
           NEW name \in Names, NEW gap \in 1 .. MaxTimeGap, NEW claim \in LegalClaims,
           AppendBlock(name, gap, claim)
    PROVE  Advances
<1>1. PICK g : NewFrontSource(claim, g)
    BY DEF NewFrontSource
<1>2. last_final_block_num(core') = get_new_block_numbers(core, claim).last_final
    BY <1>1, NewFront DEF NewLastFinal
<1>3. claim = qc_claim_t(claim.block_num, claim.is_strong_qc) /\ claim.block_num \in Int
    BY DEF LegalClaims, qc_claim_t
<1>4. latest_qc_claim(core') = claim
    <2>1. head'.claim = claim
        BY BranchGrows, Zenon
    <2>2. latest_qc_claim(core') = qc_claim_t(head'.claim.block_num, head'.claim.is_strong_qc)
        BY DEF ClaimOfHead
    <2>3. QED
        BY <1>3, <2>1, <2>2
<1>5. last_final_block_num(core) <= last_final_block_num(core')
    BY <1>2, NewNumbers
<1>6. claim_leq(latest_qc_claim(core), claim)
    <2>1. /\ latest_qc_claim(core) = qc_claim_t(head.claim.block_num, head.claim.is_strong_qc)
          /\ head.claim.block_num \in Int /\ head.claim.is_strong_qc \in BOOLEAN
        BY CoreHead DEF BlockType, Claims, head
    <2>2. verify_qc_claim(claim, head.claim, head.id.num)
        BY DEF AppendBlock
    <2>3. QED
        BY <1>3, <2>1, <2>2 DEF verify_qc_claim, claim_leq, qc_claim_t
<1>7. next_metadata(core, latest_qc_claim(core')) =
          [last_final_block_num      |-> last_final_block_num(core'),
           latest_qc_claim_block_num |-> latest_qc_claim(core').block_num]
    BY <1>2, <1>4 DEF next_metadata
<1>8. last_final_block_num(core') # GenesisNum =>
          last_final_block_timestamp(core') < latest_qc_block_timestamp(core')
    BY DEF FinalIsOlder
<1>9. QED
    BY <1>4, <1>5, <1>6, <1>7, <1>8, Zenon DEF Advances

(* Along a branch the last final block and the latest claim never go back, *)
(* and next_metadata announces what finality_core::next then builds.       *)
THEOREM OnlyAdvances == Spec => FinalityAdvances
<1>1. CoreMatchesBranch => ClaimOfHead /\ FinalIsOlder
    BY CoreHead, FinalOlder DEF ClaimOfHead
<1>2. CoreMatchesBranch /\ (ClaimOfHead /\ FinalIsOlder)' /\ [Next]_vars => [Advances]_vars
    BY StepAdvances DEF Next
<1>3. QED
    BY <1>1, <1>2, MatchesInvariant, PTL DEF Spec, FinalityAdvances

(* The links that finality_core::next keeps start at the new first source  *)
(* and end with the link of the head.                                      *)
LEMMA KeptLinks ==
    ASSUME CoreMatchesBranch, NEW claim \in LegalClaims
    PROVE  LET new   == get_new_block_numbers(core, claim)
               index == new.front_source - front_link(core).source_block_num
               kept  == drop_front(core.links, index)
           IN  /\ index \in 0 .. Len(core.links)
               /\ index < Len(core.links)
               /\ kept[1].target_block_num = new.last_final
               /\ kept[Len(kept)] = back_link(core)
<1> DEFINE f     == front_link(core).source_block_num
           new   == get_new_block_numbers(core, claim)
           g     == new.front_source
           index == g - f
           N     == Len(branch)
<1>1. /\ GenesisNum \in Nat /\ N \in Nat /\ N >= 1
      /\ head.id.num = GenesisNum + N - 1
    BY CoreHead
<1>2. /\ f \in GenesisNum .. head.id.num
      /\ claim.block_num \in GenesisNum .. head.id.num
      /\ g \in f .. claim.block_num
      /\ new.last_final = BlockAt(g).claim.block_num
    BY NewNumbers
<1>3. /\ core.links \in Seq(LinkType)
      /\ Len(core.links) = N - (f - GenesisNum)
      /\ \A i \in 1 .. Len(core.links) :
            core.links[i] = qc_link(f + i - 1, BlockAt(f + i - 1).claim.block_num,
                                    BlockAt(f + i - 1).claim.is_strong_qc)
    BY DEF CoreMatchesBranch, LinksAre
<1> HIDE DEF f, g, N
<1>4. index \in 0 .. Len(core.links) /\ index < Len(core.links)
    BY <1>1, <1>2, <1>3
<1>5. /\ Len(drop_front(core.links, index)) = Len(core.links) - index
      /\ \A i \in 1 .. Len(core.links) - index : drop_front(core.links, index)[i] = core.links[i + index]
    BY <1>3, <1>4, DropFront, Zenon
<1>6. drop_front(core.links, index)[1].target_block_num = new.last_final
    <2>1. 1 \in 1 .. Len(core.links) - index /\ 1 + index \in 1 .. Len(core.links) /\ f + (1 + index) - 1 = g
        <3>1. f \in Int /\ g \in Int /\ Len(core.links) \in Int
            BY <1>1, <1>2, <1>3
        <3>2. QED
            BY <1>4, <3>1
    <2>2. drop_front(core.links, index)[1] = qc_link(g, BlockAt(g).claim.block_num, BlockAt(g).claim.is_strong_qc)
        BY <1>3, <1>5, <2>1
    <2>3. QED
        BY <1>2, <2>2 DEF qc_link
<1>7. drop_front(core.links, index)[Len(drop_front(core.links, index))] = back_link(core)
    <2>1. /\ Len(core.links) - index \in 1 .. Len(core.links) - index
          /\ (Len(core.links) - index) + index = Len(core.links)
        BY <1>3, <1>4
    <2>2. QED
        BY <1>5, <2>1 DEF back_link
<1>8. QED
    BY <1>4, <1>6, <1>7 DEF f, g

(* The references that finality_core::next keeps start at the new last     *)
(* final block, which may be the head when that is the genesis block.      *)
LEMMA KeptRefs ==
    ASSUME CoreMatchesBranch, NEW claim \in LegalClaims
    PROVE  LET new   == get_new_block_numbers(core, claim)
               index == new.last_final - last_final_block_num(core)
           IN  /\ IF core.refs = << >> THEN index = 0
                  ELSE index < Len(core.refs) /\ ref_block_num(core.refs[index + 1]) = new.last_final
               /\ ref_block_num(next_refs(core, head_ref, claim)[1]) = new.last_final
<1> DEFINE l     == last_final_block_num(core)
           new   == get_new_block_numbers(core, claim)
           g     == new.front_source
           m     == new.last_final
           index == m - l
           N     == Len(branch)
<1>1. /\ GenesisNum \in Nat /\ N \in Nat /\ N >= 1
      /\ head.id.num = GenesisNum + N - 1
      /\ head \in BlockType /\ head = branch[N]
    BY CoreHead DEF head
<1>2. /\ claim.block_num \in GenesisNum .. head.id.num
      /\ l \in GenesisNum .. head.id.num
      /\ front_link(core).source_block_num \in GenesisNum .. head.id.num
      /\ g \in front_link(core).source_block_num .. claim.block_num
      /\ m \in l .. g
      /\ m = branch[g - GenesisNum + 1].claim.block_num
    BY NewNumbers DEF BlockAt
<1>3. core.refs \in Seq(RefType) /\ Len(core.refs) = GenesisNum + N - 1 - l
    BY DEF CoreMatchesBranch, RefsAre
<1>4. \A i \in 2 .. N : branch[i].claim.block_num \in GenesisNum .. GenesisNum + i - 2
    BY DEF CoreMatchesBranch, BranchShape
<1>5. \A i \in 1 .. N : branch[i].id.num = GenesisNum + i - 1
    BY DEF CoreMatchesBranch, BranchShape
<1>6. head_ref \in RefType /\ ref_block_num(head_ref) = head.id.num
    BY <1>1 DEF head_ref, block_ref, RefType, BlockType, ref_block_num, num_from_id
<1> HIDE DEF l, g, m, N
<1>7. index \in 0 .. Len(core.refs)
    <2>1. l \in Int /\ m \in Int /\ m >= l /\ m <= GenesisNum + N - 1
        BY <1>1, <1>2
    <2>2. QED
        BY <1>1, <1>3, <2>1
<1>8. PICK R \in Seq(RefType) :
         /\ R = drop_front(core.refs, index)
         /\ Len(R) = Len(core.refs) - index
         /\ \A i \in 1 .. Len(core.refs) - index : R[i] = core.refs[i + index]
    <2>1. /\ drop_front(core.refs, index) \in Seq(RefType)
          /\ Len(drop_front(core.refs, index)) = Len(core.refs) - index
          /\ \A i \in 1 .. Len(core.refs) - index : drop_front(core.refs, index)[i] = core.refs[i + index]
        BY <1>3, <1>7, DropFront, Zenon
    <2>2. QED
        BY <2>1, Zenon
<1>9. next_refs(core, head_ref, claim) = Append(R, head_ref)
    BY <1>8 DEF next_refs, l, m
<1>10. CASE m = head.id.num
    <2>1. N = 1
        <3>1. g = head.id.num
            BY <1>1, <1>2, <1>10
        <3>2. ASSUME N # 1 PROVE FALSE
            <4>1. g - GenesisNum + 1 = N /\ N \in 2 .. N
                BY <1>1, <3>1, <3>2
            <4>2. m \in GenesisNum .. GenesisNum + N - 2
                BY <1>2, <1>4, <4>1
            <4>3. QED
                BY <1>1, <1>10, <4>2
        <3>3. QED
            BY <3>2
    <2>2. l = head.id.num
        BY <1>1, <1>2, <2>1
    <2>3. Len(core.refs) = 0 /\ index = 0
        BY <1>1, <1>2, <1>3, <1>10, <2>2
    <2>4. core.refs = << >> /\ R = << >>
        BY <1>3, <1>8, <2>3
    <2>5. next_refs(core, head_ref, claim)[1] = head_ref
        BY <1>6, <1>9, <2>4
    <2>6. QED
        BY <1>6, <1>10, <2>3, <2>4, <2>5 DEF l, m
<1>11. CASE m # head.id.num
    <2>1. m \in l .. head.id.num - 1
        BY <1>1, <1>2, <1>11, SMTT(30)
    <2>2. index < Len(core.refs) /\ index + 1 \in 1 .. Len(core.refs)
        <3>1. l \in Int /\ m \in Int /\ m >= l /\ m < GenesisNum + N - 1
            BY <1>1, <1>2, <2>1
        <3>2. QED
            BY <1>1, <1>3, <3>1
    <2>3. ref_block_num(core.refs[index + 1]) = m
        <3>1. get_block_reference(core, m).block_id = BlockAt(m).id /\ m - GenesisNum + 1 \in 1 .. N - 1
            BY <2>1, ReferenceOf DEF l, N
        <3>2. BlockAt(m).id.num = m
            <4>1. m \in Int /\ m - GenesisNum + 1 \in 1 .. N
                BY <1>1, <1>2, <3>1, SMTT(30)
            <4>2. branch[m - GenesisNum + 1].id.num = GenesisNum + (m - GenesisNum + 1) - 1
                BY <1>5, <4>1
            <4>3. QED
                BY <1>1, <4>1, <4>2 DEF BlockAt
        <3>3. QED
            BY <3>1, <3>2 DEF get_block_reference, ref_block_num, num_from_id, l
    <2>4. next_refs(core, head_ref, claim)[1] = core.refs[index + 1]
        <3>1. 1 \in 1 .. Len(core.refs) - index /\ Len(R) >= 1
            BY <1>3, <1>7, <1>8, <2>2
        <3>2. R[1] = core.refs[index + 1]
            BY <3>1, <1>7, <1>8
        <3>3. Append(R, head_ref)[1] = R[1]
            BY <3>1, <1>6, <1>8
        <3>4. QED
            BY <3>2, <3>3, <1>9
    <2>5. core.refs # << >>
        BY <1>3, <2>2
    <2>6. QED
        BY <2>2, <2>3, <2>4, <2>5 DEF l, m
<1>12. QED
    BY <1>10, <1>11

(* The asserts of get_new_block_numbers and of get_qc_link_from hold for   *)
(* every claim the controller accepts.                                     *)
LEMMA NewNumbersAsserts ==
    ASSUME CoreMatchesBranch, NEW claim \in LegalClaims
    PROVE  get_new_block_numbers_asserts(core, claim)
<1> DEFINE f   == front_link(core).source_block_num
           new == get_new_block_numbers(core, claim)
           N   == Len(branch)
<1>1. /\ GenesisNum \in Nat /\ N \in Nat /\ N >= 1
      /\ head.id.num = GenesisNum + N - 1
      /\ current_block_num(core) = head.id.num
      /\ latest_qc_claim(core).block_num = head.claim.block_num
      /\ Len(core.links) >= 1
    BY CoreHead DEF qc_claim_t
<1>2. /\ claim.block_num \in GenesisNum .. head.id.num
      /\ head.claim.block_num <= claim.block_num
      /\ f \in GenesisNum .. head.id.num
      /\ last_final_block_num(core) \in GenesisNum .. head.id.num
      /\ new.front_source \in f .. claim.block_num
      /\ new.last_final \in last_final_block_num(core) .. new.front_source
    BY NewNumbers
<1>3. core.links \in Seq(LinkType) /\ Len(core.links) = N - (f - GenesisNum)
    BY DEF CoreMatchesBranch, LinksAre
<1>4. claim.is_strong_qc => new = [last_final   |-> get_qc_link_from(core, claim.block_num).target_block_num,
                                   front_source |-> get_qc_link_from(core, claim.block_num).source_block_num]
    BY DEF get_new_block_numbers
<1> HIDE DEF f, new, N
<1>5. f <= claim.block_num
    BY <1>1, <1>2
<1>6. core.links # << >> /\ claim.block_num - f < Len(core.links)
    BY <1>1, <1>2, <1>3
<1>7. claim.is_strong_qc =>
          /\ last_final_block_num(core) <= get_qc_link_from(core, claim.block_num).target_block_num
          /\ f <= get_qc_link_from(core, claim.block_num).source_block_num
    BY <1>2, <1>4
<1>8. claim.block_num <= current_block_num(core)
    BY <1>1, <1>2
<1>9. QED
    BY <1>1, <1>2, <1>5, <1>6, <1>7, <1>8
       DEF get_new_block_numbers_asserts, get_qc_link_from_asserts, f

(* The reference of the head follows the last reference of its core. *)
LEMMA LastReference ==
    ASSUME CoreMatchesBranch, core.refs # << >>
    PROVE  /\ ref_block_num(core.refs[Len(core.refs)]) + 1 = ref_block_num(head_ref)
           /\ core.refs[Len(core.refs)].timestamp < head_ref.timestamp
<1> DEFINE l == last_final_block_num(core)
           N == Len(branch)
           L == Len(core.refs)
<1>1. /\ GenesisNum \in Nat /\ N \in Nat /\ N >= 1
      /\ head = branch[N] /\ head.id.num = GenesisNum + N - 1
    BY CoreHead DEF head
<1>2. /\ core.refs \in Seq(RefType) /\ L = GenesisNum + N - 1 - l
      /\ l \in GenesisNum .. GenesisNum + N - 1
      /\ \A i \in 1 .. L : core.refs[i] = block_ref(branch[(l + i - 1) - GenesisNum + 1].id,
                                                    branch[(l + i - 1) - GenesisNum + 1].timestamp, 1, 0)
    BY Zenon DEF CoreMatchesBranch, RefsAre, BlockAt
<1>3. /\ \A i \in 1 .. N : branch[i].id.num = GenesisNum + i - 1
      /\ \A i, j \in 1 .. N : i < j => branch[i].timestamp < branch[j].timestamp
    BY DEF CoreMatchesBranch, BranchShape
<1> HIDE DEF l, N
<1>4. L >= 1 /\ L \in Nat
    BY <1>2
<1>5. (l + L - 1) - GenesisNum + 1 = N - 1 /\ N - 1 \in 1 .. N /\ N \in 1 .. N
    BY <1>1, <1>2, <1>4
<1>6. core.refs[L] = block_ref(branch[N - 1].id, branch[N - 1].timestamp, 1, 0)
    <2>1. L \in 1 .. L
        BY <1>4
    <2>2. core.refs[L] = block_ref(branch[(l + L - 1) - GenesisNum + 1].id,
                                   branch[(l + L - 1) - GenesisNum + 1].timestamp, 1, 0)
        BY <1>2, <2>1, Zenon
    <2>3. QED
        BY <1>5, <2>2, Zenon
<1>7. branch[N - 1].id.num = GenesisNum + (N - 1) - 1 /\ branch[N - 1].timestamp < branch[N].timestamp
    BY <1>1, <1>3, <1>5
<1>8. QED
    BY <1>1, <1>6, <1>7 DEF ref_block_num, num_from_id, head_ref, block_ref

(* The claim of the core that finality_core::next builds. *)
LEMMA NextClaim ==
    ASSUME CoreMatchesBranch, NEW claim \in LegalClaims
    PROVE  latest_qc_claim(next(core, head_ref, claim)).block_num = claim.block_num
<1> DEFINE index == get_new_block_numbers(core, claim).front_source - front_link(core).source_block_num
           lk    == qc_link(current_block_num(core) + 1, claim.block_num, claim.is_strong_qc)
<1>1. PICK K \in Seq(LinkType) : K = drop_front(core.links, index)
    <2>1. core.links \in Seq(LinkType)
        BY DEF CoreMatchesBranch, LinksAre
    <2>2. index \in 0 .. Len(core.links)
        BY KeptLinks, Zenon
    <2>3. drop_front(core.links, index) \in Seq(LinkType)
        BY <2>1, <2>2, DropFront, Zenon
    <2>4. QED
        BY <2>3, Zenon
<1>2. next(core, head_ref, claim).links = Append(K, lk)
    BY <1>1, SMTT(30) DEF next, next_links
<1>3. lk \in LinkType
    BY CoreHead, NewNumbers DEF qc_link, LinkType
<1>4. Append(K, lk)[Len(Append(K, lk))] = lk
    BY <1>1, <1>3
<1>5. QED
    BY <1>2, <1>4 DEF latest_qc_claim, back_link, qc_claim_t, qc_link

(* No claim that the controller accepts makes an assert of                 *)
(* finality_core::next, or of the functions it calls, false: on no branch  *)
(* is an element of the link or reference vectors read out of range.       *)
THEOREM NextAssertsHold == Spec => []AssertsHold
<1>1. ASSUME CoreMatchesBranch, NEW claim \in LegalClaims
      PROVE  next_asserts(core, head_ref, claim)
    <2> DEFINE new == get_new_block_numbers(core, claim)
               f   == front_link(core).source_block_num
               l   == last_final_block_num(core)
    <2>1. /\ current_block_num(core) = head.id.num
          /\ latest_qc_claim(core) = qc_claim_t(head.claim.block_num, head.claim.is_strong_qc)
          /\ head.claim.block_num \in Int /\ head.claim.is_strong_qc \in BOOLEAN
        BY <1>1, CoreHead DEF BlockType, Claims, head
    <2>2. ref_block_num(head_ref) = current_block_num(core)
        BY <2>1 DEF head_ref, block_ref, ref_block_num, num_from_id
    <2>3. claim_leq(latest_qc_claim(core), claim)
        <3>1. claim.block_num \in Int /\ claim.is_strong_qc \in BOOLEAN
            BY <1>1 DEF LegalClaims
        <3>2. verify_qc_claim(claim, head.claim, head.id.num)
            BY <1>1 DEF LegalClaims
        <3>3. QED
            BY <2>1, <3>1, <3>2 DEF verify_qc_claim, claim_leq, qc_claim_t
    <2>4. /\ new.last_final <= new.front_source
          /\ new.front_source <= claim.block_num
          /\ l <= new.last_final
          /\ f <= new.front_source
          /\ head.claim.block_num <= claim.block_num
        BY <1>1, NewNumbers
    <2>5. back_link(core).source_block_num = current_block_num(core)
        BY SMTT(30) DEF current_block_num
    <2>6. back_link(core).target_block_num <= claim.block_num
        BY <2>1, <2>4, SMTT(30) DEF latest_qc_claim, qc_claim_t
    <2>7. latest_qc_claim(core).block_num <= latest_qc_claim(next(core, head_ref, claim)).block_num
        BY <1>1, <2>1, <2>4, NextClaim DEF qc_claim_t
    <2>8. next(core, head_ref, claim).refs = next_refs(core, head_ref, claim)
        BY DEF next
    <2>9. LET index == new.front_source - f
              kept  == drop_front(core.links, index)
          IN  /\ index < Len(core.links)
              /\ kept[1].target_block_num = new.last_final
              /\ kept[Len(kept)] = back_link(core)
        BY <1>1, KeptLinks, Zenon
    <2>10. LET index == new.last_final - l
           IN  /\ IF core.refs = << >> THEN index = 0
                  ELSE index < Len(core.refs) /\ ref_block_num(core.refs[index + 1]) = new.last_final
               /\ ref_block_num(next_refs(core, head_ref, claim)[1]) = new.last_final
        BY <1>1, KeptRefs, Zenon
    <2>11. QED
        BY <1>1, <2>2, <2>3, <2>4, <2>5, <2>6, <2>7, <2>8, <2>9, <2>10,
           LastReference, NewNumbersAsserts, Zenon
           DEF next_asserts
<1>2. CoreMatchesBranch => AssertsHold
    BY <1>1 DEF AssertsHold
<1>3. QED
    BY <1>2, MatchesInvariant, PTL

=============================================================================
