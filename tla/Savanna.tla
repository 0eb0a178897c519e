------------------------------- MODULE Savanna -------------------------------
(***************************************************************************)
(* Nodes of a Savanna chain that run finalizers.  Blocks are proposed on   *)
(* any parent with any QC claim that the controller accepts; every block   *)
(* has the finality core that block_header_state::next gives it.  A node   *)
(* votes on blocks in any order, keeps the safety information of its       *)
(* finalizers in memory and in its safety file, and may fail to sign, fail *)
(* to save, crash at any point of a vote, and restart with other keys.     *)
(*                                                                         *)
(* A vote counts once it is emitted.  A node need not see a block at once, *)
(* and a producer need not know a vote: not voting yet and not claiming    *)
(* yet are the same as a delayed message, and nothing else reads votes, so *)
(* there is no network here.  Finalizers that are not in Keys are faulty:  *)
(* a quorum counts their votes as given.  The policy does not change.      *)
(***************************************************************************)
EXTENDS Finalizer, FiniteSets

CONSTANTS
    Names,          \* what tells block ids of one number apart
    MaxBlockNum,    \* bound on block numbers; the genesis block has number 1
    MaxBlocks,      \* bound on the number of blocks
    MaxTime,        \* bound on timestamps
    Nodes,          \* nodes that run finalizers
    Keys,           \* finalizer keys that honest operators hold
    KeysOf,         \* the keys of each node, possibly not all configured at a time
    Quorums,        \* the sets of finalizers whose weight reaches the threshold
    MaxVoteFaults,  \* bound on votes with a failed signature, a failed save or a crash
    MaxStops        \* bound on stops between votes and on lost safety files

ASSUME MaxBlockNumAssumption == MaxBlockNum \in Nat /\ MaxTime \in Nat \ {0}
ASSUME MaxFaultsAssumption == MaxVoteFaults \in Nat /\ MaxStops \in Nat
ASSUME KeysOfAssumption ==
    /\ KeysOf \in [Nodes -> SUBSET Keys]
    /\ \A n, m \in Nodes : n # m => KeysOf[n] \cap KeysOf[m] = {}

VARIABLES
    blocks,      \* block states by id: [ref, core, ancestors]
    node,        \* the finalizers of each node in memory
    file,        \* the safety file of each node
    votes,       \* the votes emitted
    faults       \* the number of faults so far, by kind

vars == << blocks, node, file, votes, faults >>

genesis == [num |-> 1, name |-> "genesis"]

BlockIds == {genesis} \cup [num : 2 .. MaxBlockNum, name : Names]

Votes == [finalizer : Keys, block : BlockIds, strong : BOOLEAN]

-----------------------------------------------------------------------------
(* Blocks *)

time_of(b) == blocks[b].ref.timestamp

Branch(b) == blocks[b].ancestors \cup {b}

(* The block of a number on the branch of b. *)
AncestorAt(b, num) == CHOOSE a \in Branch(b) : a.num = num

ClaimedBlock(b) == AncestorAt(b, latest_qc_claim(blocks[b].core).block_num)

(* The votes for b make a QC. *)
HasQC(b) ==
    \E Q \in Quorums : \A k \in Q \cap Keys : \E v \in votes : v.finalizer = k /\ v.block = b

VotedStrong(k, b) == [finalizer |-> k, block |-> b, strong |-> TRUE] \in votes

HasStrongQC(b) == \E Q \in Quorums : \A k \in Q \cap Keys : VotedStrong(k, b)

(* The claim of a block on the given parent: the claim of the parent, or   *)
(* one that comes with a QC on the branch of the parent.                   *)
ClaimIsJustified(parent, claim) ==
    /\ verify_qc_claim(claim, latest_qc_claim(blocks[parent].core), parent.num)
    /\ claim # latest_qc_claim(blocks[parent].core) =>
          IF claim.is_strong_qc THEN HasStrongQC(AncestorAt(parent, claim.block_num))
          ELSE HasQC(AncestorAt(parent, claim.block_num))

block_state(id, parent, time, claim) ==
    [ref       |-> block_ref(id, time, 1, 0),
     core      |-> next(blocks[parent].core, blocks[parent].ref, claim),
     ancestors |-> Branch(parent)]

Propose(parent, name, time, claim) ==
    LET id == [num |-> parent.num + 1, name |-> name]
    IN  /\ Cardinality(DOMAIN blocks) < MaxBlocks
        /\ id \in BlockIds \ DOMAIN blocks
        /\ time > time_of(parent)
        /\ ClaimIsJustified(parent, claim)
        /\ blocks' = [b \in DOMAIN blocks \cup {id} |->
                         IF b = id THEN block_state(id, parent, time, claim) ELSE blocks[b]]
        /\ UNCHANGED << node, file, votes, faults >>

-----------------------------------------------------------------------------
(* Voting *)

(* The finalizers of the node that decide to vote for b. *)
Voters(n, b) ==
    {k \in DOMAIN node[n].finalizers : decision(node[n].finalizers[k], blocks[b]) # "no_vote"}

VotesFor(n, b, signed) ==
    {[finalizer |-> k, block |-> b,
      strong |-> decision(node[n].finalizers[k], blocks[b]) = "strong_vote"] : k \in signed}

MayVote(n, b) == node[n].up /\ b # genesis /\ Voters(n, b) # {}

running(finalizers, inactive, has_voted) ==
    [up          |-> TRUE,
     finalizers  |-> finalizers,
     inactive    |-> inactive,
     has_voted   |-> has_voted]

(* The node once its finalizers have decided; has_voted is set when there  *)
(* is a vote to send.                                                      *)
Decided(n, b, signed) ==
    running([k \in DOMAIN node[n].finalizers |-> fsi_after(node[n].finalizers[k], blocks[b])],
            node[n].inactive,
            node[n].has_voted \/ signed # {})

safety_file(status, info) == [status |-> status, info |-> info]

no_info == [k \in {} |-> unset_fsi]

no_file == safety_file("none", no_info)

Saved(nd) == safety_file("good", saved_info(nd.finalizers, nd.inactive))

torn_file == safety_file("torn", no_info)

(* A save that throws, or that the process does not survive, leaves the    *)
(* file as it was, half written, or written.                               *)
SaveFails(n, nd) == {file[n], torn_file, Saved(nd)}

stopped ==
    [up          |-> FALSE,
     finalizers  |-> no_info,
     inactive    |-> no_info,
     has_voted   |-> FALSE]

VoteFault == faults.vote < MaxVoteFaults /\ faults' = [faults EXCEPT !.vote = @ + 1]

(* my_finalizers_t::maybe_vote: all goes well. *)
Vote(n, b) ==
    /\ MayVote(n, b)
    /\ node' = [node EXCEPT ![n] = Decided(n, b, Voters(n, b))]
    /\ file' = [file EXCEPT ![n] = Saved(node'[n])]
    /\ votes' = votes \cup VotesFor(n, b, Voters(n, b))
    /\ UNCHANGED << blocks, faults >>

(* Some signatures fail: those finalizers have decided but do not vote. *)
VoteUnsigned(n, b, signed) ==
    /\ MayVote(n, b)
    /\ VoteFault
    /\ signed # Voters(n, b)
    /\ node' = [node EXCEPT ![n] = Decided(n, b, signed)]
    /\ file' = IF signed = {} THEN file ELSE [file EXCEPT ![n] = Saved(node'[n])]
    /\ votes' = votes \cup VotesFor(n, b, signed)
    /\ UNCHANGED blocks

(* Mutant: the votes are sent whether or not the save succeeds. *)
VoteUnsaved_sends(n, b) ==
    /\ MayVote(n, b)
    /\ VoteFault
    /\ node' = [node EXCEPT ![n] = Decided(n, b, Voters(n, b))]
    /\ \E f \in SaveFails(n, node'[n]) : file' = [file EXCEPT ![n] = f]
    /\ votes' = votes \cup VotesFor(n, b, Voters(n, b))
    /\ UNCHANGED blocks

(* The save throws: no vote is sent, and the node goes on. *)
VoteUnsaved(n, b) ==
    /\ MayVote(n, b)
    /\ VoteFault
    /\ node' = [node EXCEPT ![n] = Decided(n, b, Voters(n, b))]
    /\ \E f \in SaveFails(n, node'[n]) : file' = [file EXCEPT ![n] = f]
    /\ UNCHANGED << blocks, votes >>

(* The process dies during the save or, after it, before all votes are     *)
(* sent.                                                                   *)
VoteCrash(n, b) ==
    LET decided == Decided(n, b, Voters(n, b))
    IN  /\ MayVote(n, b)
        /\ VoteFault
        /\ \/ /\ \E f \in SaveFails(n, decided) : file' = [file EXCEPT ![n] = f]
              /\ votes' = votes
           \/ /\ file' = [file EXCEPT ![n] = Saved(decided)]
              /\ \E sent \in SUBSET Voters(n, b) : votes' = votes \cup VotesFor(n, b, sent)
        /\ node' = [node EXCEPT ![n] = stopped]
        /\ UNCHANGED blocks

-----------------------------------------------------------------------------
(* Evidence of earlier votes *)

(* Blocks whose strong QC some block carries. *)
CarriedStrongQCs ==
    {b \in DOMAIN blocks :
        \E c \in DOMAIN blocks : /\ ClaimedBlock(c) = b
                                 /\ latest_qc_claim(blocks[c].core).is_strong_qc}

(* The sets of honest votes that a strong QC on b may hold. *)
StrongQCs(b) ==
    {S \in SUBSET {k \in Keys : VotedStrong(k, b)} : \E Q \in Quorums : Q \cap Keys \subseteq S}

(* my_finalizers_t::maybe_update_fsi: a node that has not voted since it   *)
(* started receives a block with a strong QC on b.  The result of the save *)
(* is ignored.  Nothing happens when nothing is updated.                   *)
ReceiveStrongQC(n, b, qc) ==
    LET own     == qc \cap DOMAIN node[n].finalizers
        updated == [k \in DOMAIN node[n].finalizers |->
                       IF k \in own THEN maybe_update_fsi(node[n].finalizers[k], blocks[b])
                       ELSE node[n].finalizers[k]]
    IN  /\ node[n].up
        /\ ~node[n].has_voted
        /\ updated # node[n].finalizers
        /\ node' = [node EXCEPT ![n] = running(updated, node[n].inactive, FALSE)]
        /\ \E f \in {Saved(node'[n])} \cup SaveFails(n, node'[n]) : file' = [file EXCEPT ![n] = f]
        /\ UNCHANGED << blocks, votes, faults >>

-----------------------------------------------------------------------------
(* Starting and stopping *)

(* The process ends between two votes: a shutdown, or a crash. *)
Stop(n) ==
    /\ node[n].up
    /\ faults.stop + faults.lost_file < MaxStops
    /\ faults' = [faults EXCEPT !.stop = @ + 1]
    /\ node' = [node EXCEPT ![n] = stopped]
    /\ UNCHANGED << blocks, file, votes >>

(* The blocks that a node may have for the root of its fork database. *)
FinalBlocks == {AncestorAt(b, last_final_block_num(blocks[b].core)) : b \in DOMAIN blocks}

transition_fsi(ref) == safety_information(ref, ref, NoTimestamp)

(* The default at startup: locked on the root, or, in a node that replays  *)
(* the transition to Savanna, locked on the block of the transition and    *)
(* bound not to vote for older ones.                                       *)
DefaultsAtStartup ==
    {safety_information(no_ref, ref_of(blocks[b].ref), NoTimestamp) : b \in FinalBlocks}
        \cup {transition_fsi(ref_of(blocks[genesis].ref))}

(* Mutant: the information of keys that are not configured is dropped. *)
Started_forgets_inactive(keys, info, default_fsi) ==
    running(set_keys(keys, info, default_fsi), no_info, FALSE)

Started(keys, info, default_fsi) ==
    running(set_keys(keys, info, default_fsi), inactive_info(keys, info), FALSE)

(* A node starts with some of its keys.  A safety file that cannot be read *)
(* stops the startup.                                                      *)
Start(n, keys, default_fsi) ==
    /\ ~node[n].up
    /\ file[n].status # "torn"
    /\ node' = [node EXCEPT ![n] = Started(keys, file[n].info, default_fsi)]
    /\ UNCHANGED << blocks, file, votes, faults >>

(* The safety file of a stopped node is deleted, or left behind when the   *)
(* node moves to another machine.                                          *)
LoseFile(n) ==
    /\ ~node[n].up
    /\ file[n].status # "none"
    /\ faults.stop + faults.lost_file < MaxStops
    /\ faults' = [faults EXCEPT !.lost_file = @ + 1]
    /\ file' = [file EXCEPT ![n] = no_file]
    /\ UNCHANGED << blocks, node, votes >>

-----------------------------------------------------------------------------

(* The chain makes the transition to Savanna while the nodes run. *)
Init ==
    /\ blocks = [b \in {genesis} |-> [ref       |-> block_ref(genesis, 1, 1, 0),
                                      core      |-> create_core_for_genesis_block(genesis, 1),
                                      ancestors |-> {}]]
    /\ node = [n \in Nodes |->
                  running(set_default_safety_information(set_keys(KeysOf[n], no_info, unset_fsi),
                                                         transition_fsi(ref_of(blocks[genesis].ref))),
                          no_info, FALSE)]
    /\ file = [n \in Nodes |-> no_file]
    /\ votes = {}
    /\ faults = [vote |-> 0, stop |-> 0, lost_file |-> 0]

Next ==
    \/ \E parent \in DOMAIN blocks, name \in Names, time \in 2 .. MaxTime :
          \E num \in 1 .. parent.num, strong \in BOOLEAN :
             Propose(parent, name, time, qc_claim_t(num, strong))
    \/ \E n \in Nodes, b \in DOMAIN blocks :
          \/ Vote(n, b)
          \/ \E signed \in SUBSET Voters(n, b) : VoteUnsigned(n, b, signed)
          \/ VoteUnsaved(n, b)
          \/ VoteCrash(n, b)
    \/ \E n \in Nodes, b \in CarriedStrongQCs : \E qc \in StrongQCs(b) : ReceiveStrongQC(n, b, qc)
    \/ \E n \in Nodes : Stop(n) \/ LoseFile(n)
    \/ \E n \in Nodes, keys \in SUBSET Keys, default_fsi \in DefaultsAtStartup :
          keys # {} /\ keys \subseteq KeysOf[n] /\ Start(n, keys, default_fsi)

Spec == Init /\ [][Next]_vars

-----------------------------------------------------------------------------
(* Properties *)

(* The safety information covers a vote: it is bound not to vote for       *)
(* blocks of that time, and it holds the lock a strong vote took.          *)
Covers(fsi, v) ==
    /\ fsi.last_vote.timestamp >= time_of(v.block)
    /\ v.strong => fsi.lock.timestamp >= time_of(ClaimedBlock(v.block))

(* Whatever fails and whenever a node crashes, all votes the node has ever *)
(* emitted are covered by the information it decides with, and by the      *)
(* safety file that a restart would read, under any configuration of keys, *)
(* unless an operator loses a file: maybe_vote saves before it sends.      *)
InfoCoversVotes ==
    faults.lost_file = 0 => \A n \in Nodes, v \in votes :
        /\ v.finalizer \in KeysOf[n] /\ file[n].status # "torn" =>
              v.finalizer \in DOMAIN file[n].info /\ Covers(file[n].info[v.finalizer], v)
        /\ v.finalizer \in DOMAIN node[n].finalizers => Covers(node[n].finalizers[v.finalizer], v)

NotOlder(new, old) ==
    /\ new.last_vote.timestamp >= old.last_vote.timestamp
    /\ new.lock.timestamp >= old.lock.timestamp

(* A save keeps the entries of all keys the node has ever used, configured *)
(* now or not, and takes none of them back (save_finalizer_safety_info);   *)
(* and neither a vote nor the evidence of an old one takes the last vote   *)
(* or the lock of a running finalizer back.                                *)
InfoNeverGoesBack ==
    [][\A n \in Nodes :
         /\ file[n].status = "good" /\ file'[n].status = "good" =>
               /\ DOMAIN file[n].info \subseteq DOMAIN file'[n].info
               /\ \A k \in DOMAIN file[n].info : NotOlder(file'[n].info[k], file[n].info[k])
         /\ node[n].up /\ node'[n].up =>
               \A k \in DOMAIN node[n].finalizers :
                   NotOlder(node'[n].finalizers[k], node[n].finalizers[k])]_vars

(* The votes keep the rules of SafetyRules, and the proof of agreement     *)
(* there applies: the safety information of decide_vote, last vote, lock   *)
(* and other_branch_latest_time, stands for the votes of the past.         *)
Rules == INSTANCE SafetyRules WITH
    Blocks    <- BlockIds,
    Genesis   <- genesis,
    Times     <- 1 .. MaxTime,
    Honest    <- Keys,
    Quorums   <- Quorums,
    known     <- DOMAIN blocks,
    timestamp <- [b \in BlockIds |-> IF b \in DOMAIN blocks THEN time_of(b) - 1 ELSE 0],
    ancestors <- [b \in BlockIds |-> IF b \in DOMAIN blocks THEN blocks[b].ancestors ELSE {}],
    claim     <- [b \in BlockIds |-> IF b \in DOMAIN blocks THEN ClaimedBlock(b) ELSE genesis],
    votes     <- votes

ImplementsRules == Rules!Spec

QCBlocks == {genesis} \cup {b \in DOMAIN blocks : HasQC(b)}

Latest(S) == CHOOSE b \in S : \A c \in S : time_of(c) <= time_of(b)

(* No set of votes, failures and restarts locks the finalizers out: of a   *)
(* block on the most recent one that has a QC, and of a block on top of    *)
(* it, every running finalizer votes for the first and strongly for the    *)
(* second, as the liveness check of decide_vote intends.                   *)
FinalizersCanFinalize ==
    LET tip       == Latest(QCBlocks)
        id(num)   == [num |-> num, name |-> "new"]
        latest    == latest_qc_claim(blocks[tip].core)
        tip_claim == IF latest.block_num = tip.num THEN latest ELSE qc_claim_t(tip.num, FALSE)
        first     == [ref  |-> block_ref(id(tip.num + 1), MaxTime + 1, 1, 0),
                      core |-> next(blocks[tip].core, blocks[tip].ref, tip_claim)]
        second    == [ref  |-> block_ref(id(tip.num + 2), MaxTime + 2, 1, 0),
                      core |-> next(first.core, first.ref, qc_claim_t(tip.num + 1, FALSE))]
    IN  \A n \in Nodes : \A k \in DOMAIN node[n].finalizers :
            LET fsi == node[n].finalizers[k]
            IN  /\ decision(fsi, first) # "no_vote"
                /\ decision(fsi_after(fsi, first), second) = "strong_vote"

=============================================================================
