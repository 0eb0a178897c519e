----------------------------- MODULE Controller -----------------------------
(***************************************************************************)
(* A node that is past the Savanna transition and not in irreversible      *)
(* mode: the fork database, the head of the chain whose state is in        *)
(* chainbase, and the block log.                                           *)
(*                                                                         *)
(* Blocks are accepted by the threads of the network at any time.  The     *)
(* main thread applies them: maybe_apply_blocks goes for the best branch,  *)
(* undoes the blocks of the branch it leaves, applies the new ones one at  *)
(* a time, and goes back when one of them fails.  Every applied block may  *)
(* advance the last irreversible block: blocks go to the block log, their  *)
(* undo sessions are dropped and the fork database gets a new root.  The   *)
(* stages of that loop are states of the model; accepted blocks come in    *)
(* between.                                                                *)
(***************************************************************************)
EXTENDS ForkDatabase

CONSTANTS
    MaxBlocks,      \* blocks the network makes, the genesis block left out
    MaxTime,        \* their last timestamp
    MaxFailing,     \* blocks among them whose execution fails
    MaxFaults       \* interrupts, pauses, failed writes, restarts and crashes

ASSUME BoundsAssumption ==
    MaxBlocks \in Nat /\ MaxTime \in Nat /\ MaxFailing \in Nat /\ MaxFaults \in Nat

VARIABLES
    fork_db,
    chain_head,   \* the block whose state chainbase holds
    blog_head,    \* the last block of the block log; no state before it can be restored
    stage,        \* where maybe_apply_blocks is, or that there is a pending block
    new_branch,   \* blocks of new_head_branch that are still to be applied
    applied,      \* blocks of new_head_branch that have been applied
    old_branch,   \* old_head_branch; while it is restored, what is left of it
    blocks,       \* the blocks that exist in the network
    faults

apply_vars == << stage, new_branch, applied, old_branch >>

vars == << fork_db, chain_head, blog_head, apply_vars, blocks, faults >>

genesis ==
    << [timestamp |-> 0, claim |-> [block_num |-> 1, is_strong_qc |-> FALSE], executable |-> TRUE] >>

Init ==
    /\ fork_db = reset_root(genesis)
    /\ chain_head = genesis
    /\ blog_head = genesis
    /\ stage = "idle"
    /\ new_branch = {} /\ applied = {} /\ old_branch = {}
    /\ blocks = {genesis}
    /\ faults = 0

-----------------------------------------------------------------------------
(* The network *)

(* Blocks with a verified QC, and blocks that verified strong QCs have     *)
(* made final.                                                             *)
Certified(bs) == {latest_qc_block(b) : b \in bs}

Finalized(bs) == {latest_qc_block(latest_qc_block(b)) : b \in {c \in bs : qc_claim(c).is_strong_qc}}

(* What the finalizers guarantee (SafetyRules, BestBranchExtendsFinal and  *)
(* OneQCPerTime): certified blocks as recent as a final block extend it.   *)
(* They vote for a block once they have executed the block it claims.      *)
Guaranteed(bs) ==
    /\ \A l \in Finalized(bs), d \in Certified(bs) : timestamp(d) >= timestamp(l) => IsPrefix(l, d)
    /\ \A c, d \in Certified(bs) : timestamp(c) = timestamp(d) => c = d
    /\ \A c \in Certified(bs) : \A n \in 1..qc_claim(c).block_num : executable(ancestor_at(c, n))

(* finality_core::next takes claims that do not go back.  The genesis      *)
(* block is not voted for: a claim on it is not strong.                    *)
Claims(parent) ==
    {c \in [block_num : qc_claim(parent).block_num .. num_from_id(parent), is_strong_qc : BOOLEAN] :
        /\ c.block_num = qc_claim(parent).block_num /\ qc_claim(parent).is_strong_qc => c.is_strong_qc
        /\ c.block_num = num_from_id(genesis) => ~c.is_strong_qc}

Children(parent) ==
    {Append(parent, h) :
        h \in [timestamp : timestamp(parent) + 1 .. MaxTime, claim : Claims(parent), executable : BOOLEAN]}

(* A block on parent that the network has made, or makes now.              *)
Made(n) ==
    \/ n \in blocks /\ UNCHANGED blocks
    \/ /\ n \notin blocks
       /\ Cardinality(blocks) <= MaxBlocks
       /\ ~executable(n) => Cardinality({b \in blocks : ~executable(b)}) < MaxFailing
       /\ Guaranteed(blocks \cup {n})
       /\ blocks' = blocks \cup {n}

(* create_block_handle, in a thread of the network.  Blocks the database   *)
(* has, and blocks whose parent it lacks, are turned away with no effect.  *)
AcceptBlock(n) ==
    /\ ~has_block(fork_db, n)
    /\ has_block(fork_db, previous(n))
    /\ Made(n)
    /\ fork_db' = add(fork_db, n)
    /\ UNCHANGED << chain_head, blog_head, apply_vars, faults >>

-----------------------------------------------------------------------------
(* Irreversible blocks *)

(* mark_branch_irreversible: the blocks after the root, oldest first, that *)
(* are on the branch of both the head and the pending LIB, as far as they  *)
(* have been executed.                                                     *)
irreversible_branch(f, head_id) ==
    LET lib == f.pending_savanna_lib_id
        on_both == IF num_from_id(lib) <= num_from_id(head_id)
                   THEN fetch_branch(f, head_id, lib)
                   ELSE fetch_branch(f, lib, head_id)
    IN  {b \in on_both : \A c \in on_both : num_from_id(c) <= num_from_id(b) => c \in f.valid}

(* log_irreversible has something to do when the pending LIB is above the  *)
(* block log.                                                              *)
marked(f, head_id) ==
    IF num_from_id(f.pending_savanna_lib_id) <= num_from_id(blog_head) THEN {}
    ELSE irreversible_branch(f, head_id)

(* What has been written to the block log when one of the writes fails.    *)
written_before_failure(marks) ==
    {{c \in marks : num_from_id(c) < num_from_id(b)} : b \in marks}

(* The last block written becomes the root, after a failure too.           *)
rooted(f, written) ==
    IF written = {} \/ advance_root_throws(f, highest(written)) THEN f
    ELSE advance_root(f, highest(written))

Written(written) == blog_head' = IF written = {} THEN blog_head ELSE highest(written)

LogIrreversible(f, head_id) ==
    /\ fork_db' = rooted(f, marked(f, head_id))
    /\ Written(marked(f, head_id))

Fault == faults < MaxFaults /\ faults' = faults + 1

-----------------------------------------------------------------------------
(* maybe_apply_blocks *)

(* Mutant: state is restored however far back. *)
popped_past_root(f, id, n) == ancestor_at(id, Len(id) - n)

(* pop_block, n times or until it throws: state is not restored past the   *)
(* root.                                                                   *)
popped(f, id, n) ==
    LET steps == {k \in 0..n : \A j \in 1..k : has_block(f, ancestor_at(id, Len(id) - j))}
    IN  ancestor_at(id, Len(id) - CHOOSE k \in steps : \A j \in steps : j <= k)

Idle ==
    /\ stage' = "idle"
    /\ new_branch' = {} /\ applied' = {} /\ old_branch' = {}

(* The best head is chosen and the blocks that are not below it are undone. *)
StartApply ==
    /\ stage = "idle"
    /\ fork_db.index # {}
    /\ LET branches == fetch_branch_from(fork_db, head(fork_db), chain_head)
       IN  /\ new_branch' = branches.first
           /\ old_branch' = branches.second
           /\ chain_head' = popped(fork_db, chain_head, Cardinality(branches.second))
    /\ applied' = {}
    /\ stage' = "apply"
    /\ UNCHANGED << fork_db, blog_head, blocks, faults >>

next_block(bs) == lowest(bs)

(* apply_block executes the block and compares receipts, finality root and *)
(* id with those of the block.                                             *)
apply_succeeds(b) == executable(b)

(* commit_block of a block that executes: it is valid, it is the head, and *)
(* it may let the irreversible blocks advance.                             *)
Committed(b) ==
    /\ chain_head' = b
    /\ LogIrreversible(set_valid(fork_db, b), b)

ApplyBlock ==
    /\ stage = "apply" /\ new_branch # {}
    /\ LET b == next_block(new_branch)
       IN  /\ apply_succeeds(b)
           /\ Committed(b)
           /\ new_branch' = new_branch \ {b}
           /\ applied' = applied \cup {b}
    /\ UNCHANGED << stage, old_branch, blocks, faults >>

(* The blocks of the failing branch are undone; if that gets past the root *)
(* the reversal ends there, else the old branch is applied again.          *)
Revert(f) ==
    IF old_branch = {}
    THEN UNCHANGED chain_head /\ Idle
    ELSE /\ chain_head' = popped(f, chain_head, Cardinality(applied))
         /\ IF chain_head' = previous(lowest(old_branch))
            THEN /\ stage' = "restore"
                 /\ new_branch' = {} /\ applied' = {}
                 /\ UNCHANGED old_branch
            ELSE Idle

(* A block whose execution fails goes, with all that is built on it.       *)
ApplyFails ==
    /\ stage = "apply" /\ new_branch # {}
    /\ LET b == next_block(new_branch)
       IN  /\ ~apply_succeeds(b)
           /\ fork_db' = remove(fork_db, b)
           /\ Revert(fork_db')
    /\ UNCHANGED << blog_head, blocks, faults >>

(* A failed write to the block log makes commit_block throw: the head is   *)
(* put back, and the block is treated like one whose execution fails.      *)
ApplyCannotLog ==
    /\ stage = "apply" /\ new_branch # {}
    /\ Fault
    /\ LET b == next_block(new_branch)
           f == set_valid(fork_db, b)
       IN  /\ apply_succeeds(b)
           /\ \E written \in written_before_failure(marked(f, b)) :
                /\ Written(written)
                /\ fork_db' = remove(rooted(f, written), b)
                /\ Revert(fork_db')
    /\ UNCHANGED blocks

(* The old branch is applied again after a failed switch.                  *)
RestoreBlock ==
    /\ stage = "restore"
    /\ LET b == next_block(old_branch)
       IN  /\ Committed(b)
           /\ old_branch' = old_branch \ {b}
           /\ stage' = IF old_branch' = {} THEN "idle" ELSE "restore"
    /\ UNCHANGED << new_branch, applied, blocks, faults >>

RestoreCannotLog ==
    /\ stage = "restore"
    /\ Fault
    /\ LET f == set_valid(fork_db, next_block(old_branch))
       IN  \E written \in written_before_failure(marked(f, next_block(old_branch))) :
              Written(written) /\ fork_db' = rooted(f, written)
    /\ Idle
    /\ UNCHANGED << chain_head, blocks >>

(* An interrupt ends the loop with the head where it is.                   *)
Interrupt ==
    /\ stage \in {"apply", "restore"}
    /\ Fault
    /\ Idle
    /\ UNCHANGED << fork_db, chain_head, blog_head, blocks >>

(* Applying blocks pauses after 500 ms or at a block number.               *)
Pause ==
    /\ stage = "apply" /\ new_branch # {}
    /\ Fault
    /\ new_branch' = {}
    /\ UNCHANGED << fork_db, chain_head, blog_head, stage, applied, old_branch, blocks >>

(* Irreversible blocks are looked for once more: a QC that came with a     *)
(* block that is not on this branch may have moved the pending LIB.        *)
EndApply ==
    /\ stage = "apply" /\ new_branch = {}
    /\ LogIrreversible(fork_db, chain_head)
    /\ Idle
    /\ UNCHANGED << chain_head, blocks, faults >>

EndCannotLog ==
    /\ stage = "apply" /\ new_branch = {}
    /\ Fault
    /\ \E written \in written_before_failure(marked(fork_db, chain_head)) :
          Written(written) /\ fork_db' = rooted(fork_db, written)
    /\ Idle
    /\ UNCHANGED << chain_head, blocks >>

-----------------------------------------------------------------------------
(* Mutant: blocks are produced on any head. *)
may_produce_anywhere(f, head_id) == TRUE

(* The loop of start_block in the producer plugin: blocks are applied as   *)
(* long as there are any and the head is not below the pending LIB.        *)
may_produce(f, head_id) ==
    \/ is_descendant_of_pending_savanna_lib(f, head_id)
    \/ f.index # {} => head(f) = head_id

(* start_block opens a pending block on the head.  Until it is committed   *)
(* or aborted the main thread applies nothing, but the network goes on.    *)
StartBlock ==
    /\ stage = "idle"
    /\ may_produce(fork_db, chain_head)
    /\ stage' = "building"
    /\ UNCHANGED << fork_db, chain_head, blog_head, new_branch, applied, old_branch, blocks, faults >>

AbortBlock ==
    /\ stage = "building"
    /\ Idle
    /\ UNCHANGED << fork_db, chain_head, blog_head, blocks, faults >>

(* The pending block is completed: a new block, valid from the start.      *)
Produced(n) ==
    /\ stage = "building"
    /\ executable(n)
    /\ n \notin blocks
    /\ Made(n)
    /\ Idle

ProduceBlock(n) ==
    /\ Produced(n)
    /\ chain_head' = n
    /\ LogIrreversible(set_valid(add(fork_db, n), n), n)
    /\ UNCHANGED faults

(* The block is in the fork database, and valid, when the write fails.     *)
ProduceCannotLog(n) ==
    /\ Produced(n)
    /\ Fault
    /\ LET f == set_valid(add(fork_db, n), n)
       IN  \E written \in written_before_failure(marked(f, n)) :
              Written(written) /\ fork_db' = rooted(f, written)
    /\ UNCHANGED chain_head

(* A clean shutdown and a start with the saved state: with no blocks the   *)
(* database is set up anew from the head of the chain.                     *)
Restart ==
    /\ stage = "idle"
    /\ Fault
    /\ LET f == reopened(fork_db)
       IN  fork_db' = IF f.index = {} THEN reset_root(chain_head) ELSE f
    /\ UNCHANGED << chain_head, blog_head, apply_vars, blocks >>

(* The process dies: the state is dirty and the fork database was never    *)
(* written, the block log is replayed and is all there is.                 *)
Crash ==
    /\ Fault
    /\ chain_head' = blog_head
    /\ fork_db' = reset_root(blog_head)
    /\ Idle
    /\ UNCHANGED << blog_head, blocks >>

Next ==
    \/ \E parent \in fork_db.index \cup {fork_db.root} : \E n \in Children(parent) : AcceptBlock(n)
    \/ \E n \in Children(chain_head) : ProduceBlock(n) \/ ProduceCannotLog(n)
    \/ StartBlock
    \/ AbortBlock
    \/ StartApply
    \/ ApplyBlock
    \/ ApplyFails
    \/ ApplyCannotLog
    \/ RestoreBlock
    \/ RestoreCannotLog
    \/ Interrupt
    \/ Pause
    \/ EndApply
    \/ EndCannotLog
    \/ Restart
    \/ Crash

Spec == Init /\ [][Next]_vars

(* The producer plugin calls apply_blocks again and again, from timers and *)
(* for received blocks, and calls it again when it has thrown; a call      *)
(* comes to an end.  It does not while it produces, but a producer's round *)
(* ends.                                                                   *)
MainThread ==
    /\ UNCHANGED << blocks, faults >>
    /\ StartApply \/ ApplyBlock \/ ApplyFails \/ RestoreBlock \/ EndApply

(* MainThread is taken again and again, unless there is again and again    *)
(* nothing for it to do.                                                   *)
NothingToApply == stage = "idle" /\ fork_db.index = {}

FairSpec == Spec /\ ([]<>NothingToApply \/ []<><<MainThread>>_vars)

-----------------------------------------------------------------------------
(* Properties *)

(* The fork database is one tree on its root (advance_root's "invariant    *)
(* violation: orphaned branch was present"), whatever failing blocks and   *)
(* other branches have been removed, and maybe_apply_blocks and            *)
(* commit_block find in it what they look for: the head is on a branch of  *)
(* executed blocks, and the next block to apply is in the index, right     *)
(* above the head (the assertions "loss of sync" and assert(existing)).    *)
HeadInForkDb ==
    /\ fork_db.root \notin fork_db.index
    /\ \A b \in fork_db.index : has_block(fork_db, previous(b))
    /\ has_block(fork_db, chain_head)
    /\ branch(fork_db, chain_head) \subseteq fork_db.valid
    /\ \A todo \in {new_branch, IF stage = "restore" THEN old_branch ELSE {}} :
          todo # {} => todo \subseteq fork_db.index /\ previous(lowest(todo)) = chain_head

(* log_irreversible's "fork database root does not match block log head"   *)
(* is never thrown, and what is in the block log is part of the chain and  *)
(* is final, through failed switches, failed writes and restarts.          *)
LogIsChain ==
    /\ blog_head = fork_db.root
    /\ IsPrefix(blog_head, chain_head)
    /\ blog_head = genesis \/ \E l \in Finalized(blocks) : IsPrefix(blog_head, l)

(* As long as the fork database holds the block whose strong QC moved the  *)
(* pending LIB, its best branch contains the pending LIB: by_best_branch   *)
(* never leads the node away from a block it knows to be final.            *)
BestHeadExtendsLib ==
    LET lib == fork_db.pending_savanna_lib_id
    IN  (\E c \in fork_db.index : latest_qc_block(c) = lib)
            => lib = fork_db.root \/ IsPrefix(lib, head(fork_db))

(* A pending block is not started on a branch without the pending LIB, as  *)
(* long as the block that moved the pending LIB is there to be applied     *)
(* instead ("no reason ever to produce on a branch that is not a child of  *)
(* pending lib").                                                          *)
ProducedExtendsLib ==
    [][LET lib == fork_db.pending_savanna_lib_id
       IN  /\ stage = "idle" /\ stage' = "building"
           /\ \E c \in fork_db.index : latest_qc_block(c) = lib
           => IsPrefix(lib, chain_head)]_vars

(* consider_voting votes for a block when validated_block_exists says that *)
(* the block it claims has been executed, and then it has been: every      *)
(* block below an executed one is executed.                                *)
VotesBehindExecuted ==
    \A b \in fork_db.index :
        LET claimed == latest_qc_block(b)
        IN  /\ validated_block_exists(fork_db, previous(b), claimed)
            /\ claimed \in fork_db.index
            => claimed \in fork_db.valid

(* A restart gives back the fork database that was closed: the saved order *)
(* links every block.                                                      *)
ReopenRestores == fork_db.index # {} => reopened(fork_db) = fork_db

(* When no more blocks come, the node ends up at the best head it knows,   *)
(* and with everything in the block log that is final on that branch,      *)
(* whatever failed on the way: a failing block is not tried for ever, and  *)
(* an undone switch is not forgotten.                                      *)
CaughtUp ==
    LET lib == fork_db.pending_savanna_lib_id
    IN  /\ fork_db.index # {} => chain_head = head(fork_db)
        /\ IsPrefix(lib, chain_head) => IsPrefix(lib, fork_db.root)

CatchesUp == <>[][fork_db'.index \subseteq fork_db.index]_vars => <>[]CaughtUp

=============================================================================
