# A TLA+ verification of Spring

Spring is a C++ implementation of the Antelope protocol. A node (`nodeos`)
receives and produces blocks, executes their transactions against a state
database, votes on blocks as a finalizer, and learns from quorum certificates
(QCs) which blocks are final. This project models the Savanna consensus, on
which the safety of a chain rests, from the vote of one finalizer to the block
log of a node; the synchronisation of a node that is behind; and the lock-free
timer that ends transactions at their deadline. It checks the models with TLC on
small instances and proves the central results with TLAPS for all instances.

`PROJECT.json` lists the components, the runs, the source lines behind every
definition, the mutants that show each property can fail, the hazards of the
code and the theorems. File names without a directory below are under
`src/libraries/chain`.

## 1. The system

| Part | Source | State, and who touches it |
|---|---|---|
| finality core | `finality_core.cpp` | QC claims (links) and references of the blocks since the last final one; a value, built once per block |
| block header state | `block_header_state.cpp`, `block_state.cpp` | policies (active, pending, proposed), schedules, validation-tree roots of one block; immutable after it is built |
| ordered_diff | `libfc/.../ordered_diff.hpp` | the differences by which headers carry policies |
| QC and aggregation | `qc.cpp` | votes for one block under its active and its pending policy; vote threads, net threads and the producer, one mutex for each policy |
| vote processor | `vote_processor.hpp` | votes that wait for their block; a thread pool with one mutex that it lets go often |
| finalizers | `finalizer.cpp` | safety information per key, in memory and in the safety file |
| fork database | `fork_database.cpp` | reversible blocks, their order, the pending LIB (last irreversible block); one mutex |
| controller | `controller.cpp` | chain head, fork switches, LIB, block log head; main thread, while net threads add blocks |
| block log | `block_log.cpp` | irreversible blocks on disk |
| chainbase | outside `src/` | undo sessions of the state |
| platform timer | `platform_timer_posix.cpp`, `platform_timer.hpp` | one atomic state, a callback under a spin flag, eight kernel timers; the owner thread, signal handlers, interrupting threads |
| transaction execution | `transaction_context.cpp`, `apply_context.cpp` | undo sessions, billing |
| resource limits, authorization, protocol features, snapshots | one file or two each | state-database objects |
| producer plugin | `plugins/producer_plugin` | production timing, read window, unapplied transactions |
| net plugin: synchronisation | `plugins/net_plugin/net_plugin.cpp` | which blocks are requested from whom; connection strands, the dispatcher's strand, the main thread |
| net plugin: propagation | `plugins/net_plugin` | gossip of blocks, votes and transactions |
| other plugins and programs | `plugins/*`, `programs/*` | queries, streaming, wallets, front ends |

How they interact: net threads hand a received block to the controller, which
verifies its QC claim, builds its header state on that of its parent and adds
it to the fork database (`create_block_handle`, `add`). A QC that comes with
the block may raise the pending LIB. The main thread goes for the best branch
(`maybe_apply_blocks`), executes its blocks, and after each one moves final
blocks to the log (`log_irreversible`). Finalizers vote for an accepted block
once the block it claims has been executed (`consider_voting`). The votes go
out after the safety file is saved. Votes from the network go through the vote
processor to the aggregator of their block, whose best QC goes into the next
block that this node produces. A node that is behind asks one peer after the
other for ranges of blocks, and hands what arrives to the controller. While a
contract runs, the platform timer may take the right to execute from its code at
any moment; the fault that follows ends the transaction.

## 2. Modules

Each component has a module of operators that follow the code's functions, and
a state machine that uses them. The names are those of the code wherever TLA+
allows it. A definition marked `Mutant` in its comment is a plausible mistake
that a mutant run puts in the place of the definition after it.

| Module | Models | State and actions |
|---|---|---|
| FinalityCore | `finality_core` | operators; `*_asserts` are the asserts of the functions |
| FinalityCoreBranch | cores along a branch | `branch` (ghost), `core`; AppendBlock with every claim the controller accepts |
| FinalityCoreProofs | | proofs |
| QC | policies, `qc_sig_t`, `aggregating_qc_sig_t` | operators; weights keep their width where the code converts them |
| AggregatingQC | `aggregating_qc_t` of one block | one step per lock of `aggregate_vote`, `set_received_qc`, `get_best_qc` |
| AggregatingQCProofs | | proofs |
| SafetyRules | what honest finalizers promise | block tree and votes; Propose, Vote under three rules, by all finalizers of a node in one step |
| SafetyRulesProofs | | proofs |
| Finalizer | `finalizer`, `my_finalizers_t` | operators: `decide_vote`, `maybe_update_fsi`, `set_keys`, defaults |
| Savanna | nodes with finalizers | blocks with their cores, memory, safety file, emitted votes; Propose, Vote and its three failures, ReceiveStrongQC, Stop, LoseFile, Start |
| SavannaProofs | | proofs: the safety information of nodes and files; then what follows for the chain |
| OrderedDiff | `diff`, `apply_diff` | operators |
| BlockHeaderState | `finish_next`, promotions, `get_finalizer_policies`, `new_valid` | operators |
| BlockHeaderBranch | header states along a branch | `bhs`, `history` (ghost), `kind` of the proposals (finalizer or proposer policies); AppendBlock |
| BlockHeaderProofs | | proofs |
| ForkDatabase | the Savanna fork database | operators from one value of the database to the next |
| Controller | a node past the transition | fork database, head, log head, stage of `maybe_apply_blocks`; an action for each step of that loop and each of its failures, production, Restart, Crash |
| ControllerProofs | | proofs |
| VoteProcessor | `vote_processor_t` | index, counts, posted calls, threads; one step from one place where the mutex is free to the next |
| VoteProcessorProofs | | proofs |
| PlatformTimer | `platform_timer`, its owner and its callers | `_state`, armed timers, callback, code mapping, where each thread is; every atomic access is a step |
| PlatformTimerProofs | | proofs |
| SyncManager | `sync_manager`, and what of `connection` and the dispatcher drives it | members of both, posted handlers, messages under way; one step per handler, timer, failure, and message of a peer |
| MC* | instances for TLC | |

Compositions: Savanna runs Finalizer on FinalityCore's cores; BlockHeaderBranch
runs BlockHeaderState, OrderedDiff and FinalityCore; Controller runs
ForkDatabase under an environment of blocks. SafetyRules is the abstract
specification, and `ImplementsRules` says that Savanna implements it: the votes
of the past are mapped to themselves, and the point is that three timestamps
and a lock in the safety information stand in for them.

What the models do with data:

- Block ids are small records (FinalityCore, Savanna) or the sequence of the
  headers of a branch (ForkDatabase), so that equal ids are equal branches.
  Digests of policies are the policies; the root of a validation tree is the
  number of its last block.
- A BLS signature is the set of votes that it aggregates. A vote message may
  carry a signature that does not verify.
- Executing a block succeeds or fails; which one is a fixed, hidden part of
  the block.
- Timestamps are slot numbers. The vote processor's clock may jump, so any
  waiting vote may be next and any may be too old.
- In Savanna there is no network: nobody but QCs reads votes, and a vote or
  block that is late is one that has not been used yet.
- In PlatformTimer the callback is registered or not, and the contract's code may
  be executed or not (`mprotect`). Kernel timers, signals and `mprotect` are
  external. An interrupting thread may be anywhere between its read of the
  generation and its last store.
- In SyncManager the peers hold one chain that does not grow, so that a block is
  its number; a peer answers our message when it is sent, on a wire that delays
  as it likes. A closing connection is read until `_close` runs, as in the code.

Some handlers are one step where the code lets others in between:

- `verify_catchup` reads the heads of the other connections and the state before it
  sets the state, and `sync_recv_block` reads the state before it takes `sync_mtx`
  and posts the block after it. What another strand does in between is not modelled.
- `populate_handshake` drops a handshake equal to the last one; that it also does so
  for 50 ms after one was sent is left out. The next period brings another.
- The producer plugin compares the head with the pending LIB before it opens the
  block (`producer_plugin.cpp:2245`, `2358`). ProducedExtendsLib is about the pending
  LIB that was compared: a QC that comes in between may move it.
- `has_voted` is read before `my_finalizers_t::maybe_update_fsi` takes the mutex. The
  update compares with the safety information under the mutex, and only moves on to a
  strong vote that the finalizer has cast, also after a vote in between.
- A contract ends by running into its mapping. The code also ends it in a host
  function that checks the timer, which only ends it earlier.

## 3. Runs

Passing runs, with their distinct states:

| Run | States | Instance | What it shows |
|---|---|---|---|
| finality_core | 51,714 | all branches of 6 blocks, 2 names per number | documented core invariants; no assert of `next` fails; garbage collection of links keeps the two-chain rule; `extends` is exact; finality never regresses |
| vote_aggregation | 215,017 | 2 threads, two policies of weights 2, 2, 1 and 4, 5, the second beyond the instance's `int`, a key on two nodes, 2 received QCs, producer | the states of the aggregator match the votes in any order, the two halves of a dual vote agree, counted votes are relayed exactly once; each signature of a best QC verifies and it never gets weaker |
| safety_rules | 232,512 | 4 blocks, 4 times, 2 honest and 1 faulty finalizer | agreement; a branch without a final block has no QC as recent as that block |
| savanna | 285,133 | 2 nodes, 5 blocks, a fault in any vote | the code's finalizers implement SafetyRules; they are never locked out |
| finalizer_node | 404,097 | 1 node, 2 keys, 1 vote fault, 1 stop or lost file | safety file and memory cover all emitted votes and never go back |
| policies | 459,105 | 8 blocks with 2 finalizer policies and claims up to 2 blocks back, 7 with 3, 7 with 3 skipped slots and 2 schedules, or 6 with both kinds | policies are promoted only by finality, in order, none is lost, and those of every block with an open QC are retrievable; schedules change between rounds, once final, forward |
| controller | 276,956 | 4 blocks on any forks, 1 failing, 1 fault | fork database, head and log stay consistent; the best branch keeps the pending LIB; when faults and new blocks end, the best block is applied |
| vote_processor | 200,699 | 2 threads, 3 votes, 2 connections, limit 1 | no vote is lost or processed twice; waiting votes leave; scans end |
| platform_timer | 513,322 | 3 kernel timers, 4 starts, 1 interrupting thread | callbacks stay within the run they belong to; an expiry reaches the contract and only under an ended timer; no run ends by an earlier deadline; a looping contract is stopped |
| net_sync | 1,975,549 | 2 peers with roots 5 and 3 and heads 6 and 3, ranges of 2 blocks, 1 failure | no source is left that nobody waits for, no block is left out; the node gets to the highest head, after a failure at least to the block before the highest root |

Runs that are expected to be violated, one disagreement each:

- `weak_final`: `qc.hpp:124` says of `weak_final` that a strong QC is "not
  possible anymore". From `weak_achieved` the code compares with `>=`
  (`qc.cpp:314`) where from `unrestricted` it compares with `>`: of five
  finalizers with threshold 3, two strong and two weak votes end in
  `weak_final`, and the fifth, strong, no longer makes a strong QC. A block
  gets a weak QC where a strong one was possible: finality may be later, and
  agreement is not affected.
- `dual_finalizer_qc`: `qc.cpp:74` says its check is that a finalizer in both
  policies "voted the same". `get_best_qc` picks the signature of each policy
  on its own, so with a strong active and a weak pending one a finalizer that
  voted weak for both is in only one of them, and the QC fails that check.

Bounds. A fork needs two blocks of one number, the two-chain rule three blocks
on a branch, and a fork switch that fails one more. Two threads suffice for
each of the interleavings at a lock, since a thread only sees the shared state.
One fault is enough for a failure path to happen at every point that the run
reaches; sequences of several faults are not covered by TLC, and in controller a
call writes at most one block to the log, so that a write that fails after others
of its call is covered by the proofs alone. In Savanna, three quorum members
with both honest ones in every quorum keep claims rare and the tree small;
SafetyRules takes other quorums, and its theorems all of them. Symmetry is used
only where keys, names and nodes are interchangeable, and with no liveness
property. In vote_aggregation the constraint `Focus` keeps apart two cases that
multiply: threads that race over a key of two nodes, and QCs that are received,
the first while votes are under way and a second when none is. Its `int` has 16
values and its `uint64_t` 32: the weights of the active policy add up to an `int`,
those of the pending policy overflow it. The branches of
`policies` are of four kinds (`MCKinds`): a finalizer policy proposed again
while claims lag, several different ones, schedules while slots are skipped, and
shorter branches with both. In platform_timer generations are used again after three starts,
while the code has eight timers; the proof covers any number. In net_sync the
block before the higher root is in the second range, which only one peer can serve:
when the other served the first range, or when the failure hits the source, the
node has to change its source. The block after the higher root is left for head
catchup.

Fairness. Four runs need it.

- Controller: the producer plugin calls `apply_blocks` again and again, from
  timers and for received blocks, and a call comes to an end. `MainThread`
  leaves out interrupts, pauses and failing writes: those are faults, finitely
  many.
- VoteProcessor: the threads of a pool run (`ThreadStep`), and the chain goes
  on (`AddOtherBlock`). The second is needed: the notice of a block may find
  the index empty while a thread still holds the vote, which then waits for
  the notice of a later block.
- PlatformTimer: the operating system runs every thread, raises the signal of an
  armed timer and delivers it. The contract need not return and nobody has to
  interrupt.
- SyncManager: strands, the main thread and the peers run, each connection is
  read as long as the dispatcher has room (`Takes`), connections are opened again,
  and timers run out. The periods of the timers are seconds, so `Still` and
  `Drained` let them run out when nothing that they wait for is under way; one that
  is early counts as a failure, and failures are bounded. The fairness of the
  heartbeats is strong: a peer sends one in every period, and what the heartbeats of
  another peer set off only interrupts the quiet that `Still` asks for.

Deadlock is not checked where a bounded chain simply ends.

Observations made while modelling, with no run of their own:

- `is_sync_required` compares `sync_next_expected_num < sync_last_requested_num`
  (`net_plugin.cpp:2147`), which is false when just the last requested block is
  missing. After losses at the wrong moment nobody asks for that block, and
  handshakes and notices go back and forth until the root of a peer moves on. For
  this reason SyncCatchesUp asks for the highest head in behaviours without
  failures, and for the block before the highest root in the others.
- In head catchup, `sync_recv_block` compares the announced head of each
  connection with the block, and then clears the head of the connection that
  delivered the block (`net_plugin.cpp:2524`).
- `blk_send_branch_from_nack_request` takes `(msg_head_id, req_id)`
  (`net_plugin.cpp:1535`) and is called with `(req_id, peer_head_id)`
  (`net_plugin.cpp:3798`). This path is not modelled.
- `platform_timer.hpp:25` says that a callback may still execute after `stop()`
  has returned. CallbackConfined shows that it does not: `stop()` waits for a
  callback in flight, and keeps a new one from starting.
- When `timer_settime` fails, `start()` stores its state over that of an
  interrupt whose callback is in flight (`platform_timer_posix.cpp:92`). The
  model has this step, and the properties exclude what follows it
  (`overwritten`).

## 4. Proofs

`FinalityCoreProofs`, for every genesis number, set of names and length of the
branch: TypeCorrect, CoreInvariantsHold, TwoChainFinality, NextAssertsHold,
ExtendsExact and OnlyAdvances, one for each property of the run. The documented
invariants are not inductive by themselves, since `next` decides from links
that it has partly dropped. CoreMatchesBranch says that links and references
are exactly those of the blocks of the branch from a first kept one to the
head, that the first kept link is not above the latest claim, and that the last
final block is the one of the two-chain rule. The lemmas follow `next`: the
numbers of `get_new_block_numbers`, then the links, the references, and the
two-chain rule. The asserts of `next` follow from where the kept links and
references start (KeptLinks, KeptRefs), `extends` from the block each reference
stands for (ReferenceOf), and the last theorem from the invariant on both sides
of a step.

`SafetyRulesProofs`, for every set of blocks, times, finalizers and quorums:
RulesTypeCorrect, RulesInvariant, AgreementHolds and BestBranchHolds. The rules
speak of the moment of a vote. IInv turns them into facts about any two votes
of one finalizer, in a tree whose timestamps grow and whose claims have QCs.
Agreement is then about a single state: if b finalizes a, take the oldest block
with a QC, more recent than a, that does not extend a; the honest finalizer in
both quorums has broken a rule.

The assumption is QuorumAssumption: two quorums share an honest finalizer. The
code itself only asks for a threshold above half of the weight
(`webassembly/privileged.cpp:203`), so that two quorums overlap; that the
overlap is not all faulty is what the threshold of a real policy has to ensure.

`SavannaProofs`, for any nodes and keys, any tree of blocks with their finality
cores, and any number of failures: that the finalizers of the code keep those rules. The
inductive invariant IInv says that the cores in the tree answer for the branch of their block (TreeOK: links and references without gaps,
each reference the ancestor with that number), that every claim has its QC
(ClaimsOK), and that, as long as no safety file is lost, the safety information of
a node and of its file stands for the votes sent: the last vote is at least as
recent as every one of them, no vote for another branch is missing from the time
that decides between weak and strong, and the lock is at least as recent as the
claim of every strong vote (NodeInfoOK, FileInfoOK). The lemmas follow
`decide_vote`, `maybe_update_fsi`, `set_keys`, the save and the load, for arbitrary
values; the last part goes through the actions, each failure of a vote included.

- VotesAreCovered (InfoCoversVotes): memory and file cover all votes sent.
- InformationMovesForward (InfoNeverGoesBack): a second invariant, FilesBehind,
  says that no file is ahead of the memory of its node. It needs no restriction to
  files that are not lost.
- SavannaImplementsRules (ImplementsRules): the refinement of SafetyRules, step by
  step. The hypothesis that no safety file is lost is that of the run: a finalizer
  without its file votes as one that has never voted.
- FinalityInvariant: the last final block of every core is the genesis block or one
  whose child claim has a strong QC, which is the two-chain rule of SafetyRules.
- FinalityIsSafe: with the theorems of SafetyRules, the last final blocks of any two
  cores are on one branch, and a block with a claim as recent as a final block
  extends it. The hypothesis is QuorumsMeet, the QuorumAssumption of SafetyRules.
- FinalizersAreNotLockedOut (FinalizersCanFinalize): until a safety file is lost,
  every running finalizer would vote for a block on the most recent one with a QC,
  and strongly for a block on top. Its invariant is LocksHaveQCs: a lock is a block
  that has a QC, and a last vote, if there is one, was for a block, in memory, for
  the keys set aside, and in the file. A restart without an entry locks on the last
  final block, which has a QC by FinalityInvariant. With QuorumsMeet no two blocks
  with a QC have the same timestamp, so the most recent one is at least as recent as
  any lock, and the liveness check of `decide_vote` passes, or the lock is that block.
  That a block carries a time above zero needs MaxTime above zero
  (MaxBlockNumAssumption).

`BlockHeaderProofs`, for branches of any length, any lists of finalizers and
producers, any claims and any skipped slots: all seven properties of the run. None is
inductive, except in one invariant with what the header state has dropped. IInv
relates the header state of the head to the ghost history: the core has a reference
for every block from the last final one on (CoreOK); generations and blocks of the
policies in flight grow (InOrder); a pending policy has been pending since the block
that it names, and of every block that can still be claimed the policies are the
active, the pending or the latest older one (PendingSince, ClaimsKept); proposals in
flight are those of the history (ProposalsOK); the schedules in flight were proposed
on the branch, their versions grow from the active to the pending to the proposed one,
and a pending one was proposed in an earlier round (SchedulesOK);
there is a validation-tree root for every block from the last final
one on (RootsOK). The assumptions are NullptrAssumption (an absent policy is told
apart from every other), KindsAssumption, and ListsAssumption (lists of finalizers and
of producers are vectors).

That headers carry only differences rests on DiffRoundTrip, for all pairs of lists:
`apply_diff` does not throw on what `diff` returns, and gives the target back. `diff`
is one loop over two positions, and `apply_diff` is two loops, one that removes and one
that inserts at indexes that the removals have shifted. The proof goes backwards from
the ends of both lists, to the least distance from them at which it would fail: from
positions s and t on, the indexes grow; a list that starts with anything of the length
s, and goes on as the source does from s, loses by the removals what the target does
not keep; and the insertions make the target of what is left (Good). There is one step
for each branch of the loop: both at the end, remove, insert, both, and keep. The
induction is over numbers, as a least counterexample (LeastNat), and what the two loops
compute is stated by their recursion equations. The theorem has its lemmas and its
facts about sequences as steps of its own, which keeps them out of the other proofs of
the module. TLC evaluates the same promise for all pairs of lists of up to four
elements with repetitions (SmallDiffsAssumption).

`ControllerProofs`, for any tree of blocks on any forks, any failing blocks and any
number of faults: all properties of the run but the liveness. None of them is
inductive: what a step finds in the fork database depends on where
`maybe_apply_blocks` is. IInv has two parts. DataOK is about the data: the index is a
tree on the root (TreeOK); with a block its ancestors down to the root are executed
(ValidOK); the pending LIB is a block that QCs have made final, and not below what the
QCs on blocks of the index make final (PendingOK); the head is in the database on
executed blocks (HeadOK); and the log ends at the root, which is final (RootFinal).
StageOK is about a switch that is under way: there is a branch that the node has left
and one that it goes for, with the height at which they part; what has been applied is
the new branch from there up to the head, what is left is the new branch above the
head, and the old branch is still in the database unless the root has moved past the
height where they part (Switching, Applying). The last condition is what decides
whether a reversal can restore the old branch, and it changes in the middle of a
switch, when an applied block moves the LIB.

- HeadStaysInForkDb (HeadInForkDb) and LogStaysChain (LogIsChain) then follow from a
  single state. That the root stays on the chain needs the environment to keep to one
  branch of final blocks (`Guaranteed`, in the guard of new blocks); FinalityIsSafe
  is where the finalizers of Savanna earn it.
- VotesStayBehind (VotesBehindExecuted) follows from ValidOK.
- BestHeadStaysOnLib (BestHeadExtendsLib): the best block has a claim at least as
  recent as the block whose QC moved the pending LIB, and a block with such a claim
  extends it.
- ReopenAlwaysRestores (ReopenRestores): `by_best_branch` is a strict total order on
  the blocks of a tree, in which a block comes before its parent. So the blocks can be
  written in it, worst first, in one way only, and each finds its parent when it is
  read. The QCs that `add` looks at again do not move the pending LIB, by PendingOK.
- ProductionExtendsLib (ProducedExtendsLib), an action property, follows from the
  invariant before the step, the guard of `start_block`, and the order of branches.

The assumption is BoundsAssumption, that the bounds of the model are numbers.
ForkDatabase defines the prefix of a branch and the orders of a set by itself, in terms
of `ancestor_at`: the provers then work with one idea, the ancestor at a height.

`AggregatingQCProofs`, for every number of vote threads, keys, weights and any two
policies: all five properties of the run. The duplicate check of `aggregate_vote`
is made without the lock, so what counts is what a thread can still rely on after
it. IInv says: a thread that goes on to the pending policy has counted its vote in
the active one, and nobody has counted that finalizer in the pending one (Knows);
at most one thread carries the vote of a finalizer on (OneCarrier); a vote that
counts in the active policy has been relayed once and, for a dual finalizer, counts
in the pending one, or a thread carries it on (Settled); a relayed vote counts, and
one that a thread carries on has not been relayed (RelayedCounts). DualHolds and RelayHolds follow (DualVotesAgree,
CountedIsRelayed). NeverWeaker (BestQcNeverWeakens) needs no more than the shapes:
it follows from what `add_vote` does to the state and from `get_best_qc` taking the
stronger QC.

StateMatchesVotes and ProposedSigsVerify are about sums of weights. The second
invariant, CInv, says of each aggregator that it has counted votes that were cast by
finalizers of its policy, each finalizer once, that its two sums are the weights of
the votes counted, that its state tells whether they make a quorum, and that a
received QC was verified; and of the producer, that the best QC seen so far
verifies. What `weight_sum` computes is a fold over a set; that it is additive is
proved by induction on the number of finalizers. The induction is written as the
choice of a least counterexample (LeastNat), for the theorems of the library that
take an operator cannot be used. ProposalsVerify (ProposedSigsVerify) follows from
CInv. StateIsOfVotes (StateMatchesVotes) needs to know what
`max_weak_sum_before_weak_final` computes: it adds the weights up in an `int`, and
nothing in the code keeps a policy below 2^31. MaxWeakSum says that the result is
never below the weight that can be lost before a strong quorum is impossible, and is
that weight when the sum is an `int` (SumInAnInt). When the sum is not, the number
in the `int` is below the threshold, since the threshold is above half of the sum;
the subtraction wraps around, and 2^64 is a multiple of 2^32. So an overflow makes
the aggregator miss that a strong QC is impossible, and never the opposite:
`restricted` is exact in one direction for all policies, and `unrestricted` and
`weak_achieved` say that a strong QC is possible only for sums that are an `int`.
The assumptions are WidthsAssumption (the widths of the two types),
WeightsAssumption (what `set_finalizers` lets pass: a sum below 2^64 and a threshold
above half of it), PoliciesAssumption (finalizers are among the keys) and
NoSigAssumption (an absent signature is told apart from every other).

`VoteProcessorProofs`, for every number of threads, finite set of votes and set of
connections: Inductive and VotesInOnePlace, for the run's OnePlace. IInv says that
the pool, the index and the hands of the threads share no vote and hold exactly
those that are underway (Placed), that a thread has votes set aside only while it
goes through the index (Shapes), and that the count of a connection is at most the
number of its votes that `process_vote` has counted so far (Bounded). The last is
needed because the counts are cleared while other threads still hold votes that
they will count off. The assumption VotesAssumption only says what votes are.

`PlatformTimerProofs`, for every number of kernel timers above one, every set of
interrupting threads and every number of starts: Inductive, Confined, Reaches and
Own, the last three for the run's CallbackConfined, ExpiryReachesContract and
OwnDeadline. The inductive invariant IInv is Shapes (the sets that the variables
range over) and, unless a failed `timer_settime` has overwritten a state,
Core: who holds the spin flag (Locks); at most one callback in flight, named by
the state (Flights); what `stop()` knows from its local copy (Stopping); how the
mapping, its record and the callback relate at each point (Mapped); which timers
may be armed or have signals pending (Deadlines). None of the three properties
is inductive: each depends on what a thread that is between two accesses has
read. The one assumption on the environment is NotLapped, a guard of `start()`:
the signal of a kernel timer is handled before the timer is used again,
`num_timers` starts later. Without it a late signal carries the generation of the
new run and ends it.

Only model-checked:

- all liveness, which TLAPS cannot prove: CatchesUp, QueuedVotesLeave, ScansEnd,
  ContractEnds and SyncCatchesUp;
- the two safety properties of the synchronisation, SourceWatched and BlocksAccounted.
  Each follows from where every message, posted handler and timer is; an invariant
  that says so for all of them is not written yet.

## 5. What is not modelled

Left out of the modelled parts: the Savanna transition, the legacy fork
database and irreversible mode; changing policies in SafetyRules and Savanna;
protocol feature activations in header states; safety files of version 0; a
power failure that loses completed writes; vote reports (`vote_metrics`,
`missing_votes`); starting and stopping the vote threads; counts that reach the
width of `uint16_t`. In Controller the finalizers of the network are an
environment constrained by what SafetyRules guarantees. In SyncManager: forks
and invalid blocks, irreversible read mode, a chain that grows and the handshakes
sent when the node is synced with it, latency in `recv_handshake`,
`sync_peer_limit`, and limits on the blocks a peer is willing to serve. In
PlatformTimer: the other builds (kqueue, asio), and the calibration of the timer.

The parts of section 1 without a module are listed in `PROJECT.json` with the
reason: contract execution, cryptography and serialization are out of reach or
without structure here, and the API plugins and programs are mostly I/O.

## 6. Plan

1. Net plugin: block notices and nacks, dispatch of blocks and transactions; in
   SyncManager, forks and irreversible mode; composed with Controller's
   AcceptBlock.
2. Irreversible mode and the Savanna transition as further configurations of
   Controller; a changing finalizer policy in Savanna.
3. Block log (append, truncation, repair after a crash) below Controller's log
   head; snapshots promoted by the LIB.
4. Producer plugin: block timing, pause votes, unapplied transactions, the
   read window of the main thread.
5. Pure algorithms: resource limits, subjective billing, authority checks.
6. Proofs: SourceWatched and BlocksAccounted for SyncManager.
