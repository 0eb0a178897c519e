---------------------------- MODULE SyncManager ----------------------------
(***************************************************************************)
(* How a node that is behind fetches the chain from its peers: sync_manager *)
(* and the parts of connection and dispatch_manager that drive it            *)
(* (net_plugin.cpp), for a node that reads in head mode.                     *)
(*                                                                           *)
(* The peers hold one chain that does not grow, so a block is its number,    *)
(* and each serves it up to its own head.  Every handler of a connection     *)
(* strand, of the dispatcher strand and of the main thread is one step.  A   *)
(* message of the node takes effect at the peer when it is sent: the peer    *)
(* answers on a wire that delays as long as it likes.                        *)
(***************************************************************************)
EXTENDS Integers, Sequences, SequencesExt, FiniteSetsExt

CONSTANTS
    Peers, NoPeer,
    PeerRoot, PeerHead,     \* [Peers -> block numbers]: the peers' fork database
    sync_fetch_span, min_blocks_distance,
    Lag,                    \* how far the root is behind the head
    MaxWire,                \* bound: blocks, and other messages, of a peer under way
    MaxPosted,              \* bound: handlers posted to the dispatcher's strand
    MaxFaults               \* bound: failures in a behaviour

ASSUME PeersAssumption == \A p \in Peers : 1 <= PeerRoot[p] /\ PeerRoot[p] <= PeerHead[p]
ASSUME SpanAssumption  == sync_fetch_span \in Nat \ {0} /\ min_blocks_distance \in Nat

VARIABLES
    sync,             \* the members of sync_manager
    conn,             \* [Peers -> the members of the connection]
    strand,           \* [Peers -> the handlers posted to the connection's strand]
    peer_requested,   \* [Peers -> what the peer is sending us, a set of at most one range]
    wire,             \* [Peers -> the messages of the peer under way]
    dispatcher,       \* the handlers posted to the dispatcher's strand
    head,             \* the applied block
    fork_db_head,     \* the best block of the fork database
    chain_info,       \* fork_db_head as update_chain_info() saw it last
    faults            \* history

world == << sync, conn, strand, peer_requested >>
chain == << head, fork_db_head, chain_info >>
vars  == << world, wire, dispatcher, chain, faults >>

fork_db_root == Max({1, head - Lag})

closed_connection ==
    [state |-> "closed", peer_syncing_from_us |-> FALSE, no_retry |-> FALSE,
     peer_fork_db_root_num |-> 0, peer_fork_db_head_block_num |-> 0,
     conn_fork_db_head_num |-> 0, sync_last_requested_block |-> 0, sync_wait |-> FALSE]

Init ==
    /\ sync = [known |-> 0, last_requested |-> 0, next_expected |-> 1, source |-> NoPeer,
               state |-> "in_sync", ordinal |-> SetToSeq(Peers), active |-> FALSE]
    /\ conn = [p \in Peers |-> closed_connection]
    /\ strand = [p \in Peers |-> << >>]
    /\ peer_requested = [p \in Peers |-> {}]
    /\ wire = [p \in Peers |-> << >>]
    /\ dispatcher = << >>
    /\ head = 1 /\ fork_db_head = 1 /\ chain_info = 1
    /\ faults = 0

----------------------------------------------------------------------------
(* What the handlers call: operators on w = [sync, conn, strand, peer_requested] *)

Fault == faults < MaxFaults /\ faults' = faults + 1

World == [sync |-> sync, conn |-> conn, strand |-> strand, peer_requested |-> peer_requested]

Becomes(after) == \E w \in {after} :
    /\ sync' = w.sync
    /\ conn' = w.conn
    /\ strand' = w.strand
    /\ peer_requested' = w.peer_requested

Post(w, p, handler) == [w EXCEPT !.strand[p] = Append(@, handler)]

current(w, p) == w.conn[p].state = "connected" /\ ~ w.conn[p].peer_syncing_from_us

\* populate_handshake() skips a handshake that repeats the one just sent
Handshaken(w, p) ==
    IF << "handshake" >> \in Range(w.strand[p]) THEN w.strand[p]
    ELSE Append(w.strand[p], << "handshake" >>)

send_handshake(w, p) ==
    IF w.conn[p].state \in {"closing", "closed"} THEN w
    ELSE [w EXCEPT !.strand[p] = Handshaken(w, p)]

send_handshakes(w) ==
    [w EXCEPT !.strand = [p \in Peers |->
        IF w.conn[p].state = "connected" THEN Handshaken(w, p) ELSE w.strand[p]]]

close(w, p) == Post([w EXCEPT !.conn[p].state = "closing"], p, << "close" >>)

should_sync_from(w, p) ==
    /\ current(w, p) /\ ~ w.conn[p].no_retry
    /\ w.conn[p].peer_fork_db_head_block_num
          >= Min({w.sync.next_expected + sync_fetch_span, w.sync.known})

reset_on_failure(w) ==
    send_handshakes(
        [w EXCEPT !.sync.source = NoPeer,
                  !.sync.known = fork_db_root,
                  !.sync.last_requested = 0,
                  !.sync.next_expected = Max({fork_db_root + 1, @}),
                  !.sync.state = "in_sync"])

\* c is the provider to use if it is current; otherwise the one used longest ago
request_next_chunk(w, c) ==
    LET given == c # NoPeer /\ current(w, c)
        nodes == SelectSeq(w.sync.ordinal, LAMBDA p : should_sync_from(w, p))
        start == w.sync.next_expected
        end   == Min({start + sync_fetch_span - 1, w.sync.known})
        found == IF given \/ nodes = << >> THEN w
                 ELSE [w EXCEPT !.sync.ordinal =
                          Append(SelectSeq(@, LAMBDA p : p # nodes[1]), nodes[1])]
        from  == IF given THEN c ELSE nodes[1]
    IN IF (~ given /\ nodes = << >>) \/ w.sync.last_requested = w.sync.known \/ end < start
       THEN reset_on_failure(found)
       ELSE Post([found EXCEPT !.sync.last_requested = end,
                               !.sync.source = from,
                               !.sync.active = TRUE],
                 from, << "request", start, end >>)

is_sync_required(w) ==
    \/ w.sync.last_requested < w.sync.known
    \/ w.sync.next_expected < w.sync.last_requested

is_sync_request_ahead_allowed(w, n) ==
    /\ n >= w.sync.last_requested /\ w.sync.last_requested < w.sync.known
    /\ n - head < sync_fetch_span

\* sync_reset_fork_db_root_num(c, false)
LearnRoot(w, p) ==
    [w EXCEPT !.sync.source = IF w.sync.state = "in_sync" THEN NoPeer ELSE @,
              !.sync.known = Max({@, w.conn[p].peer_fork_db_root_num})]

\* A fetch from p is given up: the next request goes on where p left off
Reassign(w) ==
    request_next_chunk(
        [w EXCEPT !.sync.last_requested = 0,
                  !.sync.next_expected = Max({@, fork_db_root + 1}),
                  !.sync.source = NoPeer],
        NoPeer)

\* The root that the remaining peers know
KnownWithout(w, p) ==
    [w EXCEPT !.sync.source = IF w.sync.state = "in_sync" THEN NoPeer ELSE @,
              !.sync.known = Max({0} \cup {w.conn[q].peer_fork_db_root_num :
                                            q \in {r \in Peers : current(w, r)}})]

\* Mutant: what was requested from p is requested from nobody else
ForgetRoot_only(w, p) == KnownWithout(w, p)

\* sync_reset_fork_db_root_num(c, true)
ForgetRoot(w, p) ==
    LET w1 == KnownWithout(w, p)
    IN IF w1.sync.source = p THEN Reassign(w1) ELSE w1

\* No sync goes on, or nothing has come of it for resp_expected_period
Stalled(w) == w.sync.state # "lib_catchup" \/ ~ w.sync.active

start_sync(w, p, target) ==
    LET w1 == [w EXCEPT !.sync.known = Max({@, target})]
    IN CASE ~ is_sync_required(w1) \/ target <= fork_db_root -> send_handshake(w1, p)
         [] OTHER ->
              IF Stalled(w1)
              THEN request_next_chunk(
                      [w1 EXCEPT !.sync.state = "lib_catchup",
                                 !.sync.last_requested = 0,
                                 !.sync.next_expected = fork_db_root + 1], p)
              ELSE IF w1.sync.last_requested > 0
                      /\ is_sync_request_ahead_allowed(w1, w1.sync.next_expected - 1)
                   THEN request_next_chunk(w1, NoPeer)
                   ELSE w1

\* The peer's answer to request_message: blk_send_branch() of what follows block n.  A peer
\* that does not know block n goes away
SendBranch(w, p, n) ==
    LET end == Max({PeerHead[p]} \cup {r.end : r \in w.peer_requested[p]})
        branch == [first |-> n + 1, last |-> n, end |-> end, type |-> "peer_catchup"]
        underway == \E r \in w.peer_requested[p] : r.first <= n + 1 /\ r.end >= end
    IN CASE n > PeerHead[p] -> [w EXCEPT !.peer_requested[p] = {[branch EXCEPT !.type = "unknown"]}]
         [] underway        -> w
         [] n >= end        -> [w EXCEPT !.peer_requested[p] = {}]
         [] OTHER           -> [w EXCEPT !.peer_requested[p] = {branch}]

verify_catchup(w, p, num) ==
    IF \E q \in Peers : w.conn[q].conn_fork_db_head_num >= num
    THEN [w EXCEPT !.conn[p].conn_fork_db_head_num = 0]
    ELSE IF w.sync.state = "lib_catchup" \/ num < fork_db_root
    THEN send_handshake(w, p)
    ELSE SendBranch([w EXCEPT !.sync.state = "head_catchup",
                              !.conn[p].conn_fork_db_head_num = num], p, chain_info)

\* recv_handshake(), with no latency between the nodes
recv_handshake(w, p) ==
    LET w1 == [LearnRoot(w, p) EXCEPT !.conn[p].peer_syncing_from_us = FALSE]
    IN CASE chain_info = PeerHead[p] -> w1
         [] chain_info < PeerRoot[p] -> send_handshake(w1, p)
         [] fork_db_root > PeerHead[p] + min_blocks_distance ->
               [w1 EXCEPT !.conn[p].peer_syncing_from_us = TRUE]
         [] chain_info < PeerHead[p] -> verify_catchup(w1, p, PeerHead[p])
         [] OTHER -> w1

\* The order in which for_each_block_connection() visits the connections
Visited == SetToSeq(Peers)

\* sync_recv_block() of block n that connection p received.  In head catchup, a connection
\* whose head is reached clears the head of p, which then is not asked about its own
Received(w, p, n) ==
    LET w1 == [w EXCEPT !.sync.active = TRUE]
        heads == {i \in DOMAIN Visited : w.conn[Visited[i]].conn_fork_db_head_num # 0}
        reached == {i \in heads : w.conn[Visited[i]].conn_fork_db_head_num <= n}
        more  == \E i \in heads \ reached : Visited[i] = p => \A j \in reached : i < j
        last  == n >= w.conn[p].sync_last_requested_block
        w2 == [w1 EXCEPT
                 !.sync.source = IF last THEN NoPeer ELSE @,
                 !.conn[p].sync_wait = ~ last,
                 !.sync.next_expected =
                     IF w.sync.last_requested = 0 THEN fork_db_root + 1
                     ELSE IF n = @ THEN @ + 1 ELSE @]
    IN CASE w.sync.state = "head_catchup" ->
              [w1 EXCEPT
                 !.sync.source = NoPeer,
                 !.conn[p].conn_fork_db_head_num =
                     IF reached # {} THEN 0 ELSE @,
                 !.sync.state = IF more THEN "head_catchup" ELSE "in_sync"]
         [] w.sync.state = "lib_catchup" ->
              IF n < w.sync.known /\ is_sync_request_ahead_allowed(w2, n)
              THEN request_next_chunk(w2, NoPeer)
              ELSE w2
         [] OTHER -> w1

\* Mutant: off by one, the last known block does not end the sync
AllSynced_past_known(w, n) == n > w.sync.known

AllSynced(w, n) == n >= w.sync.known

\* sync_recv_block() of block n that was applied
Applied(w, n) ==
    LET w1 == [w EXCEPT !.sync.active = TRUE]
        more == \E q \in Peers : w.conn[q].conn_fork_db_head_num > n
    IN CASE w.sync.state = "head_catchup" ->
              [w1 EXCEPT !.sync.source = NoPeer,
                         !.sync.state = IF more THEN "head_catchup" ELSE "in_sync"]
         [] w.sync.state = "lib_catchup" ->
              IF AllSynced(w, n)
              THEN send_handshakes([w1 EXCEPT !.sync.state = "head_catchup"])
              ELSE IF is_sync_request_ahead_allowed(w1, n) THEN request_next_chunk(w1, NoPeer)
              ELSE w1
         [] OTHER -> w1

----------------------------------------------------------------------------
(* Connections *)

Open(p) == conn[p].state \in {"connecting", "connected"}

\* The wire has room for a message of one of the types
HasRoom(p, types) == Len(SelectSeq(wire[p], LAMBDA m : m[1] \in types)) < MaxWire

\* How the peer answers a handshake with our root and fork database head (its recv_handshake())
Answer(p) ==
    CASE chain_info = PeerHead[p]                          -> << >>
      [] PeerHead[p] < fork_db_root                        -> << << "handshake" >> >>
      [] PeerRoot[p] > chain_info + min_blocks_distance    -> << << "last_irr_catch_up" >> >>
      [] PeerHead[p] >= chain_info                         -> << << "catch_up" >> >>
      [] OTHER                                             -> << >>

\* The connection is established: both sides send their first handshake
Connect(p) ==
    /\ conn[p].state = "closed" /\ strand[p] = << >>
    /\ conn' = [conn EXCEPT ![p].state = "connecting"]
    /\ wire' = [wire EXCEPT ![p] = Append(Answer(p), << "handshake" >>)]
    /\ UNCHANGED << sync, strand, peer_requested, dispatcher, chain, faults >>

\* The next message of p is taken from the wire; a block waits for room at the dispatcher
Takes(p) ==
    /\ conn[p].state # "closed" /\ wire[p] # << >>
    /\ Head(wire[p])[1] = "block" => Len(dispatcher) < MaxPosted
    /\ wire' = [wire EXCEPT ![p] = Tail(@)]

\* It is read on p's strand
Read(p, type) ==
    /\ wire[p] # << >> /\ Head(wire[p])[1] = type
    /\ Takes(p)
    /\ UNCHANGED << chain, faults >>

Connected(p) ==
    [World EXCEPT !.conn[p].state = IF @ = "connecting" THEN "connected" ELSE @,
                  !.conn[p].peer_fork_db_head_block_num = PeerHead[p]]

ReadHandshake(p) ==
    /\ Read(p, "handshake")
    /\ Becomes(recv_handshake(
          [Connected(p) EXCEPT !.conn[p].peer_fork_db_root_num = PeerRoot[p]], p))
    /\ UNCHANGED dispatcher

ReadLastIrrCatchUp(p) ==
    /\ Read(p, "last_irr_catch_up")
    /\ Becomes(start_sync(
          LearnRoot([Connected(p) EXCEPT !.conn[p].peer_fork_db_root_num = PeerRoot[p]], p),
          p, PeerRoot[p]))
    /\ UNCHANGED dispatcher

\* What have_block() may say: expire_blocks() forgets the blocks up to the root at some time
have_block(n) ==
    IF n > fork_db_head THEN {FALSE} ELSE IF n > fork_db_root THEN {TRUE} ELSE BOOLEAN

ReadCatchUp(p) ==
    /\ Read(p, "catch_up")
    /\ \E have \in have_block(PeerHead[p]) :
          Becomes(IF have THEN send_handshake(Connected(p), p)
                  ELSE verify_catchup(Connected(p), p, PeerHead[p]))
    /\ UNCHANGED dispatcher

\* A block that the node has, or that is irreversible, is not posted
ReadKnownBlock(p) ==
    /\ Read(p, "block")
    /\ LET n == Head(wire[p])[2]
       IN /\ n <= fork_db_head
          /\ \E have \in have_block(n) :
                Becomes(IF have \/ sync.state = "lib_catchup" THEN Received(World, p, n)
                        ELSE [World EXCEPT !.conn[p].sync_wait = FALSE])
    /\ UNCHANGED dispatcher

ReadBlock(p) ==
    /\ Read(p, "block")
    /\ LET n == Head(wire[p])[2]
       IN /\ n > fork_db_head
          /\ Becomes(IF sync.state = "lib_catchup" THEN Received(World, p, n) ELSE World)
          /\ dispatcher' = Append(dispatcher, << "block", n, p >>)

ReadGoAway(p) ==
    /\ Read(p, "go_away")
    /\ Becomes(close([World EXCEPT !.conn[p].no_retry = TRUE], p))
    /\ UNCHANGED dispatcher

----------------------------------------------------------------------------
(* Handlers posted to the strand of a connection *)

Run(p, type) ==
    /\ strand[p] # << >> /\ Head(strand[p])[1] = type
    /\ UNCHANGED << dispatcher, chain >>

Popped(p) == [World EXCEPT !.strand[p] = Tail(@)]

RunHandshake(p) ==
    /\ Run(p, "handshake") /\ HasRoom(p, {"handshake", "last_irr_catch_up", "catch_up"})
    /\ Becomes(Popped(p))
    /\ wire' = [wire EXCEPT ![p] = IF Open(p) THEN @ \o Answer(p) ELSE @]
    /\ UNCHANGED faults

\* request_sync_blocks(); the peer adds to what it sends already
RunRequest(p) ==
    /\ Run(p, "request")
    /\ LET start == Head(strand[p])[2]
           end   == Head(strand[p])[3]
           more  == IF peer_requested[p] = {}
                    THEN {[first |-> start, last |-> start - 1, end |-> end, type |-> "peer_sync"]}
                    ELSE {[r EXCEPT !.end = Max({@, end})] : r \in peer_requested[p]}
       IN Becomes([Popped(p) EXCEPT
                     !.conn[p].sync_last_requested_block = end,
                     !.conn[p].sync_wait = TRUE,
                     !.peer_requested[p] = IF Open(p) THEN more ELSE @])
    /\ UNCHANGED << wire, faults >>

\* Mutant: the sync goes on behind the rejected block
Rejected_goes_on(w, n) == w

\* Block n was rejected: the sync starts again at the root, once for all the blocks above n
Rejected(w, n) ==
    IF w.sync.last_requested # 0 /\ n <= w.sync.next_expected - 1
    THEN [w EXCEPT !.sync.last_requested = 0, !.sync.next_expected = fork_db_root + 1]
    ELSE w

\* rejected_block(); too many of them in a row close the connection
RunRejected(p) ==
    /\ Run(p, "rejected")
    /\ LET w == Rejected(Popped(p), Head(strand[p])[2])
       IN Becomes(send_handshake(w, p)) \/ Becomes(close(w, p))
    /\ UNCHANGED << wire, faults >>

\* _close()
RunClose(p) ==
    /\ Run(p, "close")
    /\ LET w == ForgetRoot([Popped(p) EXCEPT !.conn[p].peer_syncing_from_us = FALSE,
                                             !.conn[p].peer_fork_db_root_num = 0], p)
       IN Becomes([w EXCEPT !.conn[p].sync_wait = FALSE,
                            !.conn[p].sync_last_requested_block = 0,
                            !.conn[p].state = "closed",
                            !.peer_requested[p] = {}])
    /\ wire' = [wire EXCEPT ![p] = << >>]
    /\ UNCHANGED faults

----------------------------------------------------------------------------
(* The dispatcher's strand and the main thread *)

\* accept_block(): a block links to one of the fork database, its root included.  The
\* first Savanna block is reported as unlinkable while the main thread has not got to
\* the blocks before it
DispatchBlock ==
    /\ dispatcher # << >> /\ Head(dispatcher)[1] = "block"
    /\ LET n == Head(dispatcher)[2]
           p == Head(dispatcher)[3]
           linkable == n \in fork_db_root .. fork_db_head + 1
       IN \/ /\ linkable
             /\ fork_db_head' = Max({fork_db_head, n})
             /\ UNCHANGED << world, faults >>
          \/ /\ IF linkable THEN n > head + 1 /\ Fault ELSE UNCHANGED faults
             /\ Becomes(Post(World, p, << "rejected", n >>))
             /\ UNCHANGED fork_db_head
    /\ dispatcher' = Tail(dispatcher)
    /\ UNCHANGED << wire, head, chain_info >>

DispatchApplied ==
    /\ dispatcher # << >> /\ Head(dispatcher)[1] = "applied"
    /\ Becomes(Applied(World, Head(dispatcher)[2]))
    /\ dispatcher' = Tail(dispatcher)
    /\ UNCHANGED << wire, chain, faults >>

\* on_accepted_block_header(): the main thread starts to apply the next block
AcceptHeader ==
    /\ head < fork_db_head /\ chain_info # fork_db_head
    /\ chain_info' = fork_db_head
    /\ UNCHANGED << world, wire, dispatcher, head, fork_db_head, faults >>

\* The main thread applies the next block: on_accepted_block(), on_irreversible_block()
Apply ==
    /\ head < fork_db_head /\ Len(dispatcher) < MaxPosted
    /\ head' = head + 1
    /\ chain_info' = fork_db_head
    /\ dispatcher' = Append(dispatcher, << "applied", head + 1 >>)
    /\ UNCHANGED << world, wire, fork_db_head, faults >>

----------------------------------------------------------------------------
(* Time, the peers and failures *)

\* enqueue_sync_block() at the peer; a block of a sync that it has not got ends the connection
PeerSends(p) ==
    /\ HasRoom(p, {"block"})
    /\ \E r \in peer_requested[p] :
          IF r.last < PeerHead[p]
          THEN /\ wire' = [wire EXCEPT ![p] = Append(@, << "block", r.last + 1 >>)]
               /\ peer_requested' = [peer_requested EXCEPT ![p] =
                                       IF r.last + 1 = r.end THEN {}
                                       ELSE {[r EXCEPT !.last = @ + 1]}]
          ELSE /\ wire' = IF r.type = "peer_catchup" THEN wire
                          ELSE [wire EXCEPT ![p] = Append(@, << "go_away" >>)]
               /\ peer_requested' = [peer_requested EXCEPT ![p] = {}]
    /\ UNCHANGED << sync, conn, strand, dispatcher, chain, faults >>

Idle(p) == wire[p] = << >> /\ peer_requested[p] = {}

\* Nothing is under way anywhere: the periods of the timers are long compared with
\* everything else, and one that runs out earlier counts as a failure
Still ==
    /\ dispatcher = << >> /\ head = fork_db_head
    /\ \A p \in Peers : Idle(p) /\ strand[p] = << >>

\* No block is under way
Drained ==
    /\ dispatcher = << >> /\ head = fork_db_head
    /\ \A p \in Peers :
          /\ peer_requested[p] = {}
          /\ \A i \in DOMAIN wire[p] : wire[p][i][1] # "block"
          /\ \A i \in DOMAIN strand[p] : strand[p][i][1] # "request"

\* check_heartbeat() at the peer: no block for half the heartbeat timeout
PeerHeartbeat(p) ==
    /\ Open(p) /\ Idle(p)
    /\ wire' = [wire EXCEPT ![p] = << << "handshake" >> >>]
    /\ UNCHANGED << world, dispatcher, chain >>

\* check_heartbeat() here
Heartbeat(p) ==
    /\ Open(p) /\ Idle(p) /\ sync.state # "lib_catchup"
    /\ << "handshake" >> \notin Range(strand[p])
    /\ Becomes(send_handshake(World, p))
    /\ UNCHANGED << wire, dispatcher, chain >>

\* sync_timeout(): sync_reassign_fetch(), then close()
Timeout(p) ==
    /\ conn[p].sync_wait
    /\ LET w == [World EXCEPT !.conn[p].sync_wait = FALSE]
           w1 == [w EXCEPT !.conn[p].sync_last_requested_block = 0, !.peer_requested[p] = {}]
       IN Becomes(close(IF sync.source = p THEN Reassign(w1) ELSE w, p))
    /\ UNCHANGED << wire, dispatcher, chain >>

\* resp_expected_period has passed since sync_active_time
Quiet ==
    /\ sync.active
    /\ sync' = [sync EXCEPT !.active = FALSE]
    /\ UNCHANGED << conn, strand, peer_requested, wire, dispatcher, chain >>

\* A read fails
Disconnect(p) ==
    /\ Open(p)
    /\ Becomes(close(World, p))
    /\ UNCHANGED << wire, dispatcher, chain >>

\* check_heartbeat() here: no message for the heartbeat timeout
HeartbeatTimeout(p) ==
    /\ Open(p)
    /\ Becomes(close([World EXCEPT !.conn[p].no_retry = TRUE], p))
    /\ UNCHANGED << wire, dispatcher, chain >>

Expire(p) == Timeout(p) \/ Quiet
Beat(p) == PeerHeartbeat(p) \/ Heartbeat(p)

Reads(p) ==
    \/ ReadHandshake(p) \/ ReadLastIrrCatchUp(p) \/ ReadCatchUp(p)
    \/ ReadKnownBlock(p) \/ ReadBlock(p) \/ ReadGoAway(p)

Runs(p) == RunHandshake(p) \/ RunRequest(p) \/ RunRejected(p) \/ RunClose(p)

Dispatch == DispatchBlock \/ DispatchApplied

Next ==
    \/ Dispatch \/ AcceptHeader \/ Apply
    \/ \E p \in Peers :
          \/ Connect(p) \/ Reads(p) \/ Runs(p) \/ PeerSends(p)
          \/ Still /\ Beat(p) /\ UNCHANGED faults
          \/ Drained /\ Expire(p) /\ UNCHANGED faults
          \/ Fault /\ (Beat(p) \/ Expire(p) \/ Disconnect(p) \/ HeartbeatTimeout(p))

NodeProgress == Dispatch \/ Apply \/ (Drained /\ Quiet /\ UNCHANGED faults)
PeerProgress(p) == Connect(p) \/ Reads(p) \/ Runs(p) \/ PeerSends(p)
                    \/ (Drained /\ Timeout(p) /\ UNCHANGED faults)
\* Strands, the main thread and the peers run, and a timer that keeps being due runs out.
\* The heartbeat of a peer is periodic, whatever the other peers do: it comes although
\* theirs come in between.  The subscripts name a variable that the step always changes
Fairness ==
    /\ WF_dispatcher(Dispatch) /\ WF_head(Apply)
    /\ WF_sync(Drained /\ Quiet /\ UNCHANGED faults)
    /\ \A p \in Peers :
          /\ WF_conn(Connect(p)) /\ WF_wire(Takes(p)) /\ WF_strand(Runs(p))
          /\ WF_peer_requested(PeerSends(p))
          /\ SF_wire(Still /\ PeerHeartbeat(p) /\ UNCHANGED faults)
          /\ WF_conn(Drained /\ Timeout(p) /\ UNCHANGED faults)

Spec == Init /\ [][Next]_vars /\ Fairness

----------------------------------------------------------------------------
(* Properties *)

\* The connection that is the source of a sync owes an answer that somebody waits for: its
\* timer runs, or the request or the close that will see to it is posted.  Sources that are
\* reset, reassigned and closed on different strands leave no sync that waits for ever.
SourceWatched ==
    sync.state = "lib_catchup" =>
        \A p \in Peers : sync.source = p =>
            \/ conn[p].sync_wait
            \/ \E i \in DOMAIN strand[p] : strand[p][i][1] \in {"request", "close"}

\* No block below the next expected one is missing: it is in the fork database or on its way
\* there, or the rejection that makes the sync start again is on its way.  Late, repeated and
\* rejected blocks of several peers leave no gap that nobody asks for.
BlocksAccounted ==
    sync.state = "lib_catchup" /\ sync.last_requested # 0 =>
        \A n \in fork_db_root + 1 .. sync.next_expected - 1 :
            \/ n <= fork_db_head
            \/ \E i \in DOMAIN dispatcher : dispatcher[i][1] = "block" /\ dispatcher[i][2] = n
            \/ \E p \in Peers : \E i \in DOMAIN strand[p] :
                  strand[p][i][1] = "rejected" /\ strand[p][i][2] < sync.next_expected

\* While nothing fails, the node gets to the highest head of its peers, range after range and
\* from one source to the next, and from the root on by the heads that they announce.  When
\* connections fail, time out or lose their blocks, it gets to the block before the highest
\* root (for a rejected block, "We will request that block again", handle_message of a block).
\* After a failure the blocks from there on may have to wait until the root of a peer moves
\* on: is_sync_required() is false when only the last requested block is missing.
SyncCatchesUp ==
    LET target == IF faults = 0 THEN Max({PeerHead[p] : p \in Peers})
                  ELSE Max({PeerRoot[p] : p \in Peers}) - 1
    IN <>[](head >= target)
=============================================================================
