------------------------ MODULE AggregatingQCProofs ------------------------
(***************************************************************************)
(* Proofs about AggregatingQC, for any number of vote threads, any keys    *)
(* and any two policies: the two halves of a dual vote agree, a vote is    *)
(* relayed once if it counts, the best QC never weakens, what is proposed  *)
(* verifies, and the state of an aggregator is that of the votes counted.  *)
(***************************************************************************)
EXTENDS AggregatingQC, FiniteSetTheorems, WellFoundedInduction, TLAPS

AllVotes == [key : Keys, strong : BOOLEAN]

Messages == [key : Keys, strong : BOOLEAN, sig_ok : BOOLEAN]

Results == {"unknown_public_key", "success"}

ThreadStates ==
    {[pc |-> "idle"]} \cup
        [pc : {"check_active", "add_active", "check_pending", "add_pending"}, msg : Messages, result : Results]

(* A vote is in the bitset of its strength. *)
Counted(agg, v) == v.key \in (IF v.strong THEN agg.strong_votes ELSE agg.weak_votes)

VoteOf(t) == [key |-> threads[t].msg.key, strong |-> threads[t].msg.strong]

Late(t) == threads[t].pc \in {"check_pending", "add_pending"}

(* The thread has counted its vote in the active policy and goes on to the *)
(* pending one.                                                            *)
Past(t) == Late(t) /\ in_active(threads[t].msg.key)

AggShape(agg) ==
    /\ agg = [state           |-> agg.state,
              strong_sum      |-> agg.strong_sum,
              weak_sum        |-> agg.weak_sum,
              strong_votes    |-> agg.strong_votes,
              weak_votes      |-> agg.weak_votes,
              received_qc_sig |-> agg.received_qc_sig]
    /\ agg.strong_votes \subseteq Keys
    /\ agg.weak_votes \subseteq Keys

ReceiverShape ==
    \/ receiver.pc = "idle"
    \/ /\ receiver.pc \in {"set_active", "set_pending"}
       /\ receiver = [pc |-> receiver.pc, qc |-> receiver.qc, count |-> receiver.count]
       /\ receiver.qc.active_policy_sig # NoSig
       /\ HasPending => receiver.qc.pending_policy_sig # NoSig
       /\ receiver.pc = "set_pending" => HasPending

Shapes ==
    /\ cast \subseteq Votes
    /\ relayed \in [AllVotes -> Nat]
    /\ threads \in [Threads -> ThreadStates]
    /\ AggShape(active)
    /\ HasPending => AggShape(pending)
    /\ ReceiverShape

(* What a thread knows at each point of aggregate_vote. *)
Early == \A t \in Threads :
    /\ threads[t].pc = "check_active" => threads[t].result = "unknown_public_key"
    /\ threads[t].pc = "add_active" => in_active(threads[t].msg.key) /\ threads[t].msg.sig_ok

Knows == \A t \in Threads :
    /\ Past(t) =>
          /\ threads[t].result = "success"
          /\ threads[t].msg.sig_ok
          /\ Counted(active, VoteOf(t))
          /\ in_pending(threads[t].msg.key) => ~agg_has_voted(pending, threads[t].msg.key)
    /\ Late(t) /\ ~in_active(threads[t].msg.key) => threads[t].result = "unknown_public_key"
    /\ threads[t].pc = "add_pending" => in_pending(threads[t].msg.key)

(* At most one thread carries the vote of a finalizer on. *)
OneCarrier == \A t, u \in Threads :
    Past(t) /\ Past(u) /\ threads[t].msg.key = threads[u].msg.key => t = u

(* A vote that counts has been relayed once, or a thread carries it on. *)
Settled == \A v \in AllVotes :
    /\ in_active(v.key) /\ Counted(active, v) =>
          \/ /\ relayed[v] = 1
             /\ in_pending(v.key) => Counted(pending, v)
          \/ \E t \in Threads : Past(t) /\ VoteOf(t) = v
    /\ in_pending(v.key) /\ Counted(pending, v) =>
          /\ relayed[v] = 1
          /\ in_active(v.key) => Counted(active, v)

(* A relayed vote counts, and one that a thread carries on is not yet      *)
(* relayed.                                                                *)
RelayedCounts ==
    /\ \A v \in AllVotes : relayed[v] # 0 =>
          \/ in_active(v.key) /\ Counted(active, v)
          \/ in_pending(v.key) /\ Counted(pending, v)
    /\ \A t \in Threads : Past(t) => relayed[VoteOf(t)] = 0

(* The inductive invariant. *)
IInv == Shapes /\ Early /\ Knows /\ OneCarrier /\ Settled /\ RelayedCounts

-----------------------------------------------------------------------------
(* A positive multiple of a number is at least the number.                 *)
LEMMA Multiple ==
    ASSUME NEW a \in Nat, NEW j \in Nat \ {0}
    PROVE  a * j \in Nat /\ a * j >= a
<1>1. j - 1 \in Nat
    OBVIOUS
<1>2. a * (j - 1) \in Nat
    BY <1>1
<1>3. a * j = a * (j - 1) + a
    OBVIOUS
<1>4. QED
    BY <1>2, <1>3

(* A negative difference, taken as unsigned, grows by the modulus or more. *)
LEMMA WrapsAround ==
    ASSUME NEW M \in Nat \ {0}, NEW y \in Int, NEW z \in Nat, y < z
    PROVE  (y - z) % M \in Int /\ (y - z) % M >= (y - z) + M
<1> DEFINE x == y - z
<1>0. x \in Int /\ x < 0
    OBVIOUS
<1> HIDE DEF x
<1>1. PICK j \in Int, rest \in 0 .. M - 1 : x = M * j + rest /\ x % M = rest
    <2>1. x \div M \in Int /\ x = M * (x \div M) + (x % M) /\ x % M \in 0 .. M - 1
        BY <1>0
    <2>2. QED
        BY <2>1, Zenon
<1>2. j < 0
    <2>1. CASE j >= 0
        <3>1. M * j \in Nat
            BY <2>1
        <3>2. QED
            BY <1>0, <1>1, <3>1
    <2>2. QED
        BY <2>1
<1>3. M * (-j) \in Nat /\ M * (-j) >= M /\ M * (-j) = -(M * j)
    <2>1. -j \in Nat \ {0}
        BY <1>2
    <2>2. M * (-j) = -(M * j)
        OBVIOUS
    <2>3. QED
        BY <2>1, <2>2, Multiple
<1>4. x % M \in Int /\ x % M >= x + M
    BY <1>0, <1>1, <1>3
<1>5. QED
    BY <1>4, Zenon DEF x

(* The number that an int holds after n is put into it. *)
AsInt(n) == IF n % IntModulus < IntModulus \div 2 THEN n % IntModulus ELSE (n % IntModulus) - IntModulus

(* What is left of a sum that was folded into an int: less the threshold   *)
(* and taken as unsigned, it is the difference of the two when the sum is  *)
(* an int, and otherwise at least that.                                    *)
LEMMA SumInAnInt ==
    \A total, threshold \in Nat :
        total < Uint64Modulus /\ total \div 2 < threshold /\ threshold <= total =>
            /\ (AsInt(total) - threshold) % Uint64Modulus \in Int
            /\ (AsInt(total) - threshold) % Uint64Modulus >= total - threshold
            /\ total < IntModulus \div 2 => (AsInt(total) - threshold) % Uint64Modulus = total - threshold
<1>1. PICK m \in Nat \ {0} : m = IntModulus /\ m % 2 = 0
    BY WidthsAssumption, Zenon
<1>2. PICK M \in Nat \ {0} : M = Uint64Modulus /\ M % m = 0
    BY <1>1, WidthsAssumption, Zenon
<1>3. SUFFICES ASSUME NEW total \in Nat, NEW threshold \in Nat,
                      total < M, total \div 2 < threshold, threshold <= total
               PROVE  /\ (AsInt(total) - threshold) % M \in Int
                      /\ (AsInt(total) - threshold) % M >= total - threshold
                      /\ total < m \div 2 => (AsInt(total) - threshold) % M = total - threshold
    BY <1>1, <1>2, Zenon
<1>4. PICK sum_int : sum_int = AsInt(total)
    BY Zenon
<1>5. PICK half \in Nat \ {0} : m = 2 * half /\ m \div 2 = half
    <2>1. m \div 2 \in Nat \ {0} /\ m = 2 * (m \div 2)
        BY <1>1
    <2>2. QED
        BY <2>1, Zenon
<1>6. PICK q \in Nat, rest \in 0 .. m - 1 : total = m * q + rest /\ rest = total % m
    <2>1. total \div m \in Nat /\ total % m \in 0 .. m - 1 /\ total = m * (total \div m) + (total % m)
        OBVIOUS
    <2>2. QED
        BY <2>1, Zenon
<1>7. PICK k \in Nat \ {0} : M = m * k
    <2>1. M = m * (M \div m) /\ M \div m \in Nat \ {0}
        BY <1>2
    <2>2. QED
        BY <2>1, Zenon
<1>8. sum_int = IF rest < half THEN rest ELSE rest - m
    BY <1>1, <1>4, <1>5, <1>6, Zenon DEF AsInt
<1>9. sum_int \in Int /\ -half <= sum_int /\ sum_int < half
    BY <1>5, <1>8
<1>10. CASE total < half
    <2>1. total % m = total
        BY <1>5, <1>10
    <2>2. sum_int = total
        BY <1>6, <1>8, <1>10, <2>1, Zenon
    <2>3. (total - threshold) % M = total - threshold /\ total - threshold \in Int
        BY <1>3
    <2>4. total - threshold >= total - threshold
        OBVIOUS
    <2>5. QED
        BY <1>4, <2>2, <2>3, <2>4, Zenon
<1>11. CASE ~(total < half)
    <2>1. PICK p \in Nat \ {0} : sum_int = total - m * p
        <3>1. CASE rest < half
            <4>1. q # 0
                BY <1>6, <1>11, <3>1
            <4>2. q \in Nat \ {0} /\ sum_int = total - m * q
                BY <1>6, <1>8, <3>1, <4>1
            <4>3. QED
                BY <4>2, Zenon
        <3>2. CASE ~(rest < half)
            <4>1. m * (q + 1) = m * q + m
                OBVIOUS
            <4>2. sum_int = total - m * (q + 1)
                BY <1>6, <1>8, <3>2, <4>1
            <4>3. q + 1 \in Nat \ {0}
                OBVIOUS
            <4>4. QED
                BY <4>2, <4>3, Zenon
        <3>3. QED
            BY <3>1, <3>2, Zenon
    <2>2. m * p \in Nat /\ m * p >= m
        BY Multiple
    <2>3. sum_int < threshold
        BY <1>3, <1>5, <1>9, <2>1, <2>2
    <2>4. sum_int + M >= total
        <3>1. CASE p <= k
            <4>1. k - p \in Nat /\ m * k = m * p + m * (k - p)
                BY <3>1
            <4>2. m * (k - p) \in Nat
                BY <4>1
            <4>3. QED
                BY <1>7, <2>1, <2>2, <4>1, <4>2
        <3>2. CASE p > k
            <4>1. p - k \in Nat \ {0} /\ m * p = m * k + m * (p - k)
                BY <3>2
            <4>2. m * (p - k) \in Nat /\ m * (p - k) >= m
                BY <4>1, Multiple
            <4>3. QED
                BY <1>3, <1>5, <1>7, <1>9, <2>1, <2>2, <4>1, <4>2
        <3>3. QED
            BY <3>1, <3>2
    <2>5. PICK max \in Int : max = (sum_int - threshold) % M /\ max >= (sum_int - threshold) + M
        BY <1>9, <2>3, WrapsAround, Zenon
    <2>6. max >= total - threshold
        BY <1>9, <2>4, <2>5
    <2>7. QED
        BY <1>4, <1>5, <1>11, <2>5, <2>6, Zenon
<1>12. QED
    BY <1>10, <1>11, Zenon

-----------------------------------------------------------------------------
(* Counting a vote under the mutex: a first vote is added on its side and  *)
(* nothing else changes, a later one changes nothing.                      *)
LEMMA AddVote ==
    ASSUME NEW agg, AggShape(agg), NEW policy, NEW v \in AllVotes
    PROVE  LET n == add_vote(agg, policy, v.strong, v.key)
           IN  /\ AggShape(n)
               /\ n.received_qc_sig = agg.received_qc_sig
               /\ agg_has_voted(agg, v.key) => n = agg
               /\ ~agg_has_voted(agg, v.key) =>
                     /\ \A w \in AllVotes : Counted(n, w) <=> (Counted(agg, w) \/ w = v)
                     /\ \A k \in Keys : agg_has_voted(n, k) <=> (agg_has_voted(agg, k) \/ k = v.key)
<1> DEFINE n == add_vote(agg, policy, v.strong, v.key)
<1>1. v.key \in Keys
    BY DEF AllVotes
<1>2. CASE agg_has_voted(agg, v.key)
    <2>1. n = agg
        BY <1>2 DEF add_vote
    <2>2. QED
        BY <1>2, <2>1
<1>3. CASE ~agg_has_voted(agg, v.key) /\ v.strong
    <2>1. n = add_strong_vote(agg, policy, v.key)
        BY <1>3 DEF add_vote
    <2>2. PICK sum, st : n = [agg EXCEPT !.strong_votes = @ \cup {v.key}, !.strong_sum = sum, !.state = st]
        BY <2>1, Zenon DEF add_strong_vote
    <2>3. n = [state           |-> st,
               strong_sum      |-> sum,
               weak_sum        |-> agg.weak_sum,
               strong_votes    |-> agg.strong_votes \cup {v.key},
               weak_votes      |-> agg.weak_votes,
               received_qc_sig |-> agg.received_qc_sig]
        BY <2>2, Zenon DEF AggShape
    <2> HIDE DEF n
    <2>4. AggShape(n)
        BY <2>3, <1>1 DEF AggShape
    <2>5. ASSUME NEW w \in AllVotes PROVE Counted(n, w) <=> (Counted(agg, w) \/ w = v)
        BY <1>3, <2>3 DEF Counted, AllVotes, agg_has_voted
    <2>6. \A k \in Keys : agg_has_voted(n, k) <=> (agg_has_voted(agg, k) \/ k = v.key)
        BY <2>3 DEF agg_has_voted
    <2>7. n.received_qc_sig = agg.received_qc_sig
        BY <2>3
    <2>8. QED
        BY <1>3, <2>4, <2>5, <2>6, <2>7, Zenon DEF n
<1>4. CASE ~agg_has_voted(agg, v.key) /\ ~v.strong
    <2>1. n = add_weak_vote(agg, policy, v.key)
        BY <1>4 DEF add_vote
    <2>2. PICK sum, st : n = [agg EXCEPT !.weak_votes = @ \cup {v.key}, !.weak_sum = sum, !.state = st]
        BY <2>1, Zenon DEF add_weak_vote
    <2>3. n = [state           |-> st,
               strong_sum      |-> agg.strong_sum,
               weak_sum        |-> sum,
               strong_votes    |-> agg.strong_votes,
               weak_votes      |-> agg.weak_votes \cup {v.key},
               received_qc_sig |-> agg.received_qc_sig]
        BY <2>2, Zenon DEF AggShape
    <2> HIDE DEF n
    <2>4. AggShape(n)
        BY <2>3, <1>1 DEF AggShape
    <2>5. ASSUME NEW w \in AllVotes PROVE Counted(n, w) <=> (Counted(agg, w) \/ w = v)
        BY <1>4, <2>3 DEF Counted, AllVotes, agg_has_voted
    <2>6. \A k \in Keys : agg_has_voted(n, k) <=> (agg_has_voted(agg, k) \/ k = v.key)
        BY <2>3 DEF agg_has_voted
    <2>7. n.received_qc_sig = agg.received_qc_sig
        BY <2>3
    <2>8. QED
        BY <1>4, <2>4, <2>5, <2>6, <2>7, Zenon DEF n
<1>5. QED
    BY <1>2, <1>3, <1>4, Zenon

(* A finalizer has voted when a vote of one of the two strengths counts. *)
LEMMA HasVoted ==
    ASSUME NEW agg, NEW v \in AllVotes
    PROVE  /\ Counted(agg, v) => agg_has_voted(agg, v.key)
           /\ agg_has_voted(agg, v.key) => \E w \in AllVotes : w.key = v.key /\ Counted(agg, w)
<1>1. Counted(agg, v) => agg_has_voted(agg, v.key)
    BY DEF Counted, agg_has_voted
<1>2. ASSUME v.key \in agg.strong_votes PROVE \E w \in AllVotes : w.key = v.key /\ Counted(agg, w)
    <2> DEFINE w == [key |-> v.key, strong |-> TRUE]
    <2>1. w \in AllVotes /\ w.key = v.key /\ w.strong
        BY DEF AllVotes
    <2>2. Counted(agg, w)
        BY <1>2, <2>1 DEF Counted
    <2>3. QED
        BY <2>1, <2>2, Zenon
<1>3. ASSUME v.key \in agg.weak_votes PROVE \E w \in AllVotes : w.key = v.key /\ Counted(agg, w)
    <2> DEFINE w == [key |-> v.key, strong |-> FALSE]
    <2>1. w \in AllVotes /\ w.key = v.key /\ ~w.strong
        BY DEF AllVotes
    <2>2. Counted(agg, w)
        BY <1>3, <2>1 DEF Counted
    <2>3. QED
        BY <2>1, <2>2, Zenon
<1>4. QED
    BY <1>1, <1>2, <1>3 DEF agg_has_voted

(* Storing a received QC leaves the votes alone. *)
LEMMA SetReceived ==
    ASSUME NEW agg, AggShape(agg), NEW sig
    PROVE  LET n == set_received_qc_sig(agg, sig)
           IN  /\ AggShape(n)
               /\ n.state = agg.state
               /\ n.strong_votes = agg.strong_votes
               /\ n.weak_votes = agg.weak_votes
               /\ n.received_qc_sig = IF agg.received_qc_sig = NoSig \/ (agg.received_qc_sig.is_weak /\ ~sig.is_weak)
                                      THEN sig ELSE agg.received_qc_sig
<1> DEFINE n == set_received_qc_sig(agg, sig)
<1>1. CASE agg.received_qc_sig = NoSig \/ (agg.received_qc_sig.is_weak /\ ~sig.is_weak)
    <2>1. n = [agg EXCEPT !.received_qc_sig = sig]
        BY <1>1 DEF set_received_qc_sig
    <2>2. n = [state           |-> agg.state,
               strong_sum      |-> agg.strong_sum,
               weak_sum        |-> agg.weak_sum,
               strong_votes    |-> agg.strong_votes,
               weak_votes      |-> agg.weak_votes,
               received_qc_sig |-> sig]
        BY <2>1 DEF AggShape
    <2>3. QED
        BY <1>1, <2>2 DEF AggShape
<1>2. CASE ~(agg.received_qc_sig = NoSig \/ (agg.received_qc_sig.is_weak /\ ~sig.is_weak))
    <2>1. n = agg
        BY <1>2 DEF set_received_qc_sig
    <2>2. QED
        BY <1>2, <2>1
<1>3. QED
    BY <1>1, <1>2, Zenon

-----------------------------------------------------------------------------
(* The vote of a thread at work. *)
LEMMA AtWork ==
    ASSUME Shapes, NEW t \in Threads, threads[t].pc # "idle"
    PROVE  /\ threads[t] \in [pc : {"check_active", "add_active", "check_pending", "add_pending"},
                              msg : Messages, result : Results]
           /\ VoteOf(t) \in AllVotes
           /\ VoteOf(t).key = threads[t].msg.key
           /\ VoteOf(t).strong = threads[t].msg.strong
           /\ threads[t].msg.key \in Keys
<1>1. threads[t] \in ThreadStates
    BY DEF Shapes
<1>2. threads[t] \in [pc : {"check_active", "add_active", "check_pending", "add_pending"},
                      msg : Messages, result : Results]
    BY <1>1 DEF ThreadStates
<1>3. threads[t].msg.key \in Keys /\ threads[t].msg.strong \in BOOLEAN
    BY <1>2 DEF Messages
<1>4. QED
    BY <1>2, <1>3 DEF VoteOf, AllVotes

(* A thread that goes on keeps its message. *)
LEMMA AfterGoto ==
    ASSUME Shapes, NEW t \in Threads, threads[t].pc # "idle",
           NEW pc \in {"add_active", "check_pending", "add_pending"}, NEW result \in Results,
           Goto(t, pc, result)
    PROVE  /\ threads' \in [Threads -> ThreadStates]
           /\ threads'[t].pc = pc
           /\ threads'[t].msg = threads[t].msg
           /\ threads'[t].result = result
           /\ \A u \in Threads \ {t} : threads'[u] = threads[u]
           /\ relayed' = relayed
<1>1. threads[t].msg \in Messages
    BY AtWork
<1>2. [pc |-> pc, msg |-> threads[t].msg, result |-> result] \in ThreadStates
    BY <1>1 DEF ThreadStates
<1>3. QED
    BY <1>2 DEF Goto, Shapes

(* A thread that returns is idle; on success its vote is relayed once      *)
(* more.                                                                   *)
LEMMA AfterReturn ==
    ASSUME Shapes, NEW t \in Threads, NEW result, Return(t, result)
    PROVE  /\ threads' \in [Threads -> ThreadStates]
           /\ threads'[t].pc = "idle"
           /\ \A u \in Threads \ {t} : threads'[u] = threads[u]
           /\ result # "success" => relayed' = relayed
           /\ result = "success" => relayed' = [relayed EXCEPT ![VoteOf(t)] = @ + 1]
<1>1. [pc |-> "idle"] \in ThreadStates
    BY DEF ThreadStates
<1>2. QED
    BY <1>1 DEF Return, Shapes, VoteOf

(* The count of one vote goes from none to one, no other count changes.    *)
LEMMA FirstRelay ==
    ASSUME Shapes, NEW v \in AllVotes, relayed[v] = 0, relayed' = [relayed EXCEPT ![v] = @ + 1]
    PROVE  relayed'[v] = 1 /\ \A w \in AllVotes \ {v} : relayed'[w] = relayed[w]
<1>1. relayed \in [AllVotes -> Nat]
    BY Zenon DEF Shapes
<1>2. QED
    BY <1>1

(* Steps that change neither threads nor votes. *)
LEMMA Frame ==
    ASSUME IInv, threads' = threads, relayed' = relayed,
           \A v \in AllVotes : Counted(active', v) <=> Counted(active, v),
           \A v \in AllVotes : in_pending(v.key) => (Counted(pending', v) <=> Counted(pending, v)),
           \A k \in Keys : in_pending(k) => (agg_has_voted(pending', k) <=> agg_has_voted(pending, k))
    PROVE  (Early /\ Knows /\ OneCarrier /\ Settled /\ RelayedCounts)'
<1>1. Early'
    BY DEF IInv, Early
<1>2. \A u \in Threads : (Past(u)' <=> Past(u)) /\ (Late(u)' <=> Late(u)) /\ VoteOf(u)' = VoteOf(u)
    BY DEF Past, Late, VoteOf
<1>3. \A u \in Threads : Past(u) => VoteOf(u) \in AllVotes /\ threads[u].msg.key \in Keys
    BY AtWork DEF IInv, Past, Late
<1>4. Knows'
    BY <1>2, <1>3 DEF IInv, Knows
<1>5. OneCarrier'
    BY <1>2 DEF IInv, OneCarrier
<1>6. Settled'
    BY <1>2 DEF IInv, Settled
<1>7. RelayedCounts'
    BY <1>2 DEF IInv, RelayedCounts
<1>8. QED
    BY <1>1, <1>4, <1>5, <1>6, <1>7

(* Steps of a thread that neither carries a vote on nor begins to. *)
LEMMA ThreadFrame ==
    ASSUME IInv, NEW t \in Threads, ~Past(t), ~Past(t)',
           \A u \in Threads \ {t} : threads'[u] = threads[u],
           relayed' = relayed, active' = active, pending' = pending,
           threads'[t].pc = "check_active" => threads'[t].result = "unknown_public_key",
           threads'[t].pc = "add_active" => in_active(threads'[t].msg.key) /\ threads'[t].msg.sig_ok,
           Late(t)' => threads'[t].result = "unknown_public_key",
           threads'[t].pc = "add_pending" => in_pending(threads'[t].msg.key)
    PROVE  (Early /\ Knows /\ OneCarrier /\ Settled /\ RelayedCounts)'
<1>1. Early'
    BY DEF IInv, Early
<1>2. \A u \in Threads \ {t} : (Past(u)' <=> Past(u)) /\ (Late(u)' <=> Late(u)) /\ VoteOf(u)' = VoteOf(u)
    BY DEF Past, Late, VoteOf
<1>3. Knows'
    <2>1. ASSUME NEW u \in Threads, u # t
          PROVE  /\ Past(u)' => /\ threads'[u].result = "success"
                                /\ threads'[u].msg.sig_ok
                                /\ Counted(active', VoteOf(u)')
                                /\ in_pending(threads'[u].msg.key) => ~agg_has_voted(pending', threads'[u].msg.key)
                 /\ Late(u)' /\ ~in_active(threads'[u].msg.key) => threads'[u].result = "unknown_public_key"
                 /\ threads'[u].pc = "add_pending" => in_pending(threads'[u].msg.key)
        BY <1>2, <2>1 DEF IInv, Knows
    <2>2. QED
        BY <2>1 DEF Knows
<1>4. OneCarrier'
    BY <1>2 DEF IInv, OneCarrier
<1>5. Settled'
    <2>1. ASSUME NEW v \in AllVotes, NEW u \in Threads, Past(u), VoteOf(u) = v
          PROVE  \E w \in Threads : Past(w)' /\ VoteOf(w)' = v
        BY <1>2, <2>1
    <2>2. QED
        BY <2>1 DEF IInv, Settled
<1>6. RelayedCounts'
    BY <1>2 DEF IInv, RelayedCounts
<1>7. QED
    BY <1>1, <1>3, <1>4, <1>5, <1>6

(* A thread that begins with a vote knows nothing yet.                     *)
LEMMA StartVoteStep ==
    ASSUME IInv, NEW t \in Threads, NEW msg \in VoteMessages, StartVote(t, msg)
    PROVE  IInv'
<1>1. msg \in Messages
    <2>1. cast \subseteq Votes /\ Finalizers \subseteq Keys
        BY PoliciesAssumption DEF IInv, Shapes
    <2>2. CASE msg \in [key : Keys, strong : {TRUE}, sig_ok : {FALSE}]
        BY <2>2, Zenon DEF Messages
    <2>3. ASSUME NEW w \in cast, msg = [key |-> w.key, strong |-> w.strong, sig_ok |-> TRUE]
          PROVE  msg \in Messages
        <3>1. w.key \in Keys /\ w.strong \in BOOLEAN
            BY <2>1 DEF Votes
        <3>2. QED
            BY <2>3, <3>1 DEF Messages
    <2>4. QED
        BY <2>2, <2>3, Zenon DEF VoteMessages
<1>2. [pc |-> "check_active", msg |-> msg, result |-> "unknown_public_key"] \in ThreadStates
    BY <1>1 DEF ThreadStates, Results
<1>3. /\ threads[t].pc = "idle"
      /\ threads' \in [Threads -> ThreadStates]
      /\ threads'[t].pc = "check_active"
      /\ threads'[t].result = "unknown_public_key"
      /\ \A u \in Threads \ {t} : threads'[u] = threads[u]
    BY <1>2 DEF StartVote, IInv, Shapes
<1>4. /\ relayed' = relayed /\ active' = active /\ pending' = pending
      /\ cast' = cast /\ receiver' = receiver
    BY DEF StartVote
<1>5. ~Past(t) /\ ~Past(t)' /\ ~Late(t)'
    BY <1>3 DEF Past, Late
<1>6. (Early /\ Knows /\ OneCarrier /\ Settled /\ RelayedCounts)'
    BY <1>3, <1>4, <1>5, ThreadFrame
<1>7. Shapes'
    BY <1>3, <1>4 DEF IInv, Shapes, ReceiverShape
<1>8. QED
    BY <1>6, <1>7 DEF IInv

(* has_voted in the active policy, and the check of the signature: the     *)
(* thread returns or goes on.                                              *)
LEMMA CheckActiveStep ==
    ASSUME IInv, NEW t \in Threads, CheckActive(t)
    PROVE  IInv'
<1>1. threads[t].pc = "check_active" /\ threads[t].result = "unknown_public_key"
    BY DEF CheckActive, IInv, Early
<1>2. active' = active /\ pending' = pending /\ cast' = cast /\ receiver' = receiver
    BY DEF CheckActive
<1>3. ~Past(t)
    BY <1>1 DEF Past, Late
<1>4. Shapes /\ threads[t].pc # "idle" /\ threads[t].result \in Results
    BY <1>1 DEF IInv, Results
<1>5. CASE ~in_active(threads[t].msg.key) /\ Goto(t, "check_pending", threads[t].result)
    <2>1. /\ threads' \in [Threads -> ThreadStates]
          /\ threads'[t].pc = "check_pending"
          /\ threads'[t].msg = threads[t].msg
          /\ threads'[t].result = threads[t].result
          /\ \A u \in Threads \ {t} : threads'[u] = threads[u]
          /\ relayed' = relayed
        BY <1>4, <1>5, AfterGoto
    <2>2. ~Past(t)'
        BY <1>5, <2>1 DEF Past
    <2>3. (Early /\ Knows /\ OneCarrier /\ Settled /\ RelayedCounts)'
        BY <1>1, <1>2, <1>3, <2>1, <2>2, ThreadFrame
    <2>4. Shapes'
        BY <1>2, <2>1 DEF IInv, Shapes, ReceiverShape
    <2>5. QED
        BY <2>3, <2>4 DEF IInv
<1>6. CASE Return(t, "duplicate") \/ Return(t, "invalid_signature")
    <2>1. /\ threads' \in [Threads -> ThreadStates]
          /\ threads'[t].pc = "idle"
          /\ \A u \in Threads \ {t} : threads'[u] = threads[u]
          /\ relayed' = relayed
        BY <1>4, <1>6, AfterReturn
    <2>2. ~Past(t)' /\ ~Late(t)'
        BY <2>1 DEF Past, Late
    <2>3. (Early /\ Knows /\ OneCarrier /\ Settled /\ RelayedCounts)'
        BY <1>2, <1>3, <2>1, <2>2, ThreadFrame
    <2>4. Shapes'
        BY <1>2, <2>1 DEF IInv, Shapes, ReceiverShape
    <2>5. QED
        BY <2>3, <2>4 DEF IInv
<1>7. CASE /\ in_active(threads[t].msg.key) /\ threads[t].msg.sig_ok
           /\ Goto(t, "add_active", threads[t].result)
    <2>1. /\ threads' \in [Threads -> ThreadStates]
          /\ threads'[t].pc = "add_active"
          /\ threads'[t].msg = threads[t].msg
          /\ \A u \in Threads \ {t} : threads'[u] = threads[u]
          /\ relayed' = relayed
        BY <1>4, <1>7, AfterGoto
    <2>2. ~Past(t)' /\ ~Late(t)'
        BY <2>1 DEF Past, Late
    <2>3. (Early /\ Knows /\ OneCarrier /\ Settled /\ RelayedCounts)'
        BY <1>2, <1>3, <1>7, <2>1, <2>2, ThreadFrame
    <2>4. Shapes'
        BY <1>2, <2>1 DEF IInv, Shapes, ReceiverShape
    <2>5. QED
        BY <2>3, <2>4 DEF IInv
<1>8. QED
    BY <1>5, <1>6, <1>7, Zenon DEF CheckActive

(* The vote is counted in the active policy and its thread now carries it, *)
(* or another thread was faster.                                           *)
LEMMA AddActiveStep ==
    ASSUME IInv, NEW t \in Threads, AddActive(t)
    PROVE  IInv'
<1> DEFINE v == VoteOf(t)
<1>1. /\ threads[t].pc = "add_active" /\ threads[t].pc # "idle"
      /\ in_active(threads[t].msg.key) /\ threads[t].msg.sig_ok
      /\ Shapes
    BY DEF AddActive, IInv, Early
<1>2. pending' = pending /\ cast' = cast /\ receiver' = receiver
    BY DEF AddActive
<1>3. v \in AllVotes /\ v.key = threads[t].msg.key /\ v.strong = threads[t].msg.strong
    BY <1>1, AtWork
<1>4. active' = add_vote(active, ActivePolicy, v.strong, v.key)
    BY <1>3 DEF AddActive
<1> HIDE DEF v
<1>5. AggShape(active)
    BY <1>1 DEF Shapes
<1>6. /\ AggShape(active')
      /\ agg_has_voted(active, v.key) => active' = active
      /\ ~agg_has_voted(active, v.key) =>
            \A w \in AllVotes : Counted(active', w) <=> (Counted(active, w) \/ w = v)
    BY <1>3, <1>4, <1>5, AddVote, Zenon
<1>7. ~Past(t)
    BY <1>1 DEF Past, Late
<1>8. CASE agg_has_voted(active, v.key)
    <2>1. Return(t, "duplicate")
        BY <1>3, <1>8 DEF AddActive
    <2>2. /\ threads' \in [Threads -> ThreadStates]
          /\ threads'[t].pc = "idle"
          /\ \A u \in Threads \ {t} : threads'[u] = threads[u]
          /\ relayed' = relayed
        BY <1>1, <2>1, AfterReturn
    <2>3. ~Past(t)' /\ ~Late(t)'
        BY <2>2 DEF Past, Late
    <2>4. (Early /\ Knows /\ OneCarrier /\ Settled /\ RelayedCounts)'
        BY <1>2, <1>6, <1>7, <1>8, <2>2, <2>3, ThreadFrame
    <2>5. Shapes'
        BY <1>2, <1>6, <2>2 DEF IInv, Shapes, ReceiverShape
    <2>6. QED
        BY <2>4, <2>5 DEF IInv
<1>9. CASE ~agg_has_voted(active, v.key)
    <2>1. Goto(t, "check_pending", "success")
        BY <1>3, <1>9 DEF AddActive
    <2>2. /\ threads' \in [Threads -> ThreadStates]
          /\ threads'[t].pc = "check_pending"
          /\ threads'[t].msg = threads[t].msg
          /\ threads'[t].result = "success"
          /\ \A u \in Threads \ {t} : threads'[u] = threads[u]
          /\ relayed' = relayed
        BY <1>1, <2>1, AfterGoto DEF Results
    <2>3. Past(t)' /\ VoteOf(t)' = v
        BY <1>1, <2>2 DEF Past, Late, VoteOf, v
    <2>4. \A u \in Threads \ {t} : (Past(u)' <=> Past(u)) /\ (Late(u)' <=> Late(u)) /\ VoteOf(u)' = VoteOf(u)
        BY <2>2 DEF Past, Late, VoteOf
    <2>5. \A w \in AllVotes : Counted(active', w) <=> (Counted(active, w) \/ w = v)
        BY <1>6, <1>9
    <2>6. \A w \in AllVotes : w.key = v.key => ~Counted(active, w)
        BY <1>9, HasVoted
    <2>7. in_pending(v.key) => ~agg_has_voted(pending, v.key)
        <3>1. ASSUME NEW w \in AllVotes, w.key = v.key, in_pending(v.key) PROVE ~Counted(pending, w)
            BY <1>1, <1>3, <2>6, <3>1 DEF IInv, Settled
        <3>2. QED
            BY <1>3, <3>1, HasVoted
    <2>8. \A u \in Threads \ {t} : Past(u) =>
              VoteOf(u) \in AllVotes /\ threads[u].msg.key # v.key
        <3>1. ASSUME NEW u \in Threads, Past(u) PROVE VoteOf(u) \in AllVotes /\ VoteOf(u).key = threads[u].msg.key
            BY <1>1, <3>1, AtWork DEF Past, Late
        <3>2. \A u \in Threads : Past(u) => Counted(active, VoteOf(u))
            BY DEF IInv, Knows
        <3>3. QED
            BY <2>6, <3>1, <3>2
    <2>9. Early'
        BY <2>2 DEF IInv, Early
    <2>10. Knows'
        <3>1. ASSUME NEW u \in Threads, u # t
              PROVE  /\ Past(u)' => /\ threads'[u].result = "success"
                                    /\ threads'[u].msg.sig_ok
                                    /\ Counted(active', VoteOf(u)')
                                    /\ in_pending(threads'[u].msg.key) => ~agg_has_voted(pending', threads'[u].msg.key)
                     /\ Late(u)' /\ ~in_active(threads'[u].msg.key) => threads'[u].result = "unknown_public_key"
                     /\ threads'[u].pc = "add_pending" => in_pending(threads'[u].msg.key)
            BY <1>2, <2>2, <2>4, <2>5, <2>8, <3>1 DEF IInv, Knows
        <3>2. /\ threads'[t].result = "success"
              /\ threads'[t].msg.sig_ok
              /\ Counted(active', VoteOf(t)')
              /\ in_pending(threads'[t].msg.key) => ~agg_has_voted(pending', threads'[t].msg.key)
              /\ in_active(threads'[t].msg.key)
              /\ threads'[t].pc # "add_pending"
            BY <1>1, <1>2, <1>3, <2>2, <2>3, <2>5, <2>7
        <3>3. QED
            BY <3>1, <3>2 DEF Knows
    <2>11. OneCarrier'
        BY <1>3, <2>2, <2>4, <2>8 DEF IInv, OneCarrier
    <2>12. Settled'
        <3>1. ASSUME NEW w \in AllVotes, in_active(w.key), Counted(active', w)
              PROVE  \/ /\ relayed'[w] = 1
                        /\ in_pending(w.key) => Counted(pending', w)
                     \/ \E u \in Threads : Past(u)' /\ VoteOf(u)' = w
            <4>1. CASE w = v
                BY <2>3, <4>1
            <4>2. CASE Counted(active, w)
                <5>1. \/ /\ relayed[w] = 1
                         /\ in_pending(w.key) => Counted(pending, w)
                      \/ \E u \in Threads : Past(u) /\ VoteOf(u) = w
                    BY <3>1, <4>2 DEF IInv, Settled
                <5>2. ASSUME NEW u \in Threads, Past(u), VoteOf(u) = w
                      PROVE  Past(u)' /\ VoteOf(u)' = w
                    BY <1>7, <2>4, <5>2
                <5>3. QED
                    BY <1>2, <2>2, <5>1, <5>2
            <4>3. QED
                BY <2>5, <3>1, <4>1, <4>2
        <3>2. ASSUME NEW w \in AllVotes, in_pending(w.key), Counted(pending', w)
              PROVE  relayed'[w] = 1 /\ (in_active(w.key) => Counted(active', w))
            BY <1>2, <2>2, <2>5, <3>2 DEF IInv, Settled
        <3>3. QED
            BY <3>1, <3>2 DEF Settled
    <2>13. RelayedCounts'
        <3>1. relayed[v] = 0
            <4>1. ~Counted(active, v) /\ (in_pending(v.key) => ~Counted(pending, v))
                BY <1>3, <2>6, <2>7, HasVoted
            <4>2. QED
                BY <1>3, <4>1 DEF IInv, RelayedCounts
        <3>2. \A u \in Threads : Past(u)' => relayed'[VoteOf(u)'] = 0
            BY <2>2, <2>3, <2>4, <3>1 DEF IInv, RelayedCounts
        <3>3. QED
            BY <1>2, <2>2, <2>5, <3>2 DEF IInv, RelayedCounts
    <2>14. Shapes'
        BY <1>2, <1>6, <2>2 DEF IInv, Shapes, ReceiverShape
    <2>15. QED
        BY <2>9, <2>10, <2>11, <2>12, <2>13, <2>14 DEF IInv
<1>10. QED
    BY <1>8, <1>9

(* A thread whose vote counts in the active policy goes on to the pending  *)
(* one, or relays the vote when the finalizer is not in the pending one.   *)
LEMMA CheckPendingStep ==
    ASSUME IInv, NEW t \in Threads, CheckPending(t)
    PROVE  IInv'
<1> DEFINE v == VoteOf(t)
<1>1. threads[t].pc = "check_pending" /\ threads[t].pc # "idle" /\ Late(t) /\ Shapes
    BY DEF CheckPending, IInv, Late
<1>2. active' = active /\ pending' = pending /\ cast' = cast /\ receiver' = receiver
    BY DEF CheckPending
<1>3. v \in AllVotes /\ v.key = threads[t].msg.key /\ threads[t].result \in Results
    BY <1>1, AtWork
<1> HIDE DEF v
<1>4. CASE ~in_active(threads[t].msg.key)
    <2>1. ~Past(t) /\ threads[t].result = "unknown_public_key"
        BY <1>1, <1>4 DEF Past, IInv, Knows
    <2>2. CASE \/ Return(t, threads[t].result)
               \/ Return(t, "duplicate")
               \/ Return(t, "invalid_signature")
        <3>1. /\ threads' \in [Threads -> ThreadStates]
              /\ threads'[t].pc = "idle"
              /\ \A u \in Threads \ {t} : threads'[u] = threads[u]
              /\ relayed' = relayed
            BY <1>1, <2>1, <2>2, AfterReturn
        <3>2. ~Past(t)' /\ ~Late(t)'
            BY <3>1 DEF Past, Late
        <3>3. (Early /\ Knows /\ OneCarrier /\ Settled /\ RelayedCounts)'
            BY <1>2, <2>1, <3>1, <3>2, ThreadFrame
        <3>4. Shapes'
            BY <1>2, <3>1 DEF IInv, Shapes, ReceiverShape
        <3>5. QED
            BY <3>3, <3>4 DEF IInv
    <2>3. CASE in_pending(threads[t].msg.key) /\ Goto(t, "add_pending", threads[t].result)
        <3>1. /\ threads' \in [Threads -> ThreadStates]
              /\ threads'[t].pc = "add_pending"
              /\ threads'[t].msg = threads[t].msg
              /\ threads'[t].result = threads[t].result
              /\ \A u \in Threads \ {t} : threads'[u] = threads[u]
              /\ relayed' = relayed
            BY <1>1, <1>3, <2>3, AfterGoto
        <3>2. ~Past(t)'
            BY <1>4, <3>1 DEF Past
        <3>3. (Early /\ Knows /\ OneCarrier /\ Settled /\ RelayedCounts)'
            BY <1>2, <2>1, <2>3, <3>1, <3>2, ThreadFrame
        <3>4. Shapes'
            BY <1>2, <3>1 DEF IInv, Shapes, ReceiverShape
        <3>5. QED
            BY <3>3, <3>4 DEF IInv
    <2>4. QED
        BY <2>2, <2>3, Zenon DEF CheckPending
<1>5. CASE in_active(threads[t].msg.key)
    <2>1. /\ Past(t)
          /\ threads[t].result = "success"
          /\ threads[t].msg.sig_ok
          /\ Counted(active, v)
          /\ in_pending(threads[t].msg.key) => ~agg_has_voted(pending, threads[t].msg.key)
        BY <1>1, <1>5 DEF Past, IInv, Knows, v
    <2>2. \A u \in Threads \ {t} : Past(u) => threads[u].msg.key # v.key
        BY <1>3, <2>1 DEF IInv, OneCarrier
    <2>3. CASE ~in_pending(threads[t].msg.key) /\ Return(t, threads[t].result)
        <3>1. /\ threads' \in [Threads -> ThreadStates]
              /\ threads'[t].pc = "idle"
              /\ \A u \in Threads \ {t} : threads'[u] = threads[u]
              /\ relayed' = [relayed EXCEPT ![v] = @ + 1]
            BY <1>1, <2>1, <2>3, AfterReturn DEF v
        <3>2. ~Past(t)' /\ ~Late(t)'
            BY <3>1 DEF Past, Late
        <3>0. relayed'[v] = 1 /\ \A w \in AllVotes \ {v} : relayed'[w] = relayed[w]
            <4>1. relayed[v] = 0
                BY <2>1 DEF IInv, RelayedCounts, v
            <4>2. QED
                BY <1>1, <1>3, <3>1, <4>1, FirstRelay, Zenon
        <3>3. \A u \in Threads \ {t} : (Past(u)' <=> Past(u)) /\ (Late(u)' <=> Late(u)) /\ VoteOf(u)' = VoteOf(u)
            BY <3>1 DEF Past, Late, VoteOf
        <3>4. Early'
            BY <3>1 DEF IInv, Early
        <3>5. Knows'
            <4>1. ASSUME NEW u \in Threads, u # t
                  PROVE  /\ Past(u)' => /\ threads'[u].result = "success"
                                        /\ threads'[u].msg.sig_ok
                                        /\ Counted(active', VoteOf(u)')
                                        /\ in_pending(threads'[u].msg.key) => ~agg_has_voted(pending', threads'[u].msg.key)
                         /\ Late(u)' /\ ~in_active(threads'[u].msg.key) => threads'[u].result = "unknown_public_key"
                         /\ threads'[u].pc = "add_pending" => in_pending(threads'[u].msg.key)
                BY <1>2, <3>1, <3>3, <4>1 DEF IInv, Knows
            <4>2. QED
                BY <3>1, <3>2, <4>1 DEF Knows
        <3>6. OneCarrier'
            BY <3>1, <3>2, <3>3 DEF IInv, OneCarrier
        <3>7. Settled'
            <4>1. ASSUME NEW w \in AllVotes, in_active(w.key), Counted(active', w)
                  PROVE  \/ /\ relayed'[w] = 1
                            /\ in_pending(w.key) => Counted(pending', w)
                         \/ \E u \in Threads : Past(u)' /\ VoteOf(u)' = w
                <5>1. CASE w = v
                    BY <1>3, <2>3, <3>0, <5>1
                <5>2. CASE w # v
                    <6>1. \/ /\ relayed[w] = 1
                             /\ in_pending(w.key) => Counted(pending, w)
                          \/ \E u \in Threads : Past(u) /\ VoteOf(u) = w
                        BY <1>2, <4>1 DEF IInv, Settled
                    <6>2. ASSUME NEW u \in Threads, Past(u), VoteOf(u) = w
                          PROVE  Past(u)' /\ VoteOf(u)' = w
                        BY <3>3, <5>2, <6>2 DEF v
                    <6>3. QED
                        BY <1>2, <3>0, <5>2, <6>1, <6>2
                <5>3. QED
                    BY <5>1, <5>2
            <4>2. ASSUME NEW w \in AllVotes, in_pending(w.key), Counted(pending', w)
                  PROVE  relayed'[w] = 1 /\ (in_active(w.key) => Counted(active', w))
                BY <1>2, <3>0, <4>2 DEF IInv, Settled
            <4>3. QED
                BY <4>1, <4>2 DEF Settled
        <3>8. RelayedCounts'
            <4>1. \A w \in AllVotes : relayed'[w] # 0 => (in_active(w.key) /\ Counted(active', w)) \/ (in_pending(w.key) /\ Counted(pending', w))
                BY <1>2, <1>3, <1>5, <2>1, <3>0 DEF IInv, RelayedCounts
            <4>2. ASSUME NEW u \in Threads, Past(u)' PROVE relayed'[VoteOf(u)'] = 0
                <5>1. u # t /\ Past(u) /\ VoteOf(u)' = VoteOf(u)
                    BY <3>2, <3>3, <4>2
                <5>2. VoteOf(u) \in AllVotes /\ VoteOf(u).key = threads[u].msg.key
                    BY <1>1, <5>1, AtWork DEF Past, Late
                <5>3. VoteOf(u) # v
                    BY <2>2, <5>1, <5>2
                <5>4. QED
                    BY <3>0, <5>1, <5>2, <5>3 DEF IInv, RelayedCounts
            <4>3. QED
                BY <4>1, <4>2 DEF RelayedCounts
        <3>9. Shapes'
            BY <1>2, <1>3, <3>1 DEF IInv, Shapes, ReceiverShape
        <3>10. QED
            BY <3>4, <3>5, <3>6, <3>7, <3>8, <3>9 DEF IInv
    <2>4. CASE in_pending(threads[t].msg.key) /\ Goto(t, "add_pending", threads[t].result)
        <3>1. /\ threads' \in [Threads -> ThreadStates]
              /\ threads'[t].pc = "add_pending"
              /\ threads'[t].msg = threads[t].msg
              /\ threads'[t].result = threads[t].result
              /\ \A u \in Threads \ {t} : threads'[u] = threads[u]
              /\ relayed' = relayed
            BY <1>1, <1>3, <2>4, AfterGoto
        <3>2. \A u \in Threads : /\ Past(u)' <=> Past(u)
                                 /\ Late(u)' <=> Late(u)
                                 /\ VoteOf(u)' = VoteOf(u)
                                 /\ threads'[u].msg = threads[u].msg
                                 /\ threads'[u].result = threads[u].result
            BY <1>1, <3>1 DEF Past, Late, VoteOf
        <3>3. Early'
            BY <3>1, SMTT(30) DEF IInv, Early
        <3>4. Knows'
            <4>1. \A u \in Threads : threads'[u].pc = "add_pending" => in_pending(threads'[u].msg.key)
                BY <2>4, <3>1 DEF IInv, Knows
            <4>2. QED
                BY <1>2, <3>2, <4>1 DEF IInv, Knows
        <3>5. OneCarrier'
            BY <3>2, SMTT(30) DEF IInv, OneCarrier
        <3>6. Settled'
            BY <1>2, <3>1, <3>2 DEF IInv, Settled
        <3>7. RelayedCounts'
            BY <1>2, <3>1, <3>2 DEF IInv, RelayedCounts
        <3>8. Shapes'
            BY <1>2, <3>1 DEF IInv, Shapes, ReceiverShape
        <3>9. QED
            BY <3>3, <3>4, <3>5, <3>6, <3>7, <3>8 DEF IInv
    <2>5. QED
        BY <2>1, <2>3, <2>4, Zenon DEF CheckPending
<1>6. QED
    BY <1>4, <1>5

(* The vote is counted in the pending policy and relayed, unless the       *)
(* finalizer has voted there, which never happens to a vote that counts in *)
(* the active policy.                                                      *)
LEMMA AddPendingStep ==
    ASSUME IInv, NEW t \in Threads, AddPending(t)
    PROVE  IInv'
<1> DEFINE v == VoteOf(t)
<1>1. threads[t].pc = "add_pending" /\ threads[t].pc # "idle" /\ Late(t) /\ Shapes
    BY DEF AddPending, IInv, Late
<1>2. active' = active /\ cast' = cast /\ receiver' = receiver
    BY DEF AddPending
<1>3. v \in AllVotes /\ v.key = threads[t].msg.key /\ v.strong = threads[t].msg.strong /\ v.key \in Keys
    BY <1>1, AtWork
<1>4. pending' = add_vote(pending, PendingPolicy, v.strong, v.key)
    BY <1>3 DEF AddPending
<1>5. in_pending(v.key)
    BY <1>1, <1>3 DEF IInv, Knows
<1> HIDE DEF v
<1>6. HasPending /\ AggShape(pending)
    BY <1>1, <1>5 DEF in_pending, Shapes
<1>7. /\ AggShape(pending')
      /\ agg_has_voted(pending, v.key) => pending' = pending
      /\ ~agg_has_voted(pending, v.key) =>
            /\ \A w \in AllVotes : Counted(pending', w) <=> (Counted(pending, w) \/ w = v)
            /\ \A k \in Keys : agg_has_voted(pending', k) <=> (agg_has_voted(pending, k) \/ k = v.key)
    BY <1>3, <1>4, <1>6, AddVote, Zenon
<1>8. Past(t) => Counted(active, v) /\ ~agg_has_voted(pending, v.key)
    BY <1>3, <1>5 DEF IInv, Knows, v
<1>9. Past(t) <=> in_active(v.key)
    BY <1>1, <1>3 DEF Past
<1>10. CASE agg_has_voted(pending, v.key)
    <2>1. Return(t, "duplicate")
        BY <1>3, <1>10 DEF AddPending
    <2>2. /\ threads' \in [Threads -> ThreadStates]
          /\ threads'[t].pc = "idle"
          /\ \A u \in Threads \ {t} : threads'[u] = threads[u]
          /\ relayed' = relayed
        BY <1>1, <2>1, AfterReturn
    <2>3. ~Past(t) /\ ~Past(t)' /\ ~Late(t)'
        BY <1>8, <1>10, <2>2 DEF Past, Late
    <2>4. (Early /\ Knows /\ OneCarrier /\ Settled /\ RelayedCounts)'
        BY <1>2, <1>7, <1>10, <2>2, <2>3, ThreadFrame
    <2>5. Shapes'
        BY <1>2, <1>7, <2>2 DEF IInv, Shapes, ReceiverShape
    <2>6. QED
        BY <2>4, <2>5 DEF IInv
<1>11. CASE ~agg_has_voted(pending, v.key)
    <2>1. Return(t, "success")
        BY <1>3, <1>11 DEF AddPending
    <2>2. /\ threads' \in [Threads -> ThreadStates]
          /\ threads'[t].pc = "idle"
          /\ \A u \in Threads \ {t} : threads'[u] = threads[u]
          /\ relayed' = [relayed EXCEPT ![v] = @ + 1]
        BY <1>1, <2>1, AfterReturn DEF v
    <2>3. ~Past(t)' /\ ~Late(t)'
        BY <2>2 DEF Past, Late
    <2>4. \A u \in Threads \ {t} : (Past(u)' <=> Past(u)) /\ (Late(u)' <=> Late(u)) /\ VoteOf(u)' = VoteOf(u)
        BY <2>2 DEF Past, Late, VoteOf
    <2>5. \A u \in Threads \ {t} : Past(u) => threads[u].msg.key # v.key /\ threads[u].msg.key \in Keys
        <3>1. \A u \in Threads : Past(u) => threads[u].msg.key \in Keys /\ in_active(threads[u].msg.key)
            BY <1>1, AtWork DEF Past, Late
        <3>2. \A u \in Threads \ {t} : Past(t) /\ Past(u) => threads[u].msg.key # v.key
            BY <1>3 DEF IInv, OneCarrier
        <3>3. QED
            BY <1>9, <3>1, <3>2
    <2>6. /\ \A w \in AllVotes : Counted(pending', w) <=> (Counted(pending, w) \/ w = v)
          /\ \A k \in Keys : agg_has_voted(pending', k) <=> (agg_has_voted(pending, k) \/ k = v.key)
        BY <1>7, <1>11, SMTT(30)
    <2>0. relayed'[v] = 1 /\ \A w \in AllVotes \ {v} : relayed'[w] = relayed[w]
        <3>1. Past(t) => relayed[v] = 0
            BY Zenon DEF IInv, RelayedCounts, v
        <3>2. ~Past(t) => relayed[v] = 0
            <4>1. ~Past(t) => ~Counted(pending, v) /\ ~in_active(v.key)
                BY <1>3, <1>9, <1>11, HasVoted, Zenon
            <4>2. QED
                BY <1>3, <4>1, Zenon DEF IInv, RelayedCounts
        <3>3. QED
            BY <1>1, <1>3, <2>2, <3>1, <3>2, FirstRelay, Zenon
    <2>7. Early'
        BY <2>2 DEF IInv, Early
    <2>8. Knows'
        <3>1. ASSUME NEW u \in Threads, u # t
              PROVE  /\ Past(u)' => /\ threads'[u].result = "success"
                                    /\ threads'[u].msg.sig_ok
                                    /\ Counted(active', VoteOf(u)')
                                    /\ in_pending(threads'[u].msg.key) => ~agg_has_voted(pending', threads'[u].msg.key)
                     /\ Late(u)' /\ ~in_active(threads'[u].msg.key) => threads'[u].result = "unknown_public_key"
                     /\ threads'[u].pc = "add_pending" => in_pending(threads'[u].msg.key)
            BY <1>2, <2>2, <2>4, <2>5, <2>6, <3>1, SMTT(30) DEF IInv, Knows
        <3>2. QED
            BY <2>2, <2>3, <3>1 DEF Knows
    <2>9. OneCarrier'
        BY <2>2, <2>3, <2>4 DEF IInv, OneCarrier
    <2>10. Settled'
        <3>1. ASSUME NEW w \in AllVotes, in_active(w.key), Counted(active', w)
              PROVE  \/ /\ relayed'[w] = 1
                        /\ in_pending(w.key) => Counted(pending', w)
                     \/ \E u \in Threads : Past(u)' /\ VoteOf(u)' = w
            <4>1. CASE w = v
                BY <2>0, <2>6, <4>1
            <4>2. CASE w # v
                <5>1. \/ /\ relayed[w] = 1
                         /\ in_pending(w.key) => Counted(pending, w)
                      \/ \E u \in Threads : Past(u) /\ VoteOf(u) = w
                    BY <1>2, <3>1 DEF IInv, Settled
                <5>2. ASSUME NEW u \in Threads, Past(u), VoteOf(u) = w
                      PROVE  Past(u)' /\ VoteOf(u)' = w
                    BY <2>4, <4>2, <5>2 DEF v
                <5>3. QED
                    BY <2>0, <2>6, <4>2, <5>1, <5>2
            <4>3. QED
                BY <4>1, <4>2
        <3>2. ASSUME NEW w \in AllVotes, in_pending(w.key), Counted(pending', w)
              PROVE  relayed'[w] = 1 /\ (in_active(w.key) => Counted(active', w))
            <4>1. CASE w = v
                BY <1>2, <1>8, <1>9, <2>0, <4>1
            <4>2. CASE Counted(pending, w)
                BY <1>2, <2>0, <3>2, <4>2 DEF IInv, Settled
            <4>3. QED
                BY <2>6, <3>2, <4>1, <4>2
        <3>3. QED
            BY <3>1, <3>2 DEF Settled
    <2>11. RelayedCounts'
        <3>1. \A w \in AllVotes : relayed'[w] # 0 => (in_active(w.key) /\ Counted(active', w)) \/ (in_pending(w.key) /\ Counted(pending', w))
            BY <1>2, <1>3, <1>5, <2>0, <2>6 DEF IInv, RelayedCounts
        <3>2. ASSUME NEW u \in Threads, Past(u)' PROVE relayed'[VoteOf(u)'] = 0
            <4>1. u # t /\ Past(u) /\ VoteOf(u)' = VoteOf(u)
                BY <2>3, <2>4, <3>2
            <4>2. VoteOf(u) \in AllVotes /\ VoteOf(u).key = threads[u].msg.key
                BY <1>1, <4>1, AtWork DEF Past, Late
            <4>3. VoteOf(u) # v
                BY <2>5, <4>1, <4>2
            <4>4. QED
                BY <2>0, <4>1, <4>2, <4>3 DEF IInv, RelayedCounts
        <3>3. QED
            BY <3>1, <3>2 DEF RelayedCounts
    <2>12. Shapes'
        BY <1>2, <1>3, <1>7, <2>2 DEF IInv, Shapes, ReceiverShape
    <2>13. QED
        BY <2>7, <2>8, <2>9, <2>10, <2>11, <2>12 DEF IInv
<1>12. QED
    BY <1>10, <1>11

(* A signature made of cast votes is not an absent one. *)
LEMMA PresentSig ==
    ASSUME Shapes, NEW policy, policy.finalizers \subseteq Keys, NEW sig \in SigsOver(policy)
    PROVE  sig # NoSig
<1> DEFINE strong == cast_by(TRUE) \cap policy.finalizers
           weak   == cast_by(FALSE) \cap policy.finalizers
<1>1. strong \subseteq Keys /\ weak \subseteq Keys
    BY Zenon
<1>2. \/ \E s \in SUBSET strong : sig = strong_sig(s)
      \/ \E s \in SUBSET strong, w \in SUBSET weak : sig = weak_sig(s, w)
    BY Zenon DEF SigsOver
<1> HIDE DEF strong, weak
<1>3. ASSUME NEW s \in SUBSET strong, NEW w \in SUBSET weak
      PROVE  strong_sig(s) # NoSig /\ weak_sig(s, w) # NoSig
    <2>1. s \in SUBSET Keys /\ w \in SUBSET Keys
        BY <1>1, Zenon
    <2>2. QED
        BY <2>1, NoSigAssumption, Zenon
<1>4. {} \in SUBSET weak
    BY Zenon
<1>5. QED
    BY <1>2, <1>3, <1>4, Zenon

(* A block brings a QC; its signatures are not absent ones.                *)
LEMMA StartReceiveStep ==
    ASSUME IInv, StartReceive
    PROVE  IInv'
<1>1. UNCHANGED << cast, relayed, active, pending, threads >>
    BY DEF StartReceive
<1>2. Shapes /\ ActivePolicy.finalizers \subseteq Keys /\ (HasPending => PendingPolicy.finalizers \subseteq Keys)
    BY PoliciesAssumption DEF IInv, Finalizers
<1>3. PICK qc \in ReceivableQCs : receiver' = [pc |-> "set_active", qc |-> qc, count |-> receiver.count + 1]
    BY DEF StartReceive
<1>4. /\ qc.active_policy_sig \in SigsOver(ActivePolicy)
      /\ HasPending => qc.pending_policy_sig \in SigsOver(PendingPolicy)
    BY DEF ReceivableQCs
<1>5. /\ qc.active_policy_sig # NoSig
      /\ HasPending => qc.pending_policy_sig # NoSig
    BY <1>2, <1>4, PresentSig
<1>6. ReceiverShape'
    BY <1>3, <1>5 DEF ReceiverShape
<1>7. (Early /\ Knows /\ OneCarrier /\ Settled /\ RelayedCounts)'
    BY <1>1, Frame
<1>8. QED
    BY <1>1, <1>6, <1>7 DEF IInv, Shapes

(* set_received_qc for the active policy leaves the votes alone,           *)
LEMMA ReceiveActiveStep ==
    ASSUME IInv, ReceiveActive
    PROVE  IInv'
<1>1. UNCHANGED << cast, relayed, pending, threads >> /\ AggShape(active)
    BY DEF ReceiveActive, IInv, Shapes
<1>2. AggShape(active') /\ active'.strong_votes = active.strong_votes /\ active'.weak_votes = active.weak_votes
    BY <1>1, SetReceived, Zenon DEF ReceiveActive
<1>3. \A v \in AllVotes : Counted(active', v) <=> Counted(active, v)
    BY <1>2 DEF Counted
<1>4. ReceiverShape'
    BY DEF ReceiveActive, IInv, Shapes, ReceiverShape
<1>5. (Early /\ Knows /\ OneCarrier /\ Settled /\ RelayedCounts)'
    BY <1>1, <1>3, Frame
<1>6. QED
    BY <1>1, <1>2, <1>4, <1>5 DEF IInv, Shapes

(* and so it does for the pending one.                                     *)
LEMMA ReceivePendingStep ==
    ASSUME IInv, ReceivePending
    PROVE  IInv'
<1>1. UNCHANGED << cast, relayed, active, threads >> /\ HasPending /\ AggShape(pending)
    BY DEF ReceivePending, IInv, Shapes, ReceiverShape
<1>2. AggShape(pending') /\ pending'.strong_votes = pending.strong_votes /\ pending'.weak_votes = pending.weak_votes
    BY <1>1, SetReceived, Zenon DEF ReceivePending
<1>3. \A v \in AllVotes : Counted(pending', v) <=> Counted(pending, v)
    BY <1>2 DEF Counted
<1>4. \A k \in Keys : agg_has_voted(pending', k) <=> agg_has_voted(pending, k)
    BY <1>2 DEF agg_has_voted
<1>5. ReceiverShape'
    BY DEF ReceivePending, ReceiverShape
<1>6. (Early /\ Knows /\ OneCarrier /\ Settled /\ RelayedCounts)'
    BY <1>1, <1>3, <1>4, Frame
<1>7. QED
    BY <1>1, <1>2, <1>5, <1>6 DEF IInv, Shapes

-----------------------------------------------------------------------------
(* A block starts with no vote.                                            *)
LEMMA InitInductive == Init => IInv
<1> SUFFICES ASSUME Init PROVE IInv
    OBVIOUS
<1>1. /\ relayed = [v \in AllVotes |-> 0] /\ active = new_agg /\ (HasPending => pending = new_agg)
      /\ threads = [t \in Threads |-> [pc |-> "idle"]]
      /\ receiver.pc = "idle"
      /\ cast \subseteq Votes
    BY SMTT(30) DEF Init, AllVotes
<1>2. AggShape(new_agg)
    BY DEF AggShape, new_agg
<1>3. \A t \in Threads : threads[t].pc = "idle"
    BY <1>1
<1>4. threads \in [Threads -> ThreadStates]
    BY <1>1 DEF ThreadStates
<1>5. \A v \in AllVotes : ~Counted(new_agg, v)
    BY DEF Counted, new_agg
<1>6. Shapes
    BY <1>1, <1>2, <1>4 DEF Shapes, ReceiverShape
<1>7. Early
    BY <1>3 DEF Early
<1>8. \A t \in Threads : ~Late(t) /\ ~Past(t)
    BY <1>3 DEF Late, Past
<1>9. Knows /\ OneCarrier
    BY <1>3, <1>8 DEF Knows, OneCarrier
<1>10. Settled
    <2>1. \A v \in AllVotes : ~Counted(active, v) /\ (HasPending => ~Counted(pending, v))
        BY <1>1, <1>5
    <2>2. QED
        BY <2>1 DEF Settled, in_pending
<1>11. RelayedCounts
    BY <1>1, <1>8 DEF RelayedCounts
<1>12. QED
    BY <1>6, <1>7, <1>9, <1>10, <1>11 DEF IInv

(* Every step preserves the invariant.                                     *)
LEMMA StepInductive == IInv /\ [Next]_vars => IInv'
<1> SUFFICES ASSUME IInv, [Next]_vars PROVE IInv'
    OBVIOUS
<1>1. CASE \E t \in Threads, msg \in VoteMessages : StartVote(t, msg)
    BY <1>1, StartVoteStep
<1>2. CASE \E t \in Threads : CheckActive(t)
    BY <1>2, CheckActiveStep
<1>3. CASE \E t \in Threads : AddActive(t)
    BY <1>3, AddActiveStep
<1>4. CASE \E t \in Threads : CheckPending(t)
    BY <1>4, CheckPendingStep
<1>5. CASE \E t \in Threads : AddPending(t)
    BY <1>5, AddPendingStep
<1>6. CASE ReadActive \/ ReadPending \/ UNCHANGED vars
    <2>1. UNCHANGED << cast, relayed, active, pending, threads, receiver >>
        BY <1>6 DEF ReadActive, ReadPending, vars
    <2>2. (Early /\ Knows /\ OneCarrier /\ Settled /\ RelayedCounts)'
        BY <2>1, Frame
    <2>3. Shapes'
        BY <2>1 DEF IInv, Shapes, ReceiverShape
    <2>4. QED
        BY <2>2, <2>3 DEF IInv
<1>7. QED
    BY <1>1, <1>2, <1>3, <1>4, <1>5, <1>6, StartReceiveStep, ReceiveActiveStep, ReceivePendingStep DEF Next

(* IInv holds however the vote threads, the received QCs and the producer  *)
(* interleave.                                                             *)
THEOREM Inductive == Spec => []IInv
BY InitInductive, StepInductive, PTL DEF Spec

(* The two halves of the vote of a dual finalizer agree, for any number of *)
(* threads in aggregate_vote.                                              *)
THEOREM DualHolds == Spec => []DualVotesAgree
<1>1. IInv => DualVotesAgree
    <2> SUFFICES ASSUME IInv, HasPending,
                        NEW key \in ActivePolicy.finalizers \cap PendingPolicy.finalizers
                 PROVE  /\ key \in pending.strong_votes => key \in active.strong_votes
                        /\ key \in pending.weak_votes => key \in active.weak_votes
                        /\ (\A t \in Threads : threads[t].pc # "idle" => threads[t].msg.key # key) =>
                              vote_same_at(active, pending, key)
        BY DEF DualVotesAgree
    <2> DEFINE S == [key |-> key, strong |-> TRUE]
               W == [key |-> key, strong |-> FALSE]
    <2>1. in_active(key) /\ in_pending(key) /\ key \in Keys
        BY PoliciesAssumption DEF in_active, in_pending, Finalizers
    <2>2. /\ S \in AllVotes /\ W \in AllVotes
          /\ S.key = key /\ W.key = key
        BY <2>1 DEF AllVotes
    <2>3. /\ Counted(active, S) <=> key \in active.strong_votes
          /\ Counted(pending, S) <=> key \in pending.strong_votes
          /\ Counted(active, W) <=> key \in active.weak_votes
          /\ Counted(pending, W) <=> key \in pending.weak_votes
        BY DEF Counted
    <2> HIDE DEF S, W
    <2>4. ASSUME NEW v \in AllVotes, v.key = key
          PROVE  /\ Counted(pending, v) => Counted(active, v)
                 /\ (\A t \in Threads : threads[t].pc # "idle" => threads[t].msg.key # key) =>
                       (Counted(active, v) => Counted(pending, v))
        <3>1. ASSUME NEW t \in Threads, Past(t), VoteOf(t) = v
              PROVE  threads[t].pc # "idle" /\ threads[t].msg.key = key
            <4>1. threads[t].pc # "idle"
                BY <3>1 DEF Past, Late
            <4>2. QED
                BY <2>4, <3>1, <4>1, AtWork DEF IInv
        <3>2. QED
            BY <2>1, <2>4, <3>1 DEF IInv, Settled
    <2>5. QED
        BY <2>2, <2>3, <2>4 DEF vote_same_at
<1>2. QED
    BY <1>1, Inductive, PTL

(* A vote is relayed at most once and only if it counts, and every vote    *)
(* that counts has been relayed exactly once by the time no thread is at   *)
(* work on its finalizer.                                                  *)
THEOREM RelayHolds == Spec => []CountedIsRelayed
<1>1. IInv => CountedIsRelayed
    <2> SUFFICES ASSUME IInv PROVE CountedIsRelayed
        OBVIOUS
    <2> DEFINE counts(v) == \/ in_active(v.key) /\ Counted(active, v)
                            \/ in_pending(v.key) /\ Counted(pending, v)
               at_rest(v) == \A t \in Threads : threads[t].pc # "idle" => threads[t].msg.key # v.key
    <2>1. DOMAIN relayed = AllVotes /\ \A v \in AllVotes : relayed[v] \in Nat
        BY DEF IInv, Shapes
    <2>2. ASSUME NEW v \in AllVotes PROVE relayed[v] # 0 => counts(v)
        BY DEF IInv, RelayedCounts
    <2>3. ASSUME NEW v \in AllVotes, NEW t \in Threads, Past(t), VoteOf(t) = v
          PROVE  relayed[v] = 0 /\ ~at_rest(v)
        <3>1. threads[t].pc # "idle"
            BY <2>3 DEF Past, Late
        <3>2. threads[t].msg.key = v.key
            BY <2>3, <3>1, AtWork DEF IInv
        <3>3. QED
            BY <2>3, <3>1, <3>2 DEF IInv, RelayedCounts
    <2>4. ASSUME NEW v \in AllVotes, counts(v)
          PROVE  relayed[v] = 1 \/ \E t \in Threads : Past(t) /\ VoteOf(t) = v
        BY <2>4 DEF IInv, Settled
    <2> HIDE DEF at_rest
    <2>5. ASSUME NEW v \in AllVotes
          PROVE  /\ relayed[v] <= IF counts(v) THEN 1 ELSE 0
                 /\ at_rest(v) => relayed[v] = IF counts(v) THEN 1 ELSE 0
        <3>1. CASE counts(v)
            BY <2>3, <2>4, <3>1
        <3>2. CASE ~counts(v)
            BY <2>2, <3>2
        <3>3. QED
            BY <3>1, <3>2
    <2>6. QED
        BY <2>1, <2>5 DEF CountedIsRelayed, Counted, at_rest
<1>2. QED
    BY <1>1, Inductive, PTL

-----------------------------------------------------------------------------
(* What the votes alone give: nothing, a weak or a strong QC. *)
AggRank(agg) == IF agg.state = "strong" THEN 2 ELSE IF is_quorum_met(agg) THEN 1 ELSE 0

(* get_best_qc takes the stronger of the received and the aggregated QC. *)
LEMMA BestRank ==
    ASSUME NEW agg, AggShape(agg)
    PROVE  SigRank(sig_get_best_qc(agg)) = IF SigRank(agg.received_qc_sig) >= AggRank(agg)
                                           THEN SigRank(agg.received_qc_sig) ELSE AggRank(agg)
<1> DEFINE from_agg == extract_qc_sig_from_aggregating(agg)
<1>1. agg.strong_votes \in SUBSET Keys /\ agg.weak_votes \in SUBSET Keys
    BY DEF AggShape
<1>2. from_agg # NoSig
    BY <1>1, NoSigAssumption DEF extract_qc_sig_from_aggregating
<1>3. from_agg.is_weak <=> agg.state # "strong"
    BY DEF extract_qc_sig_from_aggregating, strong_sig, weak_sig
<1> HIDE DEF from_agg
<1>4. SigRank(from_agg) = IF agg.state = "strong" THEN 2 ELSE 1
    BY <1>2, <1>3 DEF SigRank
<1>5. CASE ~is_quorum_met(agg)
    <2>1. sig_get_best_qc(agg) = agg.received_qc_sig
        BY <1>5 DEF sig_get_best_qc
    <2>2. AggRank(agg) = 0
        BY <1>5 DEF AggRank, is_quorum_met
    <2>3. SigRank(agg.received_qc_sig) >= 0
        BY DEF SigRank
    <2>4. QED
        BY <2>1, <2>2, <2>3
<1>6. CASE is_quorum_met(agg) /\ agg.received_qc_sig = NoSig
    <2>1. sig_get_best_qc(agg) = from_agg
        BY <1>6 DEF sig_get_best_qc, from_agg
    <2>2. AggRank(agg) = SigRank(from_agg) /\ AggRank(agg) \in 1 .. 2
        BY <1>4, <1>6 DEF AggRank
    <2>3. SigRank(agg.received_qc_sig) = 0
        BY <1>6 DEF SigRank
    <2>4. QED
        BY <2>1, <2>2, <2>3
<1>7. CASE is_quorum_met(agg) /\ agg.received_qc_sig # NoSig
    <2>1. AggRank(agg) = IF agg.state = "strong" THEN 2 ELSE 1
        BY <1>7 DEF AggRank
    <2>2. SigRank(agg.received_qc_sig) = IF agg.received_qc_sig.is_weak THEN 1 ELSE 2
        BY <1>7 DEF SigRank
    <2>3. sig_get_best_qc(agg) = IF ~agg.received_qc_sig.is_weak \/ agg.state # "strong"
                                 THEN agg.received_qc_sig ELSE from_agg
        BY <1>3, <1>7 DEF sig_get_best_qc, from_agg
    <2>4. QED
        BY <1>4, <2>1, <2>2, <2>3
<1>8. QED
    BY <1>5, <1>6, <1>7

(* A vote never takes back what the votes before it have achieved.         *)
LEMMA AddVoteRank ==
    ASSUME NEW agg, AggShape(agg), NEW policy, NEW v \in AllVotes
    PROVE  AggRank(agg) <= AggRank(add_vote(agg, policy, v.strong, v.key))
<1> DEFINE n == add_vote(agg, policy, v.strong, v.key)
<1>1. \/ n = agg
      \/ \E sum : n.state = state_after_strong(agg, policy, sum)
      \/ \E sum : n.state = state_after_weak(agg, policy, sum)
    <2>1. CASE agg_has_voted(agg, v.key)
        BY <2>1 DEF add_vote
    <2>2. CASE ~agg_has_voted(agg, v.key) /\ v.strong
        <3>1. n = add_strong_vote(agg, policy, v.key)
            BY <2>2 DEF add_vote
        <3>2. add_strong_vote(agg, policy, v.key).state =
                  state_after_strong(agg, policy, agg.strong_sum + policy.weight[v.key])
            BY DEF add_strong_vote, AggShape
        <3>3. QED
            BY <3>1, <3>2, Zenon
    <2>3. CASE ~agg_has_voted(agg, v.key) /\ ~v.strong
        <3>1. n = add_weak_vote(agg, policy, v.key)
            BY <2>3 DEF add_vote
        <3>2. add_weak_vote(agg, policy, v.key).state =
                  state_after_weak(agg, policy, agg.weak_sum + policy.weight[v.key])
            BY DEF add_weak_vote, AggShape
        <3>3. QED
            BY <3>1, <3>2, Zenon
    <2>4. QED
        BY <2>1, <2>2, <2>3, Zenon
<1> HIDE DEF n
<1>2. ASSUME NEW sum, n.state = state_after_strong(agg, policy, sum)
      PROVE  /\ agg.state \in {"strong", "weak_final"} => n.state = agg.state
             /\ agg.state = "weak_achieved" => n.state \in {"strong", "weak_achieved"}
    BY <1>2 DEF state_after_strong
<1>3. ASSUME NEW sum, n.state = state_after_weak(agg, policy, sum)
      PROVE  /\ agg.state \in {"strong", "weak_final"} => n.state = agg.state
             /\ agg.state = "weak_achieved" => n.state \in {"weak_final", "weak_achieved"}
    BY <1>3 DEF state_after_weak
<1>4. /\ agg.state \in {"strong", "weak_final"} => n.state = agg.state
      /\ agg.state = "weak_achieved" => n.state \in {"strong", "weak_final", "weak_achieved"}
    BY <1>1, <1>2, <1>3
<1>5. QED
    BY <1>4 DEF AggRank, is_quorum_met, n

(* A vote that add_vote counts leaves the best QC as strong as it was,     *)
LEMMA VoteNotWeaker ==
    ASSUME NEW agg, AggShape(agg), NEW policy, NEW v \in AllVotes
    PROVE  SigRank(sig_get_best_qc(agg)) <= SigRank(sig_get_best_qc(add_vote(agg, policy, v.strong, v.key)))
<1> DEFINE n == add_vote(agg, policy, v.strong, v.key)
<1>1. AggShape(n) /\ n.received_qc_sig = agg.received_qc_sig
    BY AddVote, Zenon
<1>2. AggRank(agg) <= AggRank(n)
    BY AddVoteRank
<1> HIDE DEF n
<1>3. AggRank(agg) \in 0 .. 2 /\ AggRank(n) \in 0 .. 2 /\ SigRank(agg.received_qc_sig) \in 0 .. 2
    BY DEF AggRank, SigRank
<1>4. /\ SigRank(sig_get_best_qc(agg)) = IF SigRank(agg.received_qc_sig) >= AggRank(agg)
                                         THEN SigRank(agg.received_qc_sig) ELSE AggRank(agg)
      /\ SigRank(sig_get_best_qc(n)) = IF SigRank(agg.received_qc_sig) >= AggRank(n)
                                       THEN SigRank(agg.received_qc_sig) ELSE AggRank(n)
    BY <1>1, BestRank
<1>5. QED
    BY <1>2, <1>3, <1>4 DEF n

(* and so does a QC that is stored.                                        *)
LEMMA ReceivedNotWeaker ==
    ASSUME NEW agg, AggShape(agg), NEW sig, sig # NoSig
    PROVE  SigRank(sig_get_best_qc(agg)) <= SigRank(sig_get_best_qc(set_received_qc_sig(agg, sig)))
<1> DEFINE n == set_received_qc_sig(agg, sig)
<1>1. /\ AggShape(n) /\ n.state = agg.state
      /\ n.received_qc_sig = IF agg.received_qc_sig = NoSig \/ (agg.received_qc_sig.is_weak /\ ~sig.is_weak)
                             THEN sig ELSE agg.received_qc_sig
    BY SetReceived
<1> HIDE DEF n
<1>2. AggRank(n) = AggRank(agg)
    BY <1>1 DEF AggRank, is_quorum_met
<1>3. SigRank(agg.received_qc_sig) <= SigRank(n.received_qc_sig)
    BY <1>1 DEF SigRank
<1>4. /\ AggRank(agg) \in 0 .. 2
      /\ SigRank(agg.received_qc_sig) \in 0 .. 2 /\ SigRank(n.received_qc_sig) \in 0 .. 2
    BY DEF AggRank, SigRank
<1>5. /\ SigRank(sig_get_best_qc(agg)) = IF SigRank(agg.received_qc_sig) >= AggRank(agg)
                                         THEN SigRank(agg.received_qc_sig) ELSE AggRank(agg)
      /\ SigRank(sig_get_best_qc(n)) = IF SigRank(n.received_qc_sig) >= AggRank(n)
                                       THEN SigRank(n.received_qc_sig) ELSE AggRank(n)
    BY <1>1, BestRank
<1>6. QED
    BY <1>2, <1>3, <1>4, <1>5 DEF n

(* Whatever votes and QCs arrive, in whatever order, what get_best_qc      *)
(* finds for a policy never gets weaker.                                   *)
THEOREM NeverWeaker == Spec => BestQcNeverWeakens
<1>1. IInv /\ [Next]_vars => [NotWeaker]_vars
    <2> SUFFICES ASSUME IInv, Next PROVE NotWeaker
        OBVIOUS
    <2>1. ASSUME NEW agg PROVE SigRank(sig_get_best_qc(agg)) <= SigRank(sig_get_best_qc(agg))
        <3>1. \A sig : SigRank(sig) \in {0, 1, 2}
            BY DEF SigRank
        <3>2. QED
            BY <3>1
    <2>2. Shapes /\ AggShape(active) /\ (HasPending => AggShape(pending))
        BY DEF IInv, Shapes
    <2>3. ASSUME NEW t \in Threads, AddActive(t) PROVE NotWeaker
        <3>1. threads[t].pc # "idle" /\ pending' = pending
            BY <2>3, SMTT(30) DEF AddActive
        <3>2. VoteOf(t) \in AllVotes /\ active' = add_vote(active, ActivePolicy, VoteOf(t).strong, VoteOf(t).key)
            BY <2>2, <2>3, <3>1, AtWork DEF AddActive
        <3>3. QED
            BY <2>1, <2>2, <3>1, <3>2, VoteNotWeaker, Zenon DEF NotWeaker
    <2>4. ASSUME NEW t \in Threads, AddPending(t) PROVE NotWeaker
        <3>1. threads[t].pc # "idle" /\ active' = active
            BY <2>4, SMTT(30) DEF AddPending
        <3>2. VoteOf(t) \in AllVotes /\ pending' = add_vote(pending, PendingPolicy, VoteOf(t).strong, VoteOf(t).key)
            BY <2>2, <2>4, <3>1, AtWork DEF AddPending
        <3>3. QED
            BY <2>1, <2>2, <3>1, <3>2, VoteNotWeaker, Zenon DEF NotWeaker
    <2>5. CASE ReceiveActive
        <3>1. receiver.pc = "set_active" /\ pending' = pending
              /\ active' = set_received_qc_sig(active, receiver.qc.active_policy_sig)
            BY <2>5 DEF ReceiveActive
        <3>2. receiver.qc.active_policy_sig # NoSig
            BY <2>2, <3>1 DEF Shapes, ReceiverShape
        <3>3. QED
            BY <2>1, <2>2, <3>1, <3>2, ReceivedNotWeaker, Zenon DEF NotWeaker
    <2>6. CASE ReceivePending
        <3>1. receiver.pc = "set_pending" /\ active' = active
              /\ pending' = set_received_qc_sig(pending, receiver.qc.pending_policy_sig)
            BY <2>6 DEF ReceivePending
        <3>2. receiver.qc.pending_policy_sig # NoSig
            BY <2>2, <3>1 DEF Shapes, ReceiverShape
        <3>3. QED
            BY <2>1, <2>2, <3>1, <3>2, ReceivedNotWeaker, Zenon DEF NotWeaker
    <2>7. CASE active' = active /\ pending' = pending
        BY <2>1, <2>7, Zenon DEF NotWeaker
    <2>8. QED
        BY <2>3, <2>4, <2>5, <2>6, <2>7
           DEF Next, StartVote, CheckActive, CheckPending, StartReceive, ReadActive, ReadPending
<1>2. QED
    BY <1>1, Inductive, PTL DEF Spec, BestQcNeverWeakens

-----------------------------------------------------------------------------
(* Sums of weights *)

(* g gives the sum of the weights of every set of finalizers.              *)
Additive(w, S, g) ==
    /\ g \in [SUBSET S -> Nat]
    /\ g[{}] = 0
    /\ \A s \in SUBSET S : \A k \in S \ s : g[s \cup {k}] = g[s] + w[k]

(* The recursion with which weight_sum walks over a set of finalizers.     *)
Walk(w, S, f) ==
    f = [s \in SUBSET S |->
            IF s = {} THEN 0
            ELSE w[CHOOSE x \in s : TRUE] + f[s \ {CHOOSE x \in s : TRUE}]]

(* A set of natural numbers has a least one.                               *)
LEMMA LeastNat ==
    ASSUME NEW T, T \subseteq Nat, T # {}
    PROVE  \E x \in T : \A y \in T : ~(y < x)
<1>1. PICK x \in T : \A y \in T : ~(<< y, x >> \in OpToRel(<, Nat))
    BY NatLessThanWellFounded, WFMin, Zenon
<1>2. \A y \in T : ~(y < x)
    BY <1>1, Zenon DEF OpToRel
<1>3. QED
    BY <1>2, Zenon

(* A sum that is known for the sets of all finalizers but one is known for *)
(* all of them.                                                            *)
LEMMA SumExtends ==
    ASSUME NEW w, NEW S, NEW k \in S, \A j \in S : w[j] \in Nat,
           NEW g, Additive(w, S \ {k}, g)
    PROVE  \E h : Additive(w, S, h)
<1> DEFINE h == [s \in SUBSET S |-> IF k \in s THEN g[s \ {k}] + w[k] ELSE g[s]]
<1>1. \A s \in SUBSET S : s \ {k} \in SUBSET (S \ {k}) /\ (k \notin s => s \in SUBSET (S \ {k}))
    OBVIOUS
<1>2. \A s \in SUBSET (S \ {k}) : g[s] \in Nat
    BY DEF Additive
<1>3. h \in [SUBSET S -> Nat]
    BY <1>1, <1>2
<1>4. h[{}] = 0
    BY DEF Additive
<1>5. ASSUME NEW s \in SUBSET S, NEW j \in S \ s PROVE h[s \cup {j}] = h[s] + w[j]
    <2>1. s \cup {j} \in SUBSET S
        OBVIOUS
    <2>2. CASE j = k
        <3>1. (s \cup {j}) \ {k} = s /\ k \notin s
            BY <2>2
        <3>2. h[s \cup {j}] = g[s] + w[k] /\ h[s] = g[s]
            BY <2>1, <2>2, <3>1
        <3>3. QED
            BY <2>2, <3>2
    <2>3. CASE j # k /\ k \in s
        <3>1. (s \cup {j}) \ {k} = (s \ {k}) \cup {j} /\ j \in (S \ {k}) \ (s \ {k})
            BY <2>3
        <3>2. g[(s \ {k}) \cup {j}] = g[s \ {k}] + w[j]
            BY <1>1, <3>1 DEF Additive
        <3>3. h[s \cup {j}] = (g[s \ {k}] + w[j]) + w[k] /\ h[s] = g[s \ {k}] + w[k]
            BY <2>1, <2>3, <3>1, <3>2
        <3>4. g[s \ {k}] \in Nat /\ w[j] \in Nat /\ w[k] \in Nat
            BY <1>1, <1>2
        <3>5. QED
            BY <3>3, <3>4
    <2>4. CASE j # k /\ k \notin s
        <3>1. j \in (S \ {k}) \ s /\ k \notin s \cup {j}
            BY <2>4
        <3>2. g[s \cup {j}] = g[s] + w[j]
            BY <1>1, <2>4, <3>1 DEF Additive
        <3>3. h[s \cup {j}] = g[s \cup {j}] /\ h[s] = g[s]
            BY <2>1, <2>4, <3>1
        <3>4. QED
            BY <3>2, <3>3
    <2>5. QED
        BY <2>2, <2>3, <2>4
<1>6. Additive(w, S, h)
    BY <1>3, <1>4, <1>5, Zenon DEF Additive
<1>7. QED
    BY <1>6

(* The sums exist: by induction on the number of finalizers.               *)
LEMMA SumExists ==
    ASSUME NEW w, NEW S, IsFiniteSet(S), \A k \in S : w[k] \in Nat
    PROVE  \E g : Additive(w, S, g)
<1> DEFINE Without == {T \in SUBSET S : ~\E g : Additive(w, T, g)}
<1> DEFINE Sizes == {Cardinality(T) : T \in Without}
<1>1. SUFFICES ASSUME Without # {} PROVE FALSE
    BY Zenon
<1>2. \A T \in SUBSET S : IsFiniteSet(T) /\ Cardinality(T) \in Nat
    BY FS_Subset, FS_CardinalityType, Zenon
<1>3. Sizes \subseteq Nat /\ Sizes # {}
    BY <1>1, <1>2
<1>4. PICK n \in Sizes : \A m \in Sizes : ~(m < n)
    BY <1>3, LeastNat, Zenon
<1>5. PICK T \in Without : Cardinality(T) = n
    BY <1>4
<1>6. T # {}
    <2>1. SUFFICES ASSUME T = {} PROVE FALSE
        BY Zenon
    <2> DEFINE g == [s \in SUBSET {} |-> 0]
    <2>2. Additive(w, {}, g)
        BY DEF Additive
    <2>3. QED
        BY <1>5, <2>1, <2>2
<1>7. PICK k \in T : TRUE
    BY <1>6
<1>8. T \ {k} \in SUBSET S /\ \A j \in T : w[j] \in Nat
    BY <1>5, <1>7
<1>9. Cardinality(T \ {k}) = n - 1 /\ n \in Nat
    BY <1>2, <1>5, <1>7, FS_RemoveElement
<1>10. Cardinality(T \ {k}) \in Nat /\ Cardinality(T \ {k}) < n
    BY <1>2, <1>8, <1>9
<1>11. T \ {k} \notin Without
    BY <1>4, <1>10
<1>12. PICK g : Additive(w, T \ {k}, g)
    BY <1>8, <1>11
<1>13. \E h : Additive(w, T, h)
    BY <1>7, <1>8, <1>12, SumExtends, Zenon
<1>14. QED
    BY <1>5, <1>13

(* Sums of all sets satisfy the recursion, whichever element it takes.     *)
LEMMA SumWalks ==
    ASSUME NEW w, NEW S, NEW g, Additive(w, S, g), \A k \in S : w[k] \in Nat
    PROVE  Walk(w, S, g)
<1> DEFINE value(s) == IF s = {} THEN 0 ELSE w[CHOOSE x \in s : TRUE] + g[s \ {CHOOSE x \in s : TRUE}]
<1>1. ASSUME NEW s \in SUBSET S PROVE g[s] = value(s)
    <2>1. CASE s = {}
        BY <2>1 DEF Additive
    <2>2. CASE s # {}
        <3>1. PICK x : x = CHOOSE y \in s : TRUE
            OBVIOUS
        <3>2. x \in s
            BY <2>2, <3>1
        <3>3. s \ {x} \in SUBSET S /\ x \in S \ (s \ {x}) /\ (s \ {x}) \cup {x} = s
            BY <3>2
        <3>4. g[s] = g[s \ {x}] + w[x]
            BY <3>3 DEF Additive
        <3>5. g[s \ {x}] \in Nat /\ w[x] \in Nat
            BY <3>3 DEF Additive
        <3>6. g[s] = w[x] + g[s \ {x}]
            BY <3>4, <3>5
        <3>7. QED
            BY <2>2, <3>1, <3>6
    <2>3. QED
        BY <2>1, <2>2
<1>2. g = [s \in SUBSET S |-> g[s]]
    BY DEF Additive
<1>3. [s \in SUBSET S |-> g[s]] = [s \in SUBSET S |-> value(s)]
    BY <1>1
<1>4. QED
    BY <1>2, <1>3, Zenon DEF Walk

(* And only they do.                                                       *)
LEMMA WalkIsSum ==
    ASSUME NEW w, NEW S, IsFiniteSet(S), \A k \in S : w[k] \in Nat,
           NEW g, Additive(w, S, g), NEW f, Walk(w, S, f)
    PROVE  \A s \in SUBSET S : f[s] = g[s]
<1> DEFINE Differ == {s \in SUBSET S : f[s] # g[s]}
<1> DEFINE Sizes == {Cardinality(s) : s \in Differ}
<1>1. SUFFICES ASSUME Differ # {} PROVE FALSE
    BY Zenon
<1>2. \A T \in SUBSET S : IsFiniteSet(T) /\ Cardinality(T) \in Nat
    BY FS_Subset, FS_CardinalityType, Zenon
<1>3. Sizes \subseteq Nat /\ Sizes # {}
    BY <1>1, <1>2
<1>4. PICK n \in Sizes : \A m \in Sizes : ~(m < n)
    BY <1>3, LeastNat, Zenon
<1>5. PICK s \in Differ : Cardinality(s) = n
    BY <1>4
<1>6. Walk(w, S, g)
    BY SumWalks, Zenon
<1>7. s # {}
    <2>1. f[{}] = 0
        BY DEF Walk
    <2>2. QED
        BY <1>5, <2>1, Zenon DEF Additive
<1>8. PICK x : x = CHOOSE y \in s : TRUE
    OBVIOUS
<1>9. x \in s
    BY <1>7, <1>8
<1>10. f[s] = w[x] + f[s \ {x}] /\ g[s] = w[x] + g[s \ {x}]
    BY <1>5, <1>6, <1>7, <1>8 DEF Walk
<1>11. s \ {x} \in Differ
    BY <1>5, <1>10
<1>12. Cardinality(s \ {x}) = n - 1 /\ n \in Nat /\ Cardinality(s \ {x}) \in Nat
    BY <1>2, <1>5, <1>9, <1>11, FS_RemoveElement
<1>13. Cardinality(s \ {x}) \in Sizes /\ Cardinality(s \ {x}) < n
    BY <1>11, <1>12
<1>14. QED
    BY <1>4, <1>13

(* What weight_sum computes over the finalizers of a policy: nothing for   *)
(* no finalizer, and with one more finalizer its weight more.              *)
LEMMA WeightSum ==
    ASSUME NEW policy, IsFiniteSet(policy.finalizers),
           \A k \in policy.finalizers : policy.weight[k] \in Nat
    PROVE  /\ \A s \in SUBSET policy.finalizers : weight_sum(policy, s) \in Nat
           /\ weight_sum(policy, {}) = 0
           /\ \A s \in SUBSET policy.finalizers : \A k \in policy.finalizers \ s :
                  weight_sum(policy, s \cup {k}) = weight_sum(policy, s) + policy.weight[k]
<1> DEFINE w == policy.weight
<1> DEFINE S == policy.finalizers
<1>1. PICK g : Additive(w, S, g)
    BY SumExists, Zenon
<1>2. ASSUME NEW T \in SUBSET S PROVE weight_sum(policy, T) = g[T]
    <2> DEFINE h == [s \in SUBSET T |-> g[s]]
    <2>1. IsFiniteSet(T) /\ \A k \in T : w[k] \in Nat
        BY FS_Subset
    <2>2. Additive(w, T, h)
        <3>1. \A s \in SUBSET T : \A k \in T \ s : s \in SUBSET S /\ k \in S \ s /\ s \cup {k} \in SUBSET T
            OBVIOUS
        <3>2. \A s \in SUBSET T : s \in SUBSET S
            OBVIOUS
        <3>3. h \in [SUBSET T -> Nat]
            BY <1>1, <3>2 DEF Additive
        <3>4. h[{}] = 0
            BY <1>1 DEF Additive
        <3>5. \A s \in SUBSET T : \A k \in T \ s : h[s \cup {k}] = h[s] + w[k]
            BY <1>1, <3>1, Zenon DEF Additive
        <3>6. QED
            BY <3>3, <3>4, <3>5, Zenon DEF Additive
    <2> HIDE DEF w, h
    <2>3. Walk(w, T, h)
        BY <2>1, <2>2, SumWalks, Zenon
    <2>4. PICK f : f = CHOOSE ff : Walk(w, T, ff)
        BY Zenon
    <2>5. Walk(w, T, f)
        BY <2>3, <2>4, Zenon
    <2>6. \A s \in SUBSET T : f[s] = h[s]
        <3>1. IsFiniteSet(T)
            BY <2>1, Zenon
        <3>2. \A k \in T : w[k] \in Nat
            BY <2>1, Zenon
        <3>3. QED
            BY <2>2, <2>5, <3>1, <3>2, WalkIsSum
    <2>7. f[T] = g[T]
        <3>1. T \in SUBSET T /\ h[T] = g[T]
            BY DEF h
        <3>2. QED
            BY <2>6, <3>1, Zenon
    <2>8. weight_sum(policy, T) = (CHOOSE ff : Walk(w, T, ff))[T]
        BY Zenon DEF w, weight_sum, FoldFunctionOnSet, MapThenFoldSet, Walk
    <2>9. QED
        BY <2>4, <2>7, <2>8, Zenon
<1>3. \A s \in SUBSET S : weight_sum(policy, s) \in Nat
    BY <1>1, <1>2 DEF Additive
<1>4. weight_sum(policy, {}) = 0
    BY <1>1, <1>2 DEF Additive
<1>5. \A s \in SUBSET S : \A k \in S \ s : weight_sum(policy, s \cup {k}) = weight_sum(policy, s) + w[k]
    <2>1. \A s \in SUBSET S : \A k \in S \ s : s \cup {k} \in SUBSET S
        OBVIOUS
    <2>2. QED
        BY <1>1, <1>2, <2>1, Zenon DEF Additive
<1>6. QED
    BY <1>3, <1>4, <1>5, Zenon

-----------------------------------------------------------------------------
(* What the state of an aggregator says about the sums: a quorum is met    *)
(* exactly in the last three states, a strong one in the last.             *)
QuorumState(agg, policy) ==
    /\ agg.state \in {"unrestricted", "restricted", "weak_achieved", "weak_final", "strong"}
    /\ agg.state \in {"unrestricted", "restricted"} => agg.strong_sum + agg.weak_sum < policy.threshold
    /\ agg.state = "weak_achieved" => agg.strong_sum < policy.threshold
    /\ agg.state \in {"weak_achieved", "weak_final"} => agg.strong_sum + agg.weak_sum >= policy.threshold
    /\ agg.state = "strong" => agg.strong_sum >= policy.threshold

(* The weights of a policy add up to an int. *)
FitsInt(policy) == weight_sum(policy, policy.finalizers) < IntModulus \div 2

(* What the state says about the strong votes that may still come. *)
StrongState(agg, policy) ==
    LET total == weight_sum(policy, policy.finalizers)
    IN  /\ FitsInt(policy) /\ agg.state \in {"unrestricted", "weak_achieved"} =>
              total - agg.weak_sum >= policy.threshold
        /\ agg.state = "restricted" => total - agg.weak_sum < policy.threshold
        /\ agg.state = "weak_final" => total - agg.weak_sum <= policy.threshold

(* A first vote changes the bitset and the sum of its side, and the state. *)
StrongAdded(n, agg, policy, key, weight) ==
    /\ n.state = state_after_strong(agg, policy, agg.strong_sum + weight)
    /\ n.strong_sum = agg.strong_sum + weight
    /\ n.weak_sum = agg.weak_sum
    /\ n.strong_votes = agg.strong_votes \cup {key}
    /\ n.weak_votes = agg.weak_votes

WeakAdded(n, agg, policy, key, weight) ==
    /\ n.state = state_after_weak(agg, policy, agg.weak_sum + weight)
    /\ n.weak_sum = agg.weak_sum + weight
    /\ n.strong_sum = agg.strong_sum
    /\ n.weak_votes = agg.weak_votes \cup {key}
    /\ n.strong_votes = agg.strong_votes

(* That is what add_strong_vote does.                                      *)
LEMMA StrongVoteFields ==
    ASSUME NEW agg, AggShape(agg), NEW policy, NEW key, NEW weight, weight = policy.weight[key],
           NEW n, n = add_strong_vote(agg, policy, key)
    PROVE  StrongAdded(n, agg, policy, key, weight)
<1>1. PICK st : st = state_after_strong(agg, policy, agg.strong_sum + weight)
    BY Zenon
<1>2. n = [agg EXCEPT !.strong_votes = @ \cup {key}, !.strong_sum = agg.strong_sum + weight, !.state = st]
    BY <1>1, Zenon DEF add_strong_vote
<1>3. n = [state           |-> st,
           strong_sum      |-> agg.strong_sum + weight,
           weak_sum        |-> agg.weak_sum,
           strong_votes    |-> agg.strong_votes \cup {key},
           weak_votes      |-> agg.weak_votes,
           received_qc_sig |-> agg.received_qc_sig]
    BY <1>2, Zenon DEF AggShape
<1>4. QED
    BY <1>1, <1>3 DEF StrongAdded

(* And add_weak_vote.                                                      *)
LEMMA WeakVoteFields ==
    ASSUME NEW agg, AggShape(agg), NEW policy, NEW key, NEW weight, weight = policy.weight[key],
           NEW n, n = add_weak_vote(agg, policy, key)
    PROVE  WeakAdded(n, agg, policy, key, weight)
<1>1. PICK st : st = state_after_weak(agg, policy, agg.weak_sum + weight)
    BY Zenon
<1>2. n = [agg EXCEPT !.weak_votes = @ \cup {key}, !.weak_sum = agg.weak_sum + weight, !.state = st]
    BY <1>1, Zenon DEF add_weak_vote
<1>3. n = [state           |-> st,
           strong_sum      |-> agg.strong_sum,
           weak_sum        |-> agg.weak_sum + weight,
           strong_votes    |-> agg.strong_votes,
           weak_votes      |-> agg.weak_votes \cup {key},
           received_qc_sig |-> agg.received_qc_sig]
    BY <1>2, Zenon DEF AggShape
<1>4. QED
    BY <1>1, <1>3 DEF WeakAdded

(* The sums are those of the bitsets, and natural numbers.                 *)
LEMMA SumsAreNat ==
    ASSUME NEW agg, NEW policy, WellFormed(policy), CountedOnce(agg, policy)
    PROVE  /\ agg.strong_sum \in Nat /\ agg.weak_sum \in Nat
           /\ policy.threshold \in Nat
           /\ \A k \in policy.finalizers : policy.weight[k] \in Nat
           /\ weight_sum(policy, policy.finalizers) \in Nat
<1>1. IsFiniteSet(policy.finalizers) /\ (\A k \in policy.finalizers : policy.weight[k] \in Nat) /\ policy.threshold \in Nat
    BY DEF WellFormed
<1>2. \A s \in SUBSET policy.finalizers : weight_sum(policy, s) \in Nat
    BY <1>1, WeightSum, Zenon
<1>3. agg.strong_votes \in SUBSET policy.finalizers /\ agg.weak_votes \in SUBSET policy.finalizers
    BY DEF CountedOnce
<1>4. policy.finalizers \in SUBSET policy.finalizers
    OBVIOUS
<1>5. QED
    BY <1>1, <1>2, <1>3, <1>4, Zenon DEF CountedOnce

(* A first vote is counted once, on its side, with its weight.             *)
LEMMA AddVoteCounts ==
    ASSUME NEW agg, AggShape(agg), NEW policy, WellFormed(policy), CountedOnce(agg, policy),
           NEW v \in AllVotes, v.key \in policy.finalizers
    PROVE  CountedOnce(add_vote(agg, policy, v.strong, v.key), policy)
<1>0. PICK n : n = add_vote(agg, policy, v.strong, v.key)
    BY Zenon
<1>1. CASE agg_has_voted(agg, v.key)
    <2>1. n = agg
        BY <1>0, <1>1, Zenon DEF add_vote
    <2>2. QED
        BY <1>0, <2>1, Zenon
<1>2. CASE ~agg_has_voted(agg, v.key)
    <2>1. v.key \notin agg.strong_votes /\ v.key \notin agg.weak_votes
        BY <1>2 DEF agg_has_voted
    <2>2. \A s \in SUBSET policy.finalizers : \A k \in policy.finalizers \ s :
              weight_sum(policy, s \cup {k}) = weight_sum(policy, s) + policy.weight[k]
        <3>1. IsFiniteSet(policy.finalizers) /\ \A k \in policy.finalizers : policy.weight[k] \in Nat
            BY DEF WellFormed
        <3>2. QED
            BY <3>1, WeightSum, Zenon
    <2>3. PICK weight : weight = policy.weight[v.key]
        BY Zenon
    <2>4. ASSUME v.strong PROVE CountedOnce(n, policy)
        <3>1. /\ n.strong_votes = agg.strong_votes \cup {v.key}
              /\ n.weak_votes = agg.weak_votes
              /\ n.strong_sum = agg.strong_sum + weight
              /\ n.weak_sum = agg.weak_sum
            <4>1. n = add_strong_vote(agg, policy, v.key)
                BY <1>0, <1>2, <2>4, Zenon DEF add_vote
            <4>2. StrongAdded(n, agg, policy, v.key, weight)
                BY <2>3, <4>1, StrongVoteFields, Zenon
            <4>3. QED
                BY <4>2, Zenon DEF StrongAdded
        <3>2. weight_sum(policy, agg.strong_votes \cup {v.key}) = weight_sum(policy, agg.strong_votes) + weight
            BY <2>1, <2>2, <2>3 DEF CountedOnce
        <3>3. CountedOnce(n, policy)
            BY <2>1, <3>1, <3>2 DEF CountedOnce
        <3>4. QED
            BY <3>3, Zenon
    <2>5. ASSUME ~v.strong PROVE CountedOnce(n, policy)
        <3>1. /\ n.weak_votes = agg.weak_votes \cup {v.key}
              /\ n.strong_votes = agg.strong_votes
              /\ n.weak_sum = agg.weak_sum + weight
              /\ n.strong_sum = agg.strong_sum
            <4>1. n = add_weak_vote(agg, policy, v.key)
                BY <1>0, <1>2, <2>5, Zenon DEF add_vote
            <4>2. WeakAdded(n, agg, policy, v.key, weight)
                BY <2>3, <4>1, WeakVoteFields, Zenon
            <4>3. QED
                BY <4>2, Zenon DEF WeakAdded
        <3>2. weight_sum(policy, agg.weak_votes \cup {v.key}) = weight_sum(policy, agg.weak_votes) + weight
            BY <2>1, <2>2, <2>3 DEF CountedOnce
        <3>3. CountedOnce(n, policy)
            BY <2>1, <3>1, <3>2 DEF CountedOnce
        <3>4. QED
            BY <3>3, Zenon
    <2>6. CountedOnce(n, policy)
        BY <2>4, <2>5, Zenon
    <2>7. QED
        BY <1>0, <2>6, Zenon
<1>3. QED
    BY <1>1, <1>2

(* The state moves with the sums, whatever int the limit on the weak sum   *)
(* is computed to.                                                         *)
LEMMA AddVoteQuorum ==
    ASSUME NEW agg, AggShape(agg), NEW policy, WellFormed(policy),
           CountedOnce(agg, policy), QuorumState(agg, policy),
           NEW v \in AllVotes, v.key \in policy.finalizers
    PROVE  QuorumState(add_vote(agg, policy, v.strong, v.key), policy)
<1>0. PICK n : n = add_vote(agg, policy, v.strong, v.key)
    BY Zenon
<1>1. CASE agg_has_voted(agg, v.key)
    <2>1. n = agg
        BY <1>0, <1>1, Zenon DEF add_vote
    <2>2. QED
        BY <1>0, <2>1, Zenon
<1>2. CASE ~agg_has_voted(agg, v.key)
    <2>1. PICK weight : weight = policy.weight[v.key]
        BY Zenon
    <2>2. agg.strong_sum \in Nat /\ agg.weak_sum \in Nat /\ policy.threshold \in Nat /\ weight \in Nat
        BY <2>1, SumsAreNat
    <2>3. CASE v.strong
        <3>1. /\ n.state = state_after_strong(agg, policy, agg.strong_sum + weight)
              /\ n.strong_sum = agg.strong_sum + weight
              /\ n.weak_sum = agg.weak_sum
            <4>1. n = add_strong_vote(agg, policy, v.key)
                BY <1>0, <1>2, <2>3, Zenon DEF add_vote
            <4>2. StrongAdded(n, agg, policy, v.key, weight)
                BY <2>1, <4>1, StrongVoteFields, Zenon
            <4>3. QED
                BY <4>2, Zenon DEF StrongAdded
        <3>2. QuorumState(n, policy)
            BY <2>2, <3>1 DEF QuorumState, state_after_strong
        <3>3. QED
            BY <1>0, <3>2, Zenon
    <2>4. CASE ~v.strong
        <3>1. /\ n.state = state_after_weak(agg, policy, agg.weak_sum + weight)
              /\ n.weak_sum = agg.weak_sum + weight
              /\ n.strong_sum = agg.strong_sum
            <4>1. n = add_weak_vote(agg, policy, v.key)
                BY <1>0, <1>2, <2>4, Zenon DEF add_vote
            <4>2. WeakAdded(n, agg, policy, v.key, weight)
                BY <2>1, <4>1, WeakVoteFields, Zenon
            <4>3. QED
                BY <4>2, Zenon DEF WeakAdded
        <3>2. PICK max : max = max_weak_sum_before_weak_final(policy)
            BY Zenon
        <3>3. QuorumState(n, policy)
            BY <2>2, <3>1, <3>2 DEF QuorumState, state_after_weak
        <3>4. QED
            BY <1>0, <3>3, Zenon
    <2>5. QED
        BY <2>3, <2>4
<1>3. QED
    BY <1>1, <1>2

(* The limit on the weak sum is never below the weight that can be lost    *)
(* before a strong quorum is impossible, and is that weight when the       *)
(* weights add up to an int.                                               *)
LEMMA MaxWeakSum ==
    ASSUME NEW policy, WellFormed(policy), weight_sum(policy, policy.finalizers) \in Nat
    PROVE  LET total == weight_sum(policy, policy.finalizers)
               max   == max_weak_sum_before_weak_final(policy)
           IN  /\ max \in Int
               /\ max >= total - policy.threshold
               /\ FitsInt(policy) => max = total - policy.threshold
<1>1. PICK total \in Nat : total = weight_sum(policy, policy.finalizers)
    BY Zenon
<1>2. PICK threshold \in Nat : threshold = policy.threshold
    BY Zenon DEF WellFormed
<1>3. total < Uint64Modulus /\ total \div 2 < threshold /\ threshold <= total
    BY <1>1, <1>2, Zenon DEF WellFormed
<1>4. max_weak_sum_before_weak_final(policy) = (AsInt(total) - threshold) % Uint64Modulus
    BY <1>1, <1>2, Zenon DEF max_weak_sum_before_weak_final, AsInt
<1>5. /\ (AsInt(total) - threshold) % Uint64Modulus \in Int
      /\ (AsInt(total) - threshold) % Uint64Modulus >= total - threshold
      /\ total < IntModulus \div 2 => (AsInt(total) - threshold) % Uint64Modulus = total - threshold
    BY <1>3, SumInAnInt, Zenon
<1>6. QED
    BY <1>1, <1>2, <1>4, <1>5, Zenon DEF FitsInt

(* A strong quorum is ruled out by the state only when it is by the votes, *)
(* but for weak_final, and whenever it is when the weights add up to an    *)
(* int.                                                                    *)
LEMMA AddVoteStrong ==
    ASSUME NEW agg, AggShape(agg), NEW policy, WellFormed(policy),
           CountedOnce(agg, policy), QuorumState(agg, policy), StrongState(agg, policy),
           NEW v \in AllVotes, v.key \in policy.finalizers
    PROVE  StrongState(add_vote(agg, policy, v.strong, v.key), policy)
<1>0. PICK n : n = add_vote(agg, policy, v.strong, v.key)
    BY Zenon
<1>1. CASE agg_has_voted(agg, v.key)
    <2>1. n = agg
        BY <1>0, <1>1, Zenon DEF add_vote
    <2>2. QED
        BY <1>0, <2>1, Zenon
<1>2. CASE ~agg_has_voted(agg, v.key)
    <2>1. PICK weight : weight = policy.weight[v.key]
        BY Zenon
    <2>2. PICK total : total = weight_sum(policy, policy.finalizers)
        BY Zenon
    <2>3. /\ agg.strong_sum \in Nat /\ agg.weak_sum \in Nat /\ policy.threshold \in Nat
          /\ weight \in Nat /\ total \in Nat
        BY <2>1, <2>2, SumsAreNat
    <2>4. PICK max \in Int : /\ max = max_weak_sum_before_weak_final(policy)
                             /\ max >= total - policy.threshold
                             /\ FitsInt(policy) => max = total - policy.threshold
        BY <2>2, <2>3, MaxWeakSum, Zenon
    <2>5. /\ FitsInt(policy) /\ agg.state \in {"unrestricted", "weak_achieved"} =>
                total - agg.weak_sum >= policy.threshold
          /\ agg.state = "restricted" => total - agg.weak_sum < policy.threshold
          /\ agg.state = "weak_final" => total - agg.weak_sum <= policy.threshold
        BY <2>2, Zenon DEF StrongState
    <2>6. agg.state \in {"unrestricted", "restricted", "weak_achieved", "weak_final", "strong"}
        BY Zenon DEF QuorumState
    <2>7. CASE v.strong
        <3>1. /\ n.state = state_after_strong(agg, policy, agg.strong_sum + weight)
              /\ n.weak_sum = agg.weak_sum
            <4>1. n = add_strong_vote(agg, policy, v.key)
                BY <1>0, <1>2, <2>7, Zenon DEF add_vote
            <4>2. StrongAdded(n, agg, policy, v.key, weight)
                BY <2>1, <4>1, StrongVoteFields, Zenon
            <4>3. QED
                BY <4>2, Zenon DEF StrongAdded
        <3>2. /\ FitsInt(policy) /\ n.state \in {"unrestricted", "weak_achieved"} =>
                    total - n.weak_sum >= policy.threshold
              /\ n.state = "restricted" => total - n.weak_sum < policy.threshold
              /\ n.state = "weak_final" => total - n.weak_sum <= policy.threshold
            BY <2>3, <2>5, <2>6, <3>1 DEF state_after_strong
        <3>3. QED
            BY <1>0, <2>2, <3>2, Zenon DEF StrongState
    <2>8. CASE ~v.strong
        <3>1. /\ n.state = state_after_weak(agg, policy, agg.weak_sum + weight)
              /\ n.weak_sum = agg.weak_sum + weight
            <4>1. n = add_weak_vote(agg, policy, v.key)
                BY <1>0, <1>2, <2>8, Zenon DEF add_vote
            <4>2. WeakAdded(n, agg, policy, v.key, weight)
                BY <2>1, <4>1, WeakVoteFields, Zenon
            <4>3. QED
                BY <4>2, Zenon DEF WeakAdded
        <3>2. /\ FitsInt(policy) /\ n.state \in {"unrestricted", "weak_achieved"} =>
                    total - n.weak_sum >= policy.threshold
              /\ n.state = "restricted" => total - n.weak_sum < policy.threshold
              /\ n.state = "weak_final" => total - n.weak_sum <= policy.threshold
            BY <2>3, <2>4, <2>5, <2>6, <3>1 DEF state_after_weak
        <3>3. QED
            BY <1>0, <2>2, <3>2, Zenon DEF StrongState
    <2>9. QED
        BY <2>7, <2>8
<1>3. QED
    BY <1>1, <1>2

-----------------------------------------------------------------------------
(* Where the votes and the signatures of an aggregator come from *)

(* A signature that passes a receiver's checks and is made of cast votes.  *)
Verifies(sig, policy) ==
    /\ verify_vote_format(sig, policy)
    /\ verify_weights(sig, policy)
    /\ sig.strong_votes \subseteq cast_by(TRUE)
    /\ sig.weak_votes \subseteq cast_by(FALSE)

(* A signature that verifies is that of a vote that was cast, and only     *)
(* such a vote gets as far as the lock.                                    *)
VotesAreCast == \A t \in Threads :
    /\ threads[t].pc # "idle" /\ threads[t].msg.sig_ok => VoteOf(t) \in cast
    /\ threads[t].pc \in {"add_active", "add_pending"} => threads[t].msg.sig_ok

(* The QC that set_received_qc stores was verified.                        *)
ReceivedVerifies ==
    receiver.pc # "idle" =>
        /\ Verifies(receiver.qc.active_policy_sig, ActivePolicy)
        /\ HasPending => Verifies(receiver.qc.pending_policy_sig, PendingPolicy)

Origins == VotesAreCast /\ ReceivedVerifies

(* The signatures over a policy are of cast votes.                         *)
LEMMA SigsOverCast ==
    ASSUME NEW policy, NEW sig \in SigsOver(policy)
    PROVE  sig.strong_votes \subseteq cast_by(TRUE) /\ sig.weak_votes \subseteq cast_by(FALSE)
<1> DEFINE strong == cast_by(TRUE) \cap policy.finalizers
           weak   == cast_by(FALSE) \cap policy.finalizers
<1>1. \/ \E s \in SUBSET strong : sig = strong_sig(s)
      \/ \E s \in SUBSET strong, w \in SUBSET weak : sig = weak_sig(s, w)
    BY Zenon DEF SigsOver
<1>2. strong \subseteq cast_by(TRUE) /\ weak \subseteq cast_by(FALSE)
    BY Zenon
<1> HIDE DEF strong, weak
<1>3. ASSUME NEW s \in SUBSET strong, sig = strong_sig(s)
      PROVE  sig.strong_votes \subseteq strong /\ sig.weak_votes \subseteq weak
    BY <1>3 DEF strong_sig
<1>4. ASSUME NEW s \in SUBSET strong, NEW w \in SUBSET weak, sig = weak_sig(s, w)
      PROVE  sig.strong_votes \subseteq strong /\ sig.weak_votes \subseteq weak
    BY <1>4 DEF weak_sig
<1>5. sig.strong_votes \subseteq strong /\ sig.weak_votes \subseteq weak
    BY <1>1, <1>3, <1>4, Zenon
<1>6. QED
    BY <1>2, <1>5, Zenon

(* What a QC that a block can bring passes.                                *)
LEMMA ReceivableVerifies ==
    ASSUME NEW qc \in ReceivableQCs
    PROVE  /\ Verifies(qc.active_policy_sig, ActivePolicy)
           /\ HasPending => Verifies(qc.pending_policy_sig, PendingPolicy)
<1>1. /\ qc.active_policy_sig \in SigsOver(ActivePolicy)
      /\ HasPending => qc.pending_policy_sig \in SigsOver(PendingPolicy)
    BY DEF ReceivableQCs
<1>2. verify_basic(qc, ActivePolicy, PendingPolicy)
    BY Zenon DEF ReceivableQCs
<1>3. Verifies(qc.active_policy_sig, ActivePolicy)
    BY <1>1, <1>2, SigsOverCast, Zenon DEF verify_basic, Verifies
<1>4. ASSUME HasPending PROVE Verifies(qc.pending_policy_sig, PendingPolicy)
    <2>1. qc.pending_policy_sig # NoSig
        BY <1>2, <1>4, Zenon DEF verify_basic, HasPending
    <2>2. QED
        BY <1>1, <1>2, <1>4, <2>1, SigsOverCast, Zenon DEF verify_basic, Verifies
<1>5. QED
    BY <1>3, <1>4, Zenon

(* The votes that were cast stay.                                          *)
LEMMA CastStays == [Next]_vars => cast' = cast
BY Zenon DEF Next, StartVote, CheckActive, AddActive, CheckPending, AddPending, StartReceive, ReceiveActive,
   ReceivePending, ReadActive, ReadPending, vars

(* A thread that begins takes a message whose signature verifies only if   *)
(* its vote was cast; it keeps the message and passes the check of it.     *)
LEMMA VotesAreCastNext ==
    ASSUME IInv, Origins, [Next]_vars
    PROVE  VotesAreCast'
<1>1. cast' = cast /\ Shapes /\ cast \subseteq Votes /\ VotesAreCast
    BY CastStays, Zenon DEF IInv, Shapes, Origins
<1>2. ASSUME NEW t \in Threads, NEW msg \in VoteMessages, StartVote(t, msg) PROVE VotesAreCast'
    <2>1. /\ threads' = [threads EXCEPT ![t] = [pc |-> "check_active", msg |-> msg, result |-> "unknown_public_key"]]
          /\ threads \in [Threads -> ThreadStates]
        BY <1>1, <1>2, Zenon DEF StartVote, Shapes
    <2>2. /\ threads'[t].pc = "check_active" /\ threads'[t].msg = msg
          /\ \A u \in Threads \ {t} : threads'[u] = threads[u]
        BY <2>1
    <2>3. msg.sig_ok => [key |-> msg.key, strong |-> msg.strong] \in cast
        <3>1. CASE msg \in [key : Keys, strong : {TRUE}, sig_ok : {FALSE}]
            BY <3>1, Zenon
        <3>2. ASSUME NEW w \in cast, msg = [key |-> w.key, strong |-> w.strong, sig_ok |-> TRUE]
              PROVE  [key |-> msg.key, strong |-> msg.strong] \in cast
            <4>1. w = [key |-> w.key, strong |-> w.strong]
                BY <1>1 DEF Votes
            <4>2. msg.key = w.key /\ msg.strong = w.strong
                BY <3>2
            <4>3. QED
                BY <4>1, <4>2, Zenon
        <3>3. QED
            BY <3>1, <3>2, Zenon DEF VoteMessages
    <2>4. ASSUME NEW u \in Threads
          PROVE  /\ threads'[u].pc # "idle" /\ threads'[u].msg.sig_ok => VoteOf(u)' \in cast
                 /\ threads'[u].pc \in {"add_active", "add_pending"} => threads'[u].msg.sig_ok
        <3>1. CASE u = t
            BY <2>2, <2>3, <3>1 DEF VoteOf
        <3>2. CASE u # t
            BY <1>1, <2>2, <3>2, Zenon DEF VoteOf, VotesAreCast
        <3>3. QED
            BY <3>1, <3>2
    <2>5. QED
        BY <1>1, <2>4, Zenon DEF VotesAreCast
<1>3. ASSUME NEW t \in Threads, threads[t].pc # "idle", NEW pc \in {"add_active", "check_pending", "add_pending"},
             NEW result \in Results, Goto(t, pc, result),
             pc \in {"add_active", "add_pending"} => threads[t].msg.sig_ok
      PROVE  VotesAreCast'
    <2>1. /\ threads'[t].pc = pc
          /\ threads'[t].msg = threads[t].msg
          /\ \A u \in Threads \ {t} : threads'[u] = threads[u]
        BY <1>1, <1>3, AfterGoto, Zenon
    <2>2. ASSUME NEW u \in Threads
          PROVE  /\ threads'[u].pc # "idle" /\ threads'[u].msg.sig_ok => VoteOf(u)' \in cast
                 /\ threads'[u].pc \in {"add_active", "add_pending"} => threads'[u].msg.sig_ok
        <3>1. CASE u = t
            BY <1>1, <1>3, <2>1, <3>1, Zenon DEF VoteOf, VotesAreCast
        <3>2. CASE u # t
            BY <1>1, <2>1, <3>2, Zenon DEF VoteOf, VotesAreCast
        <3>3. QED
            BY <3>1, <3>2
    <2>3. QED
        BY <1>1, <2>2, Zenon DEF VotesAreCast
<1>4. ASSUME NEW t \in Threads, NEW result, Return(t, result) PROVE VotesAreCast'
    <2>1. threads'[t].pc = "idle" /\ \A u \in Threads \ {t} : threads'[u] = threads[u]
        BY <1>1, <1>4, AfterReturn, Zenon
    <2>2. ASSUME NEW u \in Threads
          PROVE  /\ threads'[u].pc # "idle" /\ threads'[u].msg.sig_ok => VoteOf(u)' \in cast
                 /\ threads'[u].pc \in {"add_active", "add_pending"} => threads'[u].msg.sig_ok
        <3>1. CASE u = t
            BY <2>1, <3>1
        <3>2. CASE u # t
            BY <1>1, <2>1, <3>2, Zenon DEF VoteOf, VotesAreCast
        <3>3. QED
            BY <3>1, <3>2
    <2>3. QED
        BY <1>1, <2>2, Zenon DEF VotesAreCast
<1>5. ASSUME NEW t \in Threads, threads[t].pc # "idle" PROVE threads[t].result \in Results
    BY <1>1, <1>5, AtWork
<1>6. "check_pending" \in {"add_active", "check_pending", "add_pending"} /\ "success" \in Results
    BY DEF Results
<1>7. ASSUME NEW t \in Threads, CheckActive(t) PROVE VotesAreCast'
    <2>1. threads[t].pc # "idle"
        BY <1>7 DEF CheckActive
    <2>2. \/ Goto(t, "check_pending", threads[t].result)
          \/ \E result : Return(t, result)
          \/ threads[t].msg.sig_ok /\ Goto(t, "add_active", threads[t].result)
        BY <1>7, Zenon DEF CheckActive
    <2>3. QED
        BY <1>3, <1>4, <1>5, <2>1, <2>2, SMTT(30)
<1>8. ASSUME NEW t \in Threads, CheckPending(t) PROVE VotesAreCast'
    <2>1. threads[t].pc # "idle"
        BY <1>8 DEF CheckPending
    <2>2. \/ \E result : Return(t, result)
          \/ threads[t].msg.sig_ok /\ Goto(t, "add_pending", threads[t].result)
        BY <1>8, Zenon DEF CheckPending
    <2>3. QED
        BY <1>3, <1>4, <1>5, <2>1, <2>2
<1>9. ASSUME NEW t \in Threads, AddActive(t) PROVE VotesAreCast'
    <2>1. threads[t].pc # "idle"
        BY <1>9 DEF AddActive
    <2>2. Goto(t, "check_pending", "success") \/ \E result : Return(t, result)
        BY <1>9, Zenon DEF AddActive
    <2>3. QED
        BY <1>3, <1>4, <1>6, <2>1, <2>2
<1>10. ASSUME NEW t \in Threads, AddPending(t) PROVE VotesAreCast'
    BY <1>4, <1>10, Zenon DEF AddPending
<1>11. ASSUME threads' = threads PROVE VotesAreCast'
    BY <1>1, <1>11, Zenon DEF VotesAreCast, VoteOf
<1>12. QED
    BY <1>2, <1>7, <1>8, <1>9, <1>10, <1>11, Zenon
       DEF Next, StartReceive, ReceiveActive, ReceivePending, ReadActive, ReadPending, vars

(* A QC is verified when it comes, and set_received_qc keeps it until both *)
(* its signatures are stored.                                              *)
LEMMA ReceivedVerifiesNext ==
    ASSUME IInv, Origins, [Next]_vars
    PROVE  ReceivedVerifies'
<1>1. cast' = cast
    BY CastStays
<1>2. \A sig, policy : Verifies(sig, policy)' <=> Verifies(sig, policy)
    BY <1>1, Zenon DEF Verifies, cast_by
<1>3. ASSUME receiver' = receiver PROVE ReceivedVerifies'
    BY <1>1, <1>3, Zenon DEF ReceivedVerifies, Origins, Verifies, cast_by
<1>4. CASE StartReceive
    <2>1. PICK qc \in ReceivableQCs : receiver' = [pc |-> "set_active", qc |-> qc, count |-> receiver.count + 1]
        BY <1>4, Zenon DEF StartReceive
    <2>2. receiver'.qc = qc
        BY <2>1
    <2>3. /\ Verifies(qc.active_policy_sig, ActivePolicy)
          /\ HasPending => Verifies(qc.pending_policy_sig, PendingPolicy)
        BY ReceivableVerifies, Zenon
    <2>4. QED
        BY <1>1, <2>2, <2>3, Zenon DEF ReceivedVerifies, Verifies, cast_by
<1>5. CASE ReceiveActive
    <2>1. receiver.pc # "idle"
        BY <1>5 DEF ReceiveActive
    <2>2. receiver'.pc = "idle" \/ receiver'.qc = receiver.qc
        BY <1>5 DEF ReceiveActive, IInv, Shapes, ReceiverShape
    <2>3. QED
        BY <1>1, <2>1, <2>2, Zenon DEF ReceivedVerifies, Origins, Verifies, cast_by
<1>6. CASE ReceivePending
    <2>1. receiver'.pc = "idle"
        BY <1>6 DEF ReceivePending
    <2>2. QED
        BY <2>1, Zenon DEF ReceivedVerifies
<1>7. QED
    BY <1>3, <1>4, <1>5, <1>6, Zenon
       DEF Next, StartVote, CheckActive, AddActive, CheckPending, AddPending, ReadActive, ReadPending, vars

(* An aggregator changes only by a vote that was cast, of a finalizer of   *)
(* its policy, or by a QC that verifies.                                   *)
AggStep(n, agg, policy) ==
    \/ n = agg
    \/ \E v \in cast \cap AllVotes : v.key \in policy.finalizers /\ n = add_vote(agg, policy, v.strong, v.key)
    \/ \E sig : sig # NoSig /\ Verifies(sig, policy) /\ n = set_received_qc_sig(agg, sig)

(* So do the steps of the threads and of the receiver.                     *)
LEMMA AggSteps ==
    ASSUME IInv, Origins, [Next]_vars
    PROVE  AggStep(active', active, ActivePolicy) /\ (HasPending => AggStep(pending', pending, PendingPolicy))
<1>1. Shapes /\ VotesAreCast /\ ReceivedVerifies
    BY Zenon DEF IInv, Origins
<1>2. ASSUME NEW t \in Threads, AddActive(t)
      PROVE  AggStep(active', active, ActivePolicy) /\ pending' = pending
    <2>1. threads[t].pc = "add_active" /\ pending' = pending
        BY <1>2, Zenon DEF AddActive
    <2>2. threads[t].pc # "idle"
        BY <2>1
    <2>3. VoteOf(t) \in AllVotes /\ VoteOf(t).key = threads[t].msg.key /\ VoteOf(t).strong = threads[t].msg.strong
        BY <1>1, <2>2, AtWork, Zenon
    <2>4. VoteOf(t) \in cast
        BY <1>1, <2>1, <2>2, Zenon DEF VotesAreCast
    <2>5. VoteOf(t).key \in ActivePolicy.finalizers
        BY <2>1, <2>3, Zenon DEF IInv, Early, in_active
    <2>6. active' = add_vote(active, ActivePolicy, VoteOf(t).strong, VoteOf(t).key)
        BY <1>2, <2>3, Zenon DEF AddActive
    <2>7. QED
        BY <2>1, <2>3, <2>4, <2>5, <2>6, Zenon DEF AggStep
<1>3. ASSUME NEW t \in Threads, AddPending(t)
      PROVE  AggStep(pending', pending, PendingPolicy) /\ active' = active
    <2>1. threads[t].pc = "add_pending" /\ active' = active
        BY <1>3, Zenon DEF AddPending
    <2>2. threads[t].pc # "idle"
        BY <2>1
    <2>3. VoteOf(t) \in AllVotes /\ VoteOf(t).key = threads[t].msg.key /\ VoteOf(t).strong = threads[t].msg.strong
        BY <1>1, <2>2, AtWork, Zenon
    <2>4. VoteOf(t) \in cast
        BY <1>1, <2>1, <2>2, Zenon DEF VotesAreCast
    <2>5. VoteOf(t).key \in PendingPolicy.finalizers
        BY <2>1, <2>3, Zenon DEF IInv, Knows, in_pending
    <2>6. pending' = add_vote(pending, PendingPolicy, VoteOf(t).strong, VoteOf(t).key)
        BY <1>3, <2>3, Zenon DEF AddPending
    <2>7. QED
        BY <2>1, <2>3, <2>4, <2>5, <2>6, Zenon DEF AggStep
<1>4. CASE ReceiveActive
    <2>1. receiver.pc = "set_active" /\ pending' = pending
          /\ active' = set_received_qc_sig(active, receiver.qc.active_policy_sig)
        BY <1>4, Zenon DEF ReceiveActive
    <2>2. receiver.qc.active_policy_sig # NoSig /\ receiver.pc # "idle"
        BY <1>1, <2>1 DEF Shapes, ReceiverShape
    <2>3. QED
        BY <1>1, <2>1, <2>2, Zenon DEF ReceivedVerifies, AggStep
<1>5. CASE ReceivePending
    <2>1. receiver.pc = "set_pending" /\ active' = active
          /\ pending' = set_received_qc_sig(pending, receiver.qc.pending_policy_sig)
        BY <1>5, Zenon DEF ReceivePending
    <2>2. receiver.qc.pending_policy_sig # NoSig /\ receiver.pc # "idle" /\ HasPending
        BY <1>1, <2>1 DEF Shapes, ReceiverShape
    <2>3. QED
        BY <1>1, <2>1, <2>2, Zenon DEF ReceivedVerifies, AggStep
<1>6. ASSUME active' = active, pending' = pending
      PROVE  AggStep(active', active, ActivePolicy) /\ AggStep(pending', pending, PendingPolicy)
    BY <1>6, Zenon DEF AggStep
<1>7. \A agg, policy : AggStep(agg, agg, policy)
    BY Zenon DEF AggStep
<1>8. QED
    BY <1>2, <1>3, <1>4, <1>5, <1>6, <1>7, Zenon
       DEF Next, StartVote, CheckActive, CheckPending, StartReceive, ReadActive, ReadPending, vars

-----------------------------------------------------------------------------
(* What holds of an aggregator *)

Received(agg, policy) == agg.received_qc_sig # NoSig => Verifies(agg.received_qc_sig, policy)

VotesCast(agg) == agg.strong_votes \subseteq cast_by(TRUE) /\ agg.weak_votes \subseteq cast_by(FALSE)

AggInv(agg, policy) ==
    /\ CountedOnce(agg, policy)
    /\ QuorumState(agg, policy)
    /\ VotesCast(agg)
    /\ Received(agg, policy)

(* A vote keeps it,                                                        *)
LEMMA AggInvVote ==
    ASSUME NEW agg, AggShape(agg), NEW policy, WellFormed(policy), AggInv(agg, policy),
           NEW v \in cast \cap AllVotes, v.key \in policy.finalizers
    PROVE  AggInv(add_vote(agg, policy, v.strong, v.key), policy)
<1>1. PICK n : n = add_vote(agg, policy, v.strong, v.key)
    BY Zenon
<1>2. v \in AllVotes /\ v \in cast
    BY Zenon
<1>3. CountedOnce(n, policy) /\ QuorumState(n, policy)
    BY <1>1, <1>2, AddVoteCounts, AddVoteQuorum, Zenon DEF AggInv
<1>4. n.received_qc_sig = agg.received_qc_sig
    BY <1>1, <1>2, AddVote, Zenon
<1>5. VotesCast(n)
    <2>1. CASE agg_has_voted(agg, v.key)
        <3>1. n = agg
            BY <1>1, <2>1, Zenon DEF add_vote
        <3>2. QED
            BY <3>1, Zenon DEF AggInv
    <2>2. PICK weight : weight = policy.weight[v.key]
        BY Zenon
    <2>3. CASE ~agg_has_voted(agg, v.key) /\ v.strong
        <3>1. n = add_strong_vote(agg, policy, v.key)
            BY <1>1, <2>3, Zenon DEF add_vote
        <3>2. n.strong_votes = agg.strong_votes \cup {v.key} /\ n.weak_votes = agg.weak_votes
            <4>1. StrongAdded(n, agg, policy, v.key, weight)
                BY <2>2, <3>1, StrongVoteFields, Zenon
            <4>2. QED
                BY <4>1, Zenon DEF StrongAdded
        <3>3. v.strong = TRUE
            BY <1>2, <2>3 DEF AllVotes
        <3>4. v.key \in cast_by(TRUE)
            BY <1>2, <3>3, Zenon DEF cast_by
        <3>5. QED
            BY <3>2, <3>4, Zenon DEF AggInv, VotesCast
    <2>4. CASE ~agg_has_voted(agg, v.key) /\ ~v.strong
        <3>1. n = add_weak_vote(agg, policy, v.key)
            BY <1>1, <2>4, Zenon DEF add_vote
        <3>2. n.weak_votes = agg.weak_votes \cup {v.key} /\ n.strong_votes = agg.strong_votes
            <4>1. WeakAdded(n, agg, policy, v.key, weight)
                BY <2>2, <3>1, WeakVoteFields, Zenon
            <4>2. QED
                BY <4>1, Zenon DEF WeakAdded
        <3>3. v.strong = FALSE
            BY <1>2, <2>4 DEF AllVotes
        <3>4. v.key \in cast_by(FALSE)
            BY <1>2, <3>3, Zenon DEF cast_by
        <3>5. QED
            BY <3>2, <3>4, Zenon DEF AggInv, VotesCast
    <2>5. QED
        BY <2>1, <2>3, <2>4, Zenon
<1>6. AggInv(n, policy)
    BY <1>3, <1>4, <1>5, Zenon DEF AggInv, Received
<1>7. QED
    BY <1>1, <1>6, Zenon

(* and so does a QC.                                                       *)
LEMMA AggInvReceived ==
    ASSUME NEW agg, AggShape(agg), NEW policy, AggInv(agg, policy), NEW sig, Verifies(sig, policy)
    PROVE  AggInv(set_received_qc_sig(agg, sig), policy)
<1>1. PICK n : n = set_received_qc_sig(agg, sig)
    BY Zenon
<1>2. \/ n = agg
      \/ n = [state           |-> agg.state,
              strong_sum      |-> agg.strong_sum,
              weak_sum        |-> agg.weak_sum,
              strong_votes    |-> agg.strong_votes,
              weak_votes      |-> agg.weak_votes,
              received_qc_sig |-> sig]
    BY <1>1, Zenon DEF set_received_qc_sig, AggShape
<1>3. /\ n.state = agg.state /\ n.strong_sum = agg.strong_sum /\ n.weak_sum = agg.weak_sum
      /\ n.strong_votes = agg.strong_votes /\ n.weak_votes = agg.weak_votes
      /\ n.received_qc_sig = agg.received_qc_sig \/ n.received_qc_sig = sig
    BY <1>2
<1>4. CountedOnce(n, policy)
    BY <1>3, Zenon DEF AggInv, CountedOnce
<1>5. QuorumState(n, policy)
    BY <1>3, Zenon DEF AggInv, QuorumState
<1>6. VotesCast(n) /\ Received(n, policy)
    BY <1>3, Zenon DEF AggInv, VotesCast, Received
<1>7. QED
    BY <1>1, <1>4, <1>5, <1>6, Zenon DEF AggInv

(* A new aggregator has no votes and no QC.                                *)
LEMMA AggInvNew ==
    ASSUME NEW policy, WellFormed(policy)
    PROVE  AggInv(new_agg, policy)
<1>1. /\ new_agg.state = "unrestricted" /\ new_agg.strong_sum = 0 /\ new_agg.weak_sum = 0
      /\ new_agg.strong_votes = {} /\ new_agg.weak_votes = {} /\ new_agg.received_qc_sig = NoSig
    BY DEF new_agg
<1>2. weight_sum(policy, {}) = 0
    <2>1. IsFiniteSet(policy.finalizers) /\ \A k \in policy.finalizers : policy.weight[k] \in Nat
        BY DEF WellFormed
    <2>2. QED
        BY <2>1, WeightSum, Zenon
<1>3. policy.threshold \in Nat \ {0}
    BY Zenon DEF WellFormed
<1>4. CountedOnce(new_agg, policy)
    BY <1>1, <1>2 DEF CountedOnce
<1>5. QuorumState(new_agg, policy)
    BY <1>1, <1>3 DEF QuorumState
<1>6. VotesCast(new_agg) /\ Received(new_agg, policy)
    BY <1>1 DEF VotesCast, Received
<1>7. QED
    BY <1>4, <1>5, <1>6, Zenon DEF AggInv

(* What get_best_qc of an aggregator finds verifies.                       *)
LEMMA BestVerifies ==
    ASSUME NEW agg, NEW policy, WellFormed(policy), AggInv(agg, policy), sig_get_best_qc(agg) # NoSig
    PROVE  Verifies(sig_get_best_qc(agg), policy)
<1>1. PICK from_agg : from_agg = extract_qc_sig_from_aggregating(agg)
    BY Zenon
<1>2. CountedOnce(agg, policy) /\ QuorumState(agg, policy) /\ VotesCast(agg) /\ Received(agg, policy)
    BY Zenon DEF AggInv
<1>3. agg.strong_sum \in Nat /\ agg.weak_sum \in Nat /\ policy.threshold \in Nat
    BY <1>2, SumsAreNat, Zenon
<1>4. ASSUME is_quorum_met(agg) PROVE Verifies(from_agg, policy)
    <2>1. CASE agg.state = "strong"
        <3>1. from_agg.strong_votes = agg.strong_votes /\ from_agg.weak_votes = {} /\ from_agg.is_weak = FALSE
            BY <1>1, <2>1, SMTT(30) DEF extract_qc_sig_from_aggregating, strong_sig
        <3>2. weight_sum(policy, from_agg.strong_votes) >= policy.threshold
            BY <1>2, <2>1, <3>1 DEF QuorumState, CountedOnce
        <3>3. verify_weights(from_agg, policy)
            BY <3>1, <3>2, Zenon DEF verify_weights
        <3>4. verify_vote_format(from_agg, policy)
            BY <1>2, <3>1 DEF verify_vote_format, CountedOnce
        <3>5. from_agg.strong_votes \subseteq cast_by(TRUE) /\ from_agg.weak_votes \subseteq cast_by(FALSE)
            BY <1>2, <3>1, Zenon DEF VotesCast
        <3>6. QED
            BY <3>3, <3>4, <3>5, Zenon DEF Verifies
    <2>2. CASE agg.state # "strong"
        <3>1. /\ from_agg.strong_votes = agg.strong_votes /\ from_agg.weak_votes = agg.weak_votes
              /\ from_agg.is_weak = TRUE
            BY <1>1, <2>2 DEF extract_qc_sig_from_aggregating, weak_sig
        <3>2. agg.state \in {"weak_achieved", "weak_final"}
            BY <1>4, <2>2 DEF is_quorum_met
        <3>3. agg.strong_sum + agg.weak_sum >= policy.threshold
            BY <1>2, <3>2, Zenon DEF QuorumState
        <3>4. weight_sum(policy, from_agg.strong_votes) + weight_sum(policy, from_agg.weak_votes) >= policy.threshold
            BY <1>2, <3>1, <3>3, Zenon DEF CountedOnce
        <3>5. verify_weights(from_agg, policy)
            BY <3>1, <3>4, Zenon DEF verify_weights
        <3>6. verify_vote_format(from_agg, policy)
            BY <1>2, <3>1 DEF verify_vote_format, CountedOnce
        <3>7. QED
            BY <1>2, <3>1, <3>5, <3>6, Zenon DEF Verifies, VotesCast
    <2>3. QED
        BY <2>1, <2>2, Zenon
<1>5. \/ sig_get_best_qc(agg) = agg.received_qc_sig
      \/ is_quorum_met(agg) /\ sig_get_best_qc(agg) = from_agg
    BY <1>1, Zenon DEF sig_get_best_qc
<1>6. QED
    BY <1>2, <1>4, <1>5, Zenon DEF Received

-----------------------------------------------------------------------------
(* Both aggregators, and the QC that get_best_qc puts together from them   *)

Aggregators == AggInv(active, ActivePolicy) /\ (HasPending => AggInv(pending, PendingPolicy))

BestSoFar ==
    /\ proposer.pc = "read_pending" => Verifies(proposer.active_best, ActivePolicy)
    /\ proposer.pc = "returned" =>
          /\ Verifies(proposer.qc.active_policy_sig, ActivePolicy)
          /\ HasPending => Verifies(proposer.qc.pending_policy_sig, PendingPolicy)

(* The inductive invariant for what is counted and what is proposed.       *)
CInv == Origins /\ Aggregators /\ BestSoFar

(* It holds of a new block,                                                *)
LEMMA InitCInv == Init => CInv
<1> SUFFICES ASSUME Init PROVE CInv
    OBVIOUS
<1>1. /\ active = new_agg /\ (HasPending => pending = new_agg)
      /\ threads = [t \in Threads |-> [pc |-> "idle"]]
      /\ receiver.pc = "idle" /\ proposer.pc = "idle"
    BY SMTT(30) DEF Init
<1>2. VotesAreCast
    BY <1>1 DEF VotesAreCast
<1>3. Origins
    BY <1>1, <1>2, Zenon DEF Origins, ReceivedVerifies
<1>4. Aggregators
    BY <1>1, AggInvNew, WeightsAssumption, Zenon DEF Aggregators
<1>5. BestSoFar
    BY <1>1 DEF BestSoFar
<1>6. QED
    BY <1>3, <1>4, <1>5, Zenon DEF CInv

(* A step of an aggregator keeps what holds of it.                         *)
LEMMA AggInvStep ==
    ASSUME NEW n, NEW agg, NEW policy, WellFormed(policy), AggShape(agg), AggInv(agg, policy), AggStep(n, agg, policy)
    PROVE  AggInv(n, policy)
BY AggInvVote, AggInvReceived, Zenon DEF AggStep

(* What get_best_qc returns is put together from signatures that verify.   *)
LEMMA BestSoFarNext ==
    ASSUME IInv, CInv, [Next]_vars
    PROVE  BestSoFar'
<1>1. cast' = cast
    BY CastStays
<1>2. /\ \A sig : Verifies(sig, ActivePolicy)' <=> Verifies(sig, ActivePolicy)
      /\ \A sig : Verifies(sig, PendingPolicy)' <=> Verifies(sig, PendingPolicy)
    BY <1>1, Zenon DEF Verifies, cast_by
<1>3. BestSoFar /\ Aggregators
    BY Zenon DEF CInv
<1>4. ASSUME proposer' = proposer PROVE BestSoFar'
    BY <1>1, <1>3, <1>4, Zenon DEF BestSoFar, Verifies, cast_by
<1>5. CASE ReadActive
    <2>1. PICK best : best = sig_get_best_qc(active)
        BY Zenon
    <2>2. /\ best # NoSig
          /\ proposer' = IF HasPending THEN [pc |-> "read_pending", active_best |-> best]
                         ELSE [pc |-> "returned", qc |-> [active_policy_sig |-> best, pending_policy_sig |-> NoSig]]
        BY <1>5, <2>1, Zenon DEF ReadActive
    <2>3. Verifies(best, ActivePolicy)
        BY <1>3, <2>1, <2>2, BestVerifies, WeightsAssumption, Zenon DEF Aggregators
    <2>4. \/ proposer'.pc = "read_pending" /\ proposer'.active_best = best
          \/ ~HasPending /\ proposer'.pc = "returned" /\ proposer'.qc.active_policy_sig = best
        BY <2>2
    <2>5. /\ proposer'.pc = "read_pending" => Verifies(proposer'.active_best, ActivePolicy)
          /\ proposer'.pc = "returned" =>
                /\ Verifies(proposer'.qc.active_policy_sig, ActivePolicy)
                /\ HasPending => Verifies(proposer'.qc.pending_policy_sig, PendingPolicy)
        BY <2>3, <2>4
    <2>6. QED
        BY <1>1, <2>5, Zenon DEF BestSoFar, Verifies, cast_by
<1>6. CASE ReadPending
    <2>1. PICK best : best = sig_get_best_qc(pending)
        BY Zenon
    <2>2. /\ proposer.pc = "read_pending"
          /\ proposer' = IF best = NoSig THEN [pc |-> "idle"]
                         ELSE [pc |-> "returned", qc |-> [active_policy_sig  |-> proposer.active_best,
                                                          pending_policy_sig |-> best]]
        BY <1>6, <2>1, Zenon DEF ReadPending
    <2>3. best # NoSig /\ HasPending => Verifies(best, PendingPolicy)
        BY <1>3, <2>1, BestVerifies, WeightsAssumption, Zenon DEF Aggregators
    <2>4. Verifies(proposer.active_best, ActivePolicy)
        BY <1>3, <2>2, Zenon DEF BestSoFar
    <2>5. \/ proposer'.pc = "idle"
          \/ /\ best # NoSig /\ proposer'.pc = "returned"
             /\ proposer'.qc.active_policy_sig = proposer.active_best /\ proposer'.qc.pending_policy_sig = best
        BY <2>2
    <2>6. /\ proposer'.pc = "read_pending" => Verifies(proposer'.active_best, ActivePolicy)
          /\ proposer'.pc = "returned" =>
                /\ Verifies(proposer'.qc.active_policy_sig, ActivePolicy)
                /\ HasPending => Verifies(proposer'.qc.pending_policy_sig, PendingPolicy)
        BY <2>3, <2>4, <2>5
    <2>7. QED
        BY <1>1, <2>6, Zenon DEF BestSoFar, Verifies, cast_by
<1>7. QED
    BY <1>4, <1>5, <1>6, Zenon
       DEF Next, StartVote, CheckActive, AddActive, CheckPending, AddPending, StartReceive, ReceiveActive,
           ReceivePending, vars

(* and every step keeps it.                                                *)
LEMMA StepCInv == IInv /\ CInv /\ [Next]_vars => CInv'
<1> SUFFICES ASSUME IInv, CInv, [Next]_vars PROVE CInv'
    OBVIOUS
<1>1. Origins /\ Aggregators /\ AggShape(active) /\ (HasPending => AggShape(pending))
    BY Zenon DEF CInv, IInv, Shapes
<1>2. Origins'
    BY <1>1, VotesAreCastNext, ReceivedVerifiesNext, Zenon DEF Origins
<1>3. AggInv(active', ActivePolicy) /\ (HasPending => AggInv(pending', PendingPolicy))
    BY <1>1, AggSteps, AggInvStep, WeightsAssumption, Zenon DEF Aggregators
<1>4. Aggregators'
    <2>1. cast' = cast
        BY CastStays
    <2>2. QED
        BY <1>3, <2>1, Zenon DEF Aggregators, AggInv, VotesCast, Received, Verifies, cast_by
<1>5. BestSoFar'
    BY BestSoFarNext, Zenon
<1>6. QED
    BY <1>2, <1>4, <1>5, Zenon DEF CInv

(* However vote threads, received QCs and the producer interleave: every   *)
(* aggregator counts cast votes of its policy, each once and with its      *)
(* weight, and its state tells whether they make a quorum.                 *)
THEOREM CountInvariant == Spec => []CInv
BY InitCInv, StepCInv, Inductive, PTL DEF Spec

(* Each signature of a QC that get_best_qc returns is made of votes that   *)
(* were cast and passes verify_vote_format and verify_weights, for any     *)
(* policies and even when max_weak_sum_before_weak_final overflows.        *)
THEOREM ProposalsVerify == Spec => []ProposedSigsVerify
<1>1. CInv => ProposedSigsVerify
    BY Zenon DEF CInv, BestSoFar, Verifies, ProposedSigsVerify
<1>2. QED
    BY <1>1, CountInvariant, PTL

(* What the states say of strong votes still to come, in both aggregators. *)
StrongStates == StrongState(active, ActivePolicy) /\ (HasPending => StrongState(pending, PendingPolicy))

(* An aggregator keeps to it.                                              *)
LEMMA StrongStep ==
    ASSUME NEW n, NEW agg, NEW policy, WellFormed(policy), AggShape(agg),
           AggInv(agg, policy), StrongState(agg, policy), AggStep(n, agg, policy)
    PROVE  StrongState(n, policy)
<1>1. ASSUME NEW v \in cast \cap AllVotes, v.key \in policy.finalizers, n = add_vote(agg, policy, v.strong, v.key)
      PROVE  StrongState(n, policy)
    <2>1. v \in AllVotes
        BY Zenon
    <2>2. QED
        BY <1>1, <2>1, AddVoteStrong, Zenon DEF AggInv
<1>2. ASSUME NEW sig, n = set_received_qc_sig(agg, sig)
      PROVE  StrongState(n, policy)
    <2>1. \/ n = agg
          \/ n = [state           |-> agg.state,
                  strong_sum      |-> agg.strong_sum,
                  weak_sum        |-> agg.weak_sum,
                  strong_votes    |-> agg.strong_votes,
                  weak_votes      |-> agg.weak_votes,
                  received_qc_sig |-> sig]
        BY <1>2, Zenon DEF set_received_qc_sig, AggShape
    <2>2. n.state = agg.state /\ n.weak_sum = agg.weak_sum
        BY <2>1
    <2>3. QED
        BY <2>2, Zenon DEF StrongState
<1>3. QED
    BY <1>1, <1>2, Zenon DEF AggStep

(* The state of an aggregator is what the votes counted say, for every two *)
(* policies set_finalizers accepts: whether or not the int that the        *)
(* weights are summed in overflows.                                        *)
THEOREM StateIsOfVotes == Spec => []StateMatchesVotes
<1>1. Init => StrongStates
    <2>1. ASSUME NEW policy, WellFormed(policy) PROVE StrongState(new_agg, policy)
        <3>1. CountedOnce(new_agg, policy)
            BY <2>1, AggInvNew, Zenon DEF AggInv
        <3>2. PICK total : total = weight_sum(policy, policy.finalizers)
            BY Zenon
        <3>3. total \in Nat /\ policy.threshold \in Nat /\ policy.threshold <= total
            BY <2>1, <3>1, <3>2, SumsAreNat, Zenon DEF WellFormed
        <3>4. new_agg.state = "unrestricted" /\ new_agg.weak_sum = 0
            BY DEF new_agg
        <3>5. QED
            BY <3>2, <3>3, <3>4 DEF StrongState
    <2>2. Init => active = new_agg /\ (HasPending => pending = new_agg)
        BY Zenon DEF Init
    <2>3. QED
        BY <2>1, <2>2, WeightsAssumption, Zenon DEF StrongStates
<1>2. IInv /\ CInv /\ StrongStates /\ [Next]_vars => StrongStates'
    <2> SUFFICES ASSUME IInv, CInv, StrongStates, [Next]_vars PROVE StrongStates'
        OBVIOUS
    <2>1. Origins /\ Aggregators /\ AggShape(active) /\ (HasPending => AggShape(pending))
        BY Zenon DEF CInv, IInv, Shapes
    <2>2. AggStep(active', active, ActivePolicy) /\ (HasPending => AggStep(pending', pending, PendingPolicy))
        BY <2>1, AggSteps, Zenon
    <2>3. QED
        BY <2>1, <2>2, StrongStep, WeightsAssumption, Zenon DEF Aggregators, StrongStates
<1>3. CInv /\ StrongStates => StateMatchesVotes
    <2> SUFFICES ASSUME CInv, StrongStates PROVE StateMatchesVotes
        OBVIOUS
    <2>1. ASSUME NEW agg, NEW policy, WellFormed(policy), AggInv(agg, policy), StrongState(agg, policy)
          PROVE  CountedOnce(agg, policy) /\ StateMatches(agg, policy)
        <3>1. CountedOnce(agg, policy) /\ QuorumState(agg, policy)
            BY <2>1, Zenon DEF AggInv
        <3>2. PICK total : total = weight_sum(policy, policy.finalizers)
            BY Zenon
        <3>3. /\ agg.strong_sum \in Nat /\ agg.weak_sum \in Nat /\ policy.threshold \in Nat
              /\ total \in Nat
            BY <2>1, <3>1, <3>2, SumsAreNat, Zenon
        <3>4. /\ FitsInt(policy) /\ agg.state \in {"unrestricted", "weak_achieved"} =>
                    total - agg.weak_sum >= policy.threshold
              /\ agg.state = "restricted" => total - agg.weak_sum < policy.threshold
              /\ agg.state = "weak_final" => total - agg.weak_sum <= policy.threshold
            BY <2>1, <3>2, Zenon DEF StrongState
        <3>5. is_quorum_met(agg) <=> agg.strong_sum + agg.weak_sum >= policy.threshold
            BY <3>1, <3>3 DEF QuorumState, is_quorum_met
        <3>6. agg.state = "restricted" => ~(total - agg.weak_sum >= policy.threshold)
            BY <3>3, <3>4
        <3>7. QED
            BY <3>1, <3>2, <3>4, <3>5, <3>6, Zenon DEF StateMatches, QuorumState, FitsInt
    <2>2. CountedOnce(active, ActivePolicy) /\ StateMatches(active, ActivePolicy)
        BY <2>1, WeightsAssumption, Zenon DEF CInv, Aggregators, StrongStates
    <2>3. HasPending => CountedOnce(pending, PendingPolicy) /\ StateMatches(pending, PendingPolicy)
        BY <2>1, WeightsAssumption, Zenon DEF CInv, Aggregators, StrongStates
    <2>4. QED
        BY <2>2, <2>3, Zenon DEF StateMatchesVotes, ForBoth
<1>4. QED
    BY <1>1, <1>2, <1>3, Inductive, CountInvariant, PTL DEF Spec

=============================================================================
