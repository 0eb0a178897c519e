--------------------------- MODULE MCAggregatingQC ---------------------------
(* Instances of AggregatingQC for TLC. *)
EXTENDS AggregatingQC, TLC

CONSTANTS a, b, c, d, e, t1, t2

Policy(finalizers, threshold, generation) ==
    [finalizers |-> finalizers,
     weight     |-> [key \in finalizers |-> 1],
     threshold  |-> threshold,
     generation |-> generation]

\* c is a dual finalizer
WeightedActive ==
    [finalizers |-> {a, b, c},
     weight     |-> a :> 2 @@ b :> 2 @@ c :> 1,
     threshold  |-> 3,
     generation |-> 1]

\* the weights add up to more than an int of this instance holds
WeightedPending ==
    [finalizers |-> {c, d},
     weight     |-> c :> 4 @@ d :> 5,
     threshold  |-> 6,
     generation |-> 2]

TwoPolicyActive  == Policy({a, b, c}, 2, 1)
TwoPolicyPending == Policy({c, d}, 2, 2)

ABSymmetry == Permutations({a, b})

(* Either two threads race, with a key on two nodes and with votes that do *)
(* not verify, or one thread aggregates votes while a QC is received, and  *)
(* another QC comes when no vote is under way.                             *)
Focus ==
    IF \E v, w \in cast : v.key = w.key /\ v # w
    THEN receiver.count = 0
    ELSE \A t \in Threads : threads[t].pc # "idle" =>
            t = t1 /\ threads[t].msg.sig_ok /\ receiver.count < 2

FiveFinalizers == Policy({a, b, c, d, e}, 3, 1)

=============================================================================
