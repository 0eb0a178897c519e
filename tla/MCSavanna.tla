------------------------------ MODULE MCSavanna ------------------------------
(* Instances of Savanna for TLC.                                           *)
EXTENDS Savanna, TLC

CONSTANTS k1, k2, n1, n2, faulty, a, b

(* Two honest finalizers on a node each and a faulty one, all three needed *)
(* for a quorum.                                                           *)
PairNodes == {n1, n2}
PairKeys == {k1, k2}
PairKeysOf == n1 :> {k1} @@ n2 :> {k2}
PairQuorums == {{k1, k2, faulty}}
Swap == k1 :> k2 @@ k2 :> k1 @@ n1 :> n2 @@ n2 :> n1
PairSymmetry == {Swap} \cup Permutations({a, b})

(* One node with two keys; quorums are of no concern to it, so that it may *)
(* see any claim.                                                          *)
NodeNodes == {n1}
NodeKeys == {k1, k2}
NodeKeysOf == n1 :> {k1, k2}
NodeQuorums == {{faulty}}
NodeSymmetry == Permutations({k1, k2}) \cup Permutations({a, b})

=============================================================================
