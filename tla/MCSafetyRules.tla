--------------------------- MODULE MCSafetyRules ---------------------------
(* Instance of SafetyRules for TLC: of three finalizers one is faulty, and  *)
(* all three make a quorum.                                                *)
EXTENDS SafetyRules, FiniteSets, TLC

CONSTANTS h1, h2, faulty, g, b1, b2, b3, b4

MCHonest == {h1, h2}

MCQuorums == {Q \in SUBSET (MCHonest \cup {faulty}) : Cardinality(Q) >= 3}

Symmetry == Permutations(MCHonest) \cup Permutations(Blocks \ {Genesis})

=============================================================================
