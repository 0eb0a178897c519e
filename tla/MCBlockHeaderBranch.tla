------------------------ MODULE MCBlockHeaderBranch ------------------------
(* The instance of BlockHeaderBranch for TLC. *)
EXTENDS BlockHeaderBranch

CONSTANTS a, b, c

First == << a, b >>

MCLists == {<< b, c >>, << c, a, b >>}

(* Branches that propose finalizer policies while claims lag, ones that    *)
(* propose several different policies, ones that propose schedules while   *)
(* slots are skipped, and short ones that do both.                         *)
MCKinds ==
    {[finalizers |-> {<< b, c >>}, producers |-> {}, slot |-> 1, blocks |-> 8, skips |-> 0, lag |-> 2, proposals |-> 2],
     [finalizers |-> MCLists, producers |-> {}, slot |-> 1, blocks |-> 7, skips |-> 0, lag |-> 1, proposals |-> 3],
     [finalizers |-> {}, producers |-> MCLists, slot |-> 0, blocks |-> 7, skips |-> 3, lag |-> 0, proposals |-> 2],
     [finalizers |-> {<< b, c >>}, producers |-> {<< b, c >>}, slot |-> 0, blocks |-> 6, skips |-> 1, lag |-> 1,
      proposals |-> 2]}

(* fc::ordered_diff on all pairs of lists of at most four elements, those  *)
(* that repeat an element included.                                        *)
SmallLists == UNION {[1 .. n -> {a, b, c}] : n \in 0 .. 4}

ASSUME SmallDiffsAssumption ==
    \A x, y \in SmallLists : applies(x, diff(x, y)) /\ apply_diff(x, diff(x, y)) = y
=============================================================================
