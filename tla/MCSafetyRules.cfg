SPECIFICATION Spec
CONSTANTS
    h1 = h1
    h2 = h2
    faulty = faulty
    g = g
    b1 = b1
    b2 = b2
    b3 = b3
    b4 = b4
    Genesis = g
    Blocks = {g, b1, b2, b3, b4}
    Times = {1, 2, 3, 4}
    Honest <- MCHonest
    Quorums <- MCQuorums
SYMMETRY Symmetry
CHECK_DEADLOCK FALSE
INVARIANTS
    Agreement
    BestBranchExtendsFinal
