SPECIFICATION Spec
CONSTANTS
    k1 = k1
    k2 = k2
    n1 = n1
    n2 = n2
    faulty = faulty
    a = a
    b = b
    Names = {a, b}
    MaxBlockNum = 3
    MaxBlocks = 5
    MaxTime = 5
    Nodes <- PairNodes
    Keys <- PairKeys
    KeysOf <- PairKeysOf
    Quorums <- PairQuorums
    MaxVoteFaults = 1
    MaxStops = 0
CHECK_DEADLOCK FALSE
SYMMETRY PairSymmetry
INVARIANTS
    FinalizersCanFinalize
PROPERTIES
    ImplementsRules
