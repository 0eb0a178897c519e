SPECIFICATION Spec
CONSTANTS
    k1 = k1
    k2 = k2
    n1 = n1
    n2 = n2
    faulty = faulty
    a = a
    b = b
    Names = {a, b}
    MaxBlockNum = 4
    MaxBlocks = 4
    MaxTime = 4
    Nodes <- NodeNodes
    Keys <- NodeKeys
    KeysOf <- NodeKeysOf
    Quorums <- NodeQuorums
    MaxVoteFaults = 1
    MaxStops = 1
CHECK_DEADLOCK FALSE
SYMMETRY NodeSymmetry
INVARIANTS
    InfoCoversVotes
PROPERTIES
    InfoNeverGoesBack
