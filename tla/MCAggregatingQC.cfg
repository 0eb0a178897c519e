SPECIFICATION Spec
CONSTANTS
    a = a
    b = b
    c = c
    d = d
    e = e
    t1 = t1
    t2 = t2
    IntModulus = 16
    Uint64Modulus = 32
    NoPolicy = NoPolicy
    NoSig = NoSig
    ActivePolicy <- WeightedActive
    PendingPolicy <- WeightedPending
    Keys = {a, b, c, d, e}
    Threads = {t1, t2}
    SharedKeys = {c}
    MaxReceives = 2
CONSTRAINT Focus
SYMMETRY ABSymmetry
INVARIANTS
    StateMatchesVotes
    DualVotesAgree
    CountedIsRelayed
    ProposedSigsVerify
PROPERTIES
    BestQcNeverWeakens
