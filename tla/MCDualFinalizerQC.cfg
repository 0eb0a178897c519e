SPECIFICATION Spec
CONSTANTS
    a = a
    b = b
    c = c
    d = d
    e = e
    t1 = t1
    t2 = t2
    IntModulus = 1024
    Uint64Modulus = 1024
    NoPolicy = NoPolicy
    NoSig = NoSig
    ActivePolicy <- TwoPolicyActive
    PendingPolicy <- TwoPolicyPending
    Keys = {a, b, c, d}
    Threads = {t1}
    SharedKeys = {}
    MaxReceives = 0
INVARIANTS
    ProposedQcVerifies
