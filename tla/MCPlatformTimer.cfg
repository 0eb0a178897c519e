SPECIFICATION Spec
CONSTANTS
    i1 = i1
    num_timers = 3
    Interrupters = {i1}
    MaxStarts = 4
INVARIANTS
    CallbackConfined
    ExpiryReachesContract
    OwnDeadline
PROPERTIES
    ContractEnds
