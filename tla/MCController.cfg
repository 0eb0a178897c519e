SPECIFICATION FairSpec
CONSTANTS
    MaxBlocks = 4
    MaxTime = 3
    MaxFailing = 1
    MaxFaults = 1
CHECK_DEADLOCK FALSE
INVARIANTS
    HeadInForkDb
    LogIsChain
    BestHeadExtendsLib
    VotesBehindExecuted
    ReopenRestores
PROPERTIES
    ProducedExtendsLib
    CatchesUp
