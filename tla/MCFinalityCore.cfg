SPECIFICATION Spec
CONSTANTS
    GenesisNum = 3
    MaxBlockNum = 8
    MaxTimeGap = 1
    Names = {"a", "b"}
INVARIANTS
    CoreInvariants
    AssertsHold
    LastFinalIsTwoChain
    ExtendsIffAncestor
PROPERTIES
    FinalityAdvances
CHECK_DEADLOCK FALSE
