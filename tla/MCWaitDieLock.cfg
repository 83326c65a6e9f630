CONSTANTS
    TS <- MCTS
    Lock = {x, y}
    None = None
    MaxOps = 3
SPECIFICATION FairSpec
INVARIANTS
    MutualExclusion
    WaitsForYounger
    NoException
    NoLostWakeup
PROPERTIES
    AllFinish
