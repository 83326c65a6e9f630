CONSTANTS
    N = 2
    SyncCnt = 1
    MaxCnt = 6
SPECIFICATION Spec
INVARIANTS
    FutureAboveBound
PROPERTIES
    TimestampsIncrease
