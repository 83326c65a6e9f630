CONSTANTS
    N = 2
    MaxEpoch = 3
    Rec = {r1}
    Val = {v1}
SPECIFICATION MCFairSpec
INVARIANTS
    EpochLag
    RecordsNotFreedInUse
    GracePeriod
PROPERTIES
    Reclaimed
