CONSTANTS
    Children = {c1, c2, c3}
    Parent = p
    Type <- MCType
    BeforeExp = "BeforeExp"
    Rounds = 5
    TypeAt <- MCTypeAt
    NumCore = 2
    Key = {k1}
    MaxEpoch = 3
    NumRegions = 2
    Free = Free
SPECIFICATION MCFairSpec
INVARIANTS
    ReadsInSerialOrder
    NoVersionLost
    ReadsAllocated
PROPERTIES
    BarrierFinishes
    ImplementsPhaseBarrier
    ServalFinishes
