CONSTANTS
    NumCore = 2
    Key = {1, 2}
    MaxEpoch = 2
    Rows <- MCRows
    NumBuffers = 4
    MaxSlots = 2
    Free = Free
SPECIFICATION MCFairSpec
INVARIANTS
    ReadsInSerialOrder
    CaracalNothingLost
    ServalRCReadersCounted
PROPERTIES
    OnlyOldDeallocated
    AllFinish
