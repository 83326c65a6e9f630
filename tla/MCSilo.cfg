CONSTANTS
    Tx = {1, 2}
    Key = {1, 2, 3}
    Loaded = {1, 2}
    Ops <- MCOps
    Args <- MCArgs
    Ranges <- MCRanges
    MaxOps <- MCMaxOps
    MaxEpoch = 2
SPECIFICATION Spec
INVARIANTS
    TidsFollowReads
    NothingLeftBehind
    LocksAreHeld
    NoWaitCycle
PROPERTIES
    ImplementsSerialDB
