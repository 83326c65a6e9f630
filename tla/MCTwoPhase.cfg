CONSTANTS
    Tx = {1, 2}
    Key = {1, 2, 3}
    Loaded = {1, 2}
    Sentinel = 4
    Ops <- MCOps
    Args <- MCArgs
    Ranges <- MCRanges
    MaxOps <- MCMaxOps
SPECIFICATION MCSpec
INVARIANTS
    NothingLeftBehind
    LocksMatchSets
    WaitDieNoWaitCycle
PROPERTIES
    ImplementsSerialDB
