CONSTANTS
    Tx = {2, 3, 4, 5}
    Key = {1, 2}
    Loaded = {1}
    Ops <- MCOps
    Args <- MCArgs
    Ranges <- MCRanges
    MaxOps <- MCMaxOps
    Leaf <- MCLeaf
    Ids = 2
    Assumed = TRUE
SPECIFICATION Spec
INVARIANTS
    VersionsKept
    ReadRecsAreShared
    ValueGracePeriod
PROPERTIES
    ImplementsSerialDB
