CONSTANTS
    Tx = {2, 3, 5}
    Key = {1, 2}
    Loaded = {1}
    Ops <- MCBoundOps
    Args <- MCArgs
    Ranges <- MCRanges
    MaxOps <- MCMaxOps
    Leaf <- MCLeaf
    Ids = 2
    Assumed = FALSE
SPECIFICATION Spec
INVARIANTS
    ReadRecsAreShared
