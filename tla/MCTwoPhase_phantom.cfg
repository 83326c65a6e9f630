CONSTANTS
    Tx = {1, 2}
    Key = {1, 2, 3}
    Loaded = {1, 2}
    Sentinel = 4
    Ops <- MCPhantomOps
    Args <- MCArgs
    Ranges <- MCPhantomRanges
    MaxOps <- MCMaxOps
SPECIFICATION MCSpec
INVARIANT NoInsertIntoScannedRange
