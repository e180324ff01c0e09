SPECIFICATION FairSpec
CONSTANTS
    p1 = p1
    p2 = p2
    p3 = p3
    Proc = {p1, p2, p3}
    Root = p1
    PoolSize = 4
    BlockSize = 2
    ReseedInterval = 2
    RequestSize = {0, 5}
    MaxSeeds = 3
INVARIANTS
    NoRepeat
    KeystreamOrder
    Zeroized
    Unshared
    IInv
PROPERTIES
    SourceSpec
    CallReturns
CHECK_DEADLOCK FALSE
