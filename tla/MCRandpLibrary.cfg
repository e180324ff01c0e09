SPECIFICATION LibrarySpec
CONSTANTS
    p1 = p1
    p2 = p2
    t1 = t1
    t2 = t2
    t3 = t3
    a1 = a1
    a2 = a2
    Null = Null
    Proc = {p1, p2}
    Thread = {t1, t2, t3}
    Addr = {a1, a2}
    Init_p = p1
    Init_t = t1
    MlockResults = {TRUE}
    LateCalls = FALSE
    DtorRounds = 2
    PoolSize = 2
    BlockSize = 1
    ReseedInterval = 1
    RequestSize = {1}
    MaxSeeds = 2
SYMMETRY Symmetry
INVARIANTS
    MemoryApart
    MemoryOwned
    LibraryInv
PROPERTIES
    SourceSpec
CHECK_DEADLOCK FALSE
