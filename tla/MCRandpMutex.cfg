SPECIFICATION FairSpec
CONSTANTS
    p1 = p1
    p2 = p2
    t1 = t1
    t2 = t2
    t3 = t3
    noone = noone
    lost = lost
    Proc = {p1, p2}
    Thread = {t1, t2, t3}
    Init_p = p1
    Init_t = t1
    NoOne = noone
    Lost = lost
    PoolSize = 2
    BlockSize = 2
    ReseedInterval = 2
    RequestSize = {3}
    MaxSeeds = 2
INVARIANTS
    MutexInv
    Exclusive
PROPERTIES
    SourceSpec
    Released
CHECK_DEADLOCK FALSE
