SPECIFICATION FairSpec
CONSTANTS
    p1 = p1
    p2 = p2
    t1 = t1
    t2 = t2
    t3 = t3
    a1 = a1
    a2 = a2
    Null = Null
    Proc = {p1, p2}
    Thread = {t1, t2, t3}
    Addr = {a1, a2}
    Init_p = p1
    Init_t = t1
    MlockResults = {FALSE}
    LateCalls = FALSE
    DtorRounds = 2
    MaxSeeds = 0
PROPERTIES
    CallReturns
CHECK_DEADLOCK FALSE
