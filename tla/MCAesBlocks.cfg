SPECIFICATION Spec
CONSTANTS
    lo = lo
    hi = hi
    Bit = {0}
    Half = {lo, hi}
    Aesenc <- Complement
    Aesdec <- SwappedComplement
    NumKeys = 2
    NumRounds = 3
    EntropyKey <- FiveKeys
INVARIANTS
    Inv
    Distinct
    Mirrored
    Schedule
CHECK_DEADLOCK FALSE
