SPECIFICATION Spec
CONSTANTS
    W = 8
    Halves = 2
    Bit = {0, 1}
    Wyprime <- FourWyprimes
    KeyMask <- FourMasks
    NumKeys = 1
    NumBlocks = 2
    ReseedInterval = 4
    EntropyCtr = {6, 7}
INVARIANTS
    Inv
    CountersDistinct
    LanesApart
    NoMirror
CHECK_DEADLOCK FALSE
