SPECIFICATION FairSpec
CONSTANT
    W = 32
INVARIANTS
    Inv
    Below
    Unbiased
PROPERTIES
    CallReturns
