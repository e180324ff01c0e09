SPECIFICATION FairSpec
CONSTANTS
    src = src
    inc = inc
    main = main
    x = x
    y = y
    Path <- FourPaths
    Root <- RootPath
    SearchPaths <- SrcThenInc
    Contents <- UpToTwo
INVARIANTS
    Inv
    ExactlyOnce
    DependencyFirst
    AllOrNothing
PROPERTIES
    Answers
CHECK_DEADLOCK FALSE
