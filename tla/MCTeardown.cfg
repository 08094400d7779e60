SPECIFICATION FairSpec
CONSTANTS
    N = 2
    Goroutines = 1
    MaxPolls = 1
    MaxMoves = 1
    Asked <- MCAsked
    Start <- MCStart
INVARIANT
    ResultIsTrue
PROPERTIES
    OnlySelectedAreTerminated
    TeardownEnds
CHECK_DEADLOCK FALSE
