SPECIFICATION MCReadySpec
CONSTANTS
    g1 = g1
    N = 2
    Goroutines = {g1}
    Buffer = 1
    Printed = TRUE
    Begins = {"starting", "gone", "foreign"}
    Short = 1
    Strangers = 1
INVARIANTS
    ResultIsHonest
PROPERTIES
    BatchEnds
    StrangersAreNotProbed
CHECK_DEADLOCK FALSE
