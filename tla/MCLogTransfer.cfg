SPECIFICATION FairTransferSpec
CONSTANTS
    a = a
    b = b
    Paths = {a, b}
    Bytes = 2
    Chunk = 2
    MaxEmpty = 2
INVARIANTS
    OutputIsGenuine
PROPERTIES
    PresentIsNotMissing
    LogsEnd
CHECK_DEADLOCK FALSE
