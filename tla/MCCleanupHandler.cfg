SPECIFICATION HandlerSpec
CONSTANTS
    a = a
    Instances = {a}
    Volumes = {1}
    Home <- OneVolume
    Roots = {1}
    InitTags = {0}
    InitStates = {"running", "terminated"}
    InitFlags <- DeleteOrKeep
    MaxTime = 1
    MaxMoves = 1
    MaxPages = 2
    MaxRounds = 1
    Concurrency = 1
    Malformed = FALSE
    MaxAttempts = 2
INVARIANTS
    OnlyStillExpiredAreDispatched
    DispatchedOnceAndRecorded
    OutcomesAreTrue
    CandidatesAreAccountedFor
    SuccessIsRecorded
CHECK_DEADLOCK FALSE
