SPECIFICATION FairRunnerSpec
CONSTANTS
    Outputs = {"stdout", "stderr"}
    Limit = 1
    MaxData = 2
    Submitted = 1
    Expires = 2
    MaxClock = 2
INVARIANT
    ReportIsTrue
PROPERTY
    RunnerEnds
CHECK_DEADLOCK FALSE
