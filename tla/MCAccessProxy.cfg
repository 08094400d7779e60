SPECIFICATION FairProxySpec
CONSTANTS
    CleanupTime = 2
    Slack = 1
    WaitDelay = 4
    MaxPreamble = 1
    MaxItems = 3
INVARIANTS
    SessionIsNotLost
    CallerSeesTheTruth
PROPERTY
    ProxyEnds
CHECK_DEADLOCK FALSE
