SPECIFICATION FairSpec
CONSTANTS
    None = None
    config = config
    aws = aws
    Files = {config, aws}
    MaxEdits = 3
    MaxCrashes = 2
INVARIANTS
    MixedIsRecorded
PROPERTIES
    OverwrittenIsBackedUp
    SettlesOrRefuses
CHECK_DEADLOCK FALSE
