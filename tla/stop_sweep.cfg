SPECIFICATION FairSpec
CONSTANTS
    MaxId = 2
    MaxLevel = 1
    DslAttempts = 1
    CloseAttempts = 1
    MaxRemovals = 0
    MaxRestarts = 0
    LossyReply = FALSE
    LossyCancel = FALSE
PROPERTY FlatStopsSwept
CHECK_DEADLOCK FALSE
