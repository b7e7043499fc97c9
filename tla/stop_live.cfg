SPECIFICATION FairSpec
CONSTANTS
    MaxId = 3
    MaxLevel = 1
    DslAttempts = 1
    CloseAttempts = 2
    MaxRemovals = 1
    MaxRestarts = 0
    LossyReply = FALSE
    LossyCancel = FALSE
PROPERTIES MissingStopNoticed UnprotectedRepaired
CHECK_DEADLOCK FALSE
