SPECIFICATION Spec
CONSTANTS
    MaxId = 4
    MaxLevel = 2
    DslAttempts = 1
    CloseAttempts = 1
    MaxRemovals = 0
    MaxRestarts = 0
    LossyReply = FALSE
    LossyCancel = FALSE
INVARIANT NoForgottenStop
CHECK_DEADLOCK FALSE
