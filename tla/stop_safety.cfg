SPECIFICATION Spec
CONSTANTS
    MaxId = 3
    MaxLevel = 2
    DslAttempts = 2
    CloseAttempts = 1
    MaxRemovals = 1
    MaxRestarts = 1
    LossyReply = TRUE
    LossyCancel = TRUE
INVARIANTS TypeOK TrackedNotPulled StatusTellsStop RowKeepsApart
PROPERTY NeverStripped
CHECK_DEADLOCK FALSE
