SPECIFICATION Spec
CONSTANTS
    Market = {"m"}
    Invalid = {}
    Unreachable = {}
    MaxRows = 3
    BatchSize = 2
    MaxAttempts = 2
    MaxOpens = 2
    MaxQty = 2
    MaxRestarts = 1
    LossyReply = TRUE
    EmptyReply = TRUE
    MayDisconnect = TRUE
INVARIANTS TypeOK DoneAsReported
PROPERTY ResolvedFinal
CHECK_DEADLOCK FALSE
