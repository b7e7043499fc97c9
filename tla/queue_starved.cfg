SPECIFICATION FairSpec
CONSTANTS
    Market = {"m1", "m2"}
    Invalid = {}
    Unreachable = {}
    MaxRows = 2
    BatchSize = 1
    MaxAttempts = 2
    MaxOpens = 1
    MaxQty = 1
    MaxRestarts = 0
    LossyReply = FALSE
    EmptyReply = TRUE
    MayDisconnect = TRUE
PROPERTY FreshRowTurn
CHECK_DEADLOCK FALSE
