SPECIFICATION FairSpec
CONSTANTS
    Market = {"good", "delisted", "elsewhere"}
    Invalid = {"delisted"}
    Unreachable = {"elsewhere"}
    MaxRows = 3
    BatchSize = 1
    MaxAttempts = 2
    MaxOpens = 1
    MaxQty = 1
    MaxRestarts = 1
    LossyReply = TRUE
    EmptyReply = FALSE
    MayDisconnect = FALSE
INVARIANT FreshRowFirst
PROPERTY RowLeaves
CHECK_DEADLOCK FALSE
