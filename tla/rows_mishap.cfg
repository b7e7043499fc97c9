CONSTANTS
    MaxPositions = 2
    MaxActive = 2
    MaxRestarts = 2
    LossyReply = FALSE
SPECIFICATION Spec
PROPERTIES
    ZombiesUnexposed
CHECK_DEADLOCK FALSE
