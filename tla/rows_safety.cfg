CONSTANTS
    MaxPositions = 2
    MaxActive = 2
    MaxRestarts = 2
    LossyReply = TRUE
SPECIFICATION Spec
INVARIANTS
    TypeOK
    SeqsUnique
PROPERTIES
    StaysClosed
    KeptUnlessShared
    ZombiesExplained
CHECK_DEADLOCK FALSE
