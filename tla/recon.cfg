SPECIFICATION FairSpec
CONSTANTS
    l1 = l1
    l2 = l2
    Leg = {l1, l2}
    Restored <- MCRestored
    MaxStreak = 2
    MaxActs = 1
    MaxMishaps = 1
INVARIANTS
    TypeOK
    OneRecordPerLeg
    OrphanUntracked
    ExitsPrecede
PROPERTIES
    LedgerKept
    SettledStays
    FalsePhantom
    Converges
