SPECIFICATION FairSpec
CONSTANTS
  p1 = p1
  p2 = p2
  A = A
  B = B
  LONG = LONG
  SHORT = SHORT
  Position = {p1, p2}
  Symbol = {A, B}
  Side = {LONG, SHORT}
  Plans <- MCPlans
  MaxTries = 2
  MaxExpiries = 1
  MaxRestarts = 1
INVARIANTS TypeOK EntriesExclusive OrdersApart HaltBoundsEntries HeldAccounted
PROPERTIES LockUsed LedgerKept OnlyOnward EntryEnds ExitCompletes
CHECK_DEADLOCK FALSE
