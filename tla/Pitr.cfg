SPECIFICATION FairSpec
CONSTANTS
  Base = {b1}
  Store = {s1, s2}
  None = None
  Atomic = {s2}
  MaxWal = 3
  MaxChanges = 1
  MaxFaults = 1
  MaxCrashes = 1
CHECK_DEADLOCK FALSE
INVARIANTS ArchivedIsWhole NoGapBehindBase
PROPERTY WalIsArchived
