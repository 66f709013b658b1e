SPECIFICATION Spec
CONSTANTS
  f1 = f1
  i1 = i1
  i2 = i2
  Full = {f1}
  Incr = {i1, i2}
  None = None
  Asks <- OneNamed
  MaxWal = 1
  MaxRuns = 2
  MaxFaults = 2
CHECK_DEADLOCK FALSE
INVARIANTS ChainsFit
