SPECIFICATION FairSpec
CONSTANTS
  c1 = c1
  c2 = c2
  p1 = p1
  s1 = s1
  Dump = {p1, s1}
  Engine <- EngineOf
  Encrypted = {p1}
  MaxFaults = 1
  MaxCrashes = 1
  Client = {c1, c2}
  Wants <- OneEach
  Keyed = {c1}
  Skips = {c1}
  Remote = {s1}
  None = None
  Attempts = 2
  MaxStalled = 1
CHECK_DEADLOCK FALSE
INVARIANTS ReportedIsStored OneLoadAtATime SuccessLeavesNothing
PROPERTIES ReplacedSafely RestoresSettle
