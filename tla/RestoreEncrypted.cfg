SPECIFICATION Spec
CONSTANTS
  c1 = c1
  c2 = c2
  p1 = p1
  s1 = s1
  Dump = {p1, s1}
  Engine <- EngineOf
  Encrypted = {p1}
  MaxFaults = 0
  MaxCrashes = 0
  Client = {c1, c2}
  Wants <- OneEach
  Keyed = {}
  Skips = {}
  Remote = {}
  None = None
  Attempts = 1
  MaxStalled = 1
CHECK_DEADLOCK FALSE
INVARIANT IntactRestores
