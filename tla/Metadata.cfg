SPECIFICATION MetadataSpec
CONSTANTS
  s1 = s1
  s2 = s2
  l1 = l1
  l2 = l2
  n1 = n1
  c1 = c1
  c2 = c2
  c3 = c3
  Schedule = {s1, s2}
  Location = {l1, l2}
  Channel = {n1}
  Client = {c1, c2, c3}
  Nobody = Nobody
  Unknown = Unknown
  MaxRetries = 1
  MaxFaults = 1
  MaxRestarts = 2
SYMMETRY Symmetry
CHECK_DEADLOCK FALSE
INVARIANTS TasksReachable DefaultStands ChannelStands
PROPERTY StoppedStays
