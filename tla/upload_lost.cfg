SPECIFICATION Spec
CONSTANTS
  NoPath = NoPath
  p1 = p1
  s1 = s1
  s2 = s2
  Path = {p1}
  Slot = {s1, s2}
  Worker = 1
  OneTime = FALSE
  MaxWalkErrors = 0
  MaxVersion = 1
  MaxFaults = 0
  MaxTimeouts = 1
  MaxRestarts = 0
INVARIANTS
  NothingLost
CHECK_DEADLOCK FALSE
