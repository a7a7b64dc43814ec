SPECIFICATION FairSpec
CONSTANTS
  NoPath = NoPath
  p1 = p1
  p2 = p2
  s1 = s1
  Path = {p1, p2}
  Slot = {s1}
  Worker = 1
  OneTime = TRUE
  MaxWalkErrors = 0
  MaxVersion = 1
  MaxFaults = 1
  MaxTimeouts = 0
  MaxRestarts = 0
PROPERTIES
  Finishes
CHECK_DEADLOCK FALSE
