SPECIFICATION FairSpec
CONSTANTS
  NoPath = NoPath
  p1 = p1
  p2 = p2
  s1 = s1
  s2 = s2
  Path = {p1, p2}
  Slot = {s1, s2}
  Worker = 1
  OneTime = FALSE
  MaxWalkErrors = 1
  MaxVersion = 1
  MaxFaults = 1
  MaxTimeouts = 0
  MaxRestarts = 1
INVARIANTS
  TypeOK
  SharedNeedsWalkError
  LostOnlyWhenShared
PROPERTIES
  StreamsAll
CHECK_DEADLOCK FALSE
