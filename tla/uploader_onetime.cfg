SPECIFICATION FairSpec
CONSTANTS
  NoPath = NoPath
  p1 = p1
  p2 = p2
  p3 = p3
  s1 = s1
  Path = {p1, p2, p3}
  Slot = {s1}
  Worker = 1
  OneTime = TRUE
  MaxWalkErrors = 1
  MaxVersion = 1
  MaxFaults = 3
  MaxTimeouts = 0
  MaxRestarts = 1
INVARIANTS
  TypeOK
  Counted
  LostOnlyWhenTorn
PROPERTIES
  FinishesOrLosesWorker
CHECK_DEADLOCK FALSE
