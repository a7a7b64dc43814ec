SPECIFICATION FairSpec
CONSTANTS
  NoPath = NoPath
  p1 = p1
  p2 = p2
  p3 = p3
  s1 = s1
  Path = {p1, p2, p3}
  Slot = {s1}
  Worker = 1
  OneTime = TRUE
  MaxWalkErrors = 1
  MaxVersion = 2
  MaxFaults = 1
  MaxTimeouts = 0
  MaxRestarts = 1
INVARIANTS
  TokenConservation
  NoVanish
  StuckOnlyWhenLost
PROPERTIES
  FinishesOrLosesWorker
CHECK_DEADLOCK FALSE
