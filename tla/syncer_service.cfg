SPECIFICATION FairSpec
CONSTANTS
  Nobody = Nobody
  p1 = p1
  w1 = w1
  w2 = w2
  Path = {p1}
  Agent = {w1, w2}
  Worker = 2
  OneTime = FALSE
  MaxWalkErrors = 1
  MaxVersion = 2
  MaxFaults = 1
  MaxRestarts = 1
INVARIANTS
  TypeOK
  LabelsTrue
  TokenConservation
PROPERTIES
  StaysMirrored
  Settles
CHECK_DEADLOCK FALSE
