SPECIFICATION Spec
CONSTANTS
  NoPath = NoPath
  p1 = p1
  s1 = s1
  Path = {p1}
  Slot = {s1}
  Worker = 1
  OneTime = FALSE
  MaxWalkErrors = 0
  MaxVersion = 2
  MaxFaults = 0
  MaxTimeouts = 0
  MaxRestarts = 0
PROPERTIES
  RemovedOnlyAfterDownload
