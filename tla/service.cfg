SPECIFICATION FairSpec
CONSTANTS
  Configured = 2
  Mode <- MCMode
  RawPipeline <- MCRawPipeline
  MaxScanErrors = 1
INVARIANTS
  TypeOK
  StopIsFinal
PROPERTIES
  CommandEnds
  ServesAll
  SignalEnds
CHECK_DEADLOCK FALSE
