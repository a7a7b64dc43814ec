SPECIFICATION Spec
CONSTANTS
  Configured = 2
  Mode <- MCMode
  RawPipeline <- MCRawPipeline
  MaxScanErrors = 0
INVARIANTS
  FinishesWhatWasAsked
CHECK_DEADLOCK FALSE
