CONSTANTS
  NumRuns = 3
  AsRoot = TRUE
  AllowMissing = FALSE
SPECIFICATION Spec
INVARIANT TypeOK
INVARIANT MeasuredAlone
INVARIANT RunsAccounted
INVARIANT CleanStart
PROPERTY SuiteEnds
CHECK_DEADLOCK FALSE
