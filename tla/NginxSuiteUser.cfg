CONSTANTS
  NumRuns = 1
  AsRoot = FALSE
  AllowMissing = FALSE
SPECIFICATION Spec
INVARIANT NothingLeft
CHECK_DEADLOCK FALSE
