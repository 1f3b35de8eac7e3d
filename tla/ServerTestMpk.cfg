CONSTANTS
  Suites = {"mpk"}
  NumRuns = 1
  MaxLines = 1
  PipeCap = 1
  BufCap = 1
SPECIFICATION FairSpec
PROPERTY TestEnds
CHECK_DEADLOCK FALSE
