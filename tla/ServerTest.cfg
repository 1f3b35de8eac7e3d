CONSTANTS
  Suites = {"uprobe", "vanilla"}
  NumRuns = 2
  MaxLines = 4
  PipeCap = 2
  BufCap = 2
SPECIFICATION FairSpec
INVARIANTS TypeOK LinesInOrder OneReader CleanUpKeepsResult
PROPERTY TestEnds
CHECK_DEADLOCK FALSE
