CONSTANTS
  Scripts = {"example", "readline", "attach"}
  MaxLines = 2
  BufCap = 1
SPECIFICATION FairSpec
INVARIANT TypeOK
INVARIANT SuccessHasEvidence
INVARIANT NothingAfterError
INVARIANT NoChildForgotten
INVARIANT CleanEnd
PROPERTY ScriptEnds
CHECK_DEADLOCK FALSE
