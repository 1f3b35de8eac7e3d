CONSTANTS
  Main = main
  Callers = {main}
  RingEntries = 1
  MaxWrites = 4
  FsyncMayFail = FALSE
  MayRestart = TRUE
SPECIFICATION Spec
INVARIANT ReadmeLossBound
