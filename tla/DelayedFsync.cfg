CONSTANTS
  Main = main
  Callers = {main, bio}
  RingEntries = 2
  MaxWrites = 4
  FsyncMayFail = TRUE
  MayRestart = TRUE
SPECIFICATION FairSpec
INVARIANTS TypeOK LossBound NoHang RingBound
PROPERTIES EveryWriteAcked PromiseSpec
