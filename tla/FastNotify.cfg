CONSTANTS
  Main = main
  Callers = {main, bio}
  RingEntries = 2
  MaxUpdates = 2
  IoMayFail = TRUE
SPECIFICATION FairSpec
INVARIANTS TypeOK AckedDurable OneEach
PROPERTIES EveryWriteAcked PromiseSpec
CHECK_DEADLOCK FALSE
