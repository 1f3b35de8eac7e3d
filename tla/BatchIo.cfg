CONSTANTS
  PatchSizes = {0, 1, 2, 3}
  RingEntries = 4
  MaxUpdates = 6
  MaxStarts = 1
  IoMayFail = TRUE
SPECIFICATION FairSpec
INVARIANTS TypeOK NoHang PrefixBetweenBatches LossBound
PROPERTIES EveryCallReturns PromiseSpec
CHECK_DEADLOCK FALSE
