CONSTANTS
  Procs = {p1, p2}
  Nobody = nobody
  BufSize = 2
  Counts = {2}
  MaxEntries = 3
  MaxChanges = 1
  MaxExtra = 1
SPECIFICATION FairSpec
INVARIANTS TypeOK ListingRight NoGarbage
PROPERTY ListingEnds
CHECK_DEADLOCK FALSE
