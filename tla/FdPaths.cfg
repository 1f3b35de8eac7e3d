CONSTANTS
  Threads = {t1, t2}
  Dirs = {a, b}
  Fds = {3, 4}
  None = none
SYMMETRY Symmetry
SPECIFICATION Spec
INVARIANTS TypeOK NamesMatch CacheNames
CHECK_DEADLOCK FALSE
