CONSTANTS
  Threads = {t1, t2}
  Structs = {s1, s2}
  NULL = NULL
  Recursive = TRUE
  Lazy = TRUE
  Dirty = TRUE
  MaxVisits = 3
SPECIFICATION FairSpec
CHECK_DEADLOCK FALSE
INVARIANTS TypeOK NeverStuck
PROPERTIES EnterReturns
