CONSTANTS
  Threads = {t1, t2}
  Structs = {s1}
  NULL = NULL
  Recursive = FALSE
  Lazy = FALSE
  Dirty = FALSE
  MaxVisits = 2
SPECIFICATION Spec
CHECK_DEADLOCK FALSE
INVARIANTS MutualExclusion
