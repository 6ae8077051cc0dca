CONSTANTS
  Threads = {t1, t2, t3}
  Objects = {o1}
  NULL = NULL
  Kinds = {"event", "semaphore", "mutex"}
  Durations = {"poll", "infinite", "timed"}
  Reenter = FALSE
  MaxCount = 2
  MaxWaits = 2
SPECIFICATION FairSpec
CHECK_DEADLOCK FALSE
INVARIANTS TypeOK MutexExclusive NoneForgotten
PROPERTIES MutexGranted
