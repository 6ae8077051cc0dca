CONSTANTS
  Threads = {t1, t2}
  Main = t1
  Blocks = {b1, b2, b3}
  NULL = NULL
  MaxSpoiled = 1
SPECIFICATION FairSpec
CHECK_DEADLOCK FALSE
INVARIANTS TypeOK OneAtTheList ListIntact
PROPERTIES GCEnds
