CONSTANTS
  MaxCalls = 3
  Pages = 1
  Builds = {"socket", "semaphore", "mingw"}
SPECIFICATION FairSpec
CHECK_DEADLOCK FALSE
INVARIANTS TypeOK Lag InStep
PROPERTIES Exclusive CallReturns NoOrphan ImplementsSync
