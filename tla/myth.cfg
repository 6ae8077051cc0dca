CONSTANTS
  MaxCalls = 2
  Pages = 0
  Builds = {"socket", "semaphore"}
SPECIFICATION MythSpec
CHECK_DEADLOCK FALSE
INVARIANTS ServerIsTaken
