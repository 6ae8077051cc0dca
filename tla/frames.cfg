CONSTANTS
  PageCount = 2
  Blocks = {b1, b2, b3}
  Slots = 3
  Bursts = {1, 3}
  Threads = FALSE
  Realloc = TRUE
  MaxPics = 4
SPECIFICATION Spec
SYMMETRY BlockPermutations
INVARIANTS TypeOK PoolSound PageReported
PROPERTIES PageKept ImplementsQueue
CHECK_DEADLOCK FALSE
