CONSTANTS
  Formats = {rgb24, yuy2}
  RGB24 = rgb24
  Allocs = {a1, a2}
  NULL = NULL
  MaxRefs = 1
SPECIFICATION Spec
CHECK_DEADLOCK FALSE
INVARIANTS TypeOK CountsExact NothingDangles Working FormatKept
