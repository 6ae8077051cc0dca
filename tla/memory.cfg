CONSTANTS
  Top = 8
  PAGE = 2
  GRAN = 4
  Images = {"codec", "lib"}
  Base <- MCBase
  Fixed = {"lib"}
  VmaSize = 4
  Sizes = {1, 2, 3}
  Wanted = {0, 5, 6, 7}
  Names = {n}
  CODEC = CODEC
  MaxHolds = 3
  MaxViews = 2
SPECIFICATION Spec
CHECK_DEADLOCK FALSE
INVARIANTS TypeOK Tracked HoldsExact CommitSucceeds
