CONSTANTS
  Dlls = {"codec", "lib"}
  Within <- MCWithin
  Imports <- MCImports
  PatchedDlls = {"codec"}
  Drivers = {d1, d2}
  MaxLoads = 3
  MaxHeld = 1
  MaxDepth = 4
SPECIFICATION ModuleSpec
CHECK_DEADLOCK FALSE
INVARIANTS ModuleTypeOK ListExact UsersAlive AllGone
