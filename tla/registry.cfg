CONSTANTS
  Roots = {HKLM}
  a = a
  ab = ab
  Keys <- MCKeys
  Longer <- MCLonger
  Values = {"one", "two", "long"}
  DIR = "dir"
  BLANK = BLANK
  Size <- MCSize
  MaxHandles = 2
  MaxEntries = 4
  MaxPath = 2
SPECIFICATION RegistrySpec
INVARIANTS RegistryTypeOK ValuesKept
