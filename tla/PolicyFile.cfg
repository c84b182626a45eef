SPECIFICATION MCSpec
CONSTANTS
  Versions = {15, 16, 17, 19, 20, 21, 22, 23, 24, 25, 26, 27, 28, 29, 30, 31, 33}
  MaxEdits = 2
  Loaded <- MCLoaded
  Names = {"new"}
  Perms = {1, 2}
  Drivers = {2, 137}
  Pairs <- MCPairs
  TypeClass = "file"
  Paths = {"n", "/sys"}
INVARIANTS
  ReadInStep
  RefusedOnlyFor
  CarriesAll
  SameDecisions
CHECK_DEADLOCK FALSE
