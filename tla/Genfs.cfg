SPECIFICATION MCSpec
CONSTANTS
  FsTypes = {1, 2}
  Paths <- MCPaths
  Classes = {1, 2}
  Contexts = {"x", "y"}
  Files <- MCFiles
  MaxStatements = 4
INVARIANTS
  SavedGenfsLoads
  LongestNameWins
PROPERTIES
  StatementRelabels
