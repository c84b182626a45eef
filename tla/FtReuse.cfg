SPECIFICATION FtSpec
CONSTANTS
  Keys = {"cache"}
  Types = {1, 2, 3}
  MaxChain = 3
  Files <- MCFiles
INVARIANT NodesAreReused
CHECK_DEADLOCK FALSE
