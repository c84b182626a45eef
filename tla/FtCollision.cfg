SPECIFICATION FtSpec
CONSTANTS
  Keys = {"cache"}
  Types = {1, 2, 3}
  MaxChain = 3
  Files <- NewFiles
INVARIANT SavedPolicyLoads
CHECK_DEADLOCK FALSE
