SPECIFICATION FtSpec
CONSTANTS
  Keys = {"cache"}
  Types = {1, 2, 3}
  MaxChain = 3
  Files <- MCFiles
INVARIANTS
  CountIsEntries
  ReloadSettles
PROPERTIES
  AddedWins
  NothingLost
CHECK_DEADLOCK FALSE
