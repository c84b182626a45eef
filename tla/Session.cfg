\* Two runs at once.
SPECIFICATION Spec
CONSTANTS
  Invocations = {p1, p2}
  Commands    <- MCCommands
  Files       <- MCFiles
  RuleFiles   <- MCRuleFiles
  Rules       <- MCRules
  Statements  <- MCStatements
  MagiskRules <- MCMagiskRules
  Disks       <- MCDisks
INVARIANTS
  SavedIsWhole
PROPERTIES
  AllOrNothing
  NothingFromTornFiles
  LiveKeepsRules
  EveryRunEnds
CHECK_DEADLOCK FALSE
