SPECIFICATION Spec
CONSTANTS
  Perms <- MCPerms
  Bits <- MCBits
  Width = 3
  ContextType <- MCContextType
  CommaContexts = {"c_cats"}
  Policies <- MCPolicies
  Bare <- MCBare
  Rules <- MCRules
  Texts <- MCTexts
  MaxStatements = 3
INVARIANTS
  RuleIsProduct
  ReplayChangesNothing
  DumpRestores
CHECK_DEADLOCK FALSE
