SPECIFICATION MCSpec
CONSTANTS
  Names = {"app", "domain", "new"}
  Roles = {"r"}
  Exprs = {}
  MaxTypes = 3
  Loaded <- MCLoaded
  Classes = {"file"}
  Bits = {1, 2, 3}
  Perms <- MCPerms
  AvFiles <- MCAvFiles
  Statements = {"allow", "deny", "auditallow", "dontaudit"}
  Any = Any
  MaxStatements = 2
INVARIANTS
  RulesSound
PROPERTIES
  DenyAllRevokes
  OnlyAllowGrants
  NewTypeHasNoAccess
  ImplementsMatrix
CHECK_DEADLOCK FALSE
