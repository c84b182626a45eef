SPECIFICATION TypeSpec
CONSTANTS
  Names = {"app", "init", "init_alias", "domain", "new1", "new2"}
  Roles = {"r", "object_r"}
  Exprs = {"attr", "type", "except"}
  MaxTypes = 5
  Loaded <- MCLoaded
INVARIANTS
  TypesSound
  MapsTransposed
  ConstraintsExpanded
PROPERTIES
  ContextsStayValid
  ReloadKeepsMaps
