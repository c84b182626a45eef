\* Chains of up to three nodes, and a second one.
SPECIFICATION Spec
CONSTANTS
  Addrs         = {a1, a2, a3}
  SourceTypes   = {1, 2}
  TargetTypes   = {1, 2}
  TargetClasses = {1, 2}
  AvKinds       = {"allowed"}
  TypeKinds     = {"transition"}
  XpermKinds    = {"xperms_allowed"}
  Buckets       = {"b1", "b2"}
  Hash          <- MCHash
INVARIANTS
  TableSound
  SearchFindsAll
PROPERTIES
  ImplementsNodeSet
