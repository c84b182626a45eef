---------------------------- MODULE AvRules_proofs ----------------------------
(***************************************************************************)
(* Proofs about the type table, the rules over it, and their table.        *)
(*                                                                         *)
(* PolicyTypes: five of its invariants support each other, the rows stay   *)
(* well formed because values are distinct, the maps stay within bounds    *)
(* because values do, so they are proved together, as TypeInv.             *)
(* ConstraintInv adds the constraints.                                     *)
(*                                                                         *)
(* AvRules: the rules stay within the type table, no node that says        *)
(* nothing survives a statement, a new type starts without any access, a   *)
(* deny for everybody leaves nobody the permission, only allow and         *)
(* typeattribute grant, and the sparse table implements RuleMatrix.  They  *)
(* rest on the type table being consistent.                                *)
(*                                                                         *)
(* Avtab, the table behind those rules: its chains stay sorted, with each  *)
(* node in one place, in the chain of its key, and the counter is right    *)
(* (TableInv); so a search misses nothing, and the table is a NodeSet.     *)
(***************************************************************************)
EXTENDS AvRules, Avtab, FiniteSetTheorems, TLAPS

TypeInv == TypeTypeOK /\ ValuesDistinct /\ MapsTransposed /\ RowsWellFormed
                      /\ CacheIsRoleTypes

(***************************************************************************)
(* The sets of values of a table, and what one more name does to them.     *)
(***************************************************************************)
LEMMA ValuesOfTable ==
  ASSUME NEW tab
  PROVE  /\ AttribValues(tab) \subseteq Declared(tab)
         /\ SimpleValues(tab) \subseteq Declared(tab)
BY DEF AttribValues, SimpleValues, Declared

\* In a consistent table a value is a type's or an attribute's, never both.
LEMMA FlavorOfValue ==
  ASSUME NEW tab, IsTypeTable(tab),
         \A n, m \in DOMAIN tab : tab[n].value = tab[m].value =>
                                     tab[n].flavor = tab[m].flavor
  PROVE  /\ AttribValues(tab) \cap SimpleValues(tab) = {}
         /\ Declared(tab) = AttribValues(tab) \cup SimpleValues(tab)
<1>1. \A n \in DOMAIN tab : tab[n].flavor \in {TYPE_TYPE, TYPE_ATTRIB}
  BY DEF IsTypeTable, Datum, Flavors
<1>2. TYPE_TYPE # TYPE_ATTRIB
  BY DEF TYPE_TYPE, TYPE_ATTRIB
<1> QED
  BY <1>1, <1>2 DEF AttribValues, SimpleValues, Declared

\* A loaded table has all its values within the arrays.
LEMMA LoadedFile ==
  ASSUME NEW f \in Loaded, Read(f)
  PROVE  TypeInv
<1>1. CompilerWrote(f)
  BY LoadedAssumption
<1> DEFINE tab == f.types
<1>2. /\ IsTypeTable(tab)
      /\ f.nprim \in 0..MaxTypes
      /\ Declared(tab) \subseteq 1..f.nprim
      /\ \A n, m \in DOMAIN tab : tab[n].value = tab[m].value =>
            /\ tab[n].flavor = tab[m].flavor
            /\ tab[n].primary /\ tab[m].primary => n = m
      /\ f.attrs \in [Values -> SUBSET AttribValues(tab)]
      /\ \A v \in Values \ SimpleValues(tab) : f.attrs[v] \subseteq {v}
      /\ f.permissive \subseteq SimpleValues(tab)
      /\ f.roles \in [Roles -> SUBSET SimpleValues(tab)]
      /\ f.exprs \in [Exprs -> TypeSet]
  BY <1>1 DEF CompilerWrote
<1>3. /\ AttribValues(tab) \cap SimpleValues(tab) = {}
      /\ Declared(tab) = AttribValues(tab) \cup SimpleValues(tab)
  BY <1>2, FlavorOfValue
<1>4. 1..f.nprim \subseteq Values
  BY <1>2, MaxTypesAssumption DEF Values
<1> HIDE DEF tab
<1>5. /\ types = tab /\ nprim = f.nprim
      /\ type_attr_map = ReadTypeAttrMap(tab, nprim, f.attrs)
      /\ attr_type_map = ReadAttrTypeMap(tab, nprim, f.attrs)
      /\ permissive_map = f.permissive
      /\ role_types = f.roles
      /\ role_cache = [r \in Roles |-> RoleCache(tab, f.roles[r])]
      /\ constraints = f.exprs
  BY DEF Read, tab
<1>6. TypeTypeOK
  <2>1. type_attr_map \in [1..nprim -> SUBSET (1..nprim)]
    BY <1>2, <1>3, <1>4, <1>5 DEF ReadTypeAttrMap
  <2>2. attr_type_map \in [1..nprim -> SUBSET (1..nprim)]
    BY <1>2, <1>5 DEF ReadAttrTypeMap
  <2>3. permissive_map \subseteq 1..nprim
    BY <1>2, <1>3, <1>5
  <2>4. role_types \in [Roles -> SUBSET (1..nprim)]
    BY <1>2, <1>3, <1>5
  <2>5. role_cache \in [Roles -> SUBSET (1..nprim)]
    BY <1>5, <2>4 DEF RoleCache
  <2> QED
    BY <1>2, <1>5, <2>1, <2>2, <2>3, <2>4, <2>5 DEF TypeTypeOK
<1>7. ValuesDistinct
  BY <1>2, <1>5 DEF ValuesDistinct
<1>8. MapsTransposed
  <2> SUFFICES ASSUME NEW t \in 1..nprim, NEW a \in 1..nprim, t # a
               PROVE  a \in type_attr_map[t] <=> t \in attr_type_map[a]
    BY DEF MapsTransposed
  <2>1. a \in type_attr_map[t] <=> a \in f.attrs[t]
    BY <1>5 DEF ReadTypeAttrMap
  <2>2. t \in attr_type_map[a] <=> a \in f.attrs[t]
    BY <1>5 DEF ReadAttrTypeMap
  <2> QED
    BY <2>1, <2>2
<1>9. RowsWellFormed
  <2> SUFFICES ASSUME NEW v \in Declared(types)
               PROVE  /\ v \in type_attr_map[v]
                      /\ type_attr_map[v] \ {v} \subseteq AttribValues(types)
                      /\ v \in AttribValues(types) => type_attr_map[v] = {v}
    BY DEF RowsWellFormed
  <2>1. v \in 1..nprim /\ v \in Values
    BY <1>2, <1>4, <1>5
  <2>2. type_attr_map[v] = f.attrs[v] \cup {v}
    BY <1>5, <2>1 DEF ReadTypeAttrMap
  <2>3. v \in AttribValues(types) => f.attrs[v] \subseteq {v}
    BY <1>2, <1>3, <1>5, <2>1
  <2> QED
    BY <1>2, <1>5, <2>1, <2>2, <2>3
<1>10. CacheIsRoleTypes
  BY <1>2, <1>5 DEF CacheIsRoleTypes, RoleCache
<1> QED
  BY <1>6, <1>7, <1>8, <1>9, <1>10 DEF TypeInv

(***************************************************************************)
(* One lemma per operation.                                                *)
(***************************************************************************)
\* A fresh name with a fresh value adds that value to the sets of its flavor.
LEMMA TableWithName ==
  ASSUME TypeInv, NEW name \in Names, NEW flavor \in Flavors,
         AddType(name, flavor)
  PROVE  /\ nprim' = nprim + 1 /\ nprim + 1 \in 1..MaxTypes
         /\ IsTypeTable(types)'
         /\ Declared(types)' = Declared(types) \cup {nprim + 1}
         /\ nprim + 1 \notin Declared(types)
         /\ AttribValues(types) \subseteq AttribValues(types)'
         /\ AttribValues(types)' \subseteq AttribValues(types) \cup {nprim + 1}
         /\ ValuesDistinct'
<1> DEFINE v == nprim + 1
           d == [value |-> v, flavor |-> flavor, primary |-> TRUE]
<1>1. /\ nprim \in 0..MaxTypes /\ nprim < MaxTypes
      /\ IsTypeTable(types) /\ Declared(types) \subseteq 1..nprim
      /\ name \notin DOMAIN types
  BY DEF TypeInv, TypeTypeOK, ValuesDistinct, AddType
<1>2. /\ nprim' = v
      /\ types' = [n \in DOMAIN types \cup {name} |-> IF n = name THEN d ELSE types[n]]
  BY DEF AddType, NewValue
<1>3. v \in 1..MaxTypes /\ v \notin 1..nprim
  BY <1>1, MaxTypesAssumption
<1>4. d \in Datum
  BY <1>3 DEF Datum, Values
<1>5. /\ DOMAIN types' = DOMAIN types \cup {name}
      /\ types'[name] = d
      /\ \A n \in DOMAIN types : types'[n] = types[n] /\ n # name
      /\ \A n \in DOMAIN types : types[n].value \in Declared(types)
  BY <1>1, <1>2 DEF Declared
<1> HIDE DEF d
<1>6. d.value = v /\ d.flavor = flavor /\ d.primary = TRUE
  BY DEF d
<1>7. IsTypeTable(types')
  BY <1>1, <1>2, <1>4, <1>5 DEF IsTypeTable
<1>8. Declared(types') = Declared(types) \cup {v}
  BY <1>5, <1>6 DEF Declared
<1>9. /\ AttribValues(types) \subseteq AttribValues(types')
      /\ AttribValues(types') \subseteq AttribValues(types) \cup {v}
  <2>1. \A tab, x : x \in AttribValues(tab) <=>
           \E n \in DOMAIN tab : tab[n].flavor = TYPE_ATTRIB /\ tab[n].value = x
    BY DEF AttribValues
  <2>2. ASSUME NEW x \in AttribValues(types')
        PROVE  x \in AttribValues(types) \cup {v}
    <3>1. PICK n \in DOMAIN types' : types'[n].flavor = TYPE_ATTRIB
                                     /\ types'[n].value = x
      BY <2>1, <2>2
    <3> QED
      BY <1>5, <1>6, <2>1, <3>1
  <2>3. ASSUME NEW x \in AttribValues(types)
        PROVE  x \in AttribValues(types')
    BY <1>5, <2>1, <2>3
  <2> QED
    BY <2>2, <2>3
<1>10. ValuesDistinct'
  <2>1. Declared(types') \subseteq 1..(nprim')
    <3>1. 1..v = 1..nprim \cup {v}
      BY <1>1
    <3> QED
      BY <1>1, <1>2, <1>8, <3>1
  <2>2. ASSUME NEW n \in DOMAIN types', NEW m \in DOMAIN types',
               types'[n].value = types'[m].value
        PROVE  /\ types'[n].flavor = types'[m].flavor
               /\ types'[n].primary /\ types'[m].primary => n = m
    <3>1. CASE n = name /\ m = name
      BY <3>1
    <3>2. CASE n = name /\ m # name
      BY <1>1, <1>3, <1>5, <1>6, <2>2, <3>2
    <3>3. CASE n # name /\ m = name
      BY <1>1, <1>3, <1>5, <1>6, <2>2, <3>3
    <3>4. CASE n # name /\ m # name
      BY <1>5, <2>2, <3>4 DEF TypeInv, ValuesDistinct
    <3> QED
      BY <3>1, <3>2, <3>3, <3>4
  <2> QED
    BY <2>1, <2>2 DEF ValuesDistinct
<1> QED
  BY <1>1, <1>2, <1>3, <1>7, <1>8, <1>9, <1>10

LEMMA AddTypeKeepsInv ==
  ASSUME TypeInv, NEW name \in Names, NEW flavor \in Flavors,
         AddType(name, flavor)
  PROVE  TypeInv'
<1> DEFINE v == nprim + 1
<1>1. /\ nprim' = v /\ v \in 1..MaxTypes
      /\ IsTypeTable(types)'
      /\ Declared(types)' = Declared(types) \cup {v}
      /\ v \notin Declared(types)
      /\ AttribValues(types) \subseteq AttribValues(types)'
      /\ AttribValues(types)' \subseteq AttribValues(types) \cup {v}
      /\ ValuesDistinct'
  BY TableWithName
<1>2. /\ nprim \in 0..MaxTypes
      /\ type_attr_map \in [1..nprim -> SUBSET (1..nprim)]
      /\ attr_type_map \in [1..nprim -> SUBSET (1..nprim)]
      /\ permissive_map \subseteq 1..nprim
      /\ role_types \in [Roles -> SUBSET (1..nprim)]
      /\ role_cache \in [Roles -> SUBSET (1..nprim)]
      /\ constraints \in [Exprs -> TypeSet]
      /\ Declared(types) \subseteq 1..nprim
  BY DEF TypeInv, TypeTypeOK, ValuesDistinct
<1>3. /\ type_attr_map' = [w \in 1..v |-> IF w = v THEN {v} ELSE type_attr_map[w]]
      /\ attr_type_map' = [w \in 1..v |-> IF w = v THEN {} ELSE attr_type_map[w]]
      /\ role_types' = [r \in Roles |-> role_types[r] \cup {v}]
      /\ role_cache' = role_types'
      /\ UNCHANGED <<permissive_map, constraints>>
  BY DEF AddType, NewValue, OwnRow, RoleTypesWith, RoleCacheWith
<1>4. /\ 1..v = 1..nprim \cup {v} /\ v \notin 1..nprim
      /\ \A w \in 1..nprim : /\ type_attr_map'[w] = type_attr_map[w]
                             /\ attr_type_map'[w] = attr_type_map[w]
      /\ type_attr_map'[v] = {v} /\ attr_type_map'[v] = {}
  <2>1. 1..v = 1..nprim \cup {v} /\ v \notin 1..nprim
    BY <1>2
  <2> QED
    BY <1>3, <2>1
<1> HIDE DEF v
<1>5. TypeTypeOK'
  <2>1. type_attr_map' \in [1..v -> SUBSET (1..v)]
    BY <1>2, <1>3, <1>4
  <2>2. attr_type_map' \in [1..v -> SUBSET (1..v)]
    BY <1>2, <1>3, <1>4
  <2>3. role_types' \in [Roles -> SUBSET (1..v)]
    BY <1>2, <1>3, <1>4
  <2>4. permissive_map' \subseteq 1..v
    BY <1>2, <1>3, <1>4
  <2>5. v \in 0..MaxTypes
    BY <1>1, MaxTypesAssumption
  <2> QED
    BY <1>1, <1>2, <1>3, <2>1, <2>2, <2>3, <2>4, <2>5 DEF TypeTypeOK
<1>6. MapsTransposed'
  <2> SUFFICES ASSUME NEW t \in 1..v, NEW a \in 1..v, t # a
               PROVE  a \in type_attr_map'[t] <=> t \in attr_type_map'[a]
    BY <1>1 DEF MapsTransposed
  <2>1. CASE t = v
    BY <1>2, <1>4, <2>1
  <2>2. CASE a = v
    BY <1>2, <1>4, <2>2
  <2>3. CASE t # v /\ a # v
    BY <1>4, <2>3 DEF TypeInv, MapsTransposed
  <2> QED
    BY <2>1, <2>2, <2>3
<1>7. RowsWellFormed'
  <2> SUFFICES ASSUME NEW w \in Declared(types)'
               PROVE  /\ w \in type_attr_map'[w]
                      /\ type_attr_map'[w] \ {w} \subseteq AttribValues(types)'
                      /\ w \in AttribValues(types)' => type_attr_map'[w] = {w}
    BY DEF RowsWellFormed
  <2>1. CASE w = v
    BY <1>4, <2>1
  <2>2. CASE w # v
    <3>1. w \in Declared(types) /\ w \in 1..nprim
      BY <1>1, <1>2, <2>2
    <3>2. /\ w \in type_attr_map[w]
          /\ type_attr_map[w] \ {w} \subseteq AttribValues(types)
          /\ w \in AttribValues(types) => type_attr_map[w] = {w}
      BY <3>1 DEF TypeInv, RowsWellFormed
    <3> QED
      BY <1>1, <1>4, <2>2, <3>1, <3>2
  <2> QED
    BY <2>1, <2>2
<1>8. CacheIsRoleTypes'
  BY <1>3 DEF CacheIsRoleTypes
<1> QED
  BY <1>1, <1>5, <1>6, <1>7, <1>8 DEF TypeInv

LEMMA SetTypeStateKeepsInv ==
  ASSUME TypeInv, NEW name \in Names, NEW p \in BOOLEAN, SetTypeState(name, p)
  PROVE  TypeInv'
<1>1. types[name].value \in 1..nprim
  BY DEF SetTypeState, TypeInv, ValuesDistinct, Declared
<1>2. permissive_map' \subseteq 1..nprim
  BY <1>1 DEF SetTypeState, TypeInv, TypeTypeOK
<1>3. UNCHANGED <<types, nprim, type_attr_map, attr_type_map,
                  role_types, role_cache, constraints>>
  BY DEF SetTypeState
<1> QED
  BY <1>2, <1>3 DEF TypeInv, TypeTypeOK, ValuesDistinct, MapsTransposed,
                    RowsWellFormed, CacheIsRoleTypes

LEMMA SetAllTypesStateKeepsInv ==
  ASSUME TypeInv, NEW p \in BOOLEAN, SetAllTypesState(p)
  PROVE  TypeInv'
<1>1. permissive_map' \subseteq 1..nprim
  BY DEF SetAllTypesState, AllTypes, TypeInv, TypeTypeOK
<1>2. UNCHANGED <<types, nprim, type_attr_map, attr_type_map,
                  role_types, role_cache, constraints>>
  BY DEF SetAllTypesState
<1> QED
  BY <1>1, <1>2 DEF TypeInv, TypeTypeOK, ValuesDistinct, MapsTransposed,
                    RowsWellFormed, CacheIsRoleTypes

LEMMA AddTypeAttributeKeepsInv ==
  ASSUME TypeInv, NEW name \in Names, NEW attr \in Names,
         AddTypeAttribute(name, attr)
  PROVE  TypeInv'
<1> DEFINE t == types[name].value
           a == types[attr].value
<1>1. /\ t \in SimpleValues(types) /\ a \in AttribValues(types)
      /\ t \in Declared(types) /\ a \in Declared(types)
  BY ValuesOfTable DEF AddTypeAttribute, SimpleValues, AttribValues, Declared
<1>2. /\ t \in 1..nprim /\ a \in 1..nprim
      /\ t \notin AttribValues(types) /\ t # a
  <2>1. AttribValues(types) \cap SimpleValues(types) = {}
    BY FlavorOfValue DEF TypeInv, TypeTypeOK, ValuesDistinct
  <2> QED
    BY <1>1, <2>1 DEF TypeInv, ValuesDistinct
<1>3. /\ type_attr_map' = [type_attr_map EXCEPT ![t] = @ \cup {a}]
      /\ attr_type_map' = [attr_type_map EXCEPT ![a] = @ \cup {t}]
      /\ constraints' =
           [e \in Exprs |-> IF a \in constraints[e].types
                            THEN [constraints[e] EXCEPT !.names = @ \cup {t}]
                            ELSE constraints[e]]
      /\ UNCHANGED <<types, nprim, permissive_map, role_types, role_cache>>
  BY DEF AddTypeAttribute, AttrTypeMapWith, ConstraintsWith
<1> HIDE DEF t, a
<1>4. /\ type_attr_map \in [1..nprim -> SUBSET (1..nprim)]
      /\ attr_type_map \in [1..nprim -> SUBSET (1..nprim)]
      /\ constraints \in [Exprs -> TypeSet]
      /\ nprim \in 0..MaxTypes
  BY DEF TypeInv, TypeTypeOK
<1>5. TypeTypeOK'
  <2>1. type_attr_map' \in [1..nprim -> SUBSET (1..nprim)]
    BY <1>2, <1>3, <1>4
  <2>2. attr_type_map' \in [1..nprim -> SUBSET (1..nprim)]
    BY <1>2, <1>3, <1>4
  <2>3. constraints' \in [Exprs -> TypeSet]
    <3> SUFFICES ASSUME NEW e \in Exprs
                 PROVE  constraints'[e] \in TypeSet
      BY <1>3
    <3>1. constraints[e] \in TypeSet /\ t \in Values
      BY <1>2, <1>4, MaxTypesAssumption DEF Values
    <3>2. [constraints[e] EXCEPT !.names = @ \cup {t}] \in TypeSet
      BY <3>1 DEF TypeSet
    <3> QED
      BY <1>3, <3>1, <3>2
  <2> QED
    BY <1>3, <2>1, <2>2, <2>3 DEF TypeInv, TypeTypeOK
<1>6. MapsTransposed'
  <2> SUFFICES ASSUME NEW u \in 1..nprim, NEW b \in 1..nprim, u # b
               PROVE  b \in type_attr_map'[u] <=> u \in attr_type_map'[b]
    BY <1>3 DEF MapsTransposed
  <2>1. b \in type_attr_map[u] <=> u \in attr_type_map[b]
    BY DEF TypeInv, MapsTransposed
  <2>2. type_attr_map'[u] = IF u = t THEN type_attr_map[u] \cup {a} ELSE type_attr_map[u]
    BY <1>3, <1>4
  <2>3. attr_type_map'[b] = IF b = a THEN attr_type_map[b] \cup {t} ELSE attr_type_map[b]
    BY <1>3, <1>4
  <2> QED
    BY <2>1, <2>2, <2>3
<1>7. RowsWellFormed'
  <2> SUFFICES ASSUME NEW w \in Declared(types)
               PROVE  /\ w \in type_attr_map'[w]
                      /\ type_attr_map'[w] \ {w} \subseteq AttribValues(types)
                      /\ w \in AttribValues(types) => type_attr_map'[w] = {w}
    BY <1>3 DEF RowsWellFormed
  <2>1. w \in 1..nprim
    BY DEF TypeInv, ValuesDistinct
  <2>2. /\ w \in type_attr_map[w]
        /\ type_attr_map[w] \ {w} \subseteq AttribValues(types)
        /\ w \in AttribValues(types) => type_attr_map[w] = {w}
    BY DEF TypeInv, RowsWellFormed
  <2>3. type_attr_map'[w] = IF w = t THEN type_attr_map[w] \cup {a} ELSE type_attr_map[w]
    BY <1>3, <1>4, <2>1
  <2> QED
    BY <1>1, <1>2, <2>2, <2>3
<1> QED
  BY <1>3, <1>5, <1>6, <1>7 DEF TypeInv, ValuesDistinct, CacheIsRoleTypes

LEMMA ReloadKeepsInv ==
  ASSUME TypeInv, ReloadTypes
  PROVE  TypeInv' /\ type_attr_map' = type_attr_map
<1>1. /\ type_attr_map \in [1..nprim -> SUBSET (1..nprim)]
      /\ role_types \in [Roles -> SUBSET (1..nprim)]
      /\ nprim \in 0..MaxTypes
      /\ Declared(types) \subseteq 1..nprim
      /\ \A v \in Declared(types) : v \in type_attr_map[v]
  BY DEF TypeInv, TypeTypeOK, ValuesDistinct, RowsWellFormed
<1>2. /\ type_attr_map' = ReadTypeAttrMap(types, nprim, type_attr_map)
      /\ attr_type_map' = ReadAttrTypeMap(types, nprim, type_attr_map)
      /\ role_cache' = [r \in Roles |-> RoleCache(types, role_types[r])]
      /\ UNCHANGED <<types, nprim, permissive_map, role_types, constraints>>
  BY DEF ReloadTypes
<1>3. type_attr_map' = type_attr_map
  <2>1. \A v \in 1..nprim : type_attr_map'[v] = type_attr_map[v]
    BY <1>1, <1>2 DEF ReadTypeAttrMap
  <2> QED
    BY <1>1, <1>2, <2>1 DEF ReadTypeAttrMap
<1>4. attr_type_map' \in [1..nprim -> SUBSET (1..nprim)]
  BY <1>2 DEF ReadAttrTypeMap
<1>5. role_cache' \in [Roles -> SUBSET (1..nprim)]
  BY <1>1, <1>2 DEF RoleCache
<1>6. TypeTypeOK'
  BY <1>2, <1>3, <1>4, <1>5 DEF TypeInv, TypeTypeOK
<1>7. MapsTransposed'
  <2> SUFFICES ASSUME NEW t \in 1..nprim, NEW a \in 1..nprim, t # a
               PROVE  a \in type_attr_map[t] <=> t \in attr_type_map'[a]
    BY <1>2, <1>3 DEF MapsTransposed
  <2> QED
    BY <1>2 DEF ReadAttrTypeMap
<1>8. CacheIsRoleTypes'
  BY <1>1, <1>2 DEF CacheIsRoleTypes, RoleCache
<1> QED
  BY <1>2, <1>3, <1>6, <1>7, <1>8 DEF TypeInv, ValuesDistinct, RowsWellFormed

LEMMA StepKeepsInv ==
  ASSUME TypeInv, [TypeNext]_typeVars
  PROVE  TypeInv'
<1>1. CASE TypeStep
  BY <1>1, AddTypeKeepsInv, SetTypeStateKeepsInv, SetAllTypesStateKeepsInv,
     AddTypeAttributeKeepsInv DEF TypeStep
<1>2. CASE ReloadTypes
  BY <1>2, ReloadKeepsInv
<1>3. CASE UNCHANGED typeVars
  BY <1>3 DEF typeVars, TypeInv, TypeTypeOK, ValuesDistinct, MapsTransposed,
              RowsWellFormed, CacheIsRoleTypes
<1> QED
  BY <1>1, <1>2, <1>3 DEF TypeNext

(***************************************************************************)
(* Every policy reachable from a loaded one keeps its maps transposed, its *)
(* rows well formed, its values distinct and its role caches faithful, for *)
(* any names, roles, constraints and any number of statements.             *)
(***************************************************************************)
LEMMA TypeInvAlways == TypeSpec => []TypeInv
<1>1. TypeInit => TypeInv
  BY LoadedFile DEF TypeInit
<1>2. TypeInv /\ [TypeNext]_typeVars => TypeInv'
  BY StepKeepsInv
<1> QED
  BY <1>1, <1>2, PTL DEF TypeSpec

\* Type correctness, and the values, rows and caches of the type table.
THEOREM TypeTableCorrect == TypeSpec => []TypesSound
<1>1. TypeInv => TypesSound
  BY DEF TypeInv, TypesSound, TableConsistent
<1> QED
  BY <1>1, TypeInvAlways, PTL

\* The two maps between types and attributes stay transposed to each other.
THEOREM MapsStayTransposed == TypeSpec => []MapsTransposed
<1>1. TypeInv => MapsTransposed
  BY DEF TypeInv
<1> QED
  BY <1>1, TypeInvAlways, PTL

\* The access decisions' map comes back from a file as it was saved.
THEOREM ReloadIsFaithful == TypeSpec => ReloadKeepsMaps
<1>1. ASSUME TypeInv, ReloadTypes
      PROVE  /\ type_attr_map' = type_attr_map
             /\ \A a \in 1..nprim :
                   attr_type_map'[a] \ {a} = attr_type_map[a] \ {a}
  <2>1. type_attr_map' = type_attr_map
    BY <1>1, ReloadKeepsInv
  <2>2. MapsTransposed /\ TypeTypeOK
    BY <1>1 DEF TypeInv
  <2>3. ASSUME NEW a \in 1..nprim
        PROVE  attr_type_map'[a] \ {a} = attr_type_map[a] \ {a}
    <3>1. attr_type_map'[a] \ {a} = {i \in 1..nprim : i # a /\ a \in type_attr_map[i]}
      BY <1>1 DEF ReloadTypes, ReadAttrTypeMap
    <3>2. attr_type_map[a] \subseteq 1..nprim
      BY <2>2 DEF TypeTypeOK
    <3> QED
      BY <2>2, <3>1, <3>2 DEF MapsTransposed
  <2> QED
    BY <2>1, <2>3
<1>2. TypeInv /\ [TypeNext]_typeVars =>
        [ReloadTypes => /\ type_attr_map' = type_attr_map
                        /\ \A a \in 1..nprim :
                              attr_type_map'[a] \ {a} = attr_type_map[a] \ {a}]_typeVars
  BY <1>1
<1> QED
  BY <1>2, TypeInvAlways, PTL DEF TypeSpec, ReloadKeepsMaps

\* What policydb_context_isvalid accepts it accepts after every statement and
\* every save and reload, although sepol_add_type and policydb_role_cache
\* compute the cache in different ways.
THEOREM ValidContextsStay == TypeSpec => ContextsStayValid
<1>1. ASSUME TypeInv, [TypeNext]_typeVars, NEW r \in Roles,
             NEW v \in SimpleValues(types), ContextValid(r, v)
      PROVE  ContextValid(r, v)'
  <2>1. v \notin AttribValues(types)
    BY <1>1, FlavorOfValue DEF TypeInv, TypeTypeOK, ValuesDistinct
  <2>2. v \in role_types[r] /\ v \in role_cache[r]
    BY <1>1, <2>1 DEF TypeInv, CacheIsRoleTypes, ContextValid
  <2>3. CASE \E n \in Names, f \in Flavors : AddType(n, f)
    BY <2>2, <2>3 DEF AddType, RoleCacheWith, RoleTypesWith, ContextValid
  <2>4. CASE ReloadTypes
    BY <2>1, <2>2, <2>4 DEF ReloadTypes, RoleCache, ContextValid
  <2>5. CASE UNCHANGED role_cache
    BY <2>2, <2>5 DEF ContextValid
  <2> QED
    BY <1>1, <2>3, <2>4, <2>5 DEF TypeNext, TypeStep, SetTypeState, SetAllTypesState,
                                  AddTypeAttribute, typeVars
<1>2. TypeInv /\ [TypeNext]_typeVars =>
        [\A r \in Roles, v \in SimpleValues(types) :
           ContextValid(r, v) => ContextValid(r, v)']_typeVars
  BY <1>1
<1> QED
  BY <1>2, TypeInvAlways, PTL DEF TypeSpec, ContextsStayValid

(***************************************************************************)
(* The constraints.  That an expression's names are what its type set      *)
(* stands for needs that the set holds declared values only: a new type    *)
(* would be named by it otherwise.                                         *)
(***************************************************************************)
ExprsDeclared == \A e \in Exprs : constraints[e].types \subseteq Declared(types)
ConstraintInv == TypeInv /\ ExprsDeclared /\ ConstraintsExpanded

\* A type is one of an expression's, or has one of its attributes.
LEMMA ExpansionHas ==
  ASSUME NEW ex, ex.negset = {}, NEW tab, NEW attrs, NEW v
  PROVE  v \in Expansion(ex, tab, attrs) <=>
           /\ v \in SimpleValues(tab)
           /\ v \in ex.types \/ \E a \in attrs[v] : a \in ex.types /\ a \in AttribValues(tab)
BY DEF Expansion

LEMMA LoadedConstraints ==
  ASSUME NEW f \in Loaded, Read(f)
  PROVE  ConstraintInv
<1>1. TypeInv
  BY LoadedFile
<1>2. /\ types = f.types /\ nprim = f.nprim /\ constraints = f.exprs
      /\ type_attr_map = ReadTypeAttrMap(f.types, f.nprim, f.attrs)
  BY DEF Read
<1>3. \A e \in Exprs : /\ f.exprs[e].types \subseteq Declared(f.types)
                       /\ f.exprs[e].names = Expansion(f.exprs[e], f.types, f.attrs)
  BY LoadedAssumption DEF CompilerWrote
<1>4. AttribValues(types) \cap SimpleValues(types) = {}
  BY <1>1, FlavorOfValue DEF TypeInv, TypeTypeOK, ValuesDistinct
<1>5. \A v \in SimpleValues(types) : v \in 1..nprim /\ v \in Declared(types)
  BY <1>1, ValuesOfTable DEF TypeInv, ValuesDistinct
<1>6. \A v \in SimpleValues(types) : type_attr_map[v] = f.attrs[v] \cup {v}
  BY <1>2, <1>5 DEF ReadTypeAttrMap
<1>7. ASSUME NEW e \in Exprs, constraints[e].negset = {}
      PROVE  constraints[e].names = Expansion(constraints[e], types, type_attr_map)
  <2>1. ASSUME NEW v
        PROVE  v \in Expansion(constraints[e], types, f.attrs)
                 <=> v \in Expansion(constraints[e], types, type_attr_map)
    BY <1>4, <1>6, <1>7, ExpansionHas
  <2> QED
    BY <1>2, <1>3, <2>1 DEF Expansion
<1> QED
  BY <1>1, <1>2, <1>3, <1>7 DEF ConstraintInv, ExprsDeclared, ConstraintsExpanded

LEMMA AddTypeKeepsConstraints ==
  ASSUME ConstraintInv, NEW name \in Names, NEW flavor \in Flavors,
         AddType(name, flavor)
  PROVE  ConstraintsExpanded' /\ ExprsDeclared'
<1> DEFINE v == nprim + 1
<1>1. TypeInv /\ TypeInv'
  BY AddTypeKeepsInv DEF ConstraintInv
<1>2. /\ Declared(types)' = Declared(types) \cup {v} /\ v \notin Declared(types)
      /\ AttribValues(types) \subseteq AttribValues(types)'
      /\ AttribValues(types)' \subseteq AttribValues(types) \cup {v}
  BY <1>1, TableWithName
<1>3. /\ Declared(types) = AttribValues(types) \cup SimpleValues(types)
      /\ AttribValues(types) \cap SimpleValues(types) = {}
  BY <1>1, FlavorOfValue DEF TypeInv, TypeTypeOK, ValuesDistinct
<1>4. /\ Declared(types') = AttribValues(types') \cup SimpleValues(types')
      /\ AttribValues(types') \cap SimpleValues(types') = {}
  BY <1>1, FlavorOfValue DEF TypeInv, TypeTypeOK, ValuesDistinct
<1>5. /\ UNCHANGED constraints
      /\ type_attr_map' = [w \in 1..v |-> IF w = v THEN {v} ELSE type_attr_map[w]]
  BY DEF AddType, NewValue, OwnRow
<1>6. nprim \in Nat /\ Declared(types) \subseteq 1..nprim
  BY <1>1, MaxTypesAssumption DEF TypeInv, TypeTypeOK, ValuesDistinct
<1>7. /\ \A w \in Declared(types) : type_attr_map'[w] = type_attr_map[w]
      /\ type_attr_map'[v] = {v}
  <2>1. v \in 1..v /\ \A w \in 1..nprim : w \in 1..v /\ w # v
    BY <1>6
  <2> QED
    BY <1>5, <1>6, <2>1
<1> HIDE DEF v
<1>8. ASSUME NEW e \in Exprs, constraints[e].negset = {}
      PROVE  constraints[e].names = Expansion(constraints[e], types', type_attr_map')
  <2> DEFINE ex == constraints[e]
  <2>1. ex.types \subseteq Declared(types)
    BY DEF ConstraintInv, ExprsDeclared
  <2>2. ASSUME NEW w
        PROVE  w \in Expansion(ex, types, type_attr_map)
                 <=> w \in Expansion(ex, types', type_attr_map')
    <3>1. CASE w = v
      BY <1>2, <1>3, <1>7, <1>8, <2>1, <3>1, ExpansionHas
    <3>2. CASE w # v
      <4>1. w \in SimpleValues(types) <=> w \in SimpleValues(types')
        BY <1>2, <1>3, <1>4, <3>2
      <4>2. \A a \in ex.types : a \in AttribValues(types) <=> a \in AttribValues(types')
        BY <1>2, <2>1
      <4>3. w \in SimpleValues(types) => type_attr_map'[w] = type_attr_map[w]
        BY <1>3, <1>7
      <4> QED
        BY <1>8, <4>1, <4>2, <4>3, ExpansionHas
    <3> QED
      BY <3>1, <3>2
  <2>3. ex.names = Expansion(ex, types, type_attr_map)
    BY <1>8 DEF ConstraintInv, ConstraintsExpanded
  <2> QED
    BY <2>2, <2>3 DEF Expansion
<1> QED
  BY <1>2, <1>5, <1>8 DEF ConstraintInv, ConstraintsExpanded, ExprsDeclared

LEMMA AddTypeAttributeKeepsConstraints ==
  ASSUME ConstraintInv, NEW name \in Names, NEW attr \in Names,
         AddTypeAttribute(name, attr)
  PROVE  ConstraintsExpanded' /\ ExprsDeclared'
<1> DEFINE t == types[name].value
           a == types[attr].value
<1>1. /\ TypeInv
      /\ t \in SimpleValues(types) /\ a \in AttribValues(types)
  BY DEF ConstraintInv, AddTypeAttribute, SimpleValues, AttribValues
<1>2. /\ type_attr_map' = [type_attr_map EXCEPT ![t] = @ \cup {a}]
      /\ constraints' =
           [e \in Exprs |-> IF a \in constraints[e].types
                            THEN [constraints[e] EXCEPT !.names = @ \cup {t}]
                            ELSE constraints[e]]
      /\ UNCHANGED types
  BY DEF AddTypeAttribute, ConstraintsWith
<1>3. /\ type_attr_map \in [1..nprim -> SUBSET (1..nprim)]
      /\ constraints \in [Exprs -> TypeSet]
      /\ SimpleValues(types) \subseteq 1..nprim
  BY <1>1, ValuesOfTable DEF TypeInv, TypeTypeOK, ValuesDistinct
<1> HIDE DEF t, a
<1>4. \A v \in SimpleValues(types) :
        type_attr_map'[v] = IF v = t THEN type_attr_map[v] \cup {a} ELSE type_attr_map[v]
  BY <1>2, <1>3
<1>5. \A e \in Exprs :
        /\ constraints'[e].types = constraints[e].types
        /\ constraints'[e].negset = constraints[e].negset
        /\ constraints'[e].names = IF a \in constraints[e].types
                                   THEN constraints[e].names \cup {t}
                                   ELSE constraints[e].names
  BY <1>2, <1>3 DEF TypeSet
<1>6. ASSUME NEW e \in Exprs, constraints'[e].negset = {}
      PROVE  constraints'[e].names = Expansion(constraints'[e], types', type_attr_map')
  <2>1. /\ constraints[e].negset = {}
        /\ constraints[e].names = Expansion(constraints[e], types, type_attr_map)
    BY <1>5, <1>6 DEF ConstraintInv, ConstraintsExpanded
  <2>2. ASSUME NEW v
        PROVE  v \in constraints'[e].names
                 <=> v \in Expansion(constraints'[e], types, type_attr_map')
    <3>1. v \in constraints[e].names <=>
            /\ v \in SimpleValues(types)
            /\ \/ v \in constraints[e].types
               \/ \E b \in type_attr_map[v] :
                    b \in constraints[e].types /\ b \in AttribValues(types)
      BY <2>1, ExpansionHas
    <3>2. v \in Expansion(constraints'[e], types, type_attr_map') <=>
            /\ v \in SimpleValues(types)
            /\ \/ v \in constraints[e].types
               \/ \E b \in type_attr_map'[v] :
                    b \in constraints[e].types /\ b \in AttribValues(types)
      BY <1>5, <1>6, ExpansionHas
    <3> QED
      BY <1>1, <1>4, <1>5, <3>1, <3>2
  <2> QED
    BY <1>2, <2>2 DEF Expansion
<1> QED
  BY <1>2, <1>5, <1>6 DEF ConstraintInv, ConstraintsExpanded, ExprsDeclared

LEMMA ConstraintStep ==
  ASSUME ConstraintInv, [TypeNext]_typeVars
  PROVE  ConstraintInv'
<1>1. TypeInv'
  BY StepKeepsInv DEF ConstraintInv
<1>2. CASE \E n \in Names, f \in Flavors : AddType(n, f)
  BY <1>1, <1>2, AddTypeKeepsConstraints DEF ConstraintInv
<1>3. CASE \E n, a \in Names : AddTypeAttribute(n, a)
  BY <1>1, <1>3, AddTypeAttributeKeepsConstraints DEF ConstraintInv
<1>4. CASE ReloadTypes
  <2>1. type_attr_map' = type_attr_map /\ UNCHANGED <<types, constraints>>
    BY <1>4, ReloadKeepsInv DEF ConstraintInv, ReloadTypes
  <2> QED
    BY <1>1, <2>1 DEF ConstraintInv, ConstraintsExpanded, ExprsDeclared
<1>5. CASE UNCHANGED <<types, type_attr_map, constraints>>
  BY <1>1, <1>5 DEF ConstraintInv, ConstraintsExpanded, ExprsDeclared
<1> QED
  BY <1>2, <1>3, <1>4, <1>5 DEF TypeNext, TypeStep, SetTypeState, SetAllTypesState, typeVars

\* The expressions sepol_add_typeattribute adds a type to are those whose type
\* set stands for it, whatever new types and attributes there are.
THEOREM ConstraintsStayExpanded == TypeSpec => []ConstraintsExpanded
<1>1. TypeInit => ConstraintInv
  BY LoadedConstraints DEF TypeInit
<1>2. ConstraintInv /\ [TypeNext]_typeVars => ConstraintInv'
  BY ConstraintStep
<1>3. ConstraintInv => ConstraintsExpanded
  BY DEF ConstraintInv
<1> QED
  BY <1>1, <1>2, <1>3, PTL DEF TypeSpec

--------------------------------------------------------------------------------
(***************************************************************************)
(* The rules.                                                              *)
(***************************************************************************)
AvInv == TypeInv /\ AvTypeOK /\ NoRedundantNode

\* A statement reaches declared values only.
LEMMA MatchedDeclared ==
  ASSUME NEW name \in DOMAIN types \cup {Any}, NEW st, ValuesDistinct
  PROVE  /\ Matched(name, st) \subseteq Declared(types)
         /\ Matched(name, st) \subseteq 1..nprim
<1>1. Matched(name, st) \subseteq Declared(types)
  <2>1. CASE name = Any
    BY <2>1, ValuesOfTable DEF Matched
  <2>2. CASE name # Any
    BY <2>2 DEF Matched, Declared
  <2> QED
    BY <2>1, <2>2
<1> QED
  BY <1>1 DEF ValuesDistinct

LEMMA EffectIsEffect == \A st : EffectOf(st) \in AvEffects
BY DEF EffectOf, AvEffects

\* No value is handed out beyond the bound.
LEMMA NprimInValues ==
  ASSUME TypeTypeOK
  PROVE  nprim \in Nat /\ 1..nprim \subseteq Values
BY MaxTypesAssumption DEF TypeTypeOK, Values

\* The keys a statement reaches, and what it makes of them, are those of rules.
LEMMA AddRuleKeepsInv ==
  ASSUME AvInv, NEW st \in Statements, NEW s \in Names \cup {Any},
         NEW t \in Names \cup {Any}, NEW c \in Classes \cup {Any},
         NEW perm \in Bits \cup {Any}, AddRule(st, s, t, c, perm)
  PROVE  AvInv'
<1> DEFINE reach == [source_type : Matched(s, st), target_type : Matched(t, st),
                     target_class : MatchedClasses(c), specified : {EffectOf(st)}]
           new(k) == NewVector(Entry(avtab, k), perm, InvertOf(st))
           keep == (DOMAIN avtab \ reach)
                     \cup {k \in reach : ~IsRedundant(k, new(k))}
<1>1. /\ s \in DOMAIN types \cup {Any} /\ t \in DOMAIN types \cup {Any}
      /\ avtab' = [k \in keep |-> IF k \in reach THEN new(k) ELSE avtab[k]]
      /\ UNCHANGED <<typeVars, type_rules>>
  BY DEF AddRule
<1>2. TypeInv' /\ TypeTypeOK'
  BY <1>1, StepKeepsInv DEF AvInv, TypeInv
<1>3. /\ types' = types /\ nprim' = nprim /\ type_rules' = type_rules
  BY <1>1 DEF typeVars
<1>4. nprim \in Nat /\ 1..nprim \subseteq Values
  BY NprimInValues DEF AvInv, AvTypeOK
<1>5. /\ Matched(s, st) \subseteq 1..nprim /\ Matched(t, st) \subseteq 1..nprim
  BY <1>1, MatchedDeclared DEF AvInv, TypeInv
<1>6. MatchedClasses(c) \subseteq Classes
  BY DEF MatchedClasses
<1>7. \A k \in reach : /\ k \in AvKeys
                       /\ k.source_type \in 1..nprim /\ k.target_type \in 1..nprim
  BY <1>4, <1>5, <1>6, EffectIsEffect DEF AvKeys
<1>8. /\ DOMAIN avtab \subseteq AvKeys
      /\ \A k \in DOMAIN avtab : /\ avtab[k] \in SUBSET Bits
                                 /\ k.source_type \in 1..nprim
                                 /\ k.target_type \in 1..nprim
  BY DEF AvInv, AvTypeOK, KeysDeclared
<1>9. \A k \in reach : new(k) \in SUBSET Bits
  BY <1>8 DEF NewVector, Entry, NoRule
<1>10. DOMAIN avtab' = keep /\ keep \subseteq AvKeys
  BY <1>1, <1>7, <1>8
<1>11. \A k \in keep : /\ avtab'[k] \in SUBSET Bits
                       /\ k.source_type \in 1..nprim /\ k.target_type \in 1..nprim
  BY <1>1, <1>7, <1>8, <1>9
<1>12. \A k \in keep : avtab'[k] # NoRule(k.specified)
  <2>1. ASSUME NEW k \in keep, k \in reach PROVE avtab'[k] # NoRule(k.specified)
    BY <1>1, <2>1 DEF IsRedundant
  <2>2. ASSUME NEW k \in keep, k \notin reach PROVE avtab'[k] # NoRule(k.specified)
    BY <1>1, <2>2 DEF AvInv, NoRedundantNode
  <2> QED
    BY <2>1, <2>2
<1>13. AvTypeOK'
  <2>1. avtab' \in [DOMAIN avtab' -> SUBSET Bits]
    BY <1>1, <1>10, <1>11
  <2>2. KeysDeclared'
    BY <1>3, <1>10, <1>11 DEF AvInv, AvTypeOK, KeysDeclared
  <2> QED
    BY <1>2, <1>3, <1>10, <2>1, <2>2 DEF AvInv, AvTypeOK
<1>14. NoRedundantNode'
  BY <1>10, <1>12 DEF NoRedundantNode
<1> QED
  BY <1>2, <1>13, <1>14 DEF AvInv

LEMMA AddTypeRuleKeepsInv ==
  ASSUME AvInv, NEW e \in TypeEffects, NEW s \in Names, NEW t \in Names,
         NEW d \in Names, NEW c \in Classes, AddTypeRule(e, s, t, c, d)
  PROVE  AvInv'
<1> DEFINE key == Key(types[s].value, types[t].value, c, e)
<1>1. /\ {s, t, d} \subseteq DOMAIN types
      /\ type_rules' = [j \in DOMAIN type_rules \cup {key} |->
                           IF j = key THEN types[d].value ELSE type_rules[j]]
      /\ UNCHANGED <<typeVars, avtab>>
  BY DEF AddTypeRule
<1>2. TypeInv' /\ TypeTypeOK'
  BY <1>1, StepKeepsInv DEF AvInv, TypeInv
<1>3. /\ types' = types /\ nprim' = nprim /\ avtab' = avtab
  BY <1>1 DEF typeVars
<1>4. nprim \in Nat /\ 1..nprim \subseteq Values
  BY NprimInValues DEF AvInv, AvTypeOK
<1>5. {types[s].value, types[t].value, types[d].value} \subseteq 1..nprim
  BY <1>1 DEF AvInv, TypeInv, ValuesDistinct, Declared
<1>6. key \in TypeKeys /\ key.source_type \in 1..nprim /\ key.target_type \in 1..nprim
  BY <1>4, <1>5 DEF Key, TypeKeys
<1>7. /\ DOMAIN type_rules' = DOMAIN type_rules \cup {key}
      /\ \A k \in DOMAIN type_rules' : type_rules'[k] \in 1..nprim
  BY <1>1, <1>5 DEF AvInv, AvTypeOK, KeysDeclared
<1>8. KeysDeclared'
  BY <1>3, <1>6, <1>7 DEF AvInv, AvTypeOK, KeysDeclared
<1>9. AvTypeOK'
  <2>1. DOMAIN type_rules' \subseteq TypeKeys
    BY <1>6, <1>7 DEF AvInv, AvTypeOK
  <2>2. type_rules' \in [DOMAIN type_rules' -> Values]
    BY <1>1, <1>4, <1>7
  <2> QED
    BY <1>2, <1>3, <1>8, <2>1, <2>2 DEF AvInv, AvTypeOK
<1>10. NoRedundantNode'
  BY <1>3 DEF AvInv, NoRedundantNode
<1> QED
  BY <1>2, <1>9, <1>10 DEF AvInv

\* No operation on the type table takes a value back.
LEMMA NprimGrows ==
  ASSUME TypeInv, [TypeNext]_typeVars
  PROVE  nprim \in Nat /\ nprim' \in Nat /\ nprim <= nprim'
<1>1. nprim \in Nat /\ nprim' \in Nat
  BY StepKeepsInv, MaxTypesAssumption DEF TypeInv, TypeTypeOK
<1>2. nprim' = nprim \/ nprim' = nprim + 1
  BY DEF TypeNext, TypeStep, AddType, NewValue, SetTypeState, SetAllTypesState,
         AddTypeAttribute, ReloadTypes, typeVars
<1> QED
  BY <1>1, <1>2

LEMMA TypesKeepInv ==
  ASSUME AvInv, [TypeNext]_typeVars, UNCHANGED ruleVars
  PROVE  AvInv'
<1>1. TypeInv' /\ TypeTypeOK'
  BY StepKeepsInv DEF AvInv, TypeInv
<1>2. avtab' = avtab /\ type_rules' = type_rules
  BY DEF ruleVars
<1>3. 1..nprim \subseteq 1..nprim'
  BY NprimGrows DEF AvInv
<1>4. KeysDeclared'
  BY <1>2, <1>3 DEF AvInv, AvTypeOK, KeysDeclared
<1> QED
  BY <1>1, <1>2, <1>4 DEF AvInv, AvTypeOK, NoRedundantNode

LEMMA NextKeepsAvInv ==
  ASSUME AvInv, [AvNext]_avVars
  PROVE  AvInv'
<1>1. CASE \E st \in Statements, s, t \in Names \cup {Any}, c \in Classes \cup {Any},
              perm \in Bits \cup {Any} : AddRule(st, s, t, c, perm)
  BY <1>1, AddRuleKeepsInv
<1>2. CASE \E e \in TypeEffects, s, t, d \in Names, c \in Classes :
              AddTypeRule(e, s, t, c, d)
  BY <1>2, AddTypeRuleKeepsInv
<1>3. CASE TypeStep /\ UNCHANGED ruleVars
  BY <1>3, TypesKeepInv DEF TypeNext
<1>4. CASE Reload
  BY <1>4, TypesKeepInv DEF Reload, TypeNext
<1>5. CASE UNCHANGED avVars
  BY <1>5, TypesKeepInv DEF avVars
<1> QED
  BY <1>1, <1>2, <1>3, <1>4, <1>5 DEF AvNext

LEMMA InitAvInv == AvInit => AvInv
<1>1. SUFFICES ASSUME AvInit PROVE AvInv
  OBVIOUS
<1>2. PICK f \in Loaded : Read(f)
  BY <1>1 DEF AvInit, TypeInit
<1>3. PICK g \in AvFiles : avtab = g.avtab /\ type_rules = g.type_rules
  BY <1>1 DEF AvInit
<1>4. TypeInv /\ nprim = f.nprim
  BY <1>2, LoadedFile DEF Read
<1>5. RulesWellFormed(avtab, type_rules, nprim)
  BY <1>2, <1>3, <1>4, AvFilesAssumption
<1>6. 1..nprim \subseteq Values
  BY <1>4, NprimInValues DEF TypeInv
<1>7. KeysDeclared
  BY <1>5 DEF RulesWellFormed, KeysDeclared
<1>8. AvTypeOK
  BY <1>4, <1>5, <1>6, <1>7 DEF TypeInv, AvTypeOK, RulesWellFormed
<1> QED
  BY <1>4, <1>5, <1>8 DEF AvInv, RulesWellFormed, NoRedundantNode

LEMMA AvInvAlways == AvSpec => []AvInv
BY InitAvInv, NextKeepsAvInv, PTL DEF AvSpec
--------------------------------------------------------------------------------
\* Every rule names types that were handed out and a class, and its vector has bits
\* of the machine's word only, whatever statements, new types and reloads there
\* were; and no statement leaves a node that says what its absence says:
\* is_redundant is asked after every change, of every key the statement reached.
THEOREM RulesAreSound == AvSpec => []RulesSound
<1>1. AvInv => RulesSound
  BY DEF AvInv, RulesSound
<1> QED
  BY <1>1, AvInvAlways, PTL
--------------------------------------------------------------------------------
(***************************************************************************)
(* What the decisions made of the rules do.                                *)
(***************************************************************************)
\* The rows a decision looks at belong to declared values.
LEMMA RowsDeclared ==
  ASSUME AvInv, NEW s \in Declared(types)
  PROVE  /\ s \in 1..nprim
         /\ type_attr_map[s] \subseteq Declared(types)
         /\ Declared(types) \subseteq 1..nprim
<1>1. s \in type_attr_map[s] /\ type_attr_map[s] \ {s} \subseteq AttribValues(types)
  BY DEF AvInv, TypeInv, RowsWellFormed
<1> QED
  BY <1>1, ValuesOfTable DEF AvInv, TypeInv, ValuesDistinct

\* After deny * * c perm nobody has perm of c.
LEMMA DenyRevokes ==
  ASSUME AvInv, NEW c \in Classes, NEW perm \in Perms[c] \cup {Any},
         AddRule("deny", Any, Any, c, perm),
         NEW s \in Declared(types), NEW t \in Declared(types)
  PROVE  (Allowed(s, t, c))' \cap (IF perm = Any THEN Bits ELSE {perm}) = {}
<1> DEFINE bits == IF perm = Any THEN Bits ELSE {perm}
           reach == [source_type : Declared(types), target_type : Declared(types),
                     target_class : {c}, specified : {AVTAB_ALLOWED}]
           keep == (DOMAIN avtab \ reach)
                     \cup {k \in reach : ~IsRedundant(k, NewVector(Entry(avtab, k), perm, TRUE))}
<1>1. /\ EffectOf("deny") = AVTAB_ALLOWED /\ InvertOf("deny") = TRUE
      /\ Matched(Any, "deny") = Declared(types) /\ MatchedClasses(c) = {c}
  BY ArgsAssumption DEF EffectOf, InvertOf, Matched, MatchedClasses, StripAv,
                        AVTAB_ALLOWED, AVTAB_AUDITDENY
<1>2. /\ avtab' = [k \in keep |-> IF k \in reach
                                  THEN NewVector(Entry(avtab, k), perm, TRUE)
                                  ELSE avtab[k]]
      /\ type_attr_map' = type_attr_map
  BY <1>1 DEF AddRule, typeVars
<1>3. ASSUME NEW i \in type_attr_map[s], NEW j \in type_attr_map[t]
      PROVE  Entry(avtab', Key(i, j, c, AVTAB_ALLOWED)) \cap bits = {}
  <2> DEFINE k == Key(i, j, c, AVTAB_ALLOWED)
  <2>1. k \in reach
    BY RowsDeclared DEF Key
  <2>2. k.specified = AVTAB_ALLOWED
    BY DEF Key
  <2>3. CASE k \in keep
    <3>1. Entry(avtab', k) = NewVector(Entry(avtab, k), perm, TRUE)
      BY <1>2, <2>1, <2>3 DEF Entry
    <3> QED
      BY <3>1 DEF NewVector
  <2>4. CASE k \notin keep
    <3>1. Entry(avtab', k) = {}
      BY <1>2, <2>2, <2>4 DEF Entry, NoRule, AVTAB_ALLOWED, AVTAB_AUDITDENY
    <3> QED
      BY <3>1
  <2> QED
    BY <2>3, <2>4
<1> HIDE DEF bits
<1>4. (Allowed(s, t, c))' =
        UNION {Entry(avtab', k) : k \in {Key(i, j, c, AVTAB_ALLOWED) :
                                  i \in type_attr_map[s], j \in type_attr_map[t]}}
  BY <1>2 DEF Allowed, Rows
<1>5. (Allowed(s, t, c))' \cap bits = {}
  BY <1>3, <1>4
<1> QED
  BY <1>5 DEF bits

\* deny * * takes the permission from every pair of types, those that had it
\* through an attribute included, for any policy and any earlier statements.
THEOREM DenyReachesAll == AvSpec => DenyAllRevokes
<1>1. AvInv /\ [AvNext]_avVars =>
        [\A c \in Classes : \A perm \in Perms[c] \cup {Any} :
           AddRule("deny", Any, Any, c, perm) =>
             \A s, t \in Declared(types) :
                (Allowed(s, t, c))' \cap (IF perm = Any THEN Bits ELSE {perm}) = {}
        ]_avVars
  BY DenyRevokes
<1> QED
  BY <1>1, AvInvAlways, PTL DEF AvSpec, DenyAllRevokes

\* A new value has the row {itself}, and no rule names it.
LEMMA NewTypeIsBare ==
  ASSUME AvInv, [AvNext]_avVars, nprim' > nprim,
         NEW v \in (Declared(types))', NEW c \in Classes
  PROVE  (Allowed(nprim, v, c) = {} /\ Allowed(v, nprim, c) = {})'
<1>1. PICK n \in Names, f \in Flavors : AddType(n, f) /\ UNCHANGED ruleVars
  <2>1. nprim' # nprim
    BY NprimInValues DEF AvInv, AvTypeOK
  <2>2. \A st, s, t, c2, perm : ~AddRule(st, s, t, c2, perm)
    BY <2>1 DEF AddRule, typeVars
  <2>3. \A e, s, t, c2, d : ~AddTypeRule(e, s, t, c2, d)
    BY <2>1 DEF AddTypeRule, typeVars
  <2>4. ~Reload /\ ~UNCHANGED avVars
    BY <2>1 DEF Reload, ReloadTypes, avVars, typeVars
  <2>5. TypeStep /\ UNCHANGED ruleVars
    BY <2>2, <2>3, <2>4 DEF AvNext
  <2>6. /\ \A n, p : ~SetTypeState(n, p)
        /\ \A p : ~SetAllTypesState(p)
        /\ \A n, a : ~AddTypeAttribute(n, a)
    BY <2>1 DEF SetTypeState, SetAllTypesState, AddTypeAttribute
  <2> QED
    BY <2>5, <2>6 DEF TypeStep
<1>2. nprim \in Nat /\ nprim' = nprim + 1
  BY <1>1, NprimInValues DEF AddType, NewValue, AvInv, AvTypeOK
<1>3. type_attr_map'[nprim'] = {nprim'}
  BY <1>1, <1>2 DEF AddType, NewValue, OwnRow
<1>4. avtab' = avtab
  BY <1>1 DEF ruleVars
<1>5. ASSUME NEW k, k \in DOMAIN avtab
      PROVE  k.source_type # nprim' /\ k.target_type # nprim'
  BY <1>2, <1>5 DEF AvInv, AvTypeOK, KeysDeclared
<1>6. ASSUME NEW i, NEW j, i = nprim' \/ j = nprim'
      PROVE  Entry(avtab', Key(i, j, c, AVTAB_ALLOWED)) = {}
  <2> DEFINE k == Key(i, j, c, AVTAB_ALLOWED)
  <2>1. k.source_type = i /\ k.target_type = j /\ k.specified = AVTAB_ALLOWED
    BY DEF Key
  <2>2. k \notin DOMAIN avtab
    BY <2>1, <1>5, <1>6
  <2> QED
    BY <1>4, <2>1, <2>2 DEF Entry, NoRule, AVTAB_ALLOWED, AVTAB_AUDITDENY
<1>7. (Allowed(nprim, v, c))' = {}
  <2>1. (Allowed(nprim, v, c))' =
          UNION {Entry(avtab', k) : k \in {Key(i, j, c, AVTAB_ALLOWED) :
                                i \in type_attr_map'[nprim'], j \in type_attr_map'[v]}}
    BY DEF Allowed, Rows
  <2> QED
    BY <2>1, <1>3, <1>6
<1>8. (Allowed(v, nprim, c))' = {}
  <2>1. (Allowed(v, nprim, c))' =
          UNION {Entry(avtab', k) : k \in {Key(i, j, c, AVTAB_ALLOWED) :
                                i \in type_attr_map'[v], j \in type_attr_map'[nprim']}}
    BY DEF Allowed, Rows
  <2> QED
    BY <2>1, <1>3, <1>6
<1> QED
  BY <1>7, <1>8

\* A type or an attribute that is new has no access and gives none, whatever
\* rules for * were there before it.
THEOREM NewTypesAreBare == AvSpec => NewTypeHasNoAccess
<1>1. AvInv /\ [AvNext]_avVars =>
        [nprim' > nprim =>
           \A v \in (Declared(types))', c \in Classes :
              (Allowed(nprim, v, c) = {} /\ Allowed(v, nprim, c) = {})']_avVars
  BY NewTypeIsBare
<1> QED
  BY <1>1, AvInvAlways, PTL DEF AvSpec, NewTypeHasNoAccess
--------------------------------------------------------------------------------
\* What a statement makes of every vector, stored or not: a node that is made,
\* or removed for being redundant, makes no difference to what is looked up.
LEMMA EntryAfterRule ==
  ASSUME NEW st, NEW s, NEW t, NEW c, NEW perm, AddRule(st, s, t, c, perm),
         NEW k
  PROVE  Entry(avtab', k) =
           IF k \in [source_type : Matched(s, st), target_type : Matched(t, st),
                     target_class : MatchedClasses(c), specified : {EffectOf(st)}]
           THEN NewVector(Entry(avtab, k), perm, InvertOf(st))
           ELSE Entry(avtab, k)
<1> DEFINE reach == [source_type : Matched(s, st), target_type : Matched(t, st),
                     target_class : MatchedClasses(c), specified : {EffectOf(st)}]
           new(j) == NewVector(Entry(avtab, j), perm, InvertOf(st))
           keep == (DOMAIN avtab \ reach)
                     \cup {j \in reach : ~IsRedundant(j, new(j))}
<1>1. avtab' = [j \in keep |-> IF j \in reach THEN new(j) ELSE avtab[j]]
  BY DEF AddRule
<1>2. CASE k \in reach /\ k \in keep
  BY <1>1, <1>2 DEF Entry
<1>3. CASE k \in reach /\ k \notin keep
  <2>1. new(k) = NoRule(k.specified)
    BY <1>3 DEF IsRedundant
  <2>2. Entry(avtab', k) = NoRule(k.specified)
    BY <1>1, <1>3 DEF Entry
  <2> QED
    BY <1>3, <2>1, <2>2
<1>4. CASE k \notin reach
  <2>1. k \in keep <=> k \in DOMAIN avtab
    BY <1>4
  <2> HIDE DEF reach, keep
  <2>2. Entry(avtab', k) = Entry(avtab, k)
    BY <1>1, <1>4, <2>1 DEF Entry
  <2> QED
    BY <1>4, <2>2 DEF reach
<1> QED
  BY <1>2, <1>3, <1>4

\* A statement that is not an allow widens no vector of the allowed kind.
LEMMA OthersGrantNothing ==
  ASSUME NEW st \in Statements, st # "allow", NEW s, NEW t, NEW c, NEW perm,
         AddRule(st, s, t, c, perm), NEW k, k.specified = AVTAB_ALLOWED
  PROVE  Entry(avtab', k) \subseteq Entry(avtab, k)
<1>1. st \in {"deny", "auditallow", "dontaudit"}
  BY ArgsAssumption
<1>2. CASE st = "deny"
  <2>1. InvertOf(st) = TRUE
    BY <1>2 DEF InvertOf
  <2>2. NewVector(Entry(avtab, k), perm, InvertOf(st)) \subseteq Entry(avtab, k)
    BY <2>1 DEF NewVector
  <2> QED
    BY <2>2, EntryAfterRule
<1>3. CASE st # "deny"
  <2>1. EffectOf(st) # AVTAB_ALLOWED
    BY <1>1, <1>3 DEF EffectOf, AVTAB_ALLOWED, AVTAB_AUDITALLOW, AVTAB_AUDITDENY
  <2>2. k \notin [source_type : Matched(s, st), target_type : Matched(t, st),
                  target_class : MatchedClasses(c), specified : {EffectOf(st)}]
    BY <2>1
  <2> QED
    BY <2>2, EntryAfterRule
<1> QED
  BY <1>2, <1>3

\* Decisions shrink when vectors shrink and rows stay.
LEMMA AllowedMonotone ==
  ASSUME NEW s, NEW t, NEW c,
         type_attr_map'[s] = type_attr_map[s], type_attr_map'[t] = type_attr_map[t],
         \A k : k.specified = AVTAB_ALLOWED => Entry(avtab', k) \subseteq Entry(avtab, k)
  PROVE  Allowed(s, t, c)' \subseteq Allowed(s, t, c)
<1> DEFINE rows == Rows(s, t, c, AVTAB_ALLOWED)
<1>1. \A k \in rows : k.specified = AVTAB_ALLOWED
  BY DEF Rows, Key
<1>2. Allowed(s, t, c)' = UNION {Entry(avtab', k) : k \in rows}
  BY DEF Allowed, Rows
<1>3. Allowed(s, t, c) = UNION {Entry(avtab, k) : k \in rows}
  BY DEF Allowed
<1> HIDE DEF rows
<1>4. \A k \in rows : Entry(avtab', k) \subseteq Entry(avtab, k)
  BY <1>1
<1> QED
  BY <1>2, <1>3, <1>4

LEMMA StepGrants ==
  ASSUME AvInv, [AvNext]_avVars, NEW s \in Declared(types),
         NEW t \in Declared(types), NEW c \in Classes
  PROVE  \/ Allowed(s, t, c)' \subseteq Allowed(s, t, c)
         \/ \E x, y \in Names \cup {Any}, d \in Classes \cup {Any}, perm \in Bits \cup {Any} :
               AddRule("allow", x, y, d, perm)
         \/ \E n, a \in Names : AddTypeAttribute(n, a)
<1>1. ASSUME NEW st \in Statements, st # "allow",
             NEW x \in Names \cup {Any}, NEW y \in Names \cup {Any},
             NEW d \in Classes \cup {Any}, NEW perm \in Bits \cup {Any},
             AddRule(st, x, y, d, perm)
      PROVE  Allowed(s, t, c)' \subseteq Allowed(s, t, c)
  <2>1. type_attr_map' = type_attr_map
    BY <1>1 DEF AddRule, typeVars
  <2>2. \A k : k.specified = AVTAB_ALLOWED => Entry(avtab', k) \subseteq Entry(avtab, k)
    BY <1>1, OthersGrantNothing
  <2> QED
    BY <2>1, <2>2, AllowedMonotone
<1>2. ASSUME avtab' = avtab, type_attr_map'[s] = type_attr_map[s],
             type_attr_map'[t] = type_attr_map[t]
      PROVE  Allowed(s, t, c)' \subseteq Allowed(s, t, c)
  BY <1>2, AllowedMonotone
<1>3. ASSUME NEW n \in Names, NEW f \in Flavors, AddType(n, f)
      PROVE  type_attr_map'[s] = type_attr_map[s] /\ type_attr_map'[t] = type_attr_map[t]
  <2>1. nprim \in Nat /\ s \in 1..nprim /\ t \in 1..nprim
    BY RowsDeclared, NprimInValues DEF AvInv, AvTypeOK
  <2> QED
    BY <1>3, <2>1 DEF AddType, NewValue
<1>4. CASE \E st \in Statements, x, y \in Names \cup {Any}, d \in Classes \cup {Any},
              perm \in Bits \cup {Any} : AddRule(st, x, y, d, perm)
  BY <1>1, <1>4
<1>5. CASE TypeStep /\ UNCHANGED ruleVars
  BY <1>2, <1>3, <1>5 DEF TypeStep, SetTypeState, SetAllTypesState, ruleVars
<1>6. CASE Reload
  BY <1>2, <1>6, ReloadKeepsInv DEF Reload, ruleVars, AvInv
<1>7. CASE (\E e \in TypeEffects, x, y, d \in Names, cl \in Classes :
               AddTypeRule(e, x, y, cl, d)) \/ UNCHANGED avVars
  BY <1>2, <1>7 DEF AddTypeRule, avVars, typeVars, ruleVars
<1> QED
  BY <1>4, <1>5, <1>6, <1>7 DEF AvNext

\* Whatever a pair of types may do after a step it could do before it, unless
\* the step was an allow statement or gave a type an attribute.
THEOREM OnlyAllowWidens == AvSpec => OnlyAllowGrants
<1>1. AvInv /\ [AvNext]_avVars =>
        [\A s, t \in Declared(types), c \in Classes :
           \/ Allowed(s, t, c)' \subseteq Allowed(s, t, c)
           \/ \E x, y \in Names \cup {Any}, d \in Classes \cup {Any}, perm \in Bits \cup {Any} :
                 AddRule("allow", x, y, d, perm)
           \/ \E n, a \in Names : AddTypeAttribute(n, a)]_avVars
  BY StepGrants
<1> QED
  BY <1>1, AvInvAlways, PTL DEF AvSpec, OnlyAllowGrants
--------------------------------------------------------------------------------
(***************************************************************************)
(* The sparse table implements the matrix of what the statements promise.  *)
(***************************************************************************)
LEMMA MatrixConstants ==
  /\ Matrix!Keys = AvKeys /\ Matrix!Effects = AvEffects
  /\ \A e : Matrix!NoRule(e) = NoRule(e)
BY DEF Matrix!Keys, Matrix!Effects, AvKeys, AvEffects, Matrix!NoRule, NoRule,
       AVTAB_ALLOWED, AVTAB_AUDITALLOW, AVTAB_AUDITDENY, Matrix!AVTAB_ALLOWED,
       Matrix!AVTAB_AUDITALLOW, Matrix!AVTAB_AUDITDENY

LEMMA MatrixInit ==
  ASSUME AvInv
  PROVE  Matrix!Init
<1>1. AttribValues(types) \subseteq Declared(types)
  BY ValuesOfTable
<1>2. Declared(types) \subseteq Values
  BY NprimInValues DEF AvInv, AvTypeOK, TypeInv, ValuesDistinct
<1>3. \A k \in AvKeys : Entry(avtab, k) \in SUBSET Bits
  BY DEF AvInv, AvTypeOK, Entry, NoRule
<1> QED
  BY <1>1, <1>2, <1>3, MatrixConstants DEF Matrix!Init

\* The fields of a statement stand for what the promise has them stand for.
LEMMA MatchedIsField ==
  ASSUME NEW st, NEW name \in DOMAIN types \cup {Any}
  PROVE  Matched(name, st) \in Matrix!Fields(EffectOf(st), InvertOf(st))
<1>1. CASE name # Any
  BY <1>1 DEF Matched, Matrix!Fields, Declared
<1>2. CASE name = Any
  <2>1. InvertOf(st) \in BOOLEAN
    BY DEF InvertOf
  <2>2. Matched(name, st) = Matrix!Everything(EffectOf(st), InvertOf(st))
    BY <1>2, <2>1 DEF Matched, StripAv, Matrix!Everything, Matrix!Adds,
                      AVTAB_AUDITDENY, Matrix!AVTAB_AUDITDENY
  <2> QED
    BY <2>2 DEF Matrix!Fields
<1> QED
  BY <1>1, <1>2

LEMMA RuleApplies ==
  ASSUME AvInv, NEW st \in Statements, NEW s \in Names \cup {Any},
         NEW t \in Names \cup {Any}, NEW c \in Classes \cup {Any},
         NEW perm \in Bits \cup {Any}, AddRule(st, s, t, c, perm)
  PROVE  Matrix!Next
<1> DEFINE S == Matched(s, st)
           T == Matched(t, st)
           C == MatchedClasses(c)
           bits == IF perm # Any THEN {perm} ELSE Bits
           effect == EffectOf(st)
           invert == InvertOf(st)
<1>1. /\ s \in DOMAIN types \cup {Any} /\ t \in DOMAIN types \cup {Any}
      /\ types' = types
  BY DEF AddRule, typeVars
<1>2. /\ effect \in Matrix!Effects /\ invert \in BOOLEAN
      /\ S \in Matrix!Fields(effect, invert) /\ T \in Matrix!Fields(effect, invert)
  BY <1>1, EffectIsEffect, MatrixConstants, MatchedIsField DEF InvertOf
<1>3. C \in {{d} : d \in Classes} \cup {Classes}
  BY DEF MatchedClasses
<1>4. bits \in {{b} : b \in Bits} \cup {Bits}
  OBVIOUS
<1>5. ASSUME NEW k \in AvKeys
      PROVE  Entry(avtab', k) =
               IF /\ k.source_type \in S /\ k.target_type \in T
                  /\ k.target_class \in C /\ k.specified = effect
               THEN IF invert THEN Entry(avtab, k) \ bits ELSE Entry(avtab, k) \cup bits
               ELSE Entry(avtab, k)
  <2>1. NewVector(Entry(avtab, k), perm, invert) =
          IF invert THEN Entry(avtab, k) \ bits ELSE Entry(avtab, k) \cup bits
    BY DEF NewVector
  <2>2. k \in [source_type : S, target_type : T, target_class : C, specified : {effect}]
          <=> /\ k.source_type \in S /\ k.target_type \in T
              /\ k.target_class \in C /\ k.specified = effect
    BY DEF AvKeys
  <2> QED
    BY <2>1, <2>2, EntryAfterRule
<1> HIDE DEF S, T, C, bits, effect, invert
<1>6. Matrix!Apply(S, T, C, bits, effect, invert)
  <2>1. [k \in AvKeys |-> Entry(avtab, k)]' =
          [k \in Matrix!Keys |->
             IF /\ k.source_type \in S /\ k.target_type \in T
                /\ k.target_class \in C /\ k.specified = effect
             THEN IF invert THEN [j \in AvKeys |-> Entry(avtab, j)][k] \ bits
                            ELSE [j \in AvKeys |-> Entry(avtab, j)][k] \cup bits
             ELSE [j \in AvKeys |-> Entry(avtab, j)][k]]
    BY <1>5, MatrixConstants
  <2> QED
    BY <1>1, <2>1 DEF Matrix!Apply
<1> QED
  BY <1>2, <1>3, <1>4, <1>6 DEF Matrix!Next

LEMMA NewTypeIsDeclared ==
  ASSUME AvInv, NEW n \in Names, NEW f \in Flavors, AddType(n, f),
         UNCHANGED ruleVars
  PROVE  Matrix!Next
<1> DEFINE v == nprim + 1
<1>1. /\ v \in 1..MaxTypes /\ v \notin Declared(types)
      /\ Declared(types') = Declared(types) \cup {v}
  BY TableWithName DEF AvInv
<1>2. AttribValues(types') = IF f = TYPE_ATTRIB THEN AttribValues(types) \cup {v}
                                                ELSE AttribValues(types)
  <2>1. /\ DOMAIN types' = DOMAIN types \cup {n} /\ n \notin DOMAIN types
        /\ types'[n].value = v /\ types'[n].flavor = f
        /\ \A m \in DOMAIN types : types'[m] = types[m]
    BY DEF AddType, NewValue
  <2>2. CASE f = TYPE_ATTRIB
    BY <2>1, <2>2 DEF AttribValues
  <2>3. CASE f # TYPE_ATTRIB
    BY <2>1, <2>3 DEF AttribValues
  <2> QED
    BY <2>2, <2>3
<1>3. \A k \in AvKeys : v \in {k.source_type, k.target_type} =>
         Entry(avtab, k) = NoRule(k.specified)
  <2>1. v \notin 1..nprim
    BY NprimInValues DEF AvInv, AvTypeOK
  <2> QED
    BY <2>1 DEF Entry, AvInv, AvTypeOK, KeysDeclared
<1>4. avtab' = avtab
  BY DEF ruleVars
<1>5. [k \in AvKeys |-> Entry(avtab, k)]' = [k \in AvKeys |-> Entry(avtab, k)]
  BY <1>4
<1>6. Matrix!Declare(v, f = TYPE_ATTRIB)
  BY <1>1, <1>2, <1>3, <1>5, MatrixConstants DEF Matrix!Declare, Values
<1> QED
  BY <1>1, <1>6 DEF Matrix!Next, Values

\* The table changes as the matrix does, or not at all.
LEMMA MatrixStep ==
  ASSUME AvInv, [AvNext]_avVars
  PROVE  [Matrix!Next]_<<Declared(types), AttribValues(types),
                         [k \in AvKeys |-> Entry(avtab, k)]>>
<1>1. CASE \E st \in Statements, s, t \in Names \cup {Any}, c \in Classes \cup {Any},
              perm \in Bits \cup {Any} : AddRule(st, s, t, c, perm)
  BY <1>1, RuleApplies
<1>2. CASE \E n \in Names, f \in Flavors : AddType(n, f) /\ UNCHANGED ruleVars
  BY <1>2, NewTypeIsDeclared
<1>3. CASE types' = types /\ avtab' = avtab
  BY <1>3
<1>4. CASE TypeStep /\ UNCHANGED ruleVars
  BY <1>2, <1>3, <1>4 DEF TypeStep, SetTypeState, SetAllTypesState,
                          AddTypeAttribute, ruleVars
<1>5. CASE \/ \E e \in TypeEffects, s, t, d \in Names, c \in Classes :
                 AddTypeRule(e, s, t, c, d)
           \/ Reload \/ UNCHANGED avVars
  <2>1. types' = types /\ avtab' = avtab
    BY <1>5 DEF AddTypeRule, Reload, ReloadTypes, avVars, typeVars, ruleVars
  <2> QED
    BY <2>1, <1>3
<1> QED
  BY <1>1, <1>4, <1>5 DEF AvNext

\* The sparse table, with its default entries and its removal of redundant
\* nodes, is the full matrix: every policy and every sequence of statements.
THEOREM MatrixImplemented == AvSpec => ImplementsMatrix
<1>1. AvInit => Matrix!Init
  BY InitAvInv, MatrixInit
<1>2. AvInv /\ [AvNext]_avVars =>
        [Matrix!Next]_<<Declared(types), AttribValues(types),
                        [k \in AvKeys |-> Entry(avtab, k)]>>
  BY MatrixStep
<1> QED
  BY <1>1, <1>2, AvInvAlways, PTL DEF AvSpec, ImplementsMatrix, Matrix!Spec

--------------------------------------------------------------------------------
(***************************************************************************)
(* Avtab, for every set of keys and every hash: the chains stay in order,  *)
(* so no search misses a node, and the table implements a set of nodes     *)
(* that counts them right.                                                 *)
(***************************************************************************)
TableInv == AvtabTypeOK /\ ChainInv /\ CountIsNodes

\* Keys are compared like numbers with three digits: not being before is
\* reflexive, total and transitive.
LEMMA NotBefore ==
  ASSUME NEW a \in Keys, NEW b \in Keys, NEW c \in Keys
  PROVE  /\ ~Before(a, a)
         /\ Before(a, b) => ~Before(b, a)
         /\ ~Before(c, b) /\ ~Before(b, a) => ~Before(c, a)
<1> DEFINE Digits(k) == /\ k.source_type \in Nat /\ k.target_type \in Nat
                        /\ k.target_class \in Nat
<1>1. Digits(a) /\ Digits(b) /\ Digits(c)
  BY ValuesAssumption DEF Keys
<1>. QED
  BY <1>1 DEF Before

\* A node that is linked in where the loop stops leaves its chain in order, and
\* adds itself and nothing else.
LEMMA LinkedInOrder ==
  ASSUME NEW chain \in Seq(Nodes), NEW n \in Nodes, NEW p \in 1..(Len(chain) + 1),
         StopsAt(chain, n.key, p), InOrder(chain)
  PROVE  InOrder(Linked(chain, n, p))
<1> DEFINE new == Linked(chain, n, p)
<1>1. DOMAIN new = 1..(Len(chain) + 1) /\ DOMAIN chain = 1..Len(chain) /\ Len(chain) \in Nat
  BY DEF Linked
<1>2. n.key \in Keys /\ \A i \in DOMAIN chain : chain[i].key \in Keys
  <2>1. \A i \in DOMAIN chain : chain[i] \in Nodes
    BY <1>1
  <2>. QED
    BY <2>1 DEF Nodes
<1>3. SUFFICES ASSUME NEW i \in DOMAIN new, NEW j \in DOMAIN new, i < j
               PROVE  ~Before(new[j].key, new[i].key)
  BY DEF InOrder
<1>4. CASE i # p /\ j # p
  <2> DEFINE old(m) == IF m < p THEN m ELSE m - 1
  <2>1. /\ old(i) \in DOMAIN chain /\ old(j) \in DOMAIN chain /\ old(i) < old(j)
        /\ new[i] = chain[old(i)] /\ new[j] = chain[old(j)]
    BY <1>1, <1>3, <1>4 DEF Linked
  <2>. QED
    BY <2>1 DEF InOrder
<1>5. CASE j = p
  <2>1. new[j] = n /\ new[i] = chain[i] /\ i \in 1..(p - 1)
    BY <1>1, <1>3, <1>5 DEF Linked
  <2>. QED
    BY <2>1 DEF StopsAt, Past
<1>6. CASE i = p
  <2>1. /\ new[i] = n /\ new[j] = chain[j - 1]
        /\ p \in DOMAIN chain /\ j - 1 \in DOMAIN chain /\ p <= j - 1
    BY <1>1, <1>3, <1>6 DEF Linked
  <2>2. ~Before(chain[p].key, n.key)
    <3>1. chain[p].key = n.key \/ Before(n.key, chain[p].key)
      BY <2>1, <1>1 DEF StopsAt, Hit, Past
    <3>. QED
      BY <3>1, <2>1, <1>2, NotBefore
  <2>3. ~Before(chain[j - 1].key, chain[p].key)
    <3>1. CASE p = j - 1
      BY <3>1, <2>1, <1>2, NotBefore
    <3>2. CASE p < j - 1
      BY <3>2, <2>1 DEF InOrder
    <3>. QED
      BY <3>1, <3>2, <2>1, <1>1
  <2>. QED
    BY <2>1, <2>2, <2>3, <1>2, NotBefore
<1>. QED
  BY <1>4, <1>5, <1>6

LEMMA UnlinkedInOrder ==
  ASSUME NEW chain \in Seq(Nodes), NEW p \in DOMAIN chain, InOrder(chain)
  PROVE  InOrder(Unlinked(chain, p))
<1> DEFINE new == Unlinked(chain, p)
           old(m) == IF m < p THEN m ELSE m + 1
<1>1. DOMAIN new = 1..(Len(chain) - 1) /\ DOMAIN chain = 1..Len(chain) /\ Len(chain) \in Nat
  BY DEF Unlinked
<1>2. SUFFICES ASSUME NEW i \in DOMAIN new, NEW j \in DOMAIN new, i < j
               PROVE  ~Before(new[j].key, new[i].key)
  BY DEF InOrder
<1>3. /\ old(i) \in DOMAIN chain /\ old(j) \in DOMAIN chain /\ old(i) < old(j)
      /\ new[i] = chain[old(i)] /\ new[j] = chain[old(j)]
  BY <1>1, <1>2 DEF Unlinked
<1>. QED
  BY <1>3 DEF InOrder

LEMMA LinkedNodes ==
  ASSUME NEW chain \in Seq(Nodes), NEW n \in Nodes, NEW p \in 1..(Len(chain) + 1)
  PROVE  /\ Linked(chain, n, p) \in Seq(Nodes)
         /\ DOMAIN Linked(chain, n, p) = 1..(Len(chain) + 1)
         /\ Linked(chain, n, p)[p] = n
         /\ \A i \in DOMAIN chain :
               Linked(chain, n, p)[IF i < p THEN i ELSE i + 1] = chain[i]
         /\ \A i \in DOMAIN Linked(chain, n, p) : i # p =>
               /\ (IF i < p THEN i ELSE i - 1) \in DOMAIN chain
               /\ Linked(chain, n, p)[i] = chain[IF i < p THEN i ELSE i - 1]
<1>1. DOMAIN chain = 1..Len(chain) /\ Len(chain) \in Nat /\ \A i \in DOMAIN chain : chain[i] \in Nodes
  OBVIOUS
<1>2. \A i \in 1..(Len(chain) + 1) :
        (IF i < p THEN chain[i] ELSE IF i = p THEN n ELSE chain[i - 1]) \in Nodes
  BY <1>1
<1>. QED
  BY <1>1, <1>2 DEF Linked

LEMMA UnlinkedNodes ==
  ASSUME NEW chain \in Seq(Nodes), NEW p \in DOMAIN chain
  PROVE  /\ Unlinked(chain, p) \in Seq(Nodes)
         /\ DOMAIN Unlinked(chain, p) = 1..(Len(chain) - 1)
         /\ \A i \in DOMAIN chain : i # p =>
               /\ (IF i < p THEN i ELSE i - 1) \in DOMAIN Unlinked(chain, p)
               /\ Unlinked(chain, p)[IF i < p THEN i ELSE i - 1] = chain[i]
         /\ \A i \in DOMAIN Unlinked(chain, p) :
               /\ (IF i < p THEN i ELSE i + 1) \in DOMAIN chain
               /\ Unlinked(chain, p)[i] = chain[IF i < p THEN i ELSE i + 1]
<1>1. DOMAIN chain = 1..Len(chain) /\ Len(chain) \in Nat /\ \A i \in DOMAIN chain : chain[i] \in Nodes
  OBVIOUS
<1>2. \A i \in 1..(Len(chain) - 1) :
        (IF i < p THEN chain[i] ELSE chain[i + 1]) \in Nodes
  BY <1>1
<1>. QED
  BY <1>1, <1>2 DEF Unlinked
--------------------------------------------------------------------------------
\* What a step that links a node in does to the table.
LEMMA InsertKeepsTable ==
  ASSUME TableInv, NEW n \in Nodes, n.addr \in Free, InsertNode(n)
  PROVE  /\ TableInv' /\ AllNodes' = AllNodes \cup {n}
         /\ n \notin AllNodes /\ nel' = nel + 1
<1> DEFINE b == Hash[n.key]
           chain == htable[b]
<1>1. b \in Buckets /\ n.key \in Keys /\ chain \in Seq(Nodes)
      /\ DOMAIN htable = Buckets
  <2>1. n.key \in Keys
    BY DEF Nodes
  <2>. QED
    BY <2>1, HashAssumption DEF TableInv, AvtabTypeOK
<1>2. PICK p \in 1..(Len(chain) + 1) :
        /\ StopsAt(chain, n.key, p)
        /\ htable' = [htable EXCEPT ![b] = Linked(chain, n, p)]
        /\ nel' = nel + 1
  BY DEF InsertNode
<1> DEFINE new == Linked(chain, n, p)
<1>3. /\ new \in Seq(Nodes) /\ DOMAIN new = 1..(Len(chain) + 1) /\ new[p] = n
      /\ \A i \in DOMAIN chain : new[IF i < p THEN i ELSE i + 1] = chain[i]
      /\ \A i \in DOMAIN new : i # p =>
            /\ (IF i < p THEN i ELSE i - 1) \in DOMAIN chain
            /\ new[i] = chain[IF i < p THEN i ELSE i - 1]
  BY <1>1, LinkedNodes
<1>4. /\ DOMAIN chain = 1..Len(chain) /\ Len(chain) \in Nat
      /\ htable'[b] = new
      /\ \A c \in Buckets : c # b => htable'[c] = htable[c]
      /\ DOMAIN htable' = Buckets
  BY <1>1, <1>2
<1> HIDE DEF new, chain, b
<1>5. AllNodes' = AllNodes \cup {n}
  <2>1. ASSUME NEW m \in AllNodes' PROVE m \in AllNodes \cup {n}
    <3>0. PICK c \in Buckets : \E i \in DOMAIN htable'[c] : m = htable'[c][i]
      BY <2>1 DEF AllNodes
    <3>1. PICK i \in DOMAIN htable'[c] : m = htable'[c][i]
      BY <3>0
    <3>2. CASE c # b
      BY <3>1, <3>2, <1>4 DEF AllNodes
    <3>3. CASE c = b
      <4>1. i \in DOMAIN new /\ m = new[i]
        BY <3>1, <3>3, <1>4
      <4>2. CASE i = p
        BY <4>1, <4>2, <1>3
      <4>3. CASE i # p
        <5>1. \E j \in DOMAIN chain : m = chain[j]
          BY <4>1, <4>3, <1>3
        <5>. QED
          BY <5>1, <1>1 DEF AllNodes, chain
      <4>. QED
        BY <4>2, <4>3
    <3>. QED
      BY <3>2, <3>3
  <2>2. n \in AllNodes'
    <3>1. p \in DOMAIN htable'[b] /\ htable'[b][p] = n
      BY <1>3, <1>4
    <3>. QED
      BY <3>1, <1>1 DEF AllNodes
  <2>3. ASSUME NEW m \in AllNodes PROVE m \in AllNodes'
    <3>0. PICK c \in Buckets : \E i \in DOMAIN htable[c] : m = htable[c][i]
      BY <2>3 DEF AllNodes
    <3>1. PICK i \in DOMAIN htable[c] : m = htable[c][i]
      BY <3>0
    <3>2. CASE c # b
      BY <3>1, <3>2, <1>4 DEF AllNodes
    <3>3. CASE c = b
      <4>1. i \in DOMAIN chain /\ m = chain[i]
        BY <3>1, <3>3 DEF chain
      <4>2. (IF i < p THEN i ELSE i + 1) \in DOMAIN htable'[b]
            /\ htable'[b][IF i < p THEN i ELSE i + 1] = m
        BY <4>1, <1>3, <1>4
      <4>. QED
        BY <4>2, <1>1 DEF AllNodes
    <3>. QED
      BY <3>2, <3>3
  <2>. QED
    BY <2>1, <2>2, <2>3
<1>6. n \notin AllNodes /\ \A m \in AllNodes : m.addr # n.addr
  BY DEF Free
<1>7. AvtabTypeOK'
  <2>1. nel' \in Nat
    BY <1>2 DEF TableInv, AvtabTypeOK
  <2>2. \A c \in Buckets : htable'[c] \in Seq(Nodes)
    BY <1>3, <1>4 DEF TableInv, AvtabTypeOK
  <2>3. htable' = [c \in Buckets |-> htable'[c]]
    BY <1>2 DEF TableInv, AvtabTypeOK
  <2>. QED
    BY <2>1, <2>2, <2>3 DEF AvtabTypeOK
<1>8. Ordered'
  <2>1. ASSUME NEW c \in Buckets PROVE InOrder(htable'[c])
    <3>1. CASE c # b
      BY <3>1, <1>4 DEF TableInv, ChainInv, Ordered
    <3>2. CASE c = b
      <4>1. InOrder(chain)
        BY <1>1 DEF TableInv, ChainInv, Ordered, chain
      <4>. QED
        BY <4>1, <3>2, <1>1, <1>2, <1>4, LinkedInOrder DEF new
    <3>. QED
      BY <3>1, <3>2
  <2>. QED
    BY <2>1 DEF Ordered
<1>9. OwnChain'
  <2>1. ASSUME NEW c \in Buckets, NEW i \in DOMAIN htable'[c]
        PROVE  Hash[htable'[c][i].key] = c
    <3>1. CASE c # b
      BY <3>1, <1>4 DEF TableInv, ChainInv, OwnChain
    <3>2. CASE c = b /\ i = p
      BY <3>2, <1>3, <1>4 DEF b
    <3>3. CASE c = b /\ i # p
      <4>1. PICK j \in DOMAIN chain : htable'[c][i] = chain[j]
        BY <3>3, <1>3, <1>4
      <4>. QED
        BY <4>1, <3>3, <1>1 DEF TableInv, ChainInv, OwnChain, chain
    <3>. QED
      BY <3>1, <3>2, <3>3
  <2>. QED
    BY <2>1 DEF OwnChain
<1>10. OnePlace'
  <2>1. ASSUME NEW c \in Buckets, NEW d \in Buckets,
               NEW i \in DOMAIN htable'[c], NEW j \in DOMAIN htable'[d],
               htable'[c][i].addr = htable'[d][j].addr
        PROVE  c = d /\ i = j
    <3> DEFINE IsNew(e, m) == e = b /\ m = p
               old(e, m) == IF e = b /\ m > p THEN m - 1 ELSE m
    <3>1. ASSUME NEW e \in Buckets, NEW m \in DOMAIN htable'[e], ~IsNew(e, m)
          PROVE  /\ old(e, m) \in DOMAIN htable[e]
                 /\ htable'[e][m] = htable[e][old(e, m)]
                 /\ htable'[e][m] \in AllNodes
      <4>1. CASE e # b
        BY <4>1, <3>1, <1>4 DEF AllNodes
      <4>2. CASE e = b
        <5>1. m \in DOMAIN new /\ m # p /\ m \in Nat
          BY <4>2, <3>1, <1>3, <1>4
        <5>2. old(e, m) = (IF m < p THEN m ELSE m - 1)
          BY <5>1, <4>2
        <5>3. old(e, m) \in DOMAIN chain /\ new[m] = chain[old(e, m)]
          BY <5>1, <5>2, <1>3
        <5>. QED
          BY <5>3, <4>2, <1>1, <1>4 DEF AllNodes, chain
      <4>. QED
        BY <4>1, <4>2
    <3>2. \A e \in Buckets : \A m \in DOMAIN htable'[e] : IsNew(e, m) => htable'[e][m] = n
      BY <1>3, <1>4
    <3>3. CASE ~IsNew(c, i) /\ ~IsNew(d, j)
      <4>1. c = d /\ old(c, i) = old(d, j)
        BY <3>1, <3>3, <2>1 DEF TableInv, ChainInv, OnePlace
      <4>2. CASE c # b
        BY <4>1, <4>2
      <4>3. CASE c = b
        <5>1. i \in Nat /\ j \in Nat /\ i # p /\ j # p
          BY <4>1, <4>3, <3>3, <1>3, <1>4
        <5>. QED
          BY <5>1, <4>1, <4>3
      <4>. QED
        BY <4>2, <4>3
    <3>4. CASE IsNew(c, i) /\ ~IsNew(d, j)
      <4>1. htable'[c][i] = n /\ htable'[d][j] \in AllNodes
        BY <3>1, <3>2, <3>4
      <4>. QED
        BY <4>1, <2>1, <1>6
    <3>5. CASE ~IsNew(c, i) /\ IsNew(d, j)
      <4>1. htable'[d][j] = n /\ htable'[c][i] \in AllNodes
        BY <3>1, <3>2, <3>5
      <4>. QED
        BY <4>1, <2>1, <1>6
    <3>6. CASE IsNew(c, i) /\ IsNew(d, j)
      BY <3>6
    <3>. QED
      BY <3>3, <3>4, <3>5, <3>6
  <2>. QED
    BY <2>1 DEF OnePlace
<1>11. CountIsNodes'
  <2>1. IsFiniteSet(AllNodes) /\ nel = Cardinality(AllNodes)
    BY DEF TableInv, CountIsNodes
  <2>2. IsFiniteSet(AllNodes \cup {n})
        /\ Cardinality(AllNodes \cup {n}) = Cardinality(AllNodes) + 1
    BY <2>1, <1>6, FS_AddElement
  <2>. QED
    BY <2>1, <2>2, <1>2, <1>5 DEF CountIsNodes
<1>. QED
  BY <1>2, <1>5, <1>6, <1>7, <1>8, <1>9, <1>10, <1>11 DEF TableInv, ChainInv

\* What a step that takes a node out does to the table.
LEMMA RemoveKeepsTable ==
  ASSUME TableInv, NEW n \in AllNodes, RemoveNode(n)
  PROVE  TableInv' /\ AllNodes' = AllNodes \ {n} /\ nel' = nel - 1
<1> DEFINE b == Hash[n.key]
           chain == htable[b]
<1>1. /\ DOMAIN htable = Buckets
      /\ \A c \in Buckets : htable[c] \in Seq(Nodes)
  BY DEF TableInv, AvtabTypeOK
<1>2. b \in Buckets
  <2>1. PICK c \in Buckets : \E i \in DOMAIN htable[c] : n = htable[c][i]
    BY DEF AllNodes
  <2>. QED
    BY <2>1 DEF TableInv, ChainInv, OwnChain
<1>3. PICK p \in DOMAIN chain :
        /\ chain[p] = n
        /\ htable' = [htable EXCEPT ![b] = Unlinked(chain, p)]
        /\ nel' = Uncounted(nel)
  BY DEF RemoveNode
<1> DEFINE new == Unlinked(chain, p)
<1>4. /\ new \in Seq(Nodes) /\ DOMAIN new = 1..(Len(chain) - 1)
      /\ \A i \in DOMAIN chain : i # p =>
            /\ (IF i < p THEN i ELSE i - 1) \in DOMAIN new
            /\ new[IF i < p THEN i ELSE i - 1] = chain[i]
      /\ \A i \in DOMAIN new :
            /\ (IF i < p THEN i ELSE i + 1) \in DOMAIN chain
            /\ new[i] = chain[IF i < p THEN i ELSE i + 1]
  BY <1>1, <1>2, UnlinkedNodes
<1>5. /\ DOMAIN chain = 1..Len(chain) /\ Len(chain) \in Nat
      /\ htable'[b] = new
      /\ \A c \in Buckets : c # b => htable'[c] = htable[c]
      /\ DOMAIN htable' = Buckets
  BY <1>1, <1>2, <1>3
<1> DEFINE old(e, m) == IF e = b /\ m >= p THEN m + 1 ELSE m
\* Every node of the new table is an old one, at a place that is not p.
<1>6. ASSUME NEW e \in Buckets, NEW m \in DOMAIN htable'[e]
      PROVE  /\ old(e, m) \in DOMAIN htable[e]
             /\ htable'[e][m] = htable[e][old(e, m)]
             /\ ~(e = b /\ old(e, m) = p)
             /\ e = b => m \in Nat
  <2>1. CASE e # b
    BY <2>1, <1>6, <1>5
  <2>2. CASE e = b
    <3> HIDE DEF chain, b, new
    <3>1. m \in DOMAIN new /\ m \in Nat /\ p \in Nat
      BY <2>2, <1>6, <1>3, <1>4, <1>5
    <3>2. old(e, m) = IF m < p THEN m ELSE m + 1
      BY <3>1, <2>2
    <3>3. old(e, m) \in DOMAIN chain /\ new[m] = chain[old(e, m)]
      BY <3>1, <3>2, <1>4
    <3>4. old(e, m) # p
      BY <3>1, <3>2
    <3>. QED
      BY <3>1, <3>3, <3>4, <2>2, <1>5 DEF chain
  <2>. QED
    BY <2>1, <2>2
<1>7. AllNodes' = AllNodes \ {n}
  <2>1. ASSUME NEW m \in AllNodes' PROVE m \in AllNodes \ {n}
    <3>1. PICK c \in Buckets : \E i \in DOMAIN htable'[c] : m = htable'[c][i]
      BY <2>1 DEF AllNodes
    <3>2. PICK i \in DOMAIN htable'[c] : m = htable'[c][i]
      BY <3>1
    <3>3. /\ old(c, i) \in DOMAIN htable[c] /\ m = htable[c][old(c, i)]
          /\ ~(c = b /\ old(c, i) = p)
      BY <3>2, <1>6
    <3>4. m \in AllNodes
      BY <3>3 DEF AllNodes
    <3>5. m # n
      BY <3>3, <1>2, <1>3 DEF TableInv, ChainInv, OnePlace
    <3>. QED
      BY <3>4, <3>5
  <2>2. ASSUME NEW m \in AllNodes \ {n} PROVE m \in AllNodes'
    <3>1. PICK c \in Buckets : \E i \in DOMAIN htable[c] : m = htable[c][i]
      BY <2>2 DEF AllNodes
    <3>2. PICK i \in DOMAIN htable[c] : m = htable[c][i]
      BY <3>1
    <3>3. CASE c # b
      BY <3>2, <3>3, <1>5 DEF AllNodes
    <3>4. CASE c = b
      <4>1. i \in DOMAIN chain /\ i # p /\ m = chain[i]
        BY <3>2, <3>4, <2>2, <1>3
      <4>2. (IF i < p THEN i ELSE i - 1) \in DOMAIN htable'[b]
            /\ htable'[b][IF i < p THEN i ELSE i - 1] = m
        BY <4>1, <1>4, <1>5
      <4>. QED
        BY <4>2, <1>2 DEF AllNodes
    <3>. QED
      BY <3>3, <3>4
  <2>. QED
    BY <2>1, <2>2
<1>8. CountIsNodes' /\ nel' = nel - 1 /\ nel' \in Nat
  <2>1. IsFiniteSet(AllNodes) /\ nel = Cardinality(AllNodes)
    BY DEF TableInv, CountIsNodes
  <2>2. IsFiniteSet(AllNodes \ {n})
        /\ Cardinality(AllNodes \ {n}) = Cardinality(AllNodes) - 1
    BY <2>1, FS_RemoveElement
  <2>3. nel' = nel - 1
    BY <1>3 DEF Uncounted
  <2>. QED
    BY <2>1, <2>2, <2>3, <1>7, FS_CardinalityType DEF CountIsNodes
<1>9. AvtabTypeOK'
  <2>1. \A c \in Buckets : htable'[c] \in Seq(Nodes)
    BY <1>1, <1>4, <1>5
  <2>2. htable' = [c \in Buckets |-> htable'[c]]
    BY <1>1, <1>3 DEF TableInv, AvtabTypeOK
  <2>. QED
    BY <2>1, <2>2, <1>8 DEF AvtabTypeOK
<1>10. Ordered'
  <2>1. ASSUME NEW c \in Buckets PROVE InOrder(htable'[c])
    <3>1. CASE c # b
      BY <3>1, <1>5 DEF TableInv, ChainInv, Ordered
    <3>2. CASE c = b
      <4>1. InOrder(chain)
        BY <1>2 DEF TableInv, ChainInv, Ordered
      <4>. QED
        BY <4>1, <3>2, <1>1, <1>2, <1>5, UnlinkedInOrder
    <3>. QED
      BY <3>1, <3>2
  <2>. QED
    BY <2>1 DEF Ordered
<1>11. OwnChain'
  BY <1>6 DEF TableInv, ChainInv, OwnChain
<1>12. OnePlace'
  <2>1. ASSUME NEW c \in Buckets, NEW d \in Buckets,
               NEW i \in DOMAIN htable'[c], NEW j \in DOMAIN htable'[d],
               htable'[c][i].addr = htable'[d][j].addr
        PROVE  c = d /\ i = j
    <3>1. /\ old(c, i) \in DOMAIN htable[c] /\ htable'[c][i] = htable[c][old(c, i)]
          /\ old(d, j) \in DOMAIN htable[d] /\ htable'[d][j] = htable[d][old(d, j)]
      BY <1>6
    <3>2. c = d /\ old(c, i) = old(d, j)
      BY <3>1, <2>1 DEF TableInv, ChainInv, OnePlace
    <3>3. CASE c # b
      BY <3>2, <3>3
    <3>4. CASE c = b
      <4>1. i \in Nat /\ j \in Nat /\ p \in Nat
        BY <3>2, <3>4, <1>3, <1>5, <1>6
      <4>. QED
        BY <4>1, <3>2, <3>4
    <3>. QED
      BY <3>3, <3>4
  <2>. QED
    BY <2>1 DEF OnePlace
<1>. QED
  BY <1>7, <1>8, <1>9, <1>10, <1>11, <1>12 DEF TableInv, ChainInv
--------------------------------------------------------------------------------
LEMMA InitTableInv == Init => TableInv
<1>1. SUFFICES ASSUME Init PROVE TableInv
  OBVIOUS
<1>2. \A b \in Buckets : htable[b] = <<>> /\ DOMAIN htable[b] = {}
  BY <1>1 DEF Init
<1>3. AllNodes = {}
  BY <1>2 DEF AllNodes
<1>4. AvtabTypeOK
  BY <1>1 DEF Init, AvtabTypeOK
<1>5. ChainInv
  BY <1>2 DEF ChainInv, Ordered, InOrder, OwnChain, OnePlace
<1>6. CountIsNodes
  BY <1>1, <1>3, FS_EmptySet DEF Init, CountIsNodes
<1>. QED
  BY <1>4, <1>5, <1>6 DEF TableInv

\* Every step but the ones of RemoveNode links a free node in.
LEMMA StepForms ==
  ASSUME Next
  PROVE  \/ \E n \in Nodes : /\ n.addr \in Free /\ InsertNode(n)
                             /\ \/ n.key.specified \in XpermKinds
                                \/ Found(htable[Hash[n.key]], n.key) = {}
         \/ \E n \in AllNodes : RemoveNode(n)
<1>1. CASE \E n \in AllNodes : RemoveNode(n)
  BY <1>1
<1>2. CASE \E a \in Free, k \in Keys :
             LET n == [addr |-> a, key |-> k]
             IN AddRuleNode(n) \/ AvtabInsert(n) \/ AddXpermNode(n)
  <2>1. PICK a \in Free, k \in Keys :
          \/ AddRuleNode([addr |-> a, key |-> k])
          \/ AvtabInsert([addr |-> a, key |-> k])
          \/ AddXpermNode([addr |-> a, key |-> k])
    BY <1>2
  <2> DEFINE n == [addr |-> a, key |-> k]
  <2>2. n \in Nodes /\ n.addr \in Free
    BY DEF Nodes, Free
  <2>3. InsertNode(n) /\ \/ n.key.specified \in XpermKinds
                         \/ Found(htable[Hash[n.key]], n.key) = {}
    BY <2>1 DEF AddRuleNode, AvtabInsert, AddXpermNode
  <2>. QED
    BY <2>2, <2>3
<1>. QED
  BY <1>1, <1>2 DEF Next

LEMMA NextTableInv == TableInv /\ [Next]_tabVars => TableInv'
<1>1. ASSUME TableInv, Next PROVE TableInv'
  BY <1>1, StepForms, InsertKeepsTable, RemoveKeepsTable
<1>2. ASSUME TableInv, UNCHANGED tabVars PROVE TableInv'
  BY <1>2 DEF TableInv, AvtabTypeOK, ChainInv, Ordered, OwnChain, OnePlace,
              CountIsNodes, AllNodes, tabVars
<1>. QED
  BY <1>1, <1>2

\* Chains in order make every search complete.
LEMMA OrderedSearch == TableInv => SearchFindsAll
<1>1. SUFFICES ASSUME TableInv, NEW k \in Keys, NEW b \in Buckets, NEW i \in DOMAIN htable[b],
                      htable[b][i].key = k
               PROVE  b = Hash[k] /\ i \in Found(htable[b], k)
  BY DEF SearchFindsAll
<1>2. b = Hash[k]
  BY <1>1 DEF TableInv, ChainInv, OwnChain
<1>3. htable[b] \in Seq(Nodes)
  BY <1>1 DEF TableInv, AvtabTypeOK
<1>4. ASSUME NEW j \in 1..(i - 1) PROVE ~Past(htable[b][j], k)
  <2>1. j \in DOMAIN htable[b] /\ j < i
    BY <1>3, <1>1
  <2>. QED
    BY <2>1, <1>1 DEF TableInv, ChainInv, Ordered, InOrder, Past
<1>. QED
  BY <1>1, <1>2, <1>4 DEF Found, Hit

\* avtab_search_node and avtab_search_node_next miss no node, in any table that
\* inserts and removals can lead to.
THEOREM SearchCorrect == Spec => []SearchFindsAll
BY InitTableInv, NextTableInv, OrderedSearch, PTL DEF Spec

\* The table is well formed, in order, and counts its nodes right.
THEOREM TableCorrect == Spec => []TableSound
<1>1. TableInv => TableSound
  BY DEF TableInv, TableSound
<1>. QED
  BY <1>1, InitTableInv, NextTableInv, PTL DEF Spec
--------------------------------------------------------------------------------
LEMMA InsertIsInsert ==
  ASSUME TableInv, NEW n \in Nodes, n.addr \in Free, InsertNode(n),
         \/ n.key.specified \in XpermKinds
         \/ Found(htable[Hash[n.key]], n.key) = {}
  PROVE  NodeTable!Insert(n)
<1>1. \A m \in AllNodes : m.addr # n.addr
  BY DEF Free
<1>2. ASSUME n.key \in UniqueKeys, NEW m \in AllNodes, m.key = n.key PROVE FALSE
  <2>1. Found(htable[Hash[n.key]], n.key) = {}
    BY <1>2, KindsAssumption DEF UniqueKeys
  <2>2. PICK b \in Buckets : \E i \in DOMAIN htable[b] : m = htable[b][i]
    BY <1>2 DEF AllNodes
  <2>3. PICK i \in DOMAIN htable[b] : m = htable[b][i]
    BY <2>2
  <2>4. n.key \in Keys
    BY DEF Nodes
  <2>5. b = Hash[n.key] /\ i \in Found(htable[b], n.key)
    BY <2>3, <2>4, <1>2, OrderedSearch DEF SearchFindsAll
  <2>. QED
    BY <2>1, <2>5
<1>3. n.key \in UniqueKeys => NodeTable!With(n.key) = {}
  BY <1>2 DEF NodeTable!With
<1>4. AllNodes' = AllNodes \cup {n} /\ nel' = nel + 1
  BY InsertKeepsTable
<1>. QED
  BY <1>1, <1>3, <1>4 DEF NodeTable!Insert

LEMMA RefinesInit == Init => NodeTable!Init
<1>1. ASSUME Init PROVE AllNodes = {} /\ nel = 0
  BY <1>1 DEF Init, AllNodes
<1>. QED
  BY <1>1 DEF NodeTable!Init

LEMMA RefinesNext ==
  TableInv /\ [Next]_tabVars => [NodeTable!Next]_<<AllNodes, nel>>
<1>1. ASSUME TableInv, NEW n \in Nodes, n.addr \in Free, InsertNode(n),
             \/ n.key.specified \in XpermKinds
             \/ Found(htable[Hash[n.key]], n.key) = {}
      PROVE  NodeTable!Next
  <2>1. n \in NodeTable!Node
    BY DEF Nodes, NodeTable!Node
  <2>. QED
    BY <2>1, <1>1, InsertIsInsert DEF NodeTable!Next
<1>2. ASSUME TableInv, NEW n \in AllNodes, RemoveNode(n) PROVE NodeTable!Next
  <2>1. NodeTable!Remove(n)
    BY <1>2, RemoveKeepsTable DEF NodeTable!Remove
  <2>. QED
    BY <2>1 DEF NodeTable!Next
<1>3. ASSUME TableInv, Next PROVE NodeTable!Next
  BY <1>1, <1>2, <1>3, StepForms
<1>4. ASSUME UNCHANGED tabVars PROVE UNCHANGED <<AllNodes, nel>>
  BY <1>4 DEF tabVars, AllNodes
<1>. QED
  BY <1>3, <1>4

\* The chained table implements the set of nodes: to its callers, searches and
\* insertions are membership tests and unions.
THEOREM Refinement == Spec => ImplementsNodeSet
BY InitTableInv, NextTableInv, RefinesInit, RefinesNext, PTL
   DEF Spec, ImplementsNodeSet, NodeTable!Spec
================================================================================
