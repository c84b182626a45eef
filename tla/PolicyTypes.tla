------------------------------ MODULE PolicyTypes ------------------------------
(***************************************************************************)
(* The type table of a loaded policydb and everything that is indexed by a *)
(* type value: the two maps between types and attributes, the permissive   *)
(* map, the types of each role and the type sets of class constraints.     *)
(*                                                                         *)
(* A type or attribute is a name with a value; the engine's bitmaps hold   *)
(* bit v - 1 for value v (permissive_map holds bit v), so every bitmap is  *)
(* a set of values here.  An alias is a name that is not primary: it       *)
(* shares the value of its type.                                           *)
(***************************************************************************)
EXTENDS Integers

CONSTANTS Names,     \* the names a type, an attribute or an alias may have
          Roles,     \* the roles of the policy, object_r included
          Exprs,     \* the CEXPR_NAMES expressions of the class constraints
          MaxTypes,  \* a bound on symtab[SYM_TYPES].nprim
          Loaded     \* the policy files a run may start from

VARIABLES types,           \* symtab[SYM_TYPES].table: name -> type_datum_t
          nprim,           \* symtab[SYM_TYPES].nprim
          type_attr_map,   \* value -> the attributes it has, and itself
          attr_type_map,   \* value -> the types that have it
          permissive_map,  \* the values that are permissive
          role_types,      \* role -> role_datum.types
          role_cache,      \* role -> role_datum.cache
          constraints      \* expression -> type_names and its expansion, names

typeVars == <<types, nprim, type_attr_map, attr_type_map, permissive_map,
              role_types, role_cache, constraints>>

TYPE_TYPE   == "type"
TYPE_ATTRIB == "attribute"
Flavors     == {TYPE_TYPE, TYPE_ATTRIB}

Values == 1..MaxTypes
Datum  == [value : Values, flavor : Flavors, primary : BOOLEAN]

\* The values of a type table, by what type_val_to_struct says of them.
Declared(tab)    == {tab[n].value : n \in DOMAIN tab}
AttribValues(tab) ==
  {tab[n].value : n \in {m \in DOMAIN tab : tab[m].flavor = TYPE_ATTRIB}}
SimpleValues(tab) ==
  {tab[n].value : n \in {m \in DOMAIN tab : tab[m].flavor = TYPE_TYPE}}

(***************************************************************************)
(* What a policy file holds.  policydb_read checks little of it; these are *)
(* the facts about a file written by a policy compiler or by this program. *)
(***************************************************************************)
\* A type table: the declared names and their datums.
IsTypeTable(tab) == DOMAIN tab \subseteq Names /\ tab \in [DOMAIN tab -> Datum]

TypeSet == [types : SUBSET Values, negset : SUBSET Values, names : SUBSET Values]

\* type_set_expand of a constraint's type_names: attributes give their members.
Expansion(ex, tab, attrs) ==
  {v \in SimpleValues(tab) :
      /\ v \in ex.types \/ attrs[v] \cap ex.types \cap AttribValues(tab) # {}
      /\ ~ (v \in ex.negset \/ attrs[v] \cap ex.negset \cap AttribValues(tab) # {})}

CompilerWrote(f) ==
  /\ IsTypeTable(f.types)
  /\ f.nprim \in 0..MaxTypes
  /\ Declared(f.types) \subseteq 1..f.nprim
  /\ \A n, m \in DOMAIN f.types :
        f.types[n].value = f.types[m].value =>
           /\ f.types[n].flavor = f.types[m].flavor
           /\ f.types[n].primary /\ f.types[m].primary => n = m
  /\ f.attrs \in [Values -> SUBSET AttribValues(f.types)]
  /\ \A v \in Values \ SimpleValues(f.types) : f.attrs[v] \subseteq {v}
  /\ f.permissive \subseteq SimpleValues(f.types)
  /\ f.roles \in [Roles -> SUBSET SimpleValues(f.types)]
  /\ f.exprs \in [Exprs -> TypeSet]
  /\ \A e \in Exprs : /\ f.exprs[e].types \subseteq Declared(f.types)
                      /\ f.exprs[e].names = Expansion(f.exprs[e], f.types, f.attrs)

ASSUME MaxTypesAssumption == MaxTypes \in Nat
ASSUME LoadedAssumption == \A f \in Loaded : CompilerWrote(f)
--------------------------------------------------------------------------------
(***************************************************************************)
(* policydb_read: the maps are rebuilt from the one map the file holds,    *)
(* and the role caches from the roles' types.  ReadOwnEntriesOnly forgets  *)
(* to transpose.                                                           *)
(***************************************************************************)
ReadTypeAttrMap(tab, n, attrs) ==
  [v \in 1..n |-> IF v \in Declared(tab) THEN attrs[v] \cup {v} ELSE attrs[v]]

ReadOwnEntriesOnly(tab, n, attrs) ==
  [v \in 1..n |-> IF v \in SimpleValues(tab) THEN {v} ELSE {}]
ReadAttrTypeMap(tab, n, attrs) ==
  [v \in 1..n |-> {i \in 1..n : i # v /\ v \in attrs[i]}
                    \cup (IF v \in SimpleValues(tab) THEN {v} ELSE {})]

\* policydb_role_cache: an attribute of a kernel policy has no member list in
\* its own datum, so expanding a role's types drops the attributes among them.
RoleCache(tab, tset) == tset \ AttribValues(tab)

Read(f) ==
  /\ types = f.types
  /\ nprim = f.nprim
  /\ type_attr_map = ReadTypeAttrMap(f.types, f.nprim, f.attrs)
  /\ attr_type_map = ReadAttrTypeMap(f.types, f.nprim, f.attrs)
  /\ permissive_map = f.permissive
  /\ role_types = f.roles
  /\ role_cache = [r \in Roles |-> RoleCache(f.types, f.roles[r])]
  /\ constraints = f.exprs

TypeInit == \E f \in Loaded : Read(f)
--------------------------------------------------------------------------------
(***************************************************************************)
(* The operations.  A call that names an undeclared type returns -1, and   *)
(* one that declares an existing name returns 0: neither changes anything. *)
(***************************************************************************)
\* symtab_insert hands out the next value.
NewValue == nprim + 1

\* The row of type_attr_map a new value starts with.
OwnRow(v) == {v}

\* Every role gets the new value, and its cache is expanded again afterwards:
\* with no flag and no negset type_set_expand copies the role's types.
RoleTypesOnly(v) == [r \in Roles |-> {v}]
RoleTypesWith(v) == [r \in Roles |-> role_types[r] \cup {v}]
RoleCacheStale(v) == [r \in Roles |-> RoleCache(types, role_types[r])]
RoleCacheWith(v) == RoleTypesWith(v)

AddType(name, flavor) ==
  /\ name \notin DOMAIN types
  /\ nprim < MaxTypes
  /\ LET v == NewValue
     IN /\ nprim' = v
        /\ types' = [n \in DOMAIN types \cup {name} |->
                       IF n = name
                       THEN [value |-> v, flavor |-> flavor, primary |-> TRUE]
                       ELSE types[n]]
        /\ type_attr_map' = [w \in 1..v |->
                               IF w = v THEN OwnRow(v) ELSE type_attr_map[w]]
        /\ attr_type_map' = [w \in 1..v |->
                               IF w = v THEN {} ELSE attr_type_map[w]]
        /\ role_types' = RoleTypesWith(v)
        /\ role_cache' = RoleCacheWith(v)
  /\ UNCHANGED <<permissive_map, constraints>>

SetTypeState(name, permissive) ==
  /\ name \in DOMAIN types
  /\ permissive_map' = IF permissive
                       THEN permissive_map \cup {types[name].value}
                       ELSE permissive_map \ {types[name].value}
  /\ UNCHANGED <<types, nprim, type_attr_map, attr_type_map,
                 role_types, role_cache, constraints>>

\* sepol_set_type_state with an empty name walks i from 0 and uses bit i + 1.
AllTypes == 1..nprim
SetAllTypesState(permissive) ==
  /\ permissive_map' = IF permissive THEN permissive_map \cup AllTypes
                                     ELSE permissive_map \ AllTypes
  /\ UNCHANGED <<types, nprim, type_attr_map, attr_type_map,
                 role_types, role_cache, constraints>>

\* The three places a membership is recorded in, and the slip of skipping one.
AttrTypeMapUnchanged(t, a) == attr_type_map
AttrTypeMapWith(t, a) == [attr_type_map EXCEPT ![a] = @ \cup {t}]
ConstraintsUnchanged(t, a) == constraints
ConstraintsWith(t, a) ==
  [e \in Exprs |-> IF a \in constraints[e].types
                   THEN [constraints[e] EXCEPT !.names = @ \cup {t}]
                   ELSE constraints[e]]

AddTypeAttribute(name, attr) ==
  /\ name \in DOMAIN types /\ types[name].flavor = TYPE_TYPE
  /\ attr \in DOMAIN types /\ types[attr].flavor = TYPE_ATTRIB
  /\ LET t == types[name].value
         a == types[attr].value
     IN /\ type_attr_map' = [type_attr_map EXCEPT ![t] = @ \cup {a}]
        /\ attr_type_map' = AttrTypeMapWith(t, a)
        /\ constraints' = ConstraintsWith(t, a)
  /\ UNCHANGED <<types, nprim, permissive_map, role_types, role_cache>>

(***************************************************************************)
(* sepol_db_to_file, then sepol_db_from_file of what it wrote, in a later  *)
(* invocation of the program.  attr_type_map and the caches are not in the *)
(* file: they are rebuilt.                                                 *)
(***************************************************************************)
ReloadTypes ==
  /\ type_attr_map' = ReadTypeAttrMap(types, nprim, type_attr_map)
  /\ attr_type_map' = ReadAttrTypeMap(types, nprim, type_attr_map)
  /\ role_cache' = [r \in Roles |-> RoleCache(types, role_types[r])]
  /\ UNCHANGED <<types, nprim, permissive_map, role_types, constraints>>

TypeStep ==
  \/ \E n \in Names, f \in Flavors : AddType(n, f)
  \/ \E n \in Names, p \in BOOLEAN : SetTypeState(n, p)
  \/ \E p \in BOOLEAN : SetAllTypesState(p)
  \/ \E n, a \in Names : AddTypeAttribute(n, a)

TypeNext == TypeStep \/ ReloadTypes

TypeSpec == TypeInit /\ [][TypeNext]_typeVars
--------------------------------------------------------------------------------
TypeTypeOK ==
  /\ IsTypeTable(types)
  /\ nprim \in 0..MaxTypes
  /\ type_attr_map \in [1..nprim -> SUBSET (1..nprim)]
  /\ attr_type_map \in [1..nprim -> SUBSET (1..nprim)]
  /\ permissive_map \subseteq 1..nprim
  /\ role_types \in [Roles -> SUBSET (1..nprim)]
  /\ role_cache \in [Roles -> SUBSET (1..nprim)]
  /\ constraints \in [Exprs -> TypeSet]

\* A value is handed out once: two primary names never share one, an alias has
\* the flavor of its type, and every value is within the arrays nprim sizes.
ValuesDistinct ==
  /\ Declared(types) \subseteq 1..nprim
  /\ \A n, m \in DOMAIN types :
        types[n].value = types[m].value =>
           /\ types[n].flavor = types[m].flavor
           /\ types[n].primary /\ types[m].primary => n = m

\* The two maps are each other's transpose, whatever mix of new types, new
\* attributes, typeattribute statements and reloads led here; access decisions
\* read one and the attribute printer and the assertion checker the other.
MapsTransposed ==
  \A t, a \in 1..nprim :
     t # a => (a \in type_attr_map[t] <=> t \in attr_type_map[a])

\* Every declared type stands in its own row and its other entries are
\* attributes; a rule on the type itself is found by that entry alone.
RowsWellFormed ==
  \A v \in Declared(types) :
     /\ v \in type_attr_map[v]
     /\ type_attr_map[v] \ {v} \subseteq AttribValues(types)
     /\ v \in AttribValues(types) => type_attr_map[v] = {v}

\* The types a constraint expression names are those its type set stands for,
\* as sepol_add_typeattribute maintains them; type sets with a negated part are
\* left out, the code does not consult negset.
ConstraintsExpanded ==
  \A e \in Exprs : constraints[e].negset = {} =>
     constraints[e].names = Expansion(constraints[e], types, type_attr_map)

\* Which (role, type) pairs policydb_context_isvalid accepts.
ContextValid(r, v) == v \in role_cache[r]

\* A role's cache and its types agree on every type that is not an attribute,
\* whichever of the engine and policydb_role_cache computed the cache last.
CacheIsRoleTypes ==
  \A r \in Roles : role_cache[r] \ AttribValues(types)
                      = role_types[r] \ AttribValues(types)

\* What sepol_add_type has to keep of everything that is indexed by a value, and
\* what MapsTransposed rests on.
TableConsistent == ValuesDistinct /\ RowsWellFormed /\ CacheIsRoleTypes
\* Together: the type table and everything that is indexed by a value.
TypesSound == TypeTypeOK /\ TableConsistent

\* A context that is valid stays valid: no later statement and no save and
\* reload may reject it, or a genfscon context already stored would make the
\* written policy unreadable (context_read_and_validate).
ContextsStayValid ==
  [][\A r \in Roles, v \in SimpleValues(types) :
        ContextValid(r, v) => ContextValid(r, v)']_typeVars

\* Saving and loading gives back the same policy: only the bookkeeping bits of
\* attr_type_map and the attributes in the caches may differ.
ReloadKeepsMaps ==
  [][ReloadTypes => /\ type_attr_map' = type_attr_map
                    /\ \A a \in 1..nprim :
                          attr_type_map'[a] \ {a} = attr_type_map[a] \ {a}
    ]_typeVars

\* policydb_validate.c calls a permissive value that is not a type invalid.
PermissivesAreTypes == permissive_map \subseteq SimpleValues(types)
================================================================================
