-------------------------------- MODULE AvRules --------------------------------
(***************************************************************************)
(* The access vector rules and the type rules of a policy: sepol_add_rule  *)
(* and sepol_add_type_rule over te_avtab, on top of the type table they    *)
(* name their types in.  te_avtab is a partial function here, one entry    *)
(* per node; Avtab has the hash chains behind it.                          *)
(***************************************************************************)
EXTENDS PolicyTypes

CONSTANTS Classes,     \* the object classes
          Bits,        \* the bits of an access vector, named or not
          Perms,       \* class -> the bits find_perm finds a name for
          AvFiles,     \* what te_avtab may hold in a policy file
          Statements,  \* the rule statements in use
          Any          \* the empty name a * in a statement becomes

VARIABLES avtab,       \* the AVTAB_AV nodes of te_avtab: key -> datum.data
          type_rules   \* its AVTAB_TYPE nodes: key -> default type

ruleVars == <<avtab, type_rules>>
avVars   == <<typeVars, ruleVars>>

AVTAB_ALLOWED    == "allowed"
AVTAB_AUDITALLOW == "auditallow"
AVTAB_AUDITDENY  == "auditdeny"
AvEffects   == {AVTAB_ALLOWED, AVTAB_AUDITALLOW, AVTAB_AUDITDENY}
TypeEffects == {"transition", "change", "member"}

Key(s, t, c, e) == [source_type |-> s, target_type |-> t,
                    target_class |-> c, specified |-> e]
AvKeys   == [source_type : Values, target_type : Values,
             target_class : Classes, specified : AvEffects]
TypeKeys == [source_type : Values, target_type : Values,
             target_class : Classes, specified : TypeEffects]

\* The vector of a new node, which is also the one is_redundant looks for.
NoRule(specified) == IF specified = AVTAB_AUDITDENY THEN Bits ELSE {}

\* avtab_search_node: the vector stored for a key, or the one a new node gets;
\* EntryZero starts every new node with no bits.
EntryZero(tab, k) == IF k \in DOMAIN tab THEN tab[k] ELSE {}
Entry(tab, k) == IF k \in DOMAIN tab THEN tab[k] ELSE NoRule(k.specified)

RulesWellFormed(tab, trules, n) ==
  /\ DOMAIN tab \subseteq AvKeys /\ tab \in [DOMAIN tab -> SUBSET Bits]
  /\ DOMAIN trules \subseteq TypeKeys /\ trules \in [DOMAIN trules -> 1..n]
  /\ \A k \in DOMAIN tab \cup DOMAIN trules :
        k.source_type \in 1..n /\ k.target_type \in 1..n
  /\ \A k \in DOMAIN tab : tab[k] # NoRule(k.specified)

ASSUME ArgsAssumption ==
  /\ Any \notin Names /\ Any \notin Classes /\ Any \notin Bits
  /\ Perms \in [Classes -> SUBSET Bits]
  /\ Statements \subseteq {"allow", "deny", "auditallow", "dontaudit"}
ASSUME AvFilesAssumption ==
  \A g \in AvFiles, f \in Loaded : RulesWellFormed(g.avtab, g.type_rules, f.nprim)

AvInit == /\ TypeInit
          /\ \E g \in AvFiles : avtab = g.avtab /\ type_rules = g.type_rules
--------------------------------------------------------------------------------
\* The effect and the invert flag a statement hands to sepol_add_rule.
EffectOf(st) == CASE st = "allow"      -> AVTAB_ALLOWED
                  [] st = "deny"       -> AVTAB_ALLOWED
                  [] st = "auditallow" -> AVTAB_AUDITALLOW
                  [] OTHER             -> AVTAB_AUDITDENY
InvertOf(st) == st \in {"deny", "dontaudit"}

\* expand_rule: the values a type field stands for.  A * is every type and
\* attribute when strip_av holds and the attributes alone when it does not.
\* StripAvSwapped has the flag backwards, MatchedPastEnd takes all values and one
\* too many.
StripAvSwapped(st) == (EffectOf(st) = AVTAB_AUDITDENY) # ~InvertOf(st)
StripAv(st) == (EffectOf(st) = AVTAB_AUDITDENY) = ~InvertOf(st)
MatchedPastEnd(name, st) ==
  IF name # Any THEN {types[name].value}
  ELSE 1..(nprim + 1) \cap Values
Matched(name, st) ==
  IF name # Any THEN {types[name].value}
  ELSE IF StripAv(st) THEN Declared(types) ELSE AttribValues(types)
MatchedClasses(c) == IF c # Any THEN {c} ELSE Classes

\* add_rule_impl: what a permission, or all of them, does to a vector.  AllFill
\* forgets to look at invert when there is no permission.
AllFill(old, perm, invert) ==
  IF perm = Any THEN Bits ELSE IF invert THEN old \ {perm} ELSE old \cup {perm}
NewVector(old, perm, invert) ==
  LET bits == IF perm # Any THEN {perm} ELSE Bits
  IN IF invert THEN old \ bits ELSE old \cup bits

\* is_redundant; NeverRedundant keeps every node.
NeverRedundant(k, vector) == FALSE
IsRedundant(k, vector) == vector = NoRule(k.specified)

\* sepol_add_rule.  A node is made for every key in reach, changed, and
\* removed again when the change left it redundant.
AddRule(st, s, t, c, perm) ==
  /\ {s, t} \subseteq DOMAIN types \cup {Any}
  /\ c \in Classes \cup {Any}
  /\ perm # Any => c # Any /\ perm \in Perms[c]
  /\ LET reach == [source_type : Matched(s, st), target_type : Matched(t, st),
                   target_class : MatchedClasses(c), specified : {EffectOf(st)}]
         new(k) == NewVector(Entry(avtab, k), perm, InvertOf(st))
         keep == (DOMAIN avtab \ reach)
                   \cup {k \in reach : ~IsRedundant(k, new(k))}
     IN avtab' = [k \in keep |-> IF k \in reach THEN new(k) ELSE avtab[k]]
  /\ UNCHANGED <<typeVars, type_rules>>

\* sepol_add_type_rule: avtab_insert refuses a second node for a key, and the
\* caller ignores its SEPOL_EEXIST.
Occupied(k) == k \in DOMAIN type_rules
AddTypeRule(effect, s, t, c, d) ==
  /\ {s, t, d} \subseteq DOMAIN types
  /\ LET k == Key(types[s].value, types[t].value, c, effect)
     IN /\ ~Occupied(k)
        /\ type_rules' = [j \in DOMAIN type_rules \cup {k} |->
                            IF j = k THEN types[d].value ELSE type_rules[j]]
  /\ UNCHANGED <<typeVars, avtab>>

\* Saving and loading: avtab_read calls a file with no node at all invalid.
FileLoads == DOMAIN avtab \cup DOMAIN type_rules # {}
Reload == FileLoads /\ ReloadTypes /\ UNCHANGED ruleVars

AvNext ==
  \/ \E st \in Statements, s, t \in Names \cup {Any}, c \in Classes \cup {Any},
        perm \in Bits \cup {Any} : AddRule(st, s, t, c, perm)
  \/ \E e \in TypeEffects, s, t, d \in Names, c \in Classes :
        AddTypeRule(e, s, t, c, d)
  \/ TypeStep /\ UNCHANGED ruleVars
  \/ Reload

AvSpec == AvInit /\ [][AvNext]_avVars
--------------------------------------------------------------------------------
\* No rule outlives its types or precedes them: every value in a key or a
\* default is one handed out already, so the next type starts without rules.
KeysDeclared ==
  /\ \A k \in DOMAIN avtab \cup DOMAIN type_rules :
        k.source_type \in 1..nprim /\ k.target_type \in 1..nprim
  /\ \A k \in DOMAIN type_rules : type_rules[k] \in 1..nprim

AvTypeOK == /\ TypeTypeOK /\ KeysDeclared
            /\ DOMAIN avtab \subseteq AvKeys
            /\ avtab \in [DOMAIN avtab -> SUBSET Bits]
            /\ DOMAIN type_rules \subseteq TypeKeys
            /\ type_rules \in [DOMAIN type_rules -> Values]

\* No node says what its absence says (is_redundant at the end of every call).
NoRedundantNode == \A k \in DOMAIN avtab : avtab[k] # NoRule(k.specified)
\* Together: rules about declared types, none of them redundant, whatever the
\* statements, new types and reloads were.
RulesSound == AvTypeOK /\ NoRedundantNode

\* context_struct_compute_av: a decision joins the rules on every pair of
\* entries of the two types' rows.  Conditional rules and constraints are
\* decided apart from te_avtab.
Rows(s, t, c, e) == {Key(i, j, c, e) : i \in type_attr_map[s], j \in type_attr_map[t]}
Allowed(s, t, c) ==
  UNION {Entry(avtab, k) : k \in Rows(s, t, c, AVTAB_ALLOWED)}
AuditDeny(s, t, c) ==
  {b \in Bits : \A k \in Rows(s, t, c, AVTAB_AUDITDENY) : b \in Entry(avtab, k)}

\* deny * * c p takes p of c from everybody: no membership of an attribute, no
\* alias and no type added since loading keeps it.
DenyAllRevokes ==
  [][\A c \in Classes : \A perm \in Perms[c] \cup {Any} :
       AddRule("deny", Any, Any, c, perm) =>
         \A s, t \in Declared(types) :
            (Allowed(s, t, c))' \cap (IF perm = Any THEN Bits ELSE {perm}) = {}
    ]_avVars

\* A deny statement gives nobody anything, and no statement but allow and
\* typeattribute does; in particular neither a new type, nor type rules, nor
\* saving and loading.
OnlyAllowGrants ==
  [][\A s, t \in Declared(types), c \in Classes :
       \/ Allowed(s, t, c)' \subseteq Allowed(s, t, c)
       \/ \E x, y \in Names \cup {Any}, d \in Classes \cup {Any}, perm \in Bits \cup {Any} :
             AddRule("allow", x, y, d, perm)
       \/ \E n, a \in Names : AddTypeAttribute(n, a)]_avVars

\* A type that is new has no access and gives none, whatever was granted to
\* and through * before.
NewTypeHasNoAccess ==
  [][nprim' > nprim =>
       \A v \in Declared(types)', c \in Classes :
          (Allowed(nprim, v, c) = {} /\ Allowed(v, nprim, c) = {})']_avVars

\* The sparse table implements the matrix of what the statements promise.
Matrix == INSTANCE RuleMatrix
            WITH declared <- Declared(types),
                 attribs  <- AttribValues(types),
                 matrix   <- [k \in AvKeys |-> Entry(avtab, k)]
ImplementsMatrix == Matrix!Spec
--------------------------------------------------------------------------------
\* What a statement's help text says of the match-all operator: an allow whose
\* type fields are * reaches every type.
MatchAllReachesEveryType ==
  [][\A c \in Classes, perm \in Bits :
       AddRule("allow", Any, Any, c, perm) =>
         \A s, t \in SimpleValues(types) : perm \in (Allowed(s, t, c))']_avVars

\* validate_access_vector: a vector grants, or silences, one named permission.
VectorsNamePermissions ==
  \A k \in DOMAIN avtab :
     LET bits == IF k.specified = AVTAB_AUDITDENY THEN Bits \ avtab[k] ELSE avtab[k]
     IN bits \cap Perms[k.target_class] # {}

\* validate_avtab_key_and_datum: the default of a type rule is a type.
DefaultsAreTypes ==
  \A k \in DOMAIN type_rules : type_rules[k] \in SimpleValues(types)

\* What this program saved, this program can load.
SavedPolicyLoads == FileLoads
================================================================================
