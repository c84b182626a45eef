------------------------------- MODULE PolicyFile -------------------------------
(***************************************************************************)
(* The file a policy is kept in: policydb_write and policydb_read of a     *)
(* kernel policy for SELinux, section by section, for every version from   *)
(* 15 to 33, together with the statements that change a policy between     *)
(* loading and saving it.                                                  *)
(*                                                                         *)
(* A file is a sequence of items, one per record or bitmap, and one for    *)
(* the number that precedes a list.  The file itself holds words without   *)
(* names; that an item has named fields is what lets the model see a       *)
(* reader take one field for another (Misread), which the code would not   *)
(* notice.  Names, strings and bitmaps inside of records are values.       *)
(***************************************************************************)
EXTENDS Integers, Sequences, FiniteSets, SequencesExt

CONSTANTS Loaded,      \* the policies a run may find in a file, as loaded
          Names,       \* names for new types and attributes
          Perms,       \* the bits of an access vector
          Drivers,     \* the drivers extended rules speak of
          TypeClass,   \* the class that rules are given for
          Pairs,       \* the sources and targets that rules are given for
          Paths        \* paths for genfscon and names for type transitions

VARIABLES db,          \* the policydb
          compat,      \* avtab_android_m_compat, a global of the process
          file,        \* what was saved last
          saved,       \* the policydb it was saved from
          outcome      \* what became of reading it, "none" before and after an edit

vars == <<db, compat, file, saved, outcome>>

POLICYDB_VERSION_BOOL                == 16
POLICYDB_VERSION_IPV6                == 17
POLICYDB_VERSION_MLS                 == 19
POLICYDB_VERSION_VALIDATETRANS       == 19
POLICYDB_VERSION_AVTAB               == 20
POLICYDB_VERSION_RANGETRANS          == 21
POLICYDB_VERSION_POLCAP              == 22
POLICYDB_VERSION_PERMISSIVE          == 23
POLICYDB_VERSION_BOUNDARY            == 24
POLICYDB_VERSION_FILENAME_TRANS      == 25
POLICYDB_VERSION_ROLETRANS           == 26
POLICYDB_VERSION_NEW_OBJECT_DEFAULTS == 27
POLICYDB_VERSION_DEFAULT_TYPE        == 28
POLICYDB_VERSION_CONSTRAINT_NAMES    == 29
POLICYDB_VERSION_XPERMS_IOCTL        == 30
POLICYDB_VERSION_INFINIBAND          == 31
POLICYDB_VERSION_COMP_FTRANS         == 33

\* The kinds of nodes of te_avtab.  An extended node is a driver node (a bit per
\* driver) or a function node (a bit per command of its driver).
AvSpecs    == {"allowed", "auditdeny", "auditallow"}
TypeSpecs  == {"transition", "change", "member"}
KindByte(x) == IF x = "function" THEN 1 ELSE 2     \* AVTAB_XPERMS_IOCTL...
KindBytes   == 1..3                                \* 3 is AVTAB_XPERMS_NLMSG

Key(s, t, c, spec) == [s |-> s, t |-> t, c |-> c, spec |-> spec]
XKey(s, t, c, kind, driver) ==
  [s |-> s, t |-> t, c |-> c, spec |-> "xperms", kind |-> kind, driver |-> driver]
IsXperm(k) == k.spec = "xperms"

\* A record or table with the fields of another one that it lacks.
Also(f, more)  == [x \in DOMAIN f \cup DOMAIN more |-> IF x \in DOMAIN f THEN f[x] ELSE more[x]]
Single(k, val) == [x \in {k} |-> val]

\* The version decides whether a field, or a whole section, is there.
If(cond, fields)    == IF cond THEN fields ELSE <<>>
Given(cond, names)  == IF cond THEN names ELSE {}
FieldOr(r, f, none) == IF f \in DOMAIN r THEN r[f] ELSE none

Named(d)   == {t.value : t \in d.types}
Attribs(d) == {t.value : t \in {u \in d.types : u.attrib}}
Simple(d)  == Named(d) \ Attribs(d)
--------------------------------------------------------------------------------
(***************************************************************************)
(* policydb_write.                                                         *)
(***************************************************************************)
Listed(S) == SetToSeq(S)
Nel(n) == [k |-> "nel", n |-> n]
Items(S, Item(_)) == [i \in DOMAIN Listed(S) |-> Item(Listed(S)[i])]
Counted(items)    == <<Nel(Len(items))>> \o items
List(S, Item(_))  == Counted(Items(S, Item))
Concat(n, Part(_)) == FlattenSeq([i \in 1..n |-> Part(i)])
Bitmap(set) == [k |-> "bitmap", bits |-> set]

\* context_write.
WriteContext(v, c) ==
  Also([user |-> c.user, type |-> c.type], If(v >= POLICYDB_VERSION_MLS, [range |-> c.range]))

\* write_cons_helper, for the expressions that name types.
WriteConstraint(v, e) ==
  Also([names |-> e.names],
       If(v >= POLICYDB_VERSION_CONSTRAINT_NAMES, [type_names |-> e.type_names]))

\* class_write, role_write, type_write, user_write.
WriteClass(v, c) ==
  Also([k |-> "classes", name |-> c.name,
        constraints |-> {WriteConstraint(v, e) : e \in c.constraints}],
  Also(If(v >= POLICYDB_VERSION_VALIDATETRANS,
          [validatetrans |-> {WriteConstraint(v, e) : e \in c.validatetrans}]),
  Also(If(v >= POLICYDB_VERSION_NEW_OBJECT_DEFAULTS, [defaults |-> c.defaults]),
       If(v >= POLICYDB_VERSION_DEFAULT_TYPE, [default_type |-> c.default_type]))))
WriteRole(v, r) ==
  Also([k |-> "roles", name |-> r.name, types |-> r.types],
       If(v >= POLICYDB_VERSION_BOUNDARY, [bounds |-> r.bounds]))
WriteType(v, t) ==
  Also([k |-> "types", name |-> t.name, value |-> t.value],
       IF v >= POLICYDB_VERSION_BOUNDARY
       THEN [properties |-> t.attrib, bounds |-> t.bounds]
       ELSE [primary |-> TRUE])
WriteUser(v, u) ==
  Also([k |-> "users", name |-> u.name, roles |-> u.roles],
  Also(If(v >= POLICYDB_VERSION_BOUNDARY, [bounds |-> u.bounds]),
       If(v >= POLICYDB_VERSION_MLS, [range |-> u.range])))
WriteName(kind, n) == [k |-> kind, name |-> n]

\* An old version has no entries for attributes, and counts none.
WrittenTypes(d) ==
  {t \in d.types : d.vers < POLICYDB_VERSION_BOUNDARY => ~t.attrib}
TypeCount(d) == Cardinality(WrittenTypes(d))

(***************************************************************************)
(* avtab_write.  Before version 20 attributes are replaced by their types, *)
(* and the nodes of a key are merged into one entry; from then on there    *)
(* is an item per node, in the order of the hash table, which is any.      *)
(***************************************************************************)
Members(d, v) ==
  IF v \in Simple(d) THEN {v}
  ELSE {i \in 1..d.nprim : i # v /\ v \in d.type_attr_map[i]}
Sources(d, tab, k) ==
  {j \in DOMAIN tab : /\ j.spec = k.spec /\ j.c = k.c
                      /\ k.s \in Members(d, j.s) /\ k.t \in Members(d, j.t)}
Expandable(d, tab) ==
  UNION {{Key(s, t, j.c, j.spec) : s \in Members(d, j.s), t \in Members(d, j.t)}
           : j \in DOMAIN tab}

\* expand_avtab_insert: what nodes that become one say together.  JoinedByUnion
\* takes a vector of what is logged for one of what is allowed.
JoinedByUnion(spec, data) ==
  IF spec \in TypeSpecs THEN CHOOSE x \in data : TRUE ELSE UNION data
Joined(spec, data) ==
  CASE spec = "auditdeny" -> {b \in Perms : \A x \in data : b \in x}
    [] spec \in TypeSpecs -> CHOOSE x \in data : TRUE
    [] OTHER              -> UNION data
Expand(d, tab) ==
  [k \in Expandable(d, tab) |-> Joined(k.spec, {tab[j] : j \in Sources(d, tab, k)})]
TypeConflict(d, tab) ==
  \E k \in Expandable(d, tab) :
     k.spec \in TypeSpecs /\ Cardinality(Sources(d, tab, k)) > 1

OldEntry(tab, keys) ==
  LET any == CHOOSE k \in keys : TRUE
  IN [k |-> "te_avtab", s |-> any.s, t |-> any.t, c |-> any.c,
      data |-> [spec \in {j.spec : j \in keys} |->
                  tab[CHOOSE j \in keys : j.spec = spec]]]
Merged(tab) ==
  {{j \in DOMAIN tab : /\ <<j.s, j.t, j.c>> = <<k.s, k.t, k.c>>
                       /\ j.spec \in AvSpecs <=> k.spec \in AvSpecs} : k \in DOMAIN tab}

\* An extended node: after an Android M policy was read its drivers are written
\* with an operation type in the key, and no byte for the kind.
WriteNode(m, tab, k) ==
  Also([k |-> "te_avtab", key |-> Key(k.s, k.t, k.c, k.spec), data |-> tab[k]],
       If(IsXperm(k),
          [optype |-> m /\ k.kind = "driver",
           bytes  |-> IF m THEN <<k.driver>> ELSE <<KindByte(k.kind), k.driver>>]))

WriteRules(d, m, tab, order) ==
  IF d.vers < POLICYDB_VERSION_AVTAB
  THEN LET exp == Expand(d, tab) IN List(Merged(exp), LAMBDA keys : OldEntry(exp, keys))
  ELSE Counted([i \in DOMAIN order |-> WriteNode(m, tab, order[i])])

\* cond_write_av_list merges nothing.
WriteCondRules(d, m, tab) ==
  IF d.vers < POLICYDB_VERSION_AVTAB
  THEN LET exp == Expand(d, tab) IN List(DOMAIN exp, LAMBDA k : OldEntry(exp, {k}))
  ELSE List(DOMAIN tab, LAMBDA k : WriteNode(m, tab, k))
WriteCond(d, m, n) ==
  [k |-> "cond_list", state |-> n.state, expr |-> n.expr,
   true_list |-> WriteCondRules(d, m, n.true_list),
   false_list |-> WriteCondRules(d, m, n.false_list)]

\* role_trans_write and range_write leave out what is not about processes when
\* the version cannot say so.
OfProcess(S, all) == {r \in S : all \/ r.class = "process"}
WriteRoleTrans(v, r) ==
  Also([k |-> "role_tr", role |-> r.role, type |-> r.type, new_role |-> r.new_role],
       If(v >= POLICYDB_VERSION_ROLETRANS, [class |-> r.class]))
WriteRangeTrans(v, r) ==
  Also([k |-> "range_tr", s |-> r.s, t |-> r.t, range |-> r.range],
       If(v >= POLICYDB_VERSION_RANGETRANS, [class |-> r.class]))
WriteRoleAllow(r) == [k |-> "role_allow", role |-> r.role, new_role |-> r.new_role]

(***************************************************************************)
(* The filename transitions.  A key, here a target and a name, has a chain *)
(* of nodes, and a node a default for a set of sources: filename_trans has *)
(* an element for each source of each node, with the node's place in its   *)
(* chain.  filename_trans_write writes an entry per element, node by node  *)
(* (that it goes key by key makes no difference: entries of two keys do    *)
(* not meet), or from version 33 on an item per key, with the chain as a   *)
(* function from nodes to sources; FirstOfChain leaves it at the first.    *)
(***************************************************************************)
Trans(s, key, otype, at) ==
  [s |-> s, t |-> key.t, name |-> key.name, otype |-> otype, at |-> at]
FtKeys(d)         == {[t |-> f.t, name |-> f.name] : f \in d.filename_trans}
Chain(trans, key) == {f \in trans : f.t = key.t /\ f.name = key.name}
Length(trans)     == Max({f.at : f \in trans} \cup {0})

FtNode(f) == [at |-> f.at, otype |-> f.otype]
FirstOfChain(d, key) ==
  [n \in {FtNode(f) : f \in {g \in Chain(d.filename_trans, key) : g.at = 1}} |->
     {f.s : f \in {g \in Chain(d.filename_trans, key) : FtNode(g) = n}}]
FtChain(d, key) ==
  [n \in {FtNode(f) : f \in Chain(d.filename_trans, key)} |->
     {f.s : f \in {g \in Chain(d.filename_trans, key) : FtNode(g) = n}}]

Transition(f) == [s |-> f.s, t |-> f.t, name |-> f.name, otype |-> f.otype]
WriteEntry(f) == [k |-> "filename_trans", trans |-> Transition(f)]
FtEntries(d) ==
  Concat(Length(d.filename_trans), LAMBDA i :
    Items({f \in d.filename_trans : f.at = i}, WriteEntry))
WriteFilenameTrans(d) ==
  IF d.vers < POLICYDB_VERSION_COMP_FTRANS THEN Counted(FtEntries(d))
  ELSE List(FtKeys(d), LAMBDA key : [k |-> "filename_trans", key |-> key, chain |-> FtChain(d, key)])

\* ocontext_write_selinux: two contexts for file systems and interfaces, else one.
Ocontexts == <<"isid", "fs", "port", "netif", "node", "fsuse", "node6", "ibpkey", "ibendport">>
WriteOcontext(v, kind, o) ==
  [k |-> kind, id |-> o.id,
   contexts |-> [i \in DOMAIN o.contexts |-> WriteContext(v, o.contexts[i])]]
WriteGenfs(v, g) ==
  [k |-> "genfs", fs |-> g.fs,
   entries |-> {[path |-> e.path, context |-> WriteContext(v, e.context)] : e \in g.entries}]

\* policydb_lookup_compat: how many symbol tables and lists of contexts there are.
SymNum(v) == IF v >= POLICYDB_VERSION_MLS THEN 8
             ELSE IF v >= POLICYDB_VERSION_BOOL THEN 6 ELSE 5
OconNum(v) == IF v >= POLICYDB_VERSION_INFINIBAND THEN 9
              ELSE IF v >= POLICYDB_VERSION_IPV6 THEN 7 ELSE 6
Symtabs == <<"commons", "classes", "roles", "types", "users", "bools", "levels", "cats">>

WriteSymtab(d, tab) ==
  CASE tab = "classes" -> List(d.classes, LAMBDA c : WriteClass(d.vers, c))
    [] tab = "roles"   -> List(d.roles, LAMBDA r : WriteRole(d.vers, r))
    [] tab = "users"   -> List(d.users, LAMBDA u : WriteUser(d.vers, u))
    [] tab = "types"   ->
         <<Also(Nel(TypeCount(d)), [nprim |-> d.nprim])>>
           \o Items(WrittenTypes(d), LAMBDA t : WriteType(d.vers, t))
    [] OTHER           -> List(d[tab], LAMBDA n : WriteName(tab, n))

\* The file a policy is written to, when the nodes of te_avtab come in this order.
Image(d, m, order) ==
  LET v == d.vers
  IN <<[k |-> "header", vers |-> v, mls |-> d.mls,
        sym_num |-> SymNum(v), ocon_num |-> OconNum(v)]>>
     \o If(v >= POLICYDB_VERSION_POLCAP, <<Bitmap(d.policycaps)>>)
     \o If(v >= POLICYDB_VERSION_PERMISSIVE, <<Bitmap(d.permissive)>>)
     \o Concat(SymNum(v), LAMBDA i : WriteSymtab(d, Symtabs[i]))
     \o WriteRules(d, m, d.te_avtab, order)
     \o If(v >= POLICYDB_VERSION_BOOL,
           List(d.cond_list, LAMBDA n : WriteCond(d, m, n)))
     \o List(OfProcess(d.role_tr, v >= POLICYDB_VERSION_ROLETRANS),
             LAMBDA r : WriteRoleTrans(v, r))
     \o List(d.role_allow, WriteRoleAllow)
     \o If(v >= POLICYDB_VERSION_FILENAME_TRANS, WriteFilenameTrans(d))
     \o Concat(OconNum(v), LAMBDA i :
          List(d.ocontexts[Ocontexts[i]], LAMBDA o : WriteOcontext(v, Ocontexts[i], o)))
     \o List(d.genfs, LAMBDA g : WriteGenfs(v, g))
     \o If(v >= POLICYDB_VERSION_MLS,
           List(OfProcess(d.range_tr, v >= POLICYDB_VERSION_RANGETRANS),
                LAMBDA r : WriteRangeTrans(v, r)))
     \o If(v >= POLICYDB_VERSION_AVTAB,
           [i \in 1..d.nprim |-> Bitmap(d.type_attr_map[i])])

\* When policydb_write gives up.
CanWrite(d) ==
  /\ d.mls => d.vers >= POLICYDB_VERSION_MLS
  /\ d.vers < POLICYDB_VERSION_XPERMS_IOCTL => ~ \E k \in DOMAIN d.te_avtab : IsXperm(k)
  /\ d.vers < POLICYDB_VERSION_AVTAB =>
       \A tab \in {d.te_avtab} \cup UNION {{n.true_list, n.false_list} : n \in d.cond_list} :
          ~TypeConflict(d, tab)
--------------------------------------------------------------------------------
(***************************************************************************)
(* policydb_read.  The reader takes one section after the other, each as   *)
(* long as its first word says, and expects the fields of its version.     *)
(***************************************************************************)
Sections(v) ==
  <<"header">>
    \o If(v >= POLICYDB_VERSION_POLCAP, <<"policycaps">>)
    \o If(v >= POLICYDB_VERSION_PERMISSIVE, <<"permissive">>)
    \o SubSeq(Symtabs, 1, SymNum(v))
    \o <<"te_avtab">> \o If(v >= POLICYDB_VERSION_BOOL, <<"cond_list">>)
    \o <<"role_tr", "role_allow">>
    \o If(v >= POLICYDB_VERSION_FILENAME_TRANS, <<"filename_trans">>)
    \o SubSeq(Ocontexts, 1, OconNum(v)) \o <<"genfs">>
    \o If(v >= POLICYDB_VERSION_MLS, <<"range_tr">>)
    \o If(v >= POLICYDB_VERSION_AVTAB, <<"type_attr_map">>)

\* Where the section that follows one starts; past the end when the file stops
\* short, or has something else where the number of items is expected.
Alone(sec) == sec \in {"header", "policycaps", "permissive"}
CountAt(f, p) == IF p <= Len(f) /\ "n" \in DOMAIN f[p] THEN f[p].n ELSE Len(f) + 1
After(f, sec, p, nprim) ==
  CASE Alone(sec)            -> p + 1
    [] sec = "type_attr_map" -> p + nprim
    [] OTHER                 -> p + 1 + CountAt(f, p)

\* Each section with its items; nprim is known once the types are read.
Nprim(f, p) == IF p <= Len(f) /\ "nprim" \in DOMAIN f[p] THEN f[p].nprim ELSE 0
Opened == [at |-> 1, nprim |-> 0, parts |-> Single("header", <<>>)]
NextSection(f, layout, sec) ==
  LET p     == layout.at
      nprim == IF sec = "types" THEN Nprim(f, p) ELSE layout.nprim
      next  == After(f, sec, p, nprim)
      first == IF Alone(sec) \/ sec = "type_attr_map" THEN p ELSE p + 1
  IN [at |-> next, nprim |-> nprim,
      parts |-> Also(Single(sec, SubSeq(f, first, next - 1)), layout.parts)]
Layout(f) ==
  LET Step(layout, sec) == NextSection(f, layout, sec)
  IN IF f = <<>> THEN [Opened EXCEPT !.parts = <<>>]
     ELSE FoldLeft(Step, Opened, Sections(f[1].vers))

\* The fields the reader takes for an item.
ContextFields(v) == {"user", "type"} \cup Given(v >= POLICYDB_VERSION_MLS, {"range"})
ConstraintFields(v) ==
  {"names"} \cup Given(v >= POLICYDB_VERSION_CONSTRAINT_NAMES, {"type_names"})
ClassFields(v) ==
  {"name", "constraints"}
    \cup Given(v >= POLICYDB_VERSION_VALIDATETRANS, {"validatetrans"})
    \cup Given(v >= POLICYDB_VERSION_NEW_OBJECT_DEFAULTS, {"defaults"})
    \cup Given(v >= POLICYDB_VERSION_DEFAULT_TYPE, {"default_type"})
RoleFields(v) == {"name", "types"} \cup Given(v >= POLICYDB_VERSION_BOUNDARY, {"bounds"})
TypeFields(v) ==
  {"name", "value"} \cup
     IF v >= POLICYDB_VERSION_BOUNDARY THEN {"properties", "bounds"} ELSE {"primary"}
UserFields(v) ==
  {"name", "roles"} \cup Given(v >= POLICYDB_VERSION_BOUNDARY, {"bounds"})
                    \cup Given(v >= POLICYDB_VERSION_MLS, {"range"})
RoleTransFields(v) ==
  {"role", "type", "new_role"} \cup Given(v >= POLICYDB_VERSION_ROLETRANS, {"class"})
RangeTransFields(v) ==
  {"s", "t", "range"} \cup Given(v >= POLICYDB_VERSION_RANGETRANS, {"class"})
FilenameTransFields(v) ==
  IF v >= POLICYDB_VERSION_COMP_FTRANS THEN {"key", "chain"} ELSE {"trans"}
RuleFields(v) == IF v >= POLICYDB_VERSION_AVTAB THEN {"key", "data"} ELSE {"s", "t", "c", "data"}

ItemFields(v, sec) ==
  CASE sec = "classes"         -> ClassFields(v)
    [] sec = "roles"           -> RoleFields(v)
    [] sec = "types"           -> TypeFields(v)
    [] sec = "users"           -> UserFields(v)
    [] sec = "cond_list"       -> {"state", "expr", "true_list", "false_list"}
    [] sec = "role_tr"         -> RoleTransFields(v)
    [] sec = "role_allow"      -> {"role", "new_role"}
    [] sec = "filename_trans"  -> FilenameTransFields(v)
    [] sec \in ToSet(Ocontexts) -> {"id", "contexts"}
    [] sec = "genfs"           -> {"fs", "entries"}
    [] sec = "range_tr"        -> RangeTransFields(v)
    [] OTHER                   -> {"name"}

\* What is inside of an item is read with the same versions.
InnerFits(v, sec, x) ==
  CASE sec = "classes" ->
         \A e \in x.constraints \cup FieldOr(x, "validatetrans", {}) :
            DOMAIN e = ConstraintFields(v)
    [] sec = "genfs"   -> \A e \in x.entries : DOMAIN e.context = ContextFields(v)
    [] sec \in ToSet(Ocontexts) ->
         \A i \in DOMAIN x.contexts : DOMAIN x.contexts[i] = ContextFields(v)
    [] OTHER -> TRUE
Fits(v, sec, x) ==
  CASE sec = "header" -> x.k = sec
    [] sec \in {"policycaps", "permissive", "type_attr_map"} -> x.k = "bitmap"
    [] sec = "te_avtab" -> x.k = sec   \* see ReadRules
    [] OTHER -> /\ x.k = sec /\ DOMAIN x = {"k"} \cup ItemFields(v, sec)
                /\ InnerFits(v, sec, x)

(***************************************************************************)
(* avtab_read_item.  In version 30 an operation type in the key, or a      *)
(* first byte that is no kind of a node, shows a policy of Android M, and  *)
(* what comes later is read as one: m goes from node to node, and on to    *)
(* what the process writes.  ByteIsKind is without that memory.            *)
(***************************************************************************)
AfterOptype(v, m, x) == m \/ (v = POLICYDB_VERSION_XPERMS_IOCTL /\ x.optype)
ByteIsKind(v, m, x) ==
  v = POLICYDB_VERSION_XPERMS_IOCTL /\ (x.optype \/ x.bytes[1] \notin KindBytes)
OneByte(v, m, x) ==
  \/ AfterOptype(v, m, x)
  \/ v = POLICYDB_VERSION_XPERMS_IOCTL /\ x.bytes[1] \notin KindBytes
KindOf(byte) == IF byte = 1 THEN "function" ELSE "driver"
ReadNode(v, m, x) ==
  IF ~IsXperm(x.key)
  THEN [ok |-> DOMAIN x = {"k"} \cup RuleFields(v), m |-> m, key |-> x.key]
  ELSE LET one == OneByte(v, m, x)
           kind == IF ~one THEN KindOf(x.bytes[1])
                   ELSE IF x.optype THEN "driver" ELSE "function"
       IN [ok  |-> Len(x.bytes) = IF one THEN 1 ELSE 2,
           m   |-> one,
           key |-> XKey(x.key.s, x.key.t, x.key.c, kind, Last(x.bytes))]

\* The rules of a list, one by one, with their keys.
OldRules(x) ==
  LET specs == Listed(DOMAIN x.data)
  IN [i \in DOMAIN specs |-> [key |-> Key(x.s, x.t, x.c, specs[i]), data |-> x.data[specs[i]]]]
ReadOld(v, read, x) ==
  [ok |-> read.ok /\ DOMAIN x = {"k"} \cup RuleFields(v), m |-> read.m,
   rules |-> read.rules \o OldRules(x)]
ReadNew(v, read, x) ==
  LET node == ReadNode(v, read.m, x)
  IN [ok |-> read.ok /\ node.ok, m |-> node.m,
      rules |-> Append(read.rules, [key |-> node.key, data |-> x.data])]
ReadRules(v, m0, items) ==
  LET Old(read, x) == ReadOld(v, read, x)
      New(read, x) == ReadNew(v, read, x)
      none == [ok |-> TRUE, m |-> m0, rules |-> <<>>]
  IN IF v < POLICYDB_VERSION_AVTAB THEN FoldLeft(Old, none, items)
     ELSE FoldLeft(New, none, items)
\* avtab_insert refuses a second rule for a key; KeyOnly has forgotten the driver.
KeyOnly(k, j) == <<k.s, k.t, k.c, k.spec>> = <<j.s, j.t, j.c, j.spec>>
Same(k, j) == k = j
HasTwice(rules) ==
  \E i, j \in DOMAIN rules : i < j /\ Same(rules[i].key, rules[j].key)
Table(rules) ==
  [k \in {rules[i].key : i \in DOMAIN rules} |->
     rules[CHOOSE i \in DOMAIN rules : rules[i].key = k].data]

\* cond_read_node and cond_insertf.
ReadCond(v, x) ==
  [state |-> x.state, expr |-> x.expr,
   true_list  |-> Table(ReadRules(v, FALSE, Tail(x.true_list)).rules),
   false_list |-> Table(ReadRules(v, FALSE, Tail(x.false_list)).rules)]
TypeKeys(keys) == {k \in keys : k.spec \in TypeSpecs}
CondKeys(n) == TypeKeys(DOMAIN n.true_list \cup DOMAIN n.false_list)
CondConflict(table, conds) ==
  \/ \E n \in conds : CondKeys(n) \cap DOMAIN table # {}
  \/ \E n, n2 \in conds : n # n2 /\ CondKeys(n) \cap CondKeys(n2) # {}

\* A field the version lacks has the value policydb_init gives it.
ReadConstraint(e) == [names |-> e.names, type_names |-> FieldOr(e, "type_names", {})]
ReadClass(c) ==
  [name |-> c.name, constraints |-> {ReadConstraint(e) : e \in c.constraints},
   validatetrans |-> {ReadConstraint(e) : e \in FieldOr(c, "validatetrans", {})},
   defaults |-> FieldOr(c, "defaults", 0), default_type |-> FieldOr(c, "default_type", 0)]
ReadRole(r) == [name |-> r.name, types |-> r.types, bounds |-> FieldOr(r, "bounds", 0)]
ReadType(t) == [name |-> t.name, value |-> t.value,
                attrib |-> FieldOr(t, "properties", FALSE), bounds |-> FieldOr(t, "bounds", 0)]
ReadUser(u) == [name |-> u.name, roles |-> u.roles,
                bounds |-> FieldOr(u, "bounds", 0), range |-> FieldOr(u, "range", {})]
ReadContext(c) == [user |-> c.user, type |-> c.type, range |-> FieldOr(c, "range", {})]
ReadOcontext(o) ==
  [id |-> o.id, contexts |-> [i \in DOMAIN o.contexts |-> ReadContext(o.contexts[i])]]
ReadGenfs(g) ==
  [fs |-> g.fs,
   entries |-> {[path |-> e.path, context |-> ReadContext(e.context)] : e \in g.entries}]
ReadRoleTrans(r) == [role |-> r.role, type |-> r.type, new_role |-> r.new_role,
                     class |-> FieldOr(r, "class", "process")]
ReadRangeTrans(r) == [s |-> r.s, t |-> r.t, range |-> r.range,
                      class |-> FieldOr(r, "class", "process")]
ReadRoleAllow(r) == [role |-> r.role, new_role |-> r.new_role]

\* Where the walk down a chain for an entry or a statement stops: at the first
\* node that has the source or the default.
Stop(chain, e) ==
  LET met == {f \in chain : f.s = e.s \/ f.otype = e.otype}
  IN {f \in met : \A g \in met : f.at <= g.at}
\* policydb_filetrans_insert: the source is added to that node, which may have it,
\* or to a new one at the end.
InsertEntry(trans, e) ==
  LET chain == Chain(trans, e)
      stop  == Stop(chain, e)
  IN trans \cup IF stop = {} THEN {Trans(e.s, e, e.otype, Length(chain) + 1)}
                ELSE {Trans(e.s, e, f.otype, f.at) : f \in stop}
ReadChain(x) ==
  UNION {{Trans(s, x.key, n.otype, n.at) : s \in x.chain[n]} : n \in DOMAIN x.chain}
ReadFilenameTrans(v, items) ==
  LET Insert(trans, x) == InsertEntry(trans, x.trans)
  IN IF v < POLICYDB_VERSION_COMP_FTRANS THEN FoldLeft(Insert, {}, items)
     ELSE UNION {ReadChain(x) : x \in ToSet(items)}
\* filename_trans_check_datum: in one chain a default and a source occur once.
Collides(chain) ==
  \E n, m \in DOMAIN chain :
     n.at # m.at /\ (n.otype = m.otype \/ chain[n] \cap chain[m] # {})
FtRefused(v, items) ==
  v >= POLICYDB_VERSION_COMP_FTRANS /\ \E x \in ToSet(items) : Collides(x.chain)

\* Before version 20 there is no map; a type that has a name is its own attribute.
ReadRow(parts, named, i) ==
  (IF "type_attr_map" \in DOMAIN parts THEN parts.type_attr_map[i].bits ELSE {})
    \cup IF i \in named THEN {i} ELSE {}

\* What the sections hold.
Part(parts, sec)       == FieldOr(parts, sec, <<>>)
All(parts, sec, Of(_)) == {Of(x) : x \in ToSet(Part(parts, sec))}
NamesOf(parts, sec)    == {x.name : x \in ToSet(Part(parts, sec))}
BitsOf(parts, sec)     == UNION {x.bits : x \in ToSet(Part(parts, sec))}
ReadConds(v, parts)    == {ReadCond(v, x) : x \in ToSet(Part(parts, "cond_list"))}
InStep(f, layout) ==
  /\ layout.at = Len(f) + 1
  /\ \A sec \in ToSet(Sections(f[1].vers)) : \A i \in DOMAIN Part(layout.parts, sec) :
        Fits(f[1].vers, sec, Part(layout.parts, sec)[i])
ReadDb(header, parts, nprim, table) ==
  LET types == All(parts, "types", ReadType)
  IN [vers |-> header.vers, mls |-> header.mls,
      policycaps |-> BitsOf(parts, "policycaps"), permissive |-> BitsOf(parts, "permissive"),
      commons |-> NamesOf(parts, "commons"), bools |-> NamesOf(parts, "bools"),
      levels |-> NamesOf(parts, "levels"), cats |-> NamesOf(parts, "cats"),
      classes |-> All(parts, "classes", ReadClass), roles |-> All(parts, "roles", ReadRole),
      types |-> types, users |-> All(parts, "users", ReadUser), nprim |-> nprim,
      te_avtab |-> table, cond_list |-> ReadConds(header.vers, parts),
      role_tr |-> All(parts, "role_tr", ReadRoleTrans),
      role_allow |-> All(parts, "role_allow", ReadRoleAllow),
      filename_trans |-> ReadFilenameTrans(header.vers, Part(parts, "filename_trans")),
      ocontexts |-> [kind \in ToSet(Ocontexts) |-> All(parts, kind, ReadOcontext)],
      genfs |-> All(parts, "genfs", ReadGenfs),
      range_tr |-> All(parts, "range_tr", ReadRangeTrans),
      type_attr_map |-> [i \in 1..nprim |-> ReadRow(parts, {t.value : t \in types}, i)]]

Read(f) ==
  LET layout == Layout(f)
      v      == f[1].vers
      rules  == ReadRules(v, FALSE, Part(layout.parts, "te_avtab"))
      table  == Table(rules.rules)
  IN IF ~InStep(f, layout) THEN [result |-> "misread"]
     ELSE IF ~rules.ok THEN [result |-> "misread"]
     ELSE IF \/ Part(layout.parts, "te_avtab") = <<>>
             \/ HasTwice(rules.rules)
             \/ CondConflict(table, ReadConds(v, layout.parts))
             \/ FtRefused(v, Part(layout.parts, "filename_trans")) THEN [result |-> "refused"]
     ELSE [result |-> "loaded", compat |-> rules.m,
           db |-> ReadDb(f[1], layout.parts, layout.nprim, table)]
--------------------------------------------------------------------------------
(***************************************************************************)
(* What is done to a policy between loading and saving it, in the terms of *)
(* this module; PolicyTypes, AvRules, XpermRules, FilenameTrans and Genfs  *)
(* have each of these in full.                                             *)
(***************************************************************************)
Edited == outcome' = "none" /\ UNCHANGED <<compat, file, saved>>

\* sepol_add_type.
AddType(name, attrib) ==
  /\ name \notin {t.name : t \in db.types}
  /\ LET v == db.nprim + 1
     IN db' = [db EXCEPT
          !.nprim = v,
          !.types = @ \cup {[name |-> name, value |-> v, attrib |-> attrib, bounds |-> 0]},
          !.type_attr_map = Append(@, {v}),
          !.roles = {[r EXCEPT !.types = @ \cup {v}] : r \in @}]
  /\ Edited

\* sepol_add_typeattribute: the constraints that name the attribute learn of it.
Learn(e, t, a) == IF a \in e.type_names THEN [e EXCEPT !.names = @ \cup {t}] ELSE e
AddTypeAttribute(t, a) ==
  /\ t \in Simple(db) /\ a \in Attribs(db)
  /\ db' = [db EXCEPT
       !.type_attr_map[t] = @ \cup {a},
       !.classes = {[c EXCEPT !.constraints = {Learn(e, t, a) : e \in @}] : c \in @}]
  /\ Edited

\* sepol_set_type_state.
SetPermissive(t) ==
  /\ db' = [db EXCEPT !.permissive = @ \cup {t}]
  /\ Edited

\* add_rule_impl, for the rules that name one permission or none.
DefaultData(spec) == IF spec = "auditdeny" THEN Perms ELSE {}
Put(tab, k, data) ==
  IF data = DefaultData(k.spec) THEN [j \in DOMAIN tab \ {k} |-> tab[j]] ELSE Also(Single(k, data), tab)
AddRule(s, t, spec, perms, invert) ==
  /\ LET k   == Key(s, t, TypeClass, spec)
         old == FieldOr(db.te_avtab, k, DefaultData(spec))
     IN db' = [db EXCEPT !.te_avtab = Put(@, k, IF invert THEN old \ perms ELSE old \cup perms)]
  /\ Edited

\* sepol_add_type_rule: avtab_insert refuses a key that is there.
AddTypeRule(s, t, default) ==
  LET k == Key(s, t, TypeClass, "transition")
  IN /\ k \notin DOMAIN db.te_avtab
     /\ db' = [db EXCEPT !.te_avtab = Also(Single(k, {default}), @)]
     /\ Edited

\* sepol_add_xperm_rule, for commands of one driver.
AddXpermRule(s, t, driver, perms) ==
  LET k == XKey(s, t, TypeClass, "function", driver)
  IN /\ db.vers >= POLICYDB_VERSION_XPERMS_IOCTL
     /\ db' = [db EXCEPT !.te_avtab = Also(Single(k, FieldOr(@, k, {}) \cup perms), @)]
     /\ Edited

\* sepol_add_filename_trans: the node of the source gets the default, for all of
\* its sources, and may then have that of another node, which policydb_read does
\* not accept.  A source that no node has is added as an entry is; but where the
\* first node has the default, that is freed while the table holds it (see
\* FilenameTrans), and nothing can be said of what follows.
Redirect(trans, stop, otype) ==
  {IF \E f \in stop : <<f.t, f.name, f.at>> = <<g.t, g.name, g.at>>
   THEN Trans(g.s, g, otype, g.at) ELSE g : g \in trans}
AddFilenameTrans(s, t, name, otype) ==
  LET e    == [s |-> s, t |-> t, name |-> name, otype |-> otype]
      stop == Stop(Chain(db.filename_trans, e), e)
  IN /\ \/ /\ \E f \in stop : f.s = s
           /\ db' = [db EXCEPT !.filename_trans = Redirect(@, stop, otype)]
        \/ /\ \A f \in stop : f.s # s /\ f.at > 1
           /\ db' = [db EXCEPT !.filename_trans = InsertEntry(@, e)]
     /\ Edited

\* sepol_add_genfscon, for a file system the policy labels.
AddGenfscon(fs, path, context) ==
  /\ \E g \in db.genfs : g.fs = fs
  /\ db' = [db EXCEPT !.genfs =
       {IF g.fs # fs THEN g
        ELSE [g EXCEPT !.entries = {e \in @ : e.path # path}
                                     \cup {[path |-> path, context |-> context]}]
        : g \in @}]
  /\ Edited

\* sepol_db_to_file; the hash table gives the nodes in any order, of which the
\* extended ones are put first: no other node changes how the next one is read.
Orders(d) ==
  LET extended == {k \in DOMAIN d.te_avtab : IsXperm(k)}
  IN {order \o SetToSeq(DOMAIN d.te_avtab \ extended) : order \in SetToSeqs(extended)}
Save == /\ CanWrite(db)
        /\ \E order \in Orders(db) : file' = Image(db, compat, order)
        /\ saved' = db /\ outcome' = "none"
        /\ UNCHANGED <<db, compat>>

\* sepol_db_from_file in a new process.
Load == /\ file # <<>>
        /\ LET read == Read(file)
           IN /\ outcome' = read.result
              /\ IF read.result = "loaded" THEN db' = read.db /\ compat' = read.compat
                                           ELSE UNCHANGED <<db, compat>>
        /\ UNCHANGED <<file, saved>>

Edit ==
  \/ \E n \in Names, a \in BOOLEAN : AddType(n, a)
  \/ \E t, a \in Named(db) : AddTypeAttribute(t, a)
  \/ \E t \in Named(db) : SetPermissive(t)
  \/ \E s, t \in Named(db) :
        /\ <<s, t>> \in Pairs
        /\ \/ \E spec \in {"allowed", "auditdeny"}, perms \in {{p} : p \in Perms} \cup {Perms}, i \in BOOLEAN :
                 AddRule(s, t, spec, perms, i)
           \/ \E d \in Simple(db) : AddTypeRule(s, t, d)
           \/ \E driver \in Drivers, p \in Perms : AddXpermRule(s, t, driver, {p})
           \/ \E n \in Paths, o \in Simple(db) : AddFilenameTrans(s, t, n, o)
  \/ \E g \in db.genfs, p \in Paths, o \in db.ocontexts["isid"] :
        AddGenfscon(g.fs, p, o.contexts[1])

(***************************************************************************)
(* The policies a run may start from: what the reader of their version can *)
(* have made of a file that a compiler wrote.  A field the version lacks   *)
(* has its default, a key is of declared types, and so on; statements may  *)
(* have been made since.                                                   *)
(***************************************************************************)
ContextOK(v, c) ==
  /\ c = [user |-> c.user, type |-> c.type, range |-> c.range]
  /\ v < POLICYDB_VERSION_MLS => c.range = {}
ConstraintOK(v, e) ==
  /\ e = [names |-> e.names, type_names |-> e.type_names]
  /\ v < POLICYDB_VERSION_CONSTRAINT_NAMES => e.type_names = {}
ClassOK(v, c) ==
  /\ c = [name |-> c.name, constraints |-> c.constraints, validatetrans |-> c.validatetrans,
          defaults |-> c.defaults, default_type |-> c.default_type]
  /\ \A e \in c.constraints \cup c.validatetrans : ConstraintOK(v, e)
  /\ v < POLICYDB_VERSION_VALIDATETRANS => c.validatetrans = {}
  /\ v < POLICYDB_VERSION_NEW_OBJECT_DEFAULTS => c.defaults = 0
  /\ v < POLICYDB_VERSION_DEFAULT_TYPE => c.default_type = 0
RoleOK(v, r) ==
  /\ r = [name |-> r.name, types |-> r.types, bounds |-> r.bounds]
  /\ v < POLICYDB_VERSION_BOUNDARY => r.bounds = 0
TypeOK(d, t) ==
  /\ t = [name |-> t.name, value |-> t.value, attrib |-> t.attrib, bounds |-> t.bounds]
  /\ t.value \in 1..d.nprim /\ t.attrib \in BOOLEAN
  /\ d.vers < POLICYDB_VERSION_BOUNDARY => t.bounds = 0
UserOK(v, u) ==
  /\ u = [name |-> u.name, roles |-> u.roles, bounds |-> u.bounds, range |-> u.range]
  /\ v < POLICYDB_VERSION_BOUNDARY => u.bounds = 0
  /\ v < POLICYDB_VERSION_MLS => u.range = {}
RoleTransOK(v, r) ==
  /\ r = [role |-> r.role, type |-> r.type, new_role |-> r.new_role, class |-> r.class]
  /\ v < POLICYDB_VERSION_ROLETRANS => r.class = "process"
RoleAllowOK(r) == r = [role |-> r.role, new_role |-> r.new_role]
RangeTransOK(v, r) ==
  /\ r = [s |-> r.s, t |-> r.t, range |-> r.range, class |-> r.class]
  /\ v < POLICYDB_VERSION_RANGETRANS => r.class = "process"
FilenameTransOK(f) ==
  f = [s |-> f.s, t |-> f.t, name |-> f.name, otype |-> f.otype, at |-> f.at] /\ f.at \in Nat \ {0}
OcontextOK(v, o) ==
  /\ o = [id |-> o.id, contexts |-> o.contexts]
  /\ o.contexts = [i \in DOMAIN o.contexts |-> o.contexts[i]]
  /\ DOMAIN o.contexts \in {1..1, 1..2}
  /\ \A i \in DOMAIN o.contexts : ContextOK(v, o.contexts[i])
GenfsOK(v, g) ==
  /\ g = [fs |-> g.fs, entries |-> g.entries]
  /\ \A e \in g.entries : /\ e = [path |-> e.path, context |-> e.context]
                          /\ ContextOK(v, e.context)

\* A value is a type's, which may have aliases, or an attribute's.
ValuesOK(d) == \A t, u \in d.types : t.value = u.value => t.attrib = u.attrib

\* Only types have attributes; the value of an attribute whose name the version
\* does not write is no type's.
RowsOK(d) ==
  /\ d.type_attr_map = [i \in 1..d.nprim |-> d.type_attr_map[i]]
  /\ \A i \in 1..d.nprim :
       /\ d.type_attr_map[i] \subseteq {i} \cup ((1..d.nprim) \ Simple(d))
       /\ i \notin Simple(d) => d.type_attr_map[i] \subseteq {i}
       /\ i \in Named(d) => i \in d.type_attr_map[i]
KeyOK(d, k) ==
  /\ k.s \in 1..d.nprim /\ k.t \in 1..d.nprim
  /\ \/ k.spec \in AvSpecs \cup TypeSpecs /\ k = Key(k.s, k.t, k.c, k.spec)
     \/ /\ d.vers >= POLICYDB_VERSION_XPERMS_IOCTL /\ k.kind \in {"function", "driver"}
        /\ k = XKey(k.s, k.t, k.c, k.kind, k.driver)
TableOK(d, tab) ==
  /\ IsFiniteSet(DOMAIN tab) /\ tab = [k \in DOMAIN tab |-> tab[k]]
  /\ \A k \in DOMAIN tab : KeyOK(d, k) /\ (k.spec \in AvSpecs => tab[k] \subseteq Perms)
CondOK(d, n) ==
  /\ n = [state |-> n.state, expr |-> n.expr,
          true_list |-> n.true_list, false_list |-> n.false_list]
  /\ TableOK(d, n.true_list) /\ TableOK(d, n.false_list)
  /\ \A k \in DOMAIN n.true_list \cup DOMAIN n.false_list :
       /\ ~IsXperm(k)
       /\ d.vers < POLICYDB_VERSION_AVTAB => {k.s, k.t} \subseteq Simple(d)

HasFields(d) ==
  d = [vers |-> d.vers, mls |-> d.mls, policycaps |-> d.policycaps,
       permissive |-> d.permissive, commons |-> d.commons, bools |-> d.bools,
       levels |-> d.levels, cats |-> d.cats, classes |-> d.classes, roles |-> d.roles,
       types |-> d.types, users |-> d.users, nprim |-> d.nprim, te_avtab |-> d.te_avtab,
       cond_list |-> d.cond_list, role_tr |-> d.role_tr, role_allow |-> d.role_allow,
       filename_trans |-> d.filename_trans, ocontexts |-> d.ocontexts, genfs |-> d.genfs,
       range_tr |-> d.range_tr, type_attr_map |-> d.type_attr_map]
FiniteOK(d) ==
  \A f \in {"commons", "bools", "levels", "cats", "classes", "roles", "types", "users",
            "cond_list", "role_tr", "role_allow", "filename_trans", "genfs", "range_tr"} :
     IsFiniteSet(d[f])
LacksOK(d) ==
  /\ d.vers < POLICYDB_VERSION_POLCAP => d.policycaps = {}
  /\ d.vers < POLICYDB_VERSION_BOOL => d.bools = {} /\ d.cond_list = {}
  /\ d.vers < POLICYDB_VERSION_MLS => d.levels = {} /\ d.cats = {} /\ d.range_tr = {}
RecordsOK(d) ==
  /\ \A c \in d.classes : ClassOK(d.vers, c)
  /\ \A r \in d.roles : RoleOK(d.vers, r)
  /\ \A t \in d.types : TypeOK(d, t)
  /\ \A u \in d.users : UserOK(d.vers, u)
  /\ \A r \in d.role_tr : RoleTransOK(d.vers, r)
  /\ \A r \in d.role_allow : RoleAllowOK(r)
  /\ \A f \in d.filename_trans : FilenameTransOK(f)
  /\ \A g \in d.genfs : GenfsOK(d.vers, g)
  /\ \A r \in d.range_tr : RangeTransOK(d.vers, r)
CondsOK(d) ==
  /\ \A n \in d.cond_list : CondOK(d, n)
  /\ \A n, n2 \in d.cond_list : n # n2 => CondKeys(n) \cap CondKeys(n2) = {}
OcontextsOK(d) ==
  /\ d.ocontexts = [kind \in ToSet(Ocontexts) |-> d.ocontexts[kind]]
  /\ \A kind \in ToSet(Ocontexts) :
       /\ IsFiniteSet(d.ocontexts[kind])
       /\ kind \notin ToSet(SubSeq(Ocontexts, 1, OconNum(d.vers))) => d.ocontexts[kind] = {}
       /\ \A o \in d.ocontexts[kind] : OcontextOK(d.vers, o)
PolicyOK(d) ==
  /\ HasFields(d) /\ d.vers \in 15..33 /\ d.nprim \in Nat
  /\ FiniteOK(d) /\ LacksOK(d) /\ RecordsOK(d) /\ OcontextsOK(d)
  /\ ValuesOK(d) /\ RowsOK(d) /\ TableOK(d, d.te_avtab) /\ CondsOK(d)

ASSUME LoadedAssumption ==
  \A l \in Loaded : /\ PolicyOK(l.db) /\ l.compat \in BOOLEAN
                    /\ l.compat => l.db.vers = POLICYDB_VERSION_XPERMS_IOCTL

FileInit == \E l \in Loaded : db = l.db /\ compat = l.compat /\ file = <<>> /\ saved = l.db
                        /\ outcome = "none"
FileNext == Edit \/ Save \/ Load
FileSpec == FileInit /\ [][FileNext]_vars
--------------------------------------------------------------------------------
\* The reader takes every word for what the writer meant by it, whatever the
\* version, the statements and the order of the nodes were; with one exception,
\* a policy of Android M whose first extended node is for a driver with the number
\* of a kind of nodes.
ExtendedNodes ==
  {i \in DOMAIN file : file[i].k = "te_avtab" /\ "bytes" \in DOMAIN file[i]}
Ambiguous ==
  \E i \in ExtendedNodes : /\ \A j \in ExtendedNodes : i <= j
                           /\ ~file[i].optype /\ Len(file[i].bytes) = 1
                           /\ file[i].bytes[1] \in KindBytes
ReadInStep == outcome = "misread" => Ambiguous

\* A policy this program saved is refused for three reasons only: there is no rule
\* left in it, a type rule speaks of what a conditional one is about, or from
\* version 33 on statements have left a default or a source in two nodes of a
\* chain of filename transitions (what FtCollision shows in FilenameTrans).
SavedRules == IF saved.vers < POLICYDB_VERSION_AVTAB
              THEN DOMAIN Expand(saved, saved.te_avtab) ELSE DOMAIN saved.te_avtab
SavedCondKeys(n) ==
  IF saved.vers < POLICYDB_VERSION_AVTAB
  THEN TypeKeys(Expandable(saved, n.true_list) \cup Expandable(saved, n.false_list))
  ELSE CondKeys(n)
SavedCollides ==
  /\ saved.vers >= POLICYDB_VERSION_COMP_FTRANS
  /\ \E f, g \in saved.filename_trans : /\ <<f.t, f.name>> = <<g.t, g.name>> /\ f.at # g.at
                                        /\ f.otype = g.otype \/ f.s = g.s
RefusedOnlyFor ==
  outcome = "refused" =>
    \/ SavedRules = {}
    \/ \E n \in saved.cond_list : SavedCondKeys(n) \cap SavedRules # {}
    \/ SavedCollides

\* What a version cannot say is lost by saving and loading, and nothing else is:
\* permissive types, names of attributes and who is in them, filename transitions.
\* A source keeps its filename transitions, but in the versions from 25 to 32 one
\* that statements have left in two nodes may keep only one of its two defaults.
CarriedCond(d, n) == [n EXCEPT !.true_list = Expand(d, @), !.false_list = Expand(d, @)]
Carried(d) ==
  LET new == d.vers >= POLICYDB_VERSION_AVTAB
  IN [d EXCEPT
       !.permissive     = IF d.vers >= POLICYDB_VERSION_PERMISSIVE THEN @ ELSE {},
       !.types          = {t \in @ : t.attrib => d.vers >= POLICYDB_VERSION_BOUNDARY},
       !.type_attr_map  = IF new THEN @ ELSE <<>>,
       !.te_avtab       = IF new THEN @ ELSE Expand(d, @),
       !.cond_list      = IF new THEN @ ELSE {CarriedCond(d, n) : n \in @},
       !.filename_trans = IF d.vers >= POLICYDB_VERSION_FILENAME_TRANS
                          THEN {[s |-> f.s, t |-> f.t, name |-> f.name] : f \in @} ELSE {}]
Transitions(d) == {Transition(f) : f \in d.filename_trans}
CarriesAll ==
  outcome = "loaded" => Carried(db) = Carried(saved) /\ Transitions(db) \subseteq Transitions(saved)

\* Which permissions a type has on another, and which denials are logged.
Rows(d, s, t) ==
  {k \in DOMAIN d.te_avtab : k.s \in d.type_attr_map[s] /\ k.t \in d.type_attr_map[t]}
Decision(d, s, t, spec) ==
  LET data == {d.te_avtab[k] : k \in {j \in Rows(d, s, t) : j.spec = spec}}
  IN IF spec = "auditdeny" THEN {b \in Perms : \A x \in data : b \in x} ELSE UNION data
\* A decision about two types is the same before and after, in the versions too
\* whose files have no attributes.
SameDecisions ==
  outcome = "loaded" =>
    \A s, t \in Simple(saved), spec \in AvSpecs :
       Decision(db, s, t, spec) = Decision(saved, s, t, spec)
================================================================================
