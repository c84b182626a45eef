--------------------------- MODULE PolicyFile_proofs ---------------------------
(***************************************************************************)
(* Proofs about PolicyFile, for every version, any policy a process may    *)
(* have loaded, any statements, and any order of the nodes in a file.      *)
(*                                                                         *)
(* policydb_write and policydb_read are followed from the inside out: the  *)
(* fields of a record, the items of a section, the sections of a file.     *)
(* ReadBack is what that comes to: what policydb_read makes of a file that *)
(* policydb_write made.  RestoredOK says that this is again a policy that  *)
(* can be saved, and EditKeeps that the statements leave one; FileInv is   *)
(* inductive for these two reasons, and the four properties of loading     *)
(* follow from it.                                                         *)
(***************************************************************************)
EXTENDS PolicyFile, Lists_proofs

Enumerates(s, S) ==
  /\ s \in Seq(S) /\ ToSet(s) = S
  /\ \A i, j \in DOMAIN s : s[i] = s[j] => i = j

\* SetToSeq lists every element of a finite set once.
LEMMA ListedIs ==
  ASSUME NEW S, IsFiniteSet(S)
  PROVE  Enumerates(Listed(S), S)
<1> DEFINE n == Cardinality(S)
           F == [1..n -> S]
           l == CHOOSE f \in F : IsInjective(f)
<1>1. n \in Nat
  BY FS_CardinalityType
<1>2. \E f \in F : IsInjective(f) /\ ToSet(f) = S
  <2>1. ExistsBijection(1..n, S)
    BY FS_CardinalityType
  <2>2. PICK f : f \in Bijection(1..n, S)
    BY <2>1 DEF ExistsBijection
  <2>3. f \in F /\ IsInjective(f) /\ \A s \in S : \E i \in 1..n : f[i] = s
    BY <2>2 DEF Bijection, Injection, Surjection, IsInjective
  <2> QED
    BY <2>3 DEF ToSet
<1>3. l \in F /\ IsInjective(l)
  BY <1>2
<1>4. Listed(S) = l
  BY DEF Listed, SetToSeq
<1>5. ToSet(l) = S
  <2>1. l \in Injection(1..n, S)
    BY <1>3 DEF Injection, IsInjective
  <2>2. Cardinality(1..n) = n
    BY <1>1, FS_Interval
  <2> HIDE DEF l
  <2>3. l \in Surjection(1..n, S)
    BY <2>1, <2>2, FS_Injection
  <2> QED
    BY <1>3, <2>3 DEF Surjection, ToSet
<1> HIDE DEF l
<1> QED
  BY <1>1, <1>3, <1>4, <1>5 DEF Enumerates, IsInjective
LEMMA ToSetIs ==
  ASSUME NEW S, NEW s \in Seq(S)
  PROVE  /\ DOMAIN s = 1..Len(s) /\ Len(s) \in Nat
         /\ ToSet(s) = {s[i] : i \in 1..Len(s)}
BY DEF ToSet

\* Two lists of different elements, one after the other.
LEMMA EnumeratesBoth ==
  ASSUME NEW S, NEW T, S \cap T = {}, NEW a, Enumerates(a, S), NEW b, Enumerates(b, T)
  PROVE  Enumerates(a \o b, S \cup T)
<1> DEFINE U == S \cup T
           c == a \o b
<1>1. a \in Seq(U) /\ b \in Seq(U) /\ a \in Seq(S) /\ b \in Seq(T)
  BY DEF Enumerates
<1>2. c \in Seq(U) /\ ToSet(c) = ToSet(a) \cup ToSet(b)
  BY <1>1, Concatenated
<1>3. Len(a) \in Nat /\ Len(b) \in Nat /\ DOMAIN a = 1..Len(a) /\ DOMAIN b = 1..Len(b)
  BY <1>1
<1>4. /\ DOMAIN c = 1..(Len(a) + Len(b))
      /\ \A i \in 1..(Len(a) + Len(b)) :
            c[i] = IF i <= Len(a) THEN a[i] ELSE b[i - Len(a)]
  BY <1>1, <1>2, ConcatProperties
<1>5. \A i \in 1..Len(a) : a[i] \in S
  BY <1>1
<1>6. \A i \in 1..Len(b) : b[i] \in T
  BY <1>1
<1> HIDE DEF c
<1>7. ASSUME NEW i \in 1..(Len(a) + Len(b)), NEW j \in 1..(Len(a) + Len(b)), c[i] = c[j]
      PROVE  i = j
  <2>1. CASE i <= Len(a) /\ j <= Len(a)
    <3>1. i \in DOMAIN a /\ j \in DOMAIN a /\ a[i] = a[j]
      BY <1>3, <1>4, <1>7, <2>1
    <3> QED
      BY <3>1 DEF Enumerates
  <2>2. CASE i > Len(a) /\ j > Len(a)
    <3>1. i - Len(a) \in DOMAIN b /\ j - Len(a) \in DOMAIN b /\ b[i - Len(a)] = b[j - Len(a)]
      BY <1>3, <1>4, <1>7, <2>2
    <3>2. i - Len(a) = j - Len(a)
      BY <3>1 DEF Enumerates
    <3> QED
      BY <1>3, <3>2
  <2>3. CASE i <= Len(a) /\ j > Len(a)
    BY <1>3, <1>4, <1>5, <1>6, <1>7, <2>3
  <2>4. CASE i > Len(a) /\ j <= Len(a)
    BY <1>3, <1>4, <1>5, <1>6, <1>7, <2>4
  <2> QED
    BY <1>3, <2>1, <2>2, <2>3, <2>4
<1> QED
  BY <1>2, <1>4, <1>7 DEF Enumerates, c

\* An order of the hash table has every node of it once.
LEMMA OrderIs ==
  ASSUME NEW d, IsFiniteSet(DOMAIN d.te_avtab), NEW order \in Orders(d)
  PROVE  Enumerates(order, DOMAIN d.te_avtab)
<1> DEFINE keys == DOMAIN d.te_avtab
           extended == {k \in keys : IsXperm(k)}
           n == Cardinality(extended)
<1>1. IsFiniteSet(extended) /\ IsFiniteSet(keys \ extended)
  BY FS_Subset
<1>2. PICK o \in SetToSeqs(extended) : order = o \o Listed(keys \ extended)
  BY DEF Orders, Listed
<1>3. n \in Nat
  BY <1>1, FS_CardinalityType
<1> HIDE DEF extended
<1>4. o \in [1..n -> extended] /\ \A i, j \in 1..n : i # j => o[i] # o[j]
  BY <1>2 DEF SetToSeqs
<1> HIDE DEF n
<1>5. ToSet(o) = extended
  <2>1. o \in Injection(1..n, extended)
    BY <1>4 DEF Injection, IsInjective
  <2>2. Cardinality(1..n) = Cardinality(extended)
    BY <1>3, FS_Interval DEF n
  <2>3. o \in Surjection(1..n, extended)
    BY <1>1, <2>1, <2>2, FS_Injection
  <2> QED
    BY <1>4, <2>3 DEF Surjection, ToSet
<1>6. Enumerates(o, extended)
  BY <1>3, <1>4, <1>5 DEF Enumerates
<1>7. Enumerates(order, extended \cup (keys \ extended))
  BY <1>1, <1>2, <1>6, ListedIs, EnumeratesBoth
<1>8. extended \cup (keys \ extended) = keys
  BY DEF extended
<1> QED
  BY <1>7, <1>8

(***************************************************************************)
(* Items: what is read of a record that was written is that record.        *)
(***************************************************************************)
LEMMA ContextIs ==
  ASSUME NEW v \in Nat, NEW c, ContextOK(v, c)
  PROVE  /\ DOMAIN WriteContext(v, c) = ContextFields(v)
         /\ ReadContext(WriteContext(v, c)) = c
BY DEF ContextOK, WriteContext, ReadContext, ContextFields, Also, If, Given, FieldOr,
       POLICYDB_VERSION_MLS

LEMMA ConstraintIs ==
  ASSUME NEW v \in Nat, NEW e, ConstraintOK(v, e)
  PROVE  /\ DOMAIN WriteConstraint(v, e) = ConstraintFields(v)
         /\ ReadConstraint(WriteConstraint(v, e)) = e
BY DEF ConstraintOK, WriteConstraint, ReadConstraint, ConstraintFields, Also, If, Given, FieldOr,
       POLICYDB_VERSION_CONSTRAINT_NAMES

\* Constraints, with the names of types from version 29 on.
LEMMA ConstraintsAre ==
  ASSUME NEW v \in Nat, NEW S, \A e \in S : ConstraintOK(v, e)
  PROVE  LET written == {WriteConstraint(v, e) : e \in S}
         IN  /\ \A e \in written : DOMAIN e = ConstraintFields(v)
             /\ {ReadConstraint(e) : e \in written} = S
BY ConstraintIs

\* class_write and class_read.
LEMMA ClassIs ==
  ASSUME NEW v \in Nat, NEW c, ClassOK(v, c)
  PROVE  LET x == WriteClass(v, c)
         IN  /\ x.k = "classes" /\ DOMAIN x = {"k"} \cup ClassFields(v)
             /\ \A e \in x.constraints \cup FieldOr(x, "validatetrans", {}) :
                   DOMAIN e = ConstraintFields(v)
             /\ ReadClass(x) = c
<1> DEFINE x == WriteClass(v, c)
           first == {WriteConstraint(v, e) : e \in c.constraints}
           second == {WriteConstraint(v, e) : e \in c.validatetrans}
<1>1. /\ \A e \in c.constraints : ConstraintOK(v, e)
      /\ \A e \in c.validatetrans : ConstraintOK(v, e)
      /\ v < 19 => c.validatetrans = {}
      /\ v < 27 => c.defaults = 0
      /\ v < 28 => c.default_type = 0
      /\ c = [name |-> c.name, constraints |-> c.constraints, validatetrans |-> c.validatetrans,
              defaults |-> c.defaults, default_type |-> c.default_type]
  BY DEF ClassOK, POLICYDB_VERSION_VALIDATETRANS, POLICYDB_VERSION_NEW_OBJECT_DEFAULTS,
         POLICYDB_VERSION_DEFAULT_TYPE
<1>2. /\ \A e \in first \cup second : DOMAIN e = ConstraintFields(v)
      /\ {ReadConstraint(e) : e \in first} = c.constraints
      /\ {ReadConstraint(e) : e \in second} = c.validatetrans
  BY <1>1, ConstraintsAre
<1> HIDE DEF first, second
<1>3. /\ x.k = "classes" /\ DOMAIN x = {"k"} \cup ClassFields(v)
      /\ x.name = c.name /\ x.constraints = first
      /\ v >= 19 => x.validatetrans = second
      /\ v >= 27 => x.defaults = c.defaults
      /\ v >= 28 => x.default_type = c.default_type
  BY DEF WriteClass, ClassFields, Given, Also, If, first, second, POLICYDB_VERSION_VALIDATETRANS,
         POLICYDB_VERSION_NEW_OBJECT_DEFAULTS, POLICYDB_VERSION_DEFAULT_TYPE
<1>4. /\ "validatetrans" \in DOMAIN x <=> v >= 19
      /\ "defaults" \in DOMAIN x <=> v >= 27
      /\ "default_type" \in DOMAIN x <=> v >= 28
  BY <1>3 DEF ClassFields, Given, POLICYDB_VERSION_VALIDATETRANS,
         POLICYDB_VERSION_NEW_OBJECT_DEFAULTS, POLICYDB_VERSION_DEFAULT_TYPE
<1> HIDE DEF x
<1>5. /\ {ReadConstraint(e) : e \in FieldOr(x, "validatetrans", {})} = c.validatetrans
      /\ \A e \in FieldOr(x, "validatetrans", {}) : e \in second
      /\ FieldOr(x, "defaults", 0) = c.defaults
      /\ FieldOr(x, "default_type", 0) = c.default_type
  BY <1>1, <1>2, <1>3, <1>4 DEF FieldOr
<1>6. ReadClass(x) = c
  BY <1>1, <1>2, <1>3, <1>5 DEF ReadClass
<1> QED
  BY <1>2, <1>3, <1>5, <1>6 DEF x

\* role_write and role_read.
LEMMA RoleIs ==
  ASSUME NEW v \in Nat, NEW r, RoleOK(v, r)
  PROVE  LET x == WriteRole(v, r)
         IN  x.k = "roles" /\ DOMAIN x = {"k"} \cup RoleFields(v) /\ ReadRole(x) = r
BY DEF RoleOK, WriteRole, ReadRole, RoleFields, Also, If, Given, FieldOr,
       POLICYDB_VERSION_BOUNDARY

\* type_write and type_read; before version 24 only types come here.
LEMMA TypeIs ==
  ASSUME NEW d, d.vers \in Nat, NEW t \in WrittenTypes(d), TypeOK(d, t)
  PROVE  LET x == WriteType(d.vers, t)
         IN  x.k = "types" /\ DOMAIN x = {"k"} \cup TypeFields(d.vers) /\ ReadType(x) = t
<1> DEFINE x == WriteType(d.vers, t)
<1>1. t = [name |-> t.name, value |-> t.value, attrib |-> t.attrib, bounds |-> t.bounds]
  BY DEF TypeOK
<1>2. CASE d.vers >= 24
  <2>1. x = [k |-> "types", name |-> t.name, value |-> t.value, properties |-> t.attrib,
             bounds |-> t.bounds]
    BY <1>2 DEF WriteType, Also, POLICYDB_VERSION_BOUNDARY
  <2>2. ReadType(x) = [name |-> t.name, value |-> t.value, attrib |-> t.attrib,
                       bounds |-> t.bounds]
    BY <2>1 DEF ReadType, FieldOr
  <2> QED
    BY <1>1, <1>2, <2>1, <2>2 DEF TypeFields, POLICYDB_VERSION_BOUNDARY
<1>3. CASE d.vers < 24
  <2>1. /\ DOMAIN x = {"k", "name", "value", "primary"}
        /\ x.k = "types" /\ x.name = t.name /\ x.value = t.value
    BY <1>3 DEF WriteType, Also, POLICYDB_VERSION_BOUNDARY
  <2> HIDE DEF x
  <2>2. ~t.attrib /\ t.attrib \in BOOLEAN /\ t.bounds = 0
    BY <1>3 DEF TypeOK, WrittenTypes, POLICYDB_VERSION_BOUNDARY
  <2>3. t.attrib = FALSE
    BY <2>2
  <2>4. FieldOr(x, "properties", FALSE) = FALSE /\ FieldOr(x, "bounds", 0) = 0
    BY <2>1, Zenon DEF FieldOr
  <2>5. ReadType(x) = t
    <3> DEFINE attrib == t.attrib
    <3>1. FieldOr(x, "properties", FALSE) = attrib /\ attrib = t.attrib
      BY <2>3, <2>4
    <3> HIDE DEF attrib
    <3> QED
      BY <1>1, <2>1, <2>2, <2>4, <3>1 DEF ReadType
  <2>6. DOMAIN x = {"k"} \cup TypeFields(d.vers)
    BY <1>3, <2>1 DEF TypeFields, POLICYDB_VERSION_BOUNDARY
  <2> QED
    BY <2>1, <2>5, <2>6 DEF x
<1> QED
  BY <1>2, <1>3

\* user_write and user_read.
LEMMA UserIs ==
  ASSUME NEW v \in Nat, NEW u, UserOK(v, u)
  PROVE  LET x == WriteUser(v, u)
         IN  x.k = "users" /\ DOMAIN x = {"k"} \cup UserFields(v) /\ ReadUser(x) = u
BY DEF UserOK, WriteUser, ReadUser, UserFields, Also, If, Given, FieldOr,
       POLICYDB_VERSION_BOUNDARY, POLICYDB_VERSION_MLS

\* A common, a boolean, a level or a category.
LEMMA NameIs ==
  ASSUME NEW kind, NEW n
  PROVE  LET x == WriteName(kind, n)
         IN  x.k = kind /\ DOMAIN x = {"k", "name"} /\ x.name = n
BY DEF WriteName

\* role_trans_write and role_trans_read.
LEMMA RoleTransIs ==
  ASSUME NEW v \in Nat, NEW r, RoleTransOK(v, r)
  PROVE  LET x == WriteRoleTrans(v, r)
         IN  x.k = "role_tr" /\ DOMAIN x = {"k"} \cup RoleTransFields(v) /\ ReadRoleTrans(x) = r
BY DEF RoleTransOK, WriteRoleTrans, ReadRoleTrans, RoleTransFields, Also, If, Given, FieldOr,
       POLICYDB_VERSION_ROLETRANS

\* role_allow_write and role_allow_read.
LEMMA RoleAllowIs ==
  ASSUME NEW r, RoleAllowOK(r)
  PROVE  LET x == WriteRoleAllow(r)
         IN  x.k = "role_allow" /\ DOMAIN x = {"k", "role", "new_role"} /\ ReadRoleAllow(x) = r
BY DEF RoleAllowOK, WriteRoleAllow, ReadRoleAllow

\* range_write and range_read.
LEMMA RangeTransIs ==
  ASSUME NEW v \in Nat, NEW r, RangeTransOK(v, r)
  PROVE  LET x == WriteRangeTrans(v, r)
         IN  x.k = "range_tr" /\ DOMAIN x = {"k"} \cup RangeTransFields(v) /\ ReadRangeTrans(x) = r
BY DEF RangeTransOK, WriteRangeTrans, ReadRangeTrans, RangeTransFields, Also, If, Given, FieldOr,
       POLICYDB_VERSION_RANGETRANS

\* ocontext_write_selinux and ocontext_read_selinux.
LEMMA OcontextIs ==
  ASSUME NEW v \in Nat, NEW kind, NEW o, OcontextOK(v, o)
  PROVE  LET x == WriteOcontext(v, kind, o)
         IN  /\ x.k = kind /\ DOMAIN x = {"k", "id", "contexts"}
             /\ \A i \in DOMAIN x.contexts : DOMAIN x.contexts[i] = ContextFields(v)
             /\ ReadOcontext(x) = o
<1> DEFINE x == WriteOcontext(v, kind, o)
<1>1. /\ x.k = kind /\ DOMAIN x = {"k", "id", "contexts"} /\ x.id = o.id
      /\ x.contexts = [i \in DOMAIN o.contexts |-> WriteContext(v, o.contexts[i])]
  BY DEF WriteOcontext
<1> HIDE DEF x
<1>2. \A i \in DOMAIN o.contexts : ContextOK(v, o.contexts[i])
  BY DEF OcontextOK
<1>3. \A i \in DOMAIN o.contexts : /\ DOMAIN x.contexts[i] = ContextFields(v)
                                   /\ ReadContext(x.contexts[i]) = o.contexts[i]
  BY <1>1, <1>2, ContextIs
<1>4. ReadOcontext(x) = [id |-> o.id, contexts |-> [i \in DOMAIN o.contexts |-> o.contexts[i]]]
  BY <1>1, <1>3 DEF ReadOcontext
<1>5. ReadOcontext(x) = o
  BY <1>4 DEF OcontextOK
<1> QED
  BY <1>1, <1>3, <1>5 DEF x

\* genfs_write and genfs_read.
LEMMA GenfsIs ==
  ASSUME NEW v \in Nat, NEW g, GenfsOK(v, g)
  PROVE  LET x == WriteGenfs(v, g)
         IN  /\ x.k = "genfs" /\ DOMAIN x = {"k", "fs", "entries"}
             /\ \A e \in x.entries : DOMAIN e.context = ContextFields(v)
             /\ ReadGenfs(x) = g
<1> DEFINE x == WriteGenfs(v, g)
           Written(e) == [path |-> e.path, context |-> WriteContext(v, e.context)]
           Taken(e)   == [path |-> e.path, context |-> ReadContext(e.context)]
<1>1. /\ x.k = "genfs" /\ DOMAIN x = {"k", "fs", "entries"} /\ x.fs = g.fs
      /\ x.entries = {Written(e) : e \in g.entries}
  BY DEF WriteGenfs
<1> HIDE DEF x
<1>2. \A e \in g.entries : /\ e = [path |-> e.path, context |-> e.context]
                           /\ ContextOK(v, e.context)
  BY DEF GenfsOK
<1>3. \A e \in g.entries : /\ DOMAIN Written(e).context = ContextFields(v)
                           /\ Taken(Written(e)) = e
  <2> TAKE e \in g.entries
  <2>1. Written(e).path = e.path /\ Written(e).context = WriteContext(v, e.context)
    OBVIOUS
  <2>2. ContextOK(v, e.context)
    BY <1>2
  <2>3. /\ DOMAIN WriteContext(v, e.context) = ContextFields(v)
        /\ ReadContext(WriteContext(v, e.context)) = e.context
    BY <2>2, ContextIs
  <2> QED
    BY <1>2, <2>1, <2>3
<1> HIDE DEF Written, Taken
<1>4. {Taken(e) : e \in x.entries} = g.entries
  BY <1>1, <1>3
<1>5. ReadGenfs(x) = [fs |-> g.fs, entries |-> g.entries]
  BY <1>1, <1>4 DEF ReadGenfs, Taken
<1>6. g = [fs |-> g.fs, entries |-> g.entries]
  BY DEF GenfsOK
<1> QED
  BY <1>1, <1>3, <1>5, <1>6 DEF x

(***************************************************************************)
(* A file as one section after the other.  st[i] is where the i-th starts. *)
(***************************************************************************)
Places(st, W, secs, f) ==
  /\ st \in [1..(Len(secs) + 1) -> 0..Len(f)]
  /\ st[1] = 0 /\ st[Len(secs) + 1] = Len(f)
  /\ \A i \in 1..Len(secs) :
        /\ st[i + 1] = st[i] + Len(W[secs[i]])
        /\ \A j \in 1..Len(W[secs[i]]) : f[st[i] + j] = W[secs[i]][j]
Spells(W, S, U, secs, f) ==
  secs \in Seq(S) /\ f \in Seq(U) /\ \E st : Places(st, W, secs, f)

LEMMA SpellsNothing ==
  ASSUME NEW W, NEW S, NEW U
  PROVE  Spells(W, S, U, <<>>, <<>>)
<1>1. Places(<<0>>, W, <<>>, <<>>)
  BY DEF Places
<1> QED
  BY <1>1 DEF Spells

LEMMA SpellsOne ==
  ASSUME NEW W, NEW S, NEW U, NEW sec \in S, W[sec] \in Seq(U)
  PROVE  Spells(W, S, U, <<sec>>, W[sec])
<1> DEFINE n == Len(W[sec])
           st == [i \in 1..2 |-> IF i = 1 THEN 0 ELSE n]
           secs == <<sec>>
<1>1. n \in Nat
  OBVIOUS
<1>2. secs \in Seq(S) /\ Len(secs) = 1 /\ secs[1] = sec
  OBVIOUS
<1> HIDE DEF n, secs
<1>3. /\ st \in [1..(Len(secs) + 1) -> 0..n] /\ st[1] = 0 /\ st[2] = n
  BY <1>1, <1>2
<1> HIDE DEF st
<1>4. Places(st, W, secs, W[sec])
  BY <1>1, <1>2, <1>3 DEF Places, n
<1> QED
  BY <1>2, <1>4 DEF Spells, secs

\* One list of sections after another is written one after the other.
LEMMA SpellsBoth ==
  ASSUME NEW W, NEW S, NEW U, NEW s1, NEW s2, NEW f1, NEW f2,
         Spells(W, S, U, s1, f1), Spells(W, S, U, s2, f2),
         \A sec \in S : Len(W[sec]) \in Nat
  PROVE  Spells(W, S, U, s1 \o s2, f1 \o f2)
<1> DEFINE n1 == Len(s1)
           n2 == Len(s2)
           l1 == Len(f1)
           l2 == Len(f2)
           secs == s1 \o s2
           f == f1 \o f2
<1>1. s1 \in Seq(S) /\ s2 \in Seq(S) /\ f1 \in Seq(U) /\ f2 \in Seq(U)
  BY DEF Spells
<1>2. PICK p1 : Places(p1, W, s1, f1)
  BY DEF Spells
<1>3. PICK p2 : Places(p2, W, s2, f2)
  BY DEF Spells
<1> DEFINE st == [i \in 1..(n1 + n2 + 1) |-> IF i <= n1 THEN p1[i] ELSE l1 + p2[i - n1]]
<1>4. /\ n1 \in Nat /\ n2 \in Nat /\ l1 \in Nat /\ l2 \in Nat
      /\ secs \in Seq(S) /\ Len(secs) = n1 + n2
      /\ \A i \in 1..(n1 + n2) : secs[i] = IF i <= n1 THEN s1[i] ELSE s2[i - n1]
      /\ f \in Seq(U) /\ Len(f) = l1 + l2
      /\ \A i \in 1..(l1 + l2) : f[i] = IF i <= l1 THEN f1[i] ELSE f2[i - l1]
      /\ \A i \in 1..n1 : s1[i] \in S
      /\ \A i \in 1..n2 : s2[i] \in S
  BY <1>1, ConcatProperties
<1>5. /\ p1 \in [1..(n1 + 1) -> 0..l1] /\ p1[1] = 0 /\ p1[n1 + 1] = l1
      /\ \A i \in 1..n1 : /\ p1[i + 1] = p1[i] + Len(W[s1[i]])
                          /\ \A j \in 1..Len(W[s1[i]]) : f1[p1[i] + j] = W[s1[i]][j]
  BY <1>2 DEF Places
<1>6. /\ p2 \in [1..(n2 + 1) -> 0..l2] /\ p2[1] = 0 /\ p2[n2 + 1] = l2
      /\ \A i \in 1..n2 : /\ p2[i + 1] = p2[i] + Len(W[s2[i]])
                          /\ \A j \in 1..Len(W[s2[i]]) : f2[p2[i] + j] = W[s2[i]][j]
  BY <1>3 DEF Places
<1> HIDE DEF n1, n2, l1, l2, secs, f
<1>7. /\ \A i \in 1..n1 : st[i] = p1[i]
      /\ \A i \in 1..(n2 + 1) : st[n1 + i] = l1 + p2[i]
      /\ \A i \in 1..(n1 + 1) : st[i] = p1[i]
  <2>1. \A i \in 1..n1 : st[i] = p1[i]
    BY <1>4
  <2>2. \A i \in 1..(n2 + 1) : st[n1 + i] = l1 + p2[i]
    <3> TAKE i \in 1..(n2 + 1)
    <3>1. n1 + i \in 1..(n1 + n2 + 1) /\ ~(n1 + i <= n1) /\ (n1 + i) - n1 = i
      BY <1>4
    <3> QED
      BY <3>1
  <2>3. st[n1 + 1] = p1[n1 + 1]
    BY <1>4, <1>5, <1>6, <2>2
  <2> QED
    BY <1>4, <2>1, <2>2, <2>3
<1>8. st \in [1..(n1 + n2 + 1) -> 0..(l1 + l2)]
  <2>1. ASSUME NEW i \in 1..(n1 + n2 + 1)
        PROVE  st[i] \in 0..(l1 + l2)
    <3> HIDE DEF st
    <3>1. CASE i <= n1
      <4>1. i \in 1..(n1 + 1)
        BY <1>4, <3>1
      <4>2. p1[i] \in 0..l1 /\ st[i] = p1[i]
        BY <1>5, <1>7, <4>1
      <4> QED
        BY <1>4, <4>2
    <3>2. CASE i > n1
      <4> DEFINE h == i - n1
      <4>1. h \in 1..(n2 + 1) /\ n1 + h = i
        BY <1>4, <3>2
      <4> HIDE DEF h
      <4>2. p2[h] \in 0..l2 /\ st[i] = l1 + p2[h]
        BY <1>6, <1>7, <4>1
      <4> QED
        BY <1>4, <4>2
    <3>3. i <= n1 \/ i > n1
      BY <1>4
    <3> QED
      BY <3>1, <3>2, <3>3
  <2> QED
    BY <2>1
<1>9. st[1] = 0
  <2>1. 1 \in 1..(n1 + 1)
    BY <1>4
  <2> QED
    BY <1>5, <1>7, <2>1
<1>10. st[n1 + n2 + 1] = l1 + l2
  <2>1. n2 + 1 \in 1..(n2 + 1) /\ n1 + (n2 + 1) = n1 + n2 + 1
    BY <1>4
  <2> QED
    BY <1>6, <1>7, <2>1
<1> HIDE DEF st
<1>11. ASSUME NEW i \in 1..(n1 + n2)
       PROVE  /\ st[i + 1] = st[i] + Len(W[secs[i]])
              /\ \A j \in 1..Len(W[secs[i]]) : f[st[i] + j] = W[secs[i]][j]
  <2>1. CASE i <= n1
    <3> DEFINE m == Len(W[s1[i]])
    <3>1. i \in 1..n1 /\ i \in 1..(n1 + 1) /\ i + 1 \in 1..(n1 + 1) /\ secs[i] = s1[i] /\ s1[i] \in S
      BY <1>4, <2>1
    <3>2. m \in Nat /\ p1[i + 1] = p1[i] + m /\ p1[i] \in 0..l1 /\ p1[i + 1] \in 0..l1
      BY <1>5, <3>1
    <3>3. \A j \in 1..m : f1[p1[i] + j] = W[s1[i]][j]
      BY <1>5, <3>1
    <3> HIDE DEF m
    <3>4. ASSUME NEW j \in 1..m
          PROVE  f[p1[i] + j] = W[s1[i]][j]
      <4> DEFINE q == p1[i] + j
      <4>1. q \in 1..(l1 + l2) /\ q <= l1
        <5> DEFINE x == p1[i]
                   y == p1[i + 1]
        <5>1. x \in Nat /\ y \in Nat /\ y = x + m /\ y <= l1 /\ m \in Nat
          BY <1>4, <3>2
        <5>2. l1 \in Nat /\ l2 \in Nat
          BY <1>4
        <5> HIDE DEF x, y, l1, l2
        <5>3. x + j \in 1..(l1 + l2) /\ x + j <= l1
          BY <5>1, <5>2
        <5> QED
          BY <5>3 DEF x
      <4> HIDE DEF q
      <4>2. f[q] = f1[q]
        BY <1>4, <4>1
      <4> QED
        BY <3>3, <4>2 DEF q
    <3> QED
      BY <1>7, <3>1, <3>2, <3>4 DEF m
  <2>2. CASE i > n1
    <3> DEFINE h == i - n1
               m == Len(W[s2[h]])
    <3>1. /\ h \in 1..n2 /\ h \in 1..(n2 + 1) /\ h + 1 \in 1..(n2 + 1) /\ secs[i] = s2[h]
          /\ n1 + h = i /\ n1 + (h + 1) = i + 1 /\ s2[h] \in S
      BY <1>4, <2>2
    <3>2. m \in Nat /\ p2[h + 1] = p2[h] + m /\ p2[h] \in 0..l2 /\ p2[h + 1] \in 0..l2
      BY <1>6, <3>1
    <3> HIDE DEF h
    <3>0. \A j \in 1..m : f2[p2[h] + j] = W[s2[h]][j]
      BY <1>6, <3>1
    <3> HIDE DEF m
    <3>3. st[i] = l1 + p2[h] /\ st[i + 1] = l1 + p2[h + 1]
      BY <1>7, <3>1
    <3>4. ASSUME NEW j \in 1..m
          PROVE  f[st[i] + j] = W[s2[h]][j]
      <4>1. /\ st[i] + j \in 1..(l1 + l2) /\ ~(st[i] + j <= l1)
            /\ (st[i] + j) - l1 = p2[h] + j
        <5> DEFINE q == st[i]
                   r == p2[h]
        <5>1. q = l1 + r /\ r + m <= l2 /\ r \in Nat
          BY <1>4, <3>2, <3>3
        <5> HIDE DEF q, r
        <5>2. q + j \in 1..(l1 + l2) /\ ~(q + j <= l1) /\ (q + j) - l1 = r + j
          BY <1>4, <3>2, <5>1
        <5> QED
          BY <5>2 DEF q, r
      <4>2. f[st[i] + j] = f2[p2[h] + j]
        BY <1>4, <4>1
      <4> QED
        BY <3>0, <4>2
    <3>5. st[i + 1] = st[i] + m
      BY <1>4, <3>2, <3>3
    <3> QED
      BY <3>1, <3>4, <3>5 DEF m
  <2> QED
    BY <1>4, <2>1, <2>2
<1>12. Places(st, W, secs, f)
  BY <1>4, <1>8, <1>9, <1>10, <1>11 DEF Places
<1> QED
  BY <1>4, <1>12 DEF Spells, secs, f

\* A section, or some, that the version decides about.
LEMMA SpellsIf ==
  ASSUME NEW W, NEW S, NEW U, NEW cond, NEW secs, NEW f,
         cond => Spells(W, S, U, secs, f)
  PROVE  Spells(W, S, U, If(cond, secs), If(cond, f))
BY SpellsNothing DEF If

\* The first n sections of a list, as Concat writes them.
LEMMA SpellsFirst ==
  ASSUME NEW W, NEW S, NEW U, NEW names \in Seq(S), NEW n \in 1..Len(names),
         NEW parts, parts = [i \in 1..n |-> W[names[i]]],
         \A sec \in S : W[sec] \in Seq(U)
  PROVE  Spells(W, S, U, SubSeq(names, 1, n), FlattenSeq(parts))
<1>1. Len(names) \in Nat /\ \A i \in 1..Len(names) : names[i] \in S
  OBVIOUS
<1>2. parts \in Seq(Seq(U)) /\ Len(parts) = n /\ \A i \in 1..n : parts[i] = W[names[i]]
  BY <1>1
<1>3. PICK g : /\ g[1] = parts[1] /\ FlattenSeq(parts) = g[n]
               /\ \A i \in 2..n : g[i] = g[i - 1] \o parts[i]
  <2>1. Len(parts) # 0
    BY <1>1, <1>2
  <2>2. PICK g : Flattens(g, parts)
    BY <1>2, <2>1, FlattenSteps
  <2>3. Len(parts) = n
    BY <1>2
  <2>4. /\ g[1] = parts[1] /\ FlattenSeq(parts) = g[n]
        /\ \A i \in 2..n : g[i] = g[i - 1] \o parts[i]
    BY <2>2, <2>3, Zenon DEF Flattens
  <2> QED
    BY <2>4, Zenon
<1> DEFINE Good == {i \in 0..n : i > 0 => Spells(W, S, U, SubSeq(names, 1, i), g[i])}
<1>4. 0 \in Good
  BY <1>1
<1>5. \A sec \in S : Len(W[sec]) \in Nat
  OBVIOUS
<1>6. ASSUME NEW i \in 1..n, i - 1 \in Good
      PROVE  i \in Good
  <2>1. names[i] \in S /\ Spells(W, S, U, <<names[i]>>, W[names[i]])
    <3>1. names[i] \in S
      BY <1>1
    <3> QED
      BY <3>1, SpellsOne
  <2>2. SubSeq(names, 1, i) = SubSeq(names, 1, i - 1) \o <<names[i]>>
    BY <1>1, SubSeqRecursiveSecond
  <2>3. CASE i = 1
    <3>1. SubSeq(names, 1, 0) = <<>>
      BY SubSeqEmpty
    <3>2. <<names[1]>> \in Seq(S)
      BY <2>1, <2>3
    <3>3. SubSeq(names, 1, 1) = <<names[1]>>
      <4>1. i - 1 = 0
        BY <2>3
      <4>2. SubSeq(names, 1, i) = SubSeq(names, 1, 0) \o <<names[i]>>
        BY <2>2, <4>1
      <4>3. SubSeq(names, 1, 1) = <<>> \o <<names[1]>>
        BY <2>3, <3>1, <4>2
      <4> QED
        BY <3>2, <4>3, ConcatEmptySeq
    <3>4. Spells(W, S, U, SubSeq(names, 1, 1), g[1])
      BY <1>2, <1>3, <2>1, <2>3, <3>3
    <3> QED
      BY <2>3, <3>4
  <2>4. CASE i # 1
    <3>1. i \in 2..n /\ i - 1 > 0
      BY <1>1, <2>4
    <3>2. Spells(W, S, U, SubSeq(names, 1, i - 1), g[i - 1])
      BY <1>6, <3>1
    <3>3. g[i] = g[i - 1] \o W[names[i]]
      BY <1>2, <1>3, <3>1
    <3> HIDE DEF Good
    <3>4. Spells(W, S, U, SubSeq(names, 1, i - 1) \o <<names[i]>>, g[i - 1] \o W[names[i]])
      BY <1>5, <2>1, <3>2, SpellsBoth
    <3>5. Spells(W, S, U, SubSeq(names, 1, i), g[i])
      BY <2>2, <3>3, <3>4
    <3> QED
      BY <3>5 DEF Good
  <2> QED
    BY <2>3, <2>4
<1>7. n \in Good
  <2>1. n \in Nat /\ n \in 0..n
    BY <1>1
  <2> HIDE DEF Good
  <2>2. 0..n \subseteq Good
    BY <1>4, <1>6, <2>1, UpTo
  <2> QED
    BY <2>1, <2>2
<1> QED
  BY <1>1, <1>3, <1>7

(***************************************************************************)
(* Layout finds the sections of a file that was written one by one.        *)
(***************************************************************************)
Bare(sec) == Alone(sec) \/ sec = "type_attr_map"
\* W has a section as it is written, B what comes after the number of items.
Headed(W, B, S, nprim) ==
  \A sec \in S :
    /\ Bare(sec) => W[sec] = B[sec]
    /\ Alone(sec) => Len(B[sec]) = 1
    /\ sec = "type_attr_map" => Len(B[sec]) = nprim
    /\ ~Bare(sec) =>
         /\ Len(W[sec]) = Len(B[sec]) + 1
         /\ "n" \in DOMAIN W[sec][1] /\ W[sec][1].n = Len(B[sec])
         /\ \A j \in 1..Len(B[sec]) : W[sec][j + 1] = B[sec][j]
    /\ sec = "types" => "nprim" \in DOMAIN W[sec][1] /\ W[sec][1].nprim = nprim
Numbered(U) ==
  \A x \in U : /\ "n" \in DOMAIN x => x.n \in Nat
               /\ "nprim" \in DOMAIN x => x.nprim \in Nat
TypesBefore(secs) ==
  \A i \in 1..Len(secs) : secs[i] = "type_attr_map" => \E j \in 1..(i - 1) : secs[j] = "types"

PartValues(f) == {SubSeq(f, a, b - 1) : a \in Nat, b \in Nat} \cup {<<>>}
PartTables(f, S) == UNION {[D -> PartValues(f)] : D \in SUBSET (S \cup {"header"})}
LayoutStates(f, S) == [at : Nat \ {0}, nprim : Nat, parts : PartTables(f, S)]

\* A step of the reader stays within the states of a layout.
LEMMA NextSectionType ==
  ASSUME NEW S, NEW U, NEW f \in Seq(U), Numbered(U),
         NEW a \in LayoutStates(f, S), NEW sec \in S
  PROVE  NextSection(f, a, sec) \in LayoutStates(f, S)
<1> DEFINE p     == a.at
           nprim == IF sec = "types" THEN Nprim(f, p) ELSE a.nprim
           next  == After(f, sec, p, nprim)
           first == IF Alone(sec) \/ sec = "type_attr_map" THEN p ELSE p + 1
           val   == SubSeq(f, first, next - 1)
           parts == Also(Single(sec, val), a.parts)
<1>1. p \in Nat \ {0} /\ a.nprim \in Nat /\ a.parts \in PartTables(f, S)
  BY DEF LayoutStates
<1>2. CountAt(f, p) \in Nat /\ Nprim(f, p) \in Nat
  <2>1. p <= Len(f) => f[p] \in U
    BY <1>1
  <2> QED
    BY <1>1, <2>1 DEF CountAt, Nprim, Numbered
<1> HIDE DEF p
<1>3. nprim \in Nat
  BY <1>1, <1>2
<1> HIDE DEF nprim
<1>4. next \in Nat \ {0} /\ first \in Nat
  BY <1>1, <1>2, <1>3 DEF After
<1> HIDE DEF next, first
<1>5. val \in PartValues(f)
  BY <1>4 DEF PartValues
<1> HIDE DEF val
<1>6. parts \in PartTables(f, S)
  <2>1. PICK D \in SUBSET (S \cup {"header"}) : a.parts \in [D -> PartValues(f)]
    BY <1>1 DEF PartTables
  <2> DEFINE E == D \cup {sec}
  <2>2. E \in SUBSET (S \cup {"header"})
    OBVIOUS
  <2>3. parts \in [E -> PartValues(f)]
    BY <1>5, <2>1 DEF Also, Single
  <2> QED
    BY <2>2, <2>3 DEF PartTables
<1> HIDE DEF parts
<1>7. NextSection(f, a, sec) = [at |-> next, nprim |-> nprim, parts |-> parts]
  BY DEF NextSection, p, nprim, next, first, val, parts
<1> QED
  BY <1>3, <1>4, <1>6, <1>7 DEF LayoutStates

\* The layouts of longer and longer parts of the list of sections.
IsLayout(g, f, secs) ==
  /\ g[0] = Opened
  /\ \A i \in 1..Len(secs) : g[i] = NextSection(f, g[i - 1], secs[i])
  /\ Layout(f) = g[Len(secs)]

\* The fold of Layout as a function of the number of sections read.
LEMMA LayoutSteps ==
  ASSUME NEW S, NEW U, NEW f \in Seq(U), Numbered(U), f # <<>>,
         NEW secs \in Seq(S), Sections(f[1].vers) = secs
  PROVE  \E g : IsLayout(g, f, secs)
<1> DEFINE A == LayoutStates(f, S)
           n == Len(secs)
           step == [p \in (1..n) \X A |-> NextSection(f, p[2], secs[p[1]])]
           Eq(it) == it = [s \in SUBSET (1..n) |->
                             IF s = {} THEN Opened
                             ELSE NextSection(f, it[s \ {Max(s)}], secs[Max(s)])]
           it == CHOOSE it : Eq(it)
<1>1. /\ n \in Nat /\ DOMAIN secs = 1..n /\ \A i \in 1..n : secs[i] \in S
      /\ Opened \in A
  <2>1. [x \in {"header"} |-> <<>>] \in [{"header"} -> PartValues(f)]
    BY DEF PartValues
  <2>2. {"header"} \in SUBSET (S \cup {"header"})
    OBVIOUS
  <2>3. Single("header", <<>>) \in PartTables(f, S)
    BY <2>1, <2>2 DEF PartTables, Single
  <2>4. Opened \in A
    BY <2>3 DEF Opened, LayoutStates
  <2> QED
    BY <2>4
<1>2. /\ step \in [(1..n) \X A -> A]
      /\ \A i \in 1..n, x \in A : step[<<i, x>>] = NextSection(f, x, secs[i])
  <2>1. \A i \in 1..n, x \in A : NextSection(f, x, secs[i]) \in A
    BY <1>1, NextSectionType
  <2> HIDE DEF A
  <2> QED
    BY <2>1
<1>3. Layout(f) = it[1..n]
  BY <1>1 DEF Layout, FoldLeft, MapThenFoldSet
<1> HIDE DEF n, step, A
<1>4. \A s \in SUBSET (1..n) : s # {} => Max(s) \in 1..n
  BY <1>1, MaxOf
<1>5. \E g : Eq(g)
  <2>1. PICK g : IsFoldLeft(g, n, A, Opened, step)
    BY <1>1, <1>2, FoldLeftExists
  <2>2. ASSUME NEW s \in SUBSET (1..n)
        PROVE  g[s] = IF s = {} THEN Opened
                      ELSE NextSection(f, g[s \ {Max(s)}], secs[Max(s)])
    <3>1. CASE s = {}
      BY <2>1, <3>1 DEF IsFoldLeft
    <3>2. CASE s # {}
      <4>1. Max(s) \in 1..n /\ s \ {Max(s)} \in SUBSET (1..n)
        BY <1>4, <3>2
      <4>2. g[s \ {Max(s)}] \in A /\ g[s] = step[<<Max(s), g[s \ {Max(s)}]>>]
        BY <2>1, <3>2, <4>1 DEF IsFoldLeft
      <4> QED
        BY <1>2, <3>2, <4>1, <4>2
    <3> QED
      BY <3>1, <3>2
  <2>3. Eq(g)
    BY <2>1, <2>2 DEF IsFoldLeft
  <2> HIDE DEF Eq
  <2> QED
    BY <2>3
<1>6. Eq(it)
  <2> HIDE DEF Eq
  <2> QED
    BY <1>5
<1> HIDE DEF it
<1>7. PICK g : IsStepped(g, n, A, Opened, step) /\ g[n] = it[1..n]
  <2>1. it[{}] = Opened
    BY <1>6
  <2>2. ASSUME NEW s \in SUBSET (1..n), s # {}, it[s \ {Max(s)}] \in A
        PROVE  it[s] = step[<<Max(s), it[s \ {Max(s)}]>>]
    <3>1. Max(s) \in 1..n
      BY <1>4, <2>2
    <3>2. it[s] = NextSection(f, it[s \ {Max(s)}], secs[Max(s)])
      BY <1>6, <2>2
    <3> QED
      BY <1>2, <2>2, <3>1, <3>2
  <2>3. FoldsLeft(it, n, A, Opened, step)
    BY <2>1, <2>2 DEF FoldsLeft
  <2> HIDE DEF Eq
  <2>4. Reached(it[1..n], n, A, Opened, step)
    BY <1>1, <1>2, <2>3, FoldLeftSteps
  <2> QED
    BY <2>4 DEF Reached
<1>8. ASSUME NEW i \in 1..n
      PROVE  g[i] = NextSection(f, g[i - 1], secs[i])
  <2>1. i - 1 \in 0..n
    BY <1>1
  <2>2. g[i - 1] \in A /\ g[i] = step[<<i, g[i - 1]>>]
    BY <1>7, <2>1 DEF IsStepped
  <2> QED
    BY <1>2, <2>2
<1>9. g[0] = Opened
  BY <1>7 DEF IsStepped
<1> QED
  BY <1>3, <1>7, <1>8, <1>9 DEF IsLayout, n

\* What is known of the parts once the sections in T are behind.
Holding(parts, B, T) ==
  DOMAIN parts = T \cup {"header"} /\ \A sec \in T : parts[sec] = B[sec]

\* The reader ends behind the last item, with every section of the writer in its place.
LEMMA LayoutIs ==
  ASSUME NEW W, NEW B, NEW S, NEW U, NEW secs, NEW f, NEW nprim \in Nat,
         Spells(W, S, U, secs, f), Headed(W, B, S, nprim), Numbered(U),
         \A sec \in S : W[sec] \in Seq(U) /\ B[sec] \in Seq(U),
         TypesBefore(secs), f # <<>>, Sections(f[1].vers) = secs
  PROVE  /\ Layout(f).at = Len(f) + 1
         /\ "types" \in ToSet(secs) => Layout(f).nprim = nprim
         /\ Holding(Layout(f).parts, B, ToSet(secs))
<1> DEFINE n == Len(secs)
           Behind(i) == {secs[j] : j \in 1..i}
<1>1. secs \in Seq(S) /\ f \in Seq(U)
  BY DEF Spells
<1>2. n \in Nat /\ Len(f) \in Nat /\ \A i \in 1..n : secs[i] \in S
  BY <1>1
<1>3. PICK st : Places(st, W, secs, f)
  BY DEF Spells
<1>4. /\ st \in [1..(n + 1) -> 0..Len(f)] /\ st[1] = 0 /\ st[n + 1] = Len(f)
      /\ \A i \in 1..n :
            /\ st[i + 1] = st[i] + Len(W[secs[i]])
            /\ \A j \in 1..Len(W[secs[i]]) : f[st[i] + j] = W[secs[i]][j]
  BY <1>3 DEF Places
<1>5. PICK g : IsLayout(g, f, secs)
  BY <1>1, LayoutSteps
<1>6. /\ g[0] = Opened /\ Layout(f) = g[n]
      /\ \A i \in 1..n : g[i] = NextSection(f, g[i - 1], secs[i])
  BY <1>5 DEF IsLayout
<1> HIDE DEF n
<1> DEFINE Right(i) == /\ g[i].at = st[i + 1] + 1
                       /\ "types" \in Behind(i) => g[i].nprim = nprim
                       /\ Holding(g[i].parts, B, Behind(i))
           Good == {i \in 0..n : Right(i)}
<1>7. Right(0)
  <2>1. Behind(0) = {}
    OBVIOUS
  <2>2. DOMAIN Opened.parts = {"header"} /\ Opened.at = 1
    BY DEF Opened, Single
  <2> QED
    BY <1>2, <1>4, <1>6, <2>1, <2>2 DEF Holding
<1>8. ASSUME NEW i \in 1..n, Right(i - 1)
      PROVE  Right(i)
  <2> DEFINE sec   == secs[i]
             a     == g[i - 1]
             p     == a.at
             np    == IF sec = "types" THEN Nprim(f, p) ELSE a.nprim
             next  == After(f, sec, p, np)
             first == IF Bare(sec) THEN p ELSE p + 1
             val   == SubSeq(f, first, next - 1)
             len   == Len(B[sec])
             wlen  == Len(W[sec])
  <2>1. /\ sec \in S /\ (i - 1) + 1 = i /\ i \in 1..(n + 1) /\ i + 1 \in 1..(n + 1)
        /\ B[sec] \in Seq(U) /\ len \in Nat /\ wlen \in Nat
    BY <1>2
  <2>2. g[i] = [at |-> next, nprim |-> np, parts |-> Also(Single(sec, val), a.parts)]
    BY <1>6 DEF NextSection, Bare
  <2>3. /\ p = st[i] + 1 /\ st[i] \in 0..Len(f) /\ st[i + 1] \in 0..Len(f)
        /\ st[i + 1] = st[i] + wlen /\ st[i] \in Nat /\ p \in Nat
    <3>1. p = st[(i - 1) + 1] + 1
      BY <1>8
    <3>2. st[i] \in 0..Len(f) /\ st[i + 1] \in 0..Len(f)
      BY <1>4, <2>1
    <3>3. st[i + 1] = st[i] + wlen
      BY <1>4
    <3> HIDE DEF p, wlen
    <3>4. p = st[i] + 1
      BY <2>1, <3>1
    <3>5. st[i] \in Nat
      BY <1>2, <3>2
    <3> QED
      BY <3>2, <3>3, <3>4, <3>5
  <2>4. \A j \in 1..wlen : f[st[i] + j] = W[sec][j]
    BY <1>4
  <2>5. wlen > 0 => p <= Len(f) /\ f[p] = W[sec][1]
    <3> HIDE DEF p, wlen, sec
    <3>1. wlen > 0 => 1 \in 1..wlen /\ p <= Len(f)
      BY <1>2, <2>1, <2>3
    <3>2. f[p] = f[st[i] + 1]
      BY <2>3
    <3> QED
      BY <2>4, <3>1, <3>2
  <2>6. /\ Bare(sec) => W[sec] = B[sec]
        /\ Alone(sec) => len = 1
        /\ sec = "type_attr_map" => len = nprim
        /\ ~Bare(sec) =>
             /\ wlen = len + 1
             /\ "n" \in DOMAIN W[sec][1] /\ W[sec][1].n = len
             /\ \A j \in 1..len : W[sec][j + 1] = B[sec][j]
        /\ sec = "types" => "nprim" \in DOMAIN W[sec][1] /\ W[sec][1].nprim = nprim
    BY <2>1 DEF Headed
  <2>7. "types" \in Behind(i) => np = nprim
    <3>1. CASE sec = "types"
      <4>1. ~Bare(sec)
        BY <3>1 DEF Bare, Alone
      <4>2. wlen > 0
        BY <2>1, <2>6, <4>1
      <4>3. p <= Len(f) /\ f[p] = W[sec][1]
        BY <2>5, <4>2
      <4>4. "nprim" \in DOMAIN f[p] /\ f[p].nprim = nprim
        BY <2>6, <3>1, <4>3
      <4>5. np = Nprim(f, p)
        BY <3>1
      <4> HIDE DEF p, np
      <4> QED
        BY <4>3, <4>4, <4>5 DEF Nprim
    <3>2. CASE sec # "types"
      <4>1. "types" \in Behind(i) => "types" \in Behind(i - 1)
        BY <1>2, <3>2
      <4> QED
        BY <1>8, <3>2, <4>1
    <3> QED
      BY <3>1, <3>2
  <2>8. sec = "type_attr_map" => np = nprim
    <3> SUFFICES ASSUME sec = "type_attr_map"
                 PROVE  np = nprim
      OBVIOUS
    <3>1. PICK j \in 1..(i - 1) : secs[j] = "types"
      BY DEF TypesBefore, n
    <3>2. "types" \in Behind(i)
      BY <1>2, <3>1
    <3> QED
      BY <2>7, <3>2
  <2> HIDE DEF np
  <2>9. next = p + wlen
    <3>0. wlen = IF Bare(sec) THEN len ELSE len + 1
      BY <2>6
    <3> HIDE DEF p, a, sec, len, wlen
    <3>1. CASE Alone(sec)
      <4>1. sec # "type_attr_map"
        BY <3>1 DEF Alone
      <4>2. next = p + 1
        BY <3>1, <4>1 DEF After
      <4> QED
        BY <2>6, <3>0, <3>1, <4>2 DEF Bare
    <3>2. CASE ~Alone(sec) /\ sec = "type_attr_map"
      <4>1. next = p + np
        BY <3>2 DEF After
      <4> QED
        BY <2>6, <2>8, <3>0, <3>2, <4>1 DEF Bare
    <3>3. CASE ~Bare(sec)
      <4>1. wlen > 0 /\ wlen = len + 1
        BY <2>1, <3>0, <3>3
      <4>2. p <= Len(f) /\ "n" \in DOMAIN f[p] /\ f[p].n = len
        BY <2>5, <2>6, <3>3, <4>1
      <4>3. CountAt(f, p) = len
        BY <4>2 DEF CountAt
      <4>4. next = p + 1 + len
        BY <3>3, <4>3 DEF After, Bare
      <4>5. p \in Nat /\ len \in Nat
        BY <2>1, <2>3
      <4>6. p + 1 + len = p + wlen
        BY <4>1, <4>5
      <4> QED
        BY <4>4, <4>6
    <3> QED
      BY <3>1, <3>2, <3>3 DEF Bare
  <2> HIDE DEF next
  <2>10. val = B[sec]
    <3> HIDE DEF p, a, sec, wlen, len
    <3>0. /\ len = Len(B[sec]) /\ first \in Nat /\ first >= 1 /\ next = first + len
          /\ \A j \in 1..len : f[first + (j - 1)] = B[sec][j]
      <4>1. CASE Bare(sec)
        <5>1. wlen = len /\ first = p /\ W[sec] = B[sec]
          BY <2>6, <4>1 DEF len, wlen
        <5>2. \A j \in 1..len : p + (j - 1) = st[i] + j
          BY <2>1, <2>3
        <5> QED
          BY <2>1, <2>3, <2>4, <2>9, <5>1, <5>2 DEF len
      <4>2. CASE ~Bare(sec)
        <5>1. wlen = len + 1 /\ first = p + 1 /\ \A j \in 1..len : W[sec][j + 1] = B[sec][j]
          BY <2>6, <4>2
        <5>2. ASSUME NEW j \in 1..len
              PROVE  f[first + (j - 1)] = B[sec][j]
          <6>0. st[i] \in Nat /\ p = st[i] + 1 /\ len \in Nat
            BY <2>1, <2>3
          <6> DEFINE q == st[i]
          <6>1. q \in Nat /\ first = q + 2
            BY <5>1, <6>0
          <6> HIDE DEF q
          <6>2. j + 1 \in 1..wlen
            BY <5>1, <6>0
          <6>3. first + (j - 1) = q + (j + 1)
            BY <6>1
          <6>4. f[q + (j + 1)] = W[sec][j + 1]
            BY <2>4, <6>2 DEF q
          <6> QED
            BY <5>1, <6>3, <6>4
        <5>3. p \in Nat /\ len \in Nat
          BY <2>1, <2>3
        <5>4. first \in Nat /\ first >= 1 /\ next = first + len
          BY <2>9, <5>1, <5>3
        <5> QED
          BY <5>2, <5>4 DEF len
      <4> QED
        BY <4>1, <4>2
    <3> HIDE DEF first
    <3>1. next - 1 \in Int /\ (next - 1) - first + 1 = len
      BY <2>1, <3>0
    <3>2. \A j \in first..(next - 1) : f[j] \in U
      <4> TAKE j \in first..(next - 1)
      <4>1. (j - first) + 1 \in 1..len /\ first + (((j - first) + 1) - 1) = j
        BY <2>1, <3>0, <3>1
      <4>2. f[j] = B[sec][(j - first) + 1]
        BY <3>0, <4>1
      <4> QED
        BY <2>1, <3>0, <4>1, <4>2
    <3>3. /\ val \in Seq(U)
          /\ Len(val) = IF first <= next - 1 THEN (next - 1) - first + 1 ELSE 0
          /\ \A j \in 1..((next - 1) - first + 1) : val[j] = f[first + j - 1]
      BY <3>0, <3>1, <3>2, SubSeqProperties
    <3> HIDE DEF val
    <3>4. Len(val) = len
      BY <2>1, <3>0, <3>1, <3>3
    <3>5. \A j \in 1..len : val[j] = B[sec][j]
      <4> TAKE j \in 1..len
      <4>1. first + j - 1 = first + (j - 1)
        BY <2>1, <3>0
      <4> QED
        BY <3>0, <3>1, <3>3, <4>1
    <3> QED
      BY <2>1, <3>0, <3>3, <3>4, <3>5, SeqEqual
  <2> HIDE DEF val
  <2>11. Behind(i) = Behind(i - 1) \cup {sec}
    <3>1. 1..i = (1..(i - 1)) \cup {i}
      BY <1>2
    <3> QED
      BY <3>1
  <2>12. Holding(g[i].parts, B, Behind(i))
    <3>1. Holding(a.parts, B, Behind(i - 1))
      BY <1>8
    <3> HIDE DEF Behind, a
    <3> QED
      BY <2>2, <2>10, <2>11, <3>1 DEF Holding, Also, Single
  <2>13. g[i].at = st[i + 1] + 1
    <3>1. g[i].at = next
      BY <2>2
    <3> HIDE DEF p, a, sec, wlen
    <3> QED
      BY <2>1, <2>3, <2>9, <3>1
  <2>14. "types" \in Behind(i) => g[i].nprim = nprim
    BY <2>2, <2>7
  <2> QED
    BY <2>12, <2>13, <2>14
<1>9. n \in Good
  <2>1. 0 \in Good
    BY <1>2, <1>7
  <2>2. \A i \in 1..n : i - 1 \in Good => i \in Good
    <3> HIDE DEF Right
    <3> QED
      BY <1>2, <1>8
  <2> HIDE DEF Good
  <2>3. 0..n \subseteq Good
    BY <1>2, <2>1, <2>2, UpTo
  <2>4. n \in 0..n
    BY <1>2
  <2> QED
    BY <2>3, <2>4
<1>10. ToSet(secs) = Behind(n)
  BY <1>1, ToSetIs DEF n
<1> HIDE DEF Behind
<1> QED
  BY <1>4, <1>6, <1>9, <1>10

(***************************************************************************)
(* The sections of a file, and that Image is made of them.                 *)
(***************************************************************************)
NameTabs  == {"commons", "bools", "levels", "cats"}
SymNames  == NameTabs \cup {"classes", "roles", "types", "users"}
OconNames == {"isid", "fs", "port", "netif", "node", "fsuse", "node6", "ibpkey", "ibendport"}
SectionNames ==
  {"header", "policycaps", "permissive", "te_avtab", "cond_list", "role_tr", "role_allow",
   "filename_trans", "genfs", "range_tr", "type_attr_map"} \cup SymNames \cup OconNames

Header(d) == [k |-> "header", vers |-> d.vers, mls |-> d.mls,
              sym_num |-> SymNum(d.vers), ocon_num |-> OconNum(d.vers)]
RuleItems(d, m, order) ==
  IF d.vers < POLICYDB_VERSION_AVTAB
  THEN Items(Merged(Expand(d, d.te_avtab)), LAMBDA keys : OldEntry(Expand(d, d.te_avtab), keys))
  ELSE [i \in DOMAIN order |-> WriteNode(m, d.te_avtab, order[i])]
FtItems(d) ==
  IF d.vers < POLICYDB_VERSION_COMP_FTRANS THEN FtEntries(d)
  ELSE Items(FtKeys(d), LAMBDA key : [k |-> "filename_trans", key |-> key, chain |-> FtChain(d, key)])
NameItems(d, tab) == Items(d[tab], LAMBDA n : WriteName(tab, n))
ClassItems(d) == Items(d.classes, LAMBDA c : WriteClass(d.vers, c))
RoleItems(d)  == Items(d.roles, LAMBDA r : WriteRole(d.vers, r))
TypeItems(d)  == Items(WrittenTypes(d), LAMBDA t : WriteType(d.vers, t))
UserItems(d)  == Items(d.users, LAMBDA u : WriteUser(d.vers, u))
CondItems(d, m) == Items(d.cond_list, LAMBDA n : WriteCond(d, m, n))
RoleTransItems(d) ==
  Items(OfProcess(d.role_tr, d.vers >= POLICYDB_VERSION_ROLETRANS),
        LAMBDA r : WriteRoleTrans(d.vers, r))
RoleAllowItems(d) == Items(d.role_allow, WriteRoleAllow)
OconItems(d, kind) == Items(d.ocontexts[kind], LAMBDA o : WriteOcontext(d.vers, kind, o))
GenfsItems(d) == Items(d.genfs, LAMBDA g : WriteGenfs(d.vers, g))
RangeTransItems(d) ==
  Items(OfProcess(d.range_tr, d.vers >= POLICYDB_VERSION_RANGETRANS),
        LAMBDA r : WriteRangeTrans(d.vers, r))
RowItems(d) == [i \in 1..d.nprim |-> Bitmap(d.type_attr_map[i])]

Body(d, m, order, sec) ==
  CASE sec = "header"         -> <<Header(d)>>
    [] sec = "policycaps"     -> <<Bitmap(d.policycaps)>>
    [] sec = "permissive"     -> <<Bitmap(d.permissive)>>
    [] sec = "classes"        -> ClassItems(d)
    [] sec = "roles"          -> RoleItems(d)
    [] sec = "types"          -> TypeItems(d)
    [] sec = "users"          -> UserItems(d)
    [] sec = "te_avtab"       -> RuleItems(d, m, order)
    [] sec = "cond_list"      -> CondItems(d, m)
    [] sec = "role_tr"        -> RoleTransItems(d)
    [] sec = "role_allow"     -> RoleAllowItems(d)
    [] sec = "filename_trans" -> FtItems(d)
    [] sec \in OconNames      -> OconItems(d, sec)
    [] sec = "genfs"          -> GenfsItems(d)
    [] sec = "range_tr"       -> RangeTransItems(d)
    [] sec = "type_attr_map"  -> RowItems(d)
    [] OTHER                  -> NameItems(d, sec)
Segment(d, m, order, sec) ==
  CASE Bare(sec)     -> Body(d, m, order, sec)
    [] sec = "types" -> <<Also(Nel(TypeCount(d)), [nprim |-> d.nprim])>> \o Body(d, m, order, sec)
    [] OTHER         -> Counted(Body(d, m, order, sec))
Bodies(d, m, order)   == [sec \in SectionNames |-> Body(d, m, order, sec)]
Segments(d, m, order) == [sec \in SectionNames |-> Segment(d, m, order, sec)]

\* The items of each section by name.
LEMMA BodyIs ==
  ASSUME NEW d, NEW m, NEW order
  PROVE  LET b == Bodies(d, m, order)
         IN  /\ b["header"] = <<Header(d)>>
             /\ b["policycaps"] = <<Bitmap(d.policycaps)>>
             /\ b["permissive"] = <<Bitmap(d.permissive)>>
             /\ b["classes"] = ClassItems(d)
             /\ b["roles"] = RoleItems(d)
             /\ b["types"] = TypeItems(d)
             /\ b["users"] = UserItems(d)
             /\ b["te_avtab"] = RuleItems(d, m, order)
             /\ b["cond_list"] = CondItems(d, m)
             /\ b["role_tr"] = RoleTransItems(d)
             /\ b["role_allow"] = RoleAllowItems(d)
             /\ b["filename_trans"] = FtItems(d)
             /\ b["genfs"] = GenfsItems(d)
             /\ b["range_tr"] = RangeTransItems(d)
             /\ b["type_attr_map"] = RowItems(d)
             /\ \A kind \in OconNames :
                   b[kind] = OconItems(d, kind)
             /\ \A tab \in NameTabs : b[tab] = NameItems(d, tab)
<1> DEFINE b == Bodies(d, m, order)
<1>1. \A sec \in SectionNames : b[sec] = Body(d, m, order, sec)
  BY DEF Bodies
<1>2. /\ OconNames \subseteq SectionNames /\ NameTabs \subseteq SectionNames
      /\ {"header", "policycaps", "permissive", "te_avtab", "cond_list", "role_tr", "role_allow",
          "filename_trans", "genfs", "range_tr", "type_attr_map", "classes", "roles", "types",
          "users"} \subseteq SectionNames
  BY DEF SectionNames, SymNames
<1> HIDE DEF b
<1>3. /\ b["header"] = <<Header(d)>>
      /\ b["policycaps"] = <<Bitmap(d.policycaps)>>
      /\ b["permissive"] = <<Bitmap(d.permissive)>>
      /\ b["classes"] = ClassItems(d)
      /\ b["roles"] = RoleItems(d)
      /\ b["types"] = TypeItems(d)
      /\ b["users"] = UserItems(d)
  BY <1>1, <1>2 DEF Body, OconNames
<1>4. /\ b["te_avtab"] = RuleItems(d, m, order)
      /\ b["cond_list"] = CondItems(d, m)
      /\ b["role_tr"] = RoleTransItems(d)
      /\ b["role_allow"] = RoleAllowItems(d)
      /\ b["filename_trans"] = FtItems(d)
      /\ b["genfs"] = GenfsItems(d)
      /\ b["range_tr"] = RangeTransItems(d)
      /\ b["type_attr_map"] = RowItems(d)
  BY <1>1, <1>2 DEF Body, OconNames
<1>5. ASSUME NEW kind \in OconNames
      PROVE  b[kind] = OconItems(d, kind)
  BY <1>1, <1>2 DEF Body, OconNames
<1>6. ASSUME NEW tab \in NameTabs
      PROVE  b[tab] = NameItems(d, tab)
  BY <1>1, <1>2 DEF Body, OconNames, NameTabs
<1> QED
  BY <1>3, <1>4, <1>5, <1>6 DEF b

\* The symbol tables and the lists of contexts, in their order.
LEMMA NamesAre ==
  /\ Symtabs \in Seq(SymNames) /\ Len(Symtabs) = 8 /\ ToSet(Symtabs) = SymNames
  /\ Ocontexts \in Seq(OconNames) /\ Len(Ocontexts) = 9 /\ ToSet(Ocontexts) = OconNames
  /\ \A i \in 1..8 : Symtabs[i] \in SymNames
  /\ \A i \in 1..9 : Ocontexts[i] \in OconNames
  /\ Symtabs[1] = "commons" /\ Symtabs[2] = "classes" /\ Symtabs[3] = "roles"
  /\ Symtabs[4] = "types" /\ Symtabs[5] = "users" /\ Symtabs[6] = "bools"
  /\ Symtabs[7] = "levels" /\ Symtabs[8] = "cats"
<1>1. /\ Symtabs \in Seq(SymNames) /\ Len(Symtabs) = 8
      /\ Ocontexts \in Seq(OconNames) /\ Len(Ocontexts) = 9
  BY DEF Symtabs, SymNames, NameTabs, Ocontexts, OconNames
<1>2. /\ Symtabs[1] = "commons" /\ Symtabs[2] = "classes" /\ Symtabs[3] = "roles"
      /\ Symtabs[4] = "types" /\ Symtabs[5] = "users" /\ Symtabs[6] = "bools"
      /\ Symtabs[7] = "levels" /\ Symtabs[8] = "cats"
  BY DEF Symtabs
<1>3. /\ Ocontexts[1] = "isid" /\ Ocontexts[2] = "fs" /\ Ocontexts[3] = "port"
      /\ Ocontexts[4] = "netif" /\ Ocontexts[5] = "node" /\ Ocontexts[6] = "fsuse"
      /\ Ocontexts[7] = "node6" /\ Ocontexts[8] = "ibpkey" /\ Ocontexts[9] = "ibendport"
  BY DEF Ocontexts
<1>4. ToSet(Symtabs) = {Symtabs[i] : i \in 1..8} /\ ToSet(Ocontexts) = {Ocontexts[i] : i \in 1..9}
  BY <1>1, ToSetIs
<1>5. ToSet(Symtabs) = SymNames
  <2>1. \A i \in 1..8 : i = 1 \/ i = 2 \/ i = 3 \/ i = 4 \/ i = 5 \/ i = 6 \/ i = 7 \/ i = 8
    OBVIOUS
  <2>2. ToSet(Symtabs) \subseteq SymNames
    BY <1>2, <1>4, <2>1 DEF SymNames, NameTabs
  <2>3. SymNames \subseteq ToSet(Symtabs)
    BY <1>2, <1>4 DEF SymNames, NameTabs
  <2> QED
    BY <2>2, <2>3
<1>6. ToSet(Ocontexts) = OconNames
  <2>1. \A i \in 1..9 : \/ i = 1 \/ i = 2 \/ i = 3 \/ i = 4 \/ i = 5
                        \/ i = 6 \/ i = 7 \/ i = 8 \/ i = 9
    OBVIOUS
  <2>2. ToSet(Ocontexts) \subseteq OconNames
    BY <1>3, <1>4, <2>1 DEF OconNames
  <2>3. OconNames \subseteq ToSet(Ocontexts)
    BY <1>3, <1>4 DEF OconNames
  <2> QED
    BY <2>2, <2>3
<1>7. \A i \in 1..8 : Symtabs[i] \in SymNames
  BY <1>4, <1>5
<1>8. \A i \in 1..9 : Ocontexts[i] \in OconNames
  BY <1>4, <1>6
<1> QED
  BY <1>1, <1>2, <1>5, <1>6, <1>7, <1>8

\* policydb_lookup_compat.
LEMMA NumbersOfTables ==
  ASSUME NEW v \in 15..33
  PROVE  /\ SymNum(v) \in 1..8 /\ OconNum(v) \in 1..9
         /\ SymNum(v) >= 5
         /\ SymNum(v) >= 6 <=> v >= 16
         /\ SymNum(v) >= 7 <=> v >= 19
         /\ SymNum(v) >= 8 <=> v >= 19
BY DEF SymNum, OconNum, POLICYDB_VERSION_MLS, POLICYDB_VERSION_BOOL,
       POLICYDB_VERSION_INFINIBAND, POLICYDB_VERSION_IPV6

\* Each section as it is written: with a number in front, or bare.
LEMMA SegmentIs ==
  ASSUME NEW d, NEW m, NEW order
  PROVE  LET w == Segments(d, m, order)
             b == Bodies(d, m, order)
         IN  /\ \A sec \in SectionNames : Bare(sec) => w[sec] = b[sec]
             /\ \A sec \in SectionNames :
                   ~Bare(sec) /\ sec # "types" => w[sec] = Counted(b[sec])
             /\ w["types"] = <<Also(Nel(TypeCount(d)), [nprim |-> d.nprim])>> \o b["types"]
<1>1. \A sec \in SectionNames : /\ Segments(d, m, order)[sec] = Segment(d, m, order, sec)
                                /\ Bodies(d, m, order)[sec] = Body(d, m, order, sec)
  BY DEF Segments, Bodies
<1>2. ~Bare("types") /\ "types" \in SectionNames
  BY DEF Bare, Alone, SectionNames, SymNames
<1> QED
  BY <1>1, <1>2 DEF Segment

\* policydb_write writes each symbol table as its section.
LEMMA SymtabIs ==
  ASSUME NEW d, NEW m, NEW order, NEW tab \in SymNames
  PROVE  WriteSymtab(d, tab) = Segments(d, m, order)[tab]
<1> DEFINE w == Segments(d, m, order)
           b == Bodies(d, m, order)
<1>1. tab \in SectionNames /\ ~Bare(tab)
  BY DEF SectionNames, SymNames, NameTabs, Bare, Alone
<1>2. /\ \A sec \in SectionNames : ~Bare(sec) /\ sec # "types" => w[sec] = Counted(b[sec])
      /\ w["types"] = <<Also(Nel(TypeCount(d)), [nprim |-> d.nprim])>> \o b["types"]
  BY SegmentIs
<1>3. /\ b["classes"] = ClassItems(d)
      /\ b["roles"] = RoleItems(d)
      /\ b["types"] = TypeItems(d)
      /\ b["users"] = UserItems(d)
      /\ \A t \in NameTabs : b[t] = NameItems(d, t)
  BY BodyIs
<1> HIDE DEF w, b
<1>4. CASE tab = "types"
  BY <1>2, <1>3, <1>4 DEF WriteSymtab, TypeItems, w
<1>5. CASE tab = "classes"
  BY <1>1, <1>2, <1>3, <1>5 DEF WriteSymtab, List, ClassItems, w
<1>6. CASE tab = "roles"
  BY <1>1, <1>2, <1>3, <1>6 DEF WriteSymtab, List, RoleItems, w
<1>7. CASE tab = "users"
  BY <1>1, <1>2, <1>3, <1>7 DEF WriteSymtab, List, UserItems, w
<1>8. CASE tab \in NameTabs
  <2>1. tab \notin {"types", "classes", "roles", "users"}
    BY <1>8 DEF NameTabs
  <2>2. WriteSymtab(d, tab) = Counted(NameItems(d, tab))
    BY <2>1 DEF WriteSymtab, List, NameItems
  <2> QED
    BY <1>1, <1>2, <1>3, <1>8, <2>1, <2>2 DEF w
<1> QED
  BY <1>4, <1>5, <1>6, <1>7, <1>8 DEF SymNames

LEMMA TwoSections ==
  ASSUME NEW S, NEW front \in Seq(S), NEW a \in S, NEW b \in S
  PROVE  front \o <<a, b>> = (front \o <<a>>) \o <<b>>
<1> DEFINE c == <<a>> \o <<b>>
<1>1. <<a, b>> = c
  <2>1. <<a>> \in Seq(S) /\ <<b>> \in Seq(S) /\ <<a, b>> \in Seq(S)
    OBVIOUS
  <2>2. /\ c \in Seq(S) /\ Len(c) = 2
        /\ \A i \in 1..2 : c[i] = IF i <= 1 THEN (<<a>>)[i] ELSE (<<b>>)[i - 1]
    BY <2>1, ConcatProperties
  <2> HIDE DEF c
  <2>3. c[1] = a /\ c[2] = b
    BY <2>2
  <2>4. \A i \in 1..2 : c[i] = (<<a, b>>)[i]
    BY <2>3
  <2> QED
    BY <2>1, <2>2, <2>4, SeqEqual
<1>2. <<a>> \in Seq(S) /\ <<b>> \in Seq(S)
  OBVIOUS
<1> QED
  BY <1>1, <1>2, ConcatAssociative

\* policydb_write writes the sections in the order policydb_read expects.
LEMMA ImageIs ==
  ASSUME NEW d, NEW m, NEW order, NEW U, d.vers \in 15..33,
         \A sec \in SectionNames : Segments(d, m, order)[sec] \in Seq(U)
  PROVE  Spells(Segments(d, m, order), SectionNames, U, Sections(d.vers), Image(d, m, order))
<1> DEFINE W == Segments(d, m, order)
           B == Bodies(d, m, order)
           S == SectionNames
           v == d.vers
           y4 == Concat(SymNum(v), LAMBDA i : WriteSymtab(d, Symtabs[i]))
           y10 == Concat(OconNum(v), LAMBDA i :
                    List(d.ocontexts[Ocontexts[i]], LAMBDA o : WriteOcontext(v, Ocontexts[i], o)))
           s4 == SubSeq(Symtabs, 1, SymNum(v))
           s10 == SubSeq(Ocontexts, 1, OconNum(v))
           c2 == v >= POLICYDB_VERSION_POLCAP
           c3 == v >= POLICYDB_VERSION_PERMISSIVE
           c6 == v >= POLICYDB_VERSION_BOOL
           c9 == v >= POLICYDB_VERSION_FILENAME_TRANS
           c12 == v >= POLICYDB_VERSION_MLS
           c13 == v >= POLICYDB_VERSION_AVTAB
           Word(sec) == Spells(W, S, U, <<sec>>, W[sec])
<1>1. /\ {"header", "policycaps", "permissive", "te_avtab", "cond_list", "role_tr", "role_allow",
          "filename_trans", "genfs", "range_tr", "type_attr_map"} \subseteq S
      /\ SymNames \subseteq S /\ OconNames \subseteq S
  BY DEF SectionNames
<1>a. /\ \A sec \in S : Bare(sec) => W[sec] = B[sec]
      /\ \A sec \in S : ~Bare(sec) /\ sec # "types" => W[sec] = Counted(B[sec])
  BY SegmentIs
<1>b. /\ B["header"] = <<Header(d)>>
      /\ B["policycaps"] = <<Bitmap(d.policycaps)>>
      /\ B["permissive"] = <<Bitmap(d.permissive)>>
      /\ B["type_attr_map"] = RowItems(d)
      /\ B["te_avtab"] = RuleItems(d, m, order) /\ B["filename_trans"] = FtItems(d)
      /\ B["cond_list"] = CondItems(d, m) /\ B["role_tr"] = RoleTransItems(d)
      /\ B["role_allow"] = RoleAllowItems(d) /\ B["genfs"] = GenfsItems(d)
      /\ B["range_tr"] = RangeTransItems(d)
  BY BodyIs
<1>0. /\ "header" \in S /\ Bare("header")
      /\ "policycaps" \in S /\ Bare("policycaps")
      /\ "permissive" \in S /\ Bare("permissive")
      /\ "type_attr_map" \in S /\ Bare("type_attr_map")
      /\ "te_avtab" \in S /\ ~Bare("te_avtab") /\ "te_avtab" # "types"
      /\ "cond_list" \in S /\ ~Bare("cond_list") /\ "cond_list" # "types"
      /\ "role_tr" \in S /\ ~Bare("role_tr") /\ "role_tr" # "types"
      /\ "role_allow" \in S /\ ~Bare("role_allow") /\ "role_allow" # "types"
      /\ "filename_trans" \in S /\ ~Bare("filename_trans") /\ "filename_trans" # "types"
      /\ "genfs" \in S /\ ~Bare("genfs") /\ "genfs" # "types"
      /\ "range_tr" \in S /\ ~Bare("range_tr") /\ "range_tr" # "types"
  BY DEF SectionNames, Bare, Alone
<1>2. /\ W["header"] = <<Header(d)>>
      /\ W["policycaps"] = <<Bitmap(d.policycaps)>>
      /\ W["permissive"] = <<Bitmap(d.permissive)>>
      /\ W["type_attr_map"] = RowItems(d)
  <2> HIDE DEF W, B, S
  <2> QED
    BY <1>0, <1>a, <1>b
<1>3. /\ W["te_avtab"] = WriteRules(d, m, d.te_avtab, order)
      /\ W["filename_trans"] = WriteFilenameTrans(d)
  <2>1. /\ W["te_avtab"] = Counted(RuleItems(d, m, order))
        /\ W["filename_trans"] = Counted(FtItems(d))
    <3> HIDE DEF W, B, S
    <3> QED
      BY <1>0, <1>a, <1>b
  <2> QED
    BY <2>1 DEF WriteRules, RuleItems, WriteFilenameTrans, FtItems, List
<1>4. /\ W["cond_list"] = Counted(CondItems(d, m))
      /\ W["role_tr"] = Counted(RoleTransItems(d))
      /\ W["role_allow"] = Counted(RoleAllowItems(d))
      /\ W["genfs"] = Counted(GenfsItems(d))
      /\ W["range_tr"] = Counted(RangeTransItems(d))
  <2> HIDE DEF W, B, S
  <2> QED
    BY <1>0, <1>a, <1>b
<1>5. /\ SymNum(v) \in 1..8 /\ OconNum(v) \in 1..9
  BY NumbersOfTables
<1>6. Spells(W, S, U, s4, y4)
  <2> DEFINE parts == [i \in 1..SymNum(v) |-> W[Symtabs[i]]]
  <2>1. \A i \in 1..SymNum(v) : WriteSymtab(d, Symtabs[i]) = W[Symtabs[i]]
    <3>1. \A i \in 1..SymNum(v) : Symtabs[i] \in SymNames
      <4>1. \A i \in 1..8 : Symtabs[i] \in SymNames
        BY NamesAre
      <4> QED
        BY <1>5, <4>1
    <3> QED
      BY <3>1, SymtabIs
  <2> HIDE DEF W
  <2>2. y4 = FlattenSeq(parts)
    BY <2>1 DEF Concat
  <2>3. Symtabs \in Seq(S) /\ SymNum(v) \in 1..Len(Symtabs)
    BY <1>1, <1>5, NamesAre
  <2> HIDE DEF parts, y4, S
  <2>4. Spells(W, S, U, SubSeq(Symtabs, 1, SymNum(v)), FlattenSeq(parts))
    <3>1. parts = [i \in 1..SymNum(v) |-> W[Symtabs[i]]]
      BY DEF parts
    <3>2. \A sec \in S : W[sec] \in Seq(U)
      BY DEF S, W
    <3> QED
      BY <2>3, <3>1, <3>2, SpellsFirst
  <2> QED
    BY <2>2, <2>4
<1>7. Spells(W, S, U, s10, y10)
  <2> DEFINE parts == [i \in 1..OconNum(v) |-> W[Ocontexts[i]]]
  <2>1. \A i \in 1..OconNum(v) :
           List(d.ocontexts[Ocontexts[i]], LAMBDA o : WriteOcontext(v, Ocontexts[i], o))
             = W[Ocontexts[i]]
    <3>1. \A i \in 1..OconNum(v) : Ocontexts[i] \in OconNames
      <4>1. \A i \in 1..9 : Ocontexts[i] \in OconNames
        BY NamesAre
      <4> QED
        BY <1>5, <4>1
    <3>2. ASSUME NEW kind \in OconNames
          PROVE  List(d.ocontexts[kind], LAMBDA o : WriteOcontext(v, kind, o)) = W[kind]
      <4>1. ~Bare(kind) /\ kind # "types" /\ kind \in S
        BY <1>1 DEF OconNames, Bare, Alone
      <4>2. W[kind] = Counted(B[kind])
        BY <4>1, SegmentIs
      <4>3. B[kind] = OconItems(d, kind)
        BY BodyIs
      <4> QED
        BY <4>2, <4>3 DEF List, OconItems
    <3> QED
      BY <3>1, <3>2
  <2> HIDE DEF W
  <2>2. y10 = FlattenSeq(parts)
    BY <2>1 DEF Concat
  <2>3. Ocontexts \in Seq(S) /\ OconNum(v) \in 1..Len(Ocontexts)
    BY <1>1, <1>5, NamesAre
  <2> HIDE DEF parts, y10, S
  <2>4. Spells(W, S, U, SubSeq(Ocontexts, 1, OconNum(v)), FlattenSeq(parts))
    <3>1. parts = [i \in 1..OconNum(v) |-> W[Ocontexts[i]]]
      BY DEF parts
    <3>2. \A sec \in S : W[sec] \in Seq(U)
      BY DEF S, W
    <3> QED
      BY <2>3, <3>1, <3>2, SpellsFirst
  <2> QED
    BY <2>2, <2>4
<1>8. \A sec \in S : Word(sec)
  <2> HIDE DEF W, S
  <2>1. \A sec \in S : W[sec] \in Seq(U)
    BY DEF S, W
  <2> QED
    BY <2>1, SpellsOne
<1>9. \A sec \in S : Len(W[sec]) \in Nat
  OBVIOUS
<1> HIDE DEF Word, y4, y10, s4, s10, c2, c3, c6, c9, c12, c13, W, S
<1> DEFINE z2 == <<"header">> \o If(c2, <<"policycaps">>)
           z3 == z2 \o If(c3, <<"permissive">>)
           z4 == z3 \o s4
           z5 == z4 \o <<"te_avtab">>
           z6 == z5 \o If(c6, <<"cond_list">>)
           z7 == z6 \o <<"role_tr">>
           z8 == z7 \o <<"role_allow">>
           z9 == z8 \o If(c9, <<"filename_trans">>)
           z10 == z9 \o s10
           z11 == z10 \o <<"genfs">>
           z12 == z11 \o If(c12, <<"range_tr">>)
           z13 == z12 \o If(c13, <<"type_attr_map">>)
           x2 == W["header"] \o If(c2, W["policycaps"])
           x3 == x2 \o If(c3, W["permissive"])
           x4 == x3 \o y4
           x5 == x4 \o W["te_avtab"]
           x6 == x5 \o If(c6, W["cond_list"])
           x7 == x6 \o W["role_tr"]
           x8 == x7 \o W["role_allow"]
           x9 == x8 \o If(c9, W["filename_trans"])
           x10 == x9 \o y10
           x11 == x10 \o W["genfs"]
           x12 == x11 \o If(c12, W["range_tr"])
           x13 == x12 \o If(c13, W["type_attr_map"])
<1>10. /\ Word("header") /\ Word("policycaps") /\ Word("permissive") /\ Word("te_avtab")
       /\ Word("cond_list") /\ Word("role_tr") /\ Word("role_allow") /\ Word("filename_trans")
       /\ Word("genfs") /\ Word("range_tr") /\ Word("type_attr_map")
  BY <1>1, <1>8
<1>11. /\ Spells(W, S, U, If(c2, <<"policycaps">>), If(c2, W["policycaps"]))
       /\ Spells(W, S, U, If(c3, <<"permissive">>), If(c3, W["permissive"]))
       /\ Spells(W, S, U, If(c6, <<"cond_list">>), If(c6, W["cond_list"]))
       /\ Spells(W, S, U, If(c9, <<"filename_trans">>), If(c9, W["filename_trans"]))
       /\ Spells(W, S, U, If(c12, <<"range_tr">>), If(c12, W["range_tr"]))
       /\ Spells(W, S, U, If(c13, <<"type_attr_map">>), If(c13, W["type_attr_map"]))
  BY <1>10, SpellsIf DEF Word
<1>21. Spells(W, S, U, z2, x2)
  BY <1>9, <1>10, <1>11, SpellsBoth DEF Word
<1> HIDE DEF z2, x2
<1>22. Spells(W, S, U, z3, x3)
  BY <1>9, <1>11, <1>21, SpellsBoth
<1> HIDE DEF z3, x3
<1>23. Spells(W, S, U, z4, x4)
  BY <1>6, <1>9, <1>22, SpellsBoth
<1> HIDE DEF z4, x4
<1>24. Spells(W, S, U, z5, x5)
  BY <1>9, <1>10, <1>23, SpellsBoth DEF Word
<1> HIDE DEF z5, x5
<1>25. Spells(W, S, U, z6, x6)
  BY <1>9, <1>11, <1>24, SpellsBoth
<1> HIDE DEF z6, x6
<1>26. Spells(W, S, U, z7, x7)
  BY <1>9, <1>10, <1>25, SpellsBoth DEF Word
<1> HIDE DEF z7, x7
<1>27. Spells(W, S, U, z8, x8)
  BY <1>9, <1>10, <1>26, SpellsBoth DEF Word
<1>28. z8 = z6 \o <<"role_tr", "role_allow">>
  <2>1. z6 \in Seq(S)
    BY <1>25 DEF Spells
  <2> QED
    BY <1>1, <2>1, TwoSections DEF z7
<1> HIDE DEF z8, x8
<1>29. Spells(W, S, U, z9, x9)
  BY <1>9, <1>11, <1>27, SpellsBoth
<1> HIDE DEF z9, x9
<1>30. Spells(W, S, U, z10, x10)
  BY <1>7, <1>9, <1>29, SpellsBoth
<1> HIDE DEF z10, x10
<1>31. Spells(W, S, U, z11, x11)
  BY <1>9, <1>10, <1>30, SpellsBoth DEF Word
<1> HIDE DEF z11, x11
<1>32. Spells(W, S, U, z12, x12)
  BY <1>9, <1>11, <1>31, SpellsBoth
<1> HIDE DEF z12, x12
<1>33. Spells(W, S, U, z13, x13)
  BY <1>9, <1>11, <1>32, SpellsBoth
<1>34. z13 = Sections(v)
  BY <1>28 DEF Sections, z12, z11, z10, z9, z6, z5, z4, z3, z2, c2, c3, c6, c9, c12, c13, s4, s10
<1>35. x13 = Image(d, m, order)
  BY <1>2, <1>3, <1>4 DEF Image, Header, List, CondItems, RoleTransItems,
     RoleAllowItems, GenfsItems, RangeTransItems, RowItems, x12, x11, x10, x9, x8, x7, x6, x5, x4, x3, x2,
     c2, c3, c6, c9, c12, c13, y4, y10
<1> QED
  BY <1>33, <1>34, <1>35 DEF W, S

\* The first n elements of a list.
LEMMA FirstAre ==
  ASSUME NEW S, NEW names \in Seq(S), NEW n \in 1..Len(names)
  PROVE  SubSeq(names, 1, n) \in Seq(S) /\ ToSet(SubSeq(names, 1, n)) = {names[i] : i \in 1..n}
<1> DEFINE s == SubSeq(names, 1, n)
<1>1. Len(names) \in Nat /\ \A i \in 1..n : names[i] \in S
  OBVIOUS
<1>2. s \in Seq(S) /\ Len(s) = n /\ \A i \in 1..n : s[i] = names[i]
  <2>1. /\ s \in Seq(S) /\ Len(s) = IF 1 <= n THEN n - 1 + 1 ELSE 0
        /\ \A i \in 1..(n - 1 + 1) : s[i] = names[1 + i - 1]
    BY <1>1, SubSeqProperties
  <2> HIDE DEF s
  <2> QED
    BY <1>1, <2>1
<1> HIDE DEF s
<1>3. ToSet(s) = {s[i] : i \in 1..n}
  BY <1>2, ToSetIs
<1> QED
  BY <1>2, <1>3 DEF s

\* A list of one element or none.
LEMMA IfIs ==
  ASSUME NEW S, NEW cond, NEW x \in S
  PROVE  If(cond, <<x>>) \in Seq(S) /\ ToSet(If(cond, <<x>>)) = Given(cond, {x})
<1>1. CASE cond
  <2> DEFINE w == <<x>>
  <2>1. w \in Seq(S) /\ Len(w) = 1 /\ w[1] = x
    OBVIOUS
  <2> HIDE DEF w
  <2>2. ToSet(w) = {w[i] : i \in 1..1}
    BY <2>1, ToSetIs
  <2>3. ToSet(w) = {x}
    BY <2>1, <2>2
  <2> QED
    BY <1>1, <2>1, <2>3 DEF If, Given, w
<1>2. CASE ~cond
  <2>1. <<>> \in Seq(S) /\ ToSet(<<>>) = {}
    BY DEF ToSet
  <2> QED
    BY <1>2, <2>1 DEF If, Given
<1> QED
  BY <1>1, <1>2

\* The sections of a version, but the rows of types.
FrontSections(v) ==
  {"header", "te_avtab", "role_tr", "role_allow", "genfs"}
    \cup Given(v >= 22, {"policycaps"}) \cup Given(v >= 23, {"permissive"})
    \cup {Symtabs[i] : i \in 1..SymNum(v)}
    \cup Given(v >= 16, {"cond_list"}) \cup Given(v >= 25, {"filename_trans"})
    \cup {Ocontexts[i] : i \in 1..OconNum(v)} \cup Given(v >= 19, {"range_tr"})

LEMMA LastAfter ==
  ASSUME NEW S, NEW front \in Seq(S), "types" \in ToSet(front),
         "type_attr_map" \notin ToSet(front), "type_attr_map" \in S, NEW cond
  PROVE  TypesBefore(front \o If(cond, <<"type_attr_map">>))
<1> DEFINE n == Len(front)
           last == If(cond, <<"type_attr_map">>)
           secs == front \o last
           m == Len(last)
<1>1. n \in Nat /\ ToSet(front) = {front[i] : i \in 1..n}
  BY ToSetIs
<1>2. last \in Seq(S) /\ m \in {0, 1}
  BY DEF If
<1> HIDE DEF n, last
<1>3. /\ Len(secs) = n + m
      /\ \A i \in 1..(n + m) : secs[i] = IF i <= n THEN front[i] ELSE last[i - n]
  BY <1>2, ConcatProperties DEF n
<1> HIDE DEF secs, m
<1>4. PICK j \in 1..n : front[j] = "types"
  BY <1>1
<1>5. ASSUME NEW i \in 1..Len(secs), secs[i] = "type_attr_map"
      PROVE  \E h \in 1..(i - 1) : secs[h] = "types"
  <2>1. i > n
    BY <1>1, <1>2, <1>3, <1>5
  <2>2. j \in 1..(i - 1) /\ j \in 1..(n + m) /\ j <= n
    BY <1>1, <1>2, <2>1
  <2> QED
    BY <1>3, <1>4, <2>2
<1> QED
  BY <1>5 DEF TypesBefore, secs, last

\* The header is the first item of a file.
Begins(s, x) == Len(s) > 0 /\ s[1] = x
LEMMA BeginsOn ==
  ASSUME NEW S, NEW a \in Seq(S), NEW b \in Seq(S), NEW x, Begins(a, x)
  PROVE  a \o b \in Seq(S) /\ ToSet(a \o b) = ToSet(a) \cup ToSet(b) /\ Begins(a \o b, x)
<1> DEFINE n == Len(a)
           m == Len(b)
           c == a \o b
<1>1. n \in Nat /\ m \in Nat /\ n > 0 /\ a[1] = x
  BY DEF Begins
<1>2. /\ c \in Seq(S) /\ Len(c) = n + m
      /\ \A i \in 1..(n + m) : c[i] = IF i <= n THEN a[i] ELSE b[i - n]
  BY ConcatProperties
<1>3. c \in Seq(S) /\ ToSet(c) = ToSet(a) \cup ToSet(b)
  BY Concatenated
<1> HIDE DEF n, m, c
<1>4. Begins(c, x)
  BY <1>1, <1>2 DEF Begins
<1> QED
  BY <1>3, <1>4 DEF c

\* Which sections a version has.
LEMMA SectionsAre ==
  ASSUME NEW v \in 15..33
  PROVE  /\ ToSet(Sections(v)) = FrontSections(v) \cup Given(v >= 20, {"type_attr_map"})
         /\ Sections(v) \in Seq(SectionNames) /\ TypesBefore(Sections(v))
         /\ Begins(Sections(v), "header")
<1> DEFINE S == SectionNames
           s4 == SubSeq(Symtabs, 1, SymNum(v))
           s10 == SubSeq(Ocontexts, 1, OconNum(v))
           i2 == If(v >= 22, <<"policycaps">>)
           i3 == If(v >= 23, <<"permissive">>)
           i6 == If(v >= 16, <<"cond_list">>)
           i9 == If(v >= 25, <<"filename_trans">>)
           i12 == If(v >= 19, <<"range_tr">>)
           i13 == If(v >= 20, <<"type_attr_map">>)
           h == <<"header">>
           t == <<"te_avtab">>
           r == <<"role_tr", "role_allow">>
           g == <<"genfs">>
<1>1. /\ {"header", "policycaps", "permissive", "te_avtab", "cond_list", "role_tr", "role_allow",
          "filename_trans", "genfs", "range_tr", "type_attr_map"} \subseteq S
      /\ SymNames \subseteq S /\ OconNames \subseteq S
  BY DEF SectionNames
<1>2. SymNum(v) \in 1..8 /\ OconNum(v) \in 1..9 /\ SymNum(v) >= 5
  BY NumbersOfTables
<1>3. s4 \in Seq(S) /\ ToSet(s4) = {Symtabs[i] : i \in 1..SymNum(v)}
  <2>1. Symtabs \in Seq(S) /\ SymNum(v) \in 1..Len(Symtabs)
    BY <1>1, <1>2, NamesAre
  <2> HIDE DEF S
  <2> QED
    BY <2>1, FirstAre
<1>4. s10 \in Seq(S) /\ ToSet(s10) = {Ocontexts[i] : i \in 1..OconNum(v)}
  <2>1. Ocontexts \in Seq(S) /\ OconNum(v) \in 1..Len(Ocontexts)
    BY <1>1, <1>2, NamesAre
  <2> HIDE DEF S
  <2> QED
    BY <2>1, FirstAre
<1>5. /\ i2 \in Seq(S) /\ ToSet(i2) = Given(v >= 22, {"policycaps"})
      /\ i3 \in Seq(S) /\ ToSet(i3) = Given(v >= 23, {"permissive"})
      /\ i6 \in Seq(S) /\ ToSet(i6) = Given(v >= 16, {"cond_list"})
      /\ i9 \in Seq(S) /\ ToSet(i9) = Given(v >= 25, {"filename_trans"})
      /\ i12 \in Seq(S) /\ ToSet(i12) = Given(v >= 19, {"range_tr"})
      /\ i13 \in Seq(S) /\ ToSet(i13) = Given(v >= 20, {"type_attr_map"})
  <2>1. /\ "policycaps" \in S /\ "permissive" \in S /\ "cond_list" \in S
        /\ "filename_trans" \in S /\ "range_tr" \in S /\ "type_attr_map" \in S
    BY <1>1
  <2> HIDE DEF S
  <2> QED
    BY <2>1, IfIs
<1>6. /\ h \in Seq(S) /\ ToSet(h) = {"header"}
      /\ t \in Seq(S) /\ ToSet(t) = {"te_avtab"}
      /\ r \in Seq(S) /\ ToSet(r) = {"role_tr", "role_allow"}
      /\ g \in Seq(S) /\ ToSet(g) = {"genfs"}
  <2>1. /\ h \in Seq(S) /\ Len(h) = 1 /\ h[1] = "header"
        /\ t \in Seq(S) /\ Len(t) = 1 /\ t[1] = "te_avtab"
        /\ g \in Seq(S) /\ Len(g) = 1 /\ g[1] = "genfs"
    BY <1>1
  <2>2. r \in Seq(S) /\ Len(r) = 2 /\ r[1] = "role_tr" /\ r[2] = "role_allow"
    BY <1>1
  <2> HIDE DEF h, t, g, r, S
  <2>3. ToSet(h) = {"header"} /\ ToSet(t) = {"te_avtab"} /\ ToSet(g) = {"genfs"}
    BY <2>1, ToSetIs
  <2>4. ToSet(r) = {r[i] : i \in 1..2}
    BY <2>2, ToSetIs
  <2>5. ToSet(r) = {"role_tr", "role_allow"}
    BY <2>2, <2>4
  <2> QED
    BY <2>1, <2>2, <2>3, <2>5
<1> HIDE DEF s4, s10, i2, i3, i6, i9, i12, i13, h, t, r, g, S
<1> DEFINE z2 == h \o i2
           z3 == z2 \o i3
           z4 == z3 \o s4
           z5 == z4 \o t
           z6 == z5 \o i6
           z8 == z6 \o r
           z9 == z8 \o i9
           z10 == z9 \o s10
           z11 == z10 \o g
           z12 == z11 \o i12
           z13 == z12 \o i13
<1>7. z2 \in Seq(S) /\ ToSet(z2) = ToSet(h) \cup ToSet(i2) /\ Begins(z2, "header")
  <2>1. Begins(h, "header")
    BY DEF Begins, h
  <2> QED
    BY <1>5, <1>6, <2>1, BeginsOn
<1> HIDE DEF z2
<1>8. z3 \in Seq(S) /\ ToSet(z3) = ToSet(z2) \cup ToSet(i3) /\ Begins(z3, "header")
  BY <1>5, <1>7, BeginsOn
<1> HIDE DEF z3
<1>9. z4 \in Seq(S) /\ ToSet(z4) = ToSet(z3) \cup ToSet(s4) /\ Begins(z4, "header")
  BY <1>3, <1>8, BeginsOn
<1> HIDE DEF z4
<1>10. z5 \in Seq(S) /\ ToSet(z5) = ToSet(z4) \cup ToSet(t) /\ Begins(z5, "header")
  BY <1>6, <1>9, BeginsOn
<1> HIDE DEF z5
<1>11. z6 \in Seq(S) /\ ToSet(z6) = ToSet(z5) \cup ToSet(i6) /\ Begins(z6, "header")
  BY <1>5, <1>10, BeginsOn
<1> HIDE DEF z6
<1>12. z8 \in Seq(S) /\ ToSet(z8) = ToSet(z6) \cup ToSet(r) /\ Begins(z8, "header")
  BY <1>6, <1>11, BeginsOn
<1> HIDE DEF z8
<1>13. z9 \in Seq(S) /\ ToSet(z9) = ToSet(z8) \cup ToSet(i9) /\ Begins(z9, "header")
  BY <1>5, <1>12, BeginsOn
<1> HIDE DEF z9
<1>14. z10 \in Seq(S) /\ ToSet(z10) = ToSet(z9) \cup ToSet(s10) /\ Begins(z10, "header")
  BY <1>4, <1>13, BeginsOn
<1> HIDE DEF z10
<1>15. z11 \in Seq(S) /\ ToSet(z11) = ToSet(z10) \cup ToSet(g) /\ Begins(z11, "header")
  BY <1>6, <1>14, BeginsOn
<1> HIDE DEF z11
<1>16. z12 \in Seq(S) /\ ToSet(z12) = ToSet(z11) \cup ToSet(i12) /\ Begins(z12, "header")
  BY <1>5, <1>15, BeginsOn
<1> HIDE DEF z12
<1>17. z13 \in Seq(S) /\ ToSet(z13) = ToSet(z12) \cup ToSet(i13) /\ Begins(z13, "header")
  BY <1>5, <1>16, BeginsOn
<1>18. ToSet(z12) = FrontSections(v)
  BY <1>3, <1>4, <1>5, <1>6, <1>7, <1>8, <1>9, <1>10, <1>11, <1>12, <1>13, <1>14, <1>15, <1>16
  DEF FrontSections
<1>19. z13 = Sections(v)
  BY DEF Sections, z12, z11, z10, z9, z8, z6, z5, z4, z3, z2, s4, s10, i2, i3, i6, i9, i12, i13,
     h, t, r, g, POLICYDB_VERSION_POLCAP, POLICYDB_VERSION_PERMISSIVE, POLICYDB_VERSION_BOOL,
     POLICYDB_VERSION_FILENAME_TRANS, POLICYDB_VERSION_MLS, POLICYDB_VERSION_AVTAB
<1>20. "types" \in FrontSections(v) /\ "type_attr_map" \notin FrontSections(v)
  <2>1. 4 \in 1..SymNum(v) /\ Symtabs[4] = "types"
    BY <1>2, NamesAre
  <2>2. \A i \in 1..SymNum(v) : Symtabs[i] # "type_attr_map"
    BY <1>2, NamesAre DEF SymNames, NameTabs
  <2>3. \A i \in 1..OconNum(v) : Ocontexts[i] # "type_attr_map"
    BY <1>2, NamesAre DEF OconNames
  <2> QED
    BY <2>1, <2>2, <2>3 DEF FrontSections, Given
<1>21. TypesBefore(z13)
  <2>1. "type_attr_map" \in S
    BY <1>1
  <2> QED
    BY <1>16, <1>18, <1>20, <2>1, LastAfter DEF i13
<1> QED
  BY <1>5, <1>17, <1>18, <1>19, <1>21 DEF S

(***************************************************************************)
(* The items of a section, as a list and as a set.                         *)
(***************************************************************************)
IsList(s) == s \in Seq(ToSet(s))
Spans(s, T) == IsList(s) /\ ToSet(s) = T

LEMMA SpansIs ==
  ASSUME NEW s, NEW T, s \in Seq(T), \A x \in T : \E i \in 1..Len(s) : s[i] = x
  PROVE  Spans(s, T)
<1>1. Len(s) \in Nat /\ \A i \in 1..Len(s) : s[i] \in T
  OBVIOUS
<1>2. ToSet(s) = {s[i] : i \in 1..Len(s)}
  BY ToSetIs
<1>3. ToSet(s) = T
  BY <1>1, <1>2
<1> QED
  BY <1>3 DEF Spans, IsList

\* An item for each element of a list.
LEMMA MappedIs ==
  ASSUME NEW S, NEW l, Enumerates(l, S), NEW F, NEW s, s = [i \in DOMAIN l |-> F[l[i]]]
  PROVE  Spans(s, {F[x] : x \in S}) /\ Len(s) = Len(l)
<1> DEFINE T == {F[x] : x \in S}
           n == Len(l)
<1>1. n \in Nat /\ DOMAIN l = 1..n /\ \A i \in 1..n : l[i] \in S
  BY DEF Enumerates
<1>2. ToSet(l) = S /\ ToSet(l) = {l[i] : i \in 1..n}
  BY ToSetIs DEF Enumerates
<1> HIDE DEF n
<1>3. s = [i \in 1..n |-> F[l[i]]] /\ \A i \in 1..n : F[l[i]] \in T
  BY <1>1
<1> HIDE DEF T
<1>4. s \in Seq(T) /\ Len(s) = n /\ \A i \in 1..n : s[i] = F[l[i]]
  BY <1>1, <1>3
<1>5. \A x \in T : \E i \in 1..n : s[i] = x
  <2> TAKE x \in T
  <2>1. PICK y \in S : x = F[y]
    BY DEF T
  <2>2. PICK i \in 1..n : y = l[i]
    BY <1>2, <2>1
  <2> QED
    BY <1>4, <2>1, <2>2
<1>6. Spans(s, T)
  <2>1. \A x \in T : \E i \in 1..Len(s) : s[i] = x
    BY <1>4, <1>5
  <2> QED
    BY <1>4, <2>1, SpansIs
<1> QED
  BY <1>4, <1>6 DEF n, T

LEMMA ImageFinite ==
  ASSUME NEW S, IsFiniteSet(S), NEW F, NEW T, T = {F[x] : x \in S}
  PROVE  IsFiniteSet(T)
<1> DEFINE G == [x \in S |-> F[x]]
<1>1. G \in Surjection(S, T)
  BY DEF Surjection
<1> HIDE DEF G
<1> QED
  BY <1>1, FS_Surjection

LEMMA ListedMap ==
  ASSUME NEW S, IsFiniteSet(S), NEW F, NEW s,
         s = [i \in DOMAIN Listed(S) |-> F[Listed(S)[i]]]
  PROVE  Spans(s, {F[x] : x \in S})
BY ListedIs, MappedIs

LEMMA ListedInSet ==
  ASSUME NEW S, IsFiniteSet(S)
  PROVE  \A i \in DOMAIN Listed(S) : Listed(S)[i] \in S
<1>1. Enumerates(Listed(S), S)
  BY ListedIs
<1> DEFINE l == Listed(S)
<1>2. l \in Seq(S)
  BY <1>1 DEF Enumerates
<1> HIDE DEF l
<1>3. \A i \in DOMAIN l : l[i] \in S
  BY <1>2
<1> QED
  BY <1>3 DEF l

\* The items of each section, from the set they are written of.
LEMMA ClassItemsAre ==
  ASSUME NEW d, IsFiniteSet(d.classes)
  PROVE  Spans(ClassItems(d), {WriteClass(d.vers, c) : c \in d.classes})
<1> DEFINE S == d.classes
           F == [c \in S |-> WriteClass(d.vers, c)]
<1>1. \A i \in DOMAIN Listed(S) : Listed(S)[i] \in S
  BY ListedInSet
<1>2. ClassItems(d) = [i \in DOMAIN Listed(S) |-> F[Listed(S)[i]]]
  BY <1>1 DEF ClassItems, Items
<1>3. {F[x] : x \in S} = {WriteClass(d.vers, c) : c \in d.classes}
  OBVIOUS
<1> HIDE DEF F, S
<1>4. Spans(ClassItems(d), {F[x] : x \in S})
  BY <1>2, ListedMap DEF S
<1> QED
  BY <1>3, <1>4

LEMMA RoleItemsAre ==
  ASSUME NEW d, IsFiniteSet(d.roles)
  PROVE  Spans(RoleItems(d), {WriteRole(d.vers, r) : r \in d.roles})
<1> DEFINE S == d.roles
           F == [r \in S |-> WriteRole(d.vers, r)]
<1>1. \A i \in DOMAIN Listed(S) : Listed(S)[i] \in S
  BY ListedInSet
<1>2. RoleItems(d) = [i \in DOMAIN Listed(S) |-> F[Listed(S)[i]]]
  BY <1>1 DEF RoleItems, Items
<1>3. {F[x] : x \in S} = {WriteRole(d.vers, r) : r \in S}
  OBVIOUS
<1> HIDE DEF F, S
<1>4. Spans(RoleItems(d), {F[x] : x \in S})
  BY <1>2, ListedMap DEF S
<1> QED
  BY <1>3, <1>4 DEF S

LEMMA TypeItemsAre ==
  ASSUME NEW d, IsFiniteSet(WrittenTypes(d))
  PROVE  Spans(TypeItems(d), {WriteType(d.vers, t) : t \in WrittenTypes(d)})
<1> DEFINE S == WrittenTypes(d)
           F == [t \in S |-> WriteType(d.vers, t)]
<1>1. \A i \in DOMAIN Listed(S) : Listed(S)[i] \in S
  BY ListedInSet
<1>2. TypeItems(d) = [i \in DOMAIN Listed(S) |-> F[Listed(S)[i]]]
  BY <1>1 DEF TypeItems, Items
<1>3. {F[x] : x \in S} = {WriteType(d.vers, t) : t \in S}
  OBVIOUS
<1> HIDE DEF F, S
<1>4. Spans(TypeItems(d), {F[x] : x \in S})
  BY <1>2, ListedMap DEF S
<1> QED
  BY <1>3, <1>4 DEF S

LEMMA UserItemsAre ==
  ASSUME NEW d, IsFiniteSet(d.users)
  PROVE  Spans(UserItems(d), {WriteUser(d.vers, u) : u \in d.users})
<1> DEFINE S == d.users
           F == [u \in S |-> WriteUser(d.vers, u)]
<1>1. \A i \in DOMAIN Listed(S) : Listed(S)[i] \in S
  BY ListedInSet
<1>2. UserItems(d) = [i \in DOMAIN Listed(S) |-> F[Listed(S)[i]]]
  BY <1>1 DEF UserItems, Items
<1>3. {F[x] : x \in S} = {WriteUser(d.vers, u) : u \in S}
  OBVIOUS
<1> HIDE DEF F, S
<1>4. Spans(UserItems(d), {F[x] : x \in S})
  BY <1>2, ListedMap DEF S
<1> QED
  BY <1>3, <1>4 DEF S

LEMMA NameItemsAre ==
  ASSUME NEW d, NEW tab, IsFiniteSet(d[tab])
  PROVE  Spans(NameItems(d, tab), {WriteName(tab, n) : n \in d[tab]})
<1> DEFINE S == d[tab]
           F == [n \in S |-> WriteName(tab, n)]
<1>1. \A i \in DOMAIN Listed(S) : Listed(S)[i] \in S
  BY ListedInSet
<1>2. NameItems(d, tab) = [i \in DOMAIN Listed(S) |-> F[Listed(S)[i]]]
  BY <1>1 DEF NameItems, Items
<1>3. {F[x] : x \in S} = {WriteName(tab, n) : n \in S}
  OBVIOUS
<1> HIDE DEF F, S
<1>4. Spans(NameItems(d, tab), {F[x] : x \in S})
  BY <1>2, ListedMap DEF S
<1> QED
  BY <1>3, <1>4 DEF S

LEMMA CondItemsAre ==
  ASSUME NEW d, NEW m, IsFiniteSet(d.cond_list)
  PROVE  Spans(CondItems(d, m), {WriteCond(d, m, n) : n \in d.cond_list})
<1> DEFINE S == d.cond_list
           F == [n \in S |-> WriteCond(d, m, n)]
<1>1. \A i \in DOMAIN Listed(S) : Listed(S)[i] \in S
  BY ListedInSet
<1>2. CondItems(d, m) = [i \in DOMAIN Listed(S) |-> F[Listed(S)[i]]]
  BY <1>1 DEF CondItems, Items
<1>3. {F[x] : x \in S} = {WriteCond(d, m, n) : n \in S}
  OBVIOUS
<1> HIDE DEF F, S
<1>4. Spans(CondItems(d, m), {F[x] : x \in S})
  BY <1>2, ListedMap DEF S
<1> QED
  BY <1>3, <1>4 DEF S

LEMMA RoleTransItemsAre ==
  ASSUME NEW d, IsFiniteSet(OfProcess(d.role_tr, d.vers >= POLICYDB_VERSION_ROLETRANS))
  PROVE  Spans(RoleTransItems(d), {WriteRoleTrans(d.vers, r) : r \in OfProcess(d.role_tr, d.vers >= POLICYDB_VERSION_ROLETRANS)})
<1> DEFINE S == OfProcess(d.role_tr, d.vers >= POLICYDB_VERSION_ROLETRANS)
           F == [r \in S |-> WriteRoleTrans(d.vers, r)]
<1>1. \A i \in DOMAIN Listed(S) : Listed(S)[i] \in S
  BY ListedInSet
<1>2. RoleTransItems(d) = [i \in DOMAIN Listed(S) |-> F[Listed(S)[i]]]
  BY <1>1 DEF RoleTransItems, Items
<1>3. {F[x] : x \in S} = {WriteRoleTrans(d.vers, r) : r \in S}
  OBVIOUS
<1> HIDE DEF F, S
<1>4. Spans(RoleTransItems(d), {F[x] : x \in S})
  BY <1>2, ListedMap DEF S
<1> QED
  BY <1>3, <1>4 DEF S

LEMMA RoleAllowItemsAre ==
  ASSUME NEW d, IsFiniteSet(d.role_allow)
  PROVE  Spans(RoleAllowItems(d), {WriteRoleAllow(r) : r \in d.role_allow})
<1> DEFINE S == d.role_allow
           F == [r \in S |-> WriteRoleAllow(r)]
<1>1. \A i \in DOMAIN Listed(S) : Listed(S)[i] \in S
  BY ListedInSet
<1>2. RoleAllowItems(d) = [i \in DOMAIN Listed(S) |-> F[Listed(S)[i]]]
  BY <1>1 DEF RoleAllowItems, Items
<1>3. {F[x] : x \in S} = {WriteRoleAllow(r) : r \in S}
  OBVIOUS
<1> HIDE DEF F, S
<1>4. Spans(RoleAllowItems(d), {F[x] : x \in S})
  BY <1>2, ListedMap DEF S
<1> QED
  BY <1>3, <1>4 DEF S

LEMMA OconItemsAre ==
  ASSUME NEW d, NEW kind, IsFiniteSet(d.ocontexts[kind])
  PROVE  Spans(OconItems(d, kind), {WriteOcontext(d.vers, kind, o) : o \in d.ocontexts[kind]})
<1> DEFINE S == d.ocontexts[kind]
           F == [o \in S |-> WriteOcontext(d.vers, kind, o)]
<1>1. \A i \in DOMAIN Listed(S) : Listed(S)[i] \in S
  BY ListedInSet
<1>2. OconItems(d, kind) = [i \in DOMAIN Listed(S) |-> F[Listed(S)[i]]]
  BY <1>1 DEF OconItems, Items
<1>3. {F[x] : x \in S} = {WriteOcontext(d.vers, kind, o) : o \in S}
  OBVIOUS
<1> HIDE DEF F, S
<1>4. Spans(OconItems(d, kind), {F[x] : x \in S})
  BY <1>2, ListedMap DEF S
<1> QED
  BY <1>3, <1>4 DEF S

LEMMA GenfsItemsAre ==
  ASSUME NEW d, IsFiniteSet(d.genfs)
  PROVE  Spans(GenfsItems(d), {WriteGenfs(d.vers, g) : g \in d.genfs})
<1> DEFINE S == d.genfs
           F == [g \in S |-> WriteGenfs(d.vers, g)]
<1>1. \A i \in DOMAIN Listed(S) : Listed(S)[i] \in S
  BY ListedInSet
<1>2. GenfsItems(d) = [i \in DOMAIN Listed(S) |-> F[Listed(S)[i]]]
  BY <1>1 DEF GenfsItems, Items
<1>3. {F[x] : x \in S} = {WriteGenfs(d.vers, g) : g \in S}
  OBVIOUS
<1> HIDE DEF F, S
<1>4. Spans(GenfsItems(d), {F[x] : x \in S})
  BY <1>2, ListedMap DEF S
<1> QED
  BY <1>3, <1>4 DEF S

LEMMA RangeTransItemsAre ==
  ASSUME NEW d, IsFiniteSet(OfProcess(d.range_tr, d.vers >= POLICYDB_VERSION_RANGETRANS))
  PROVE  Spans(RangeTransItems(d), {WriteRangeTrans(d.vers, r) : r \in OfProcess(d.range_tr, d.vers >= POLICYDB_VERSION_RANGETRANS)})
<1> DEFINE S == OfProcess(d.range_tr, d.vers >= POLICYDB_VERSION_RANGETRANS)
           F == [r \in S |-> WriteRangeTrans(d.vers, r)]
<1>1. \A i \in DOMAIN Listed(S) : Listed(S)[i] \in S
  BY ListedInSet
<1>2. RangeTransItems(d) = [i \in DOMAIN Listed(S) |-> F[Listed(S)[i]]]
  BY <1>1 DEF RangeTransItems, Items
<1>3. {F[x] : x \in S} = {WriteRangeTrans(d.vers, r) : r \in S}
  OBVIOUS
<1> HIDE DEF F, S
<1>4. Spans(RangeTransItems(d), {F[x] : x \in S})
  BY <1>2, ListedMap DEF S
<1> QED
  BY <1>3, <1>4 DEF S

(***************************************************************************)
(* Filename transitions, in both formats.                                  *)
(***************************************************************************)
FtItem(d, key) == [k |-> "filename_trans", key |-> key, chain |-> FtChain(d, key)]
FtSet(d) ==
  IF d.vers < POLICYDB_VERSION_COMP_FTRANS THEN {WriteEntry(f) : f \in d.filename_trans}
  ELSE {FtItem(d, key) : key \in FtKeys(d)}

\* No node is further down than its chain is long.
LEMMA LengthIs ==
  ASSUME NEW trans, IsFiniteSet(trans), \A f \in trans : f.at \in Nat
  PROVE  Length(trans) \in Nat /\ \A f \in trans : f.at <= Length(trans)
<1> DEFINE at == [f \in trans |-> f.at]
           T == {at[f] : f \in trans}
           N == T \cup {0}
<1>1. IsFiniteSet(T)
  <2> HIDE DEF at
  <2> QED
    BY ImageFinite
<1>2. {f.at : f \in trans} = T /\ \A f \in trans : f.at \in T
  OBVIOUS
<1>3. T \subseteq Nat
  OBVIOUS
<1> HIDE DEF T
<1>4. N \in SUBSET Nat /\ IsFiniteSet(N) /\ N # {}
  <2>1. IsFiniteSet({0})
    BY FS_Singleton
  <2>2. IsFiniteSet(N)
    BY <1>1, <2>1, FS_Union
  <2> QED
    BY <1>3, <2>2
<1>5. Length(trans) = Max(N)
  BY <1>2 DEF Length
<1>6. \A f \in trans : f.at \in N
  BY <1>2
<1> HIDE DEF N
<1>7. Max(N) \in N /\ \A x \in N : x <= Max(N)
  BY <1>4, MaxIs
<1> QED
  BY <1>4, <1>5, <1>6, <1>7

\* The entries of all chains, place by place, are one for each transition.
LEMMA FtEntriesAre ==
  ASSUME NEW d, IsFiniteSet(d.filename_trans), \A f \in d.filename_trans : f.at \in Nat \ {0}
  PROVE  Spans(FtEntries(d), {WriteEntry(f) : f \in d.filename_trans})
<1> DEFINE S == d.filename_trans
           n == Length(S)
           T == {WriteEntry(f) : f \in S}
           At(i) == {f \in S : f.at = i}
           seqs == [i \in 1..n |-> Items(At(i), WriteEntry)]
<1>1. n \in Nat /\ \A f \in S : f.at \in 1..n
  BY LengthIs
<1>2. FtEntries(d) = FlattenSeq(seqs)
  BY DEF FtEntries, Concat
<1>3. ASSUME NEW i \in 1..n
      PROVE  /\ seqs[i] \in Seq(T)
             /\ ToSet(seqs[i]) = {WriteEntry(f) : f \in At(i)}
  <2> DEFINE A == At(i)
             F == [f \in A |-> WriteEntry(f)]
             W == {WriteEntry(f) : f \in A}
             s == seqs[i]
  <2>1. A \subseteq S
    OBVIOUS
  <2>2. s = Items(A, WriteEntry) /\ W \subseteq T
    OBVIOUS
  <2> HIDE DEF s, S, T, At, seqs, n, A
  <2>3. IsFiniteSet(A)
    BY <2>1, FS_Subset DEF S
  <2>4. \A j \in DOMAIN Listed(A) : Listed(A)[j] \in A
    BY <2>3, ListedInSet
  <2>5. s = [j \in DOMAIN Listed(A) |-> F[Listed(A)[j]]]
    BY <2>2, <2>4 DEF Items
  <2>6. {F[f] : f \in A} = W
    OBVIOUS
  <2> HIDE DEF F, W
  <2>7. Spans(s, W)
    BY <2>3, <2>5, <2>6, ListedMap
  <2>8. s \in Seq(W) /\ ToSet(s) = W
    BY <2>7 DEF Spans, IsList
  <2>9. s \in Seq(T)
    BY <2>2, <2>8
  <2> QED
    BY <2>8, <2>9 DEF s, W, A
<1> DEFINE flat == FlattenSeq(seqs)
<1>4. seqs \in Seq(Seq(T)) /\ Len(seqs) = n
  <2>1. seqs = [i \in 1..n |-> seqs[i]]
    OBVIOUS
  <2> HIDE DEF seqs, T, n
  <2> QED
    BY <1>1, <1>3, <2>1
<1> HIDE DEF seqs
<1>5. flat \in Seq(T) /\ ToSet(flat) = UNION {ToSet(seqs[i]) : i \in 1..n}
  <2> HIDE DEF T, n
  <2> QED
    BY <1>4, FlattenIs
<1>6. ASSUME NEW x \in T
      PROVE  x \in ToSet(flat)
  <2>1. PICK f \in S : x = WriteEntry(f)
    BY <1>6
  <2>2. f.at \in 1..n /\ f \in At(f.at)
    BY <1>1
  <2>3. x \in ToSet(seqs[f.at])
    BY <1>3, <2>1, <2>2
  <2> HIDE DEF n, flat
  <2> QED
    BY <1>5, <2>2, <2>3
<1> HIDE DEF T, flat
<1>7. ToSet(flat) \subseteq T
  <2>1. flat \in Seq(T)
    BY <1>5
  <2>2. ToSet(flat) = {flat[i] : i \in 1..Len(flat)} /\ \A i \in 1..Len(flat) : flat[i] \in T
    BY <2>1, ToSetIs
  <2> QED
    BY <2>2
<1>8. Spans(flat, T)
  BY <1>5, <1>6, <1>7 DEF Spans, IsList
<1> QED
  BY <1>2, <1>8 DEF T, flat

\* An item per transition, or one per key.
LEMMA FtItemsAre ==
  ASSUME NEW d, IsFiniteSet(d.filename_trans), \A f \in d.filename_trans : FilenameTransOK(f)
  PROVE  Spans(FtItems(d), FtSet(d))
<1>1. CASE d.vers < POLICYDB_VERSION_COMP_FTRANS
  <2>1. \A f \in d.filename_trans : f.at \in Nat \ {0}
    BY DEF FilenameTransOK
  <2> QED
    BY <1>1, <2>1, FtEntriesAre DEF FtItems, FtSet
<1>2. CASE ~(d.vers < POLICYDB_VERSION_COMP_FTRANS)
  <2> DEFINE S == FtKeys(d)
             F == [key \in S |-> FtItem(d, key)]
             T == {FtItem(d, key) : key \in S}
             G == [f \in d.filename_trans |-> [t |-> f.t, name |-> f.name]]
  <2>0. IsFiniteSet(S)
    <3>1. S = {G[f] : f \in d.filename_trans}
      BY DEF FtKeys
    <3> HIDE DEF G, S
    <3> QED
      BY <3>1, ImageFinite
  <2>1. \A i \in DOMAIN Listed(S) : Listed(S)[i] \in S
    BY <2>0, ListedInSet
  <2>2. FtItems(d) = [i \in DOMAIN Listed(S) |-> F[Listed(S)[i]]]
    BY <1>2, <2>1 DEF FtItems, Items, FtItem
  <2>3. {F[x] : x \in S} = T /\ FtSet(d) = T
    BY <1>2 DEF FtSet
  <2> HIDE DEF F, S, T
  <2>4. Spans(FtItems(d), {F[x] : x \in S})
    BY <2>0, <2>2, ListedMap
  <2> QED
    BY <2>3, <2>4
<1> QED
  BY <1>1, <1>2

\* The fields of the items, in both formats.
LEMMA FtSetIs ==
  ASSUME NEW d, d.vers \in Nat, NEW x \in FtSet(d)
  PROVE  /\ x.k = "filename_trans"
         /\ DOMAIN x = {"k"} \cup FilenameTransFields(d.vers)
<1>1. CASE d.vers < 33
  <2>1. PICK f \in d.filename_trans : x = WriteEntry(f)
    BY <1>1 DEF FtSet, POLICYDB_VERSION_COMP_FTRANS
  <2> QED
    BY <1>1, <2>1 DEF WriteEntry, FilenameTransFields, POLICYDB_VERSION_COMP_FTRANS
<1>2. CASE ~(d.vers < 33)
  <2>1. PICK key \in FtKeys(d) : x = FtItem(d, key)
    BY <1>2 DEF FtSet, POLICYDB_VERSION_COMP_FTRANS
  <2> QED
    BY <1>2, <2>1 DEF FtItem, FilenameTransFields, POLICYDB_VERSION_COMP_FTRANS
<1> QED
  BY <1>1, <1>2

\* What is read of the item of a key is the key's chain.
LEMMA ChainRead ==
  ASSUME NEW d, \A f \in d.filename_trans : FilenameTransOK(f), NEW key
  PROVE  ReadChain(FtItem(d, key)) = Chain(d.filename_trans, key)
<1> DEFINE x == FtItem(d, key)
           own == Chain(d.filename_trans, key)
           nodes == {FtNode(f) : f \in own}
           Of(n) == {f.s : f \in {g \in own : FtNode(g) = n}}
           Rec(s, n) == Trans(s, key, n.otype, n.at)
<1>1. x.key = key /\ x.chain = [n \in nodes |-> Of(n)]
  BY DEF FtItem, FtChain
<1> HIDE DEF x
<1>2. ReadChain(x) = UNION {{Rec(s, n) : s \in x.chain[n]} : n \in DOMAIN x.chain}
  BY <1>1 DEF ReadChain
<1>3. \A f \in own : Rec(f.s, FtNode(f)) = f
  BY DEF FilenameTransOK, Chain, Trans, FtNode
<1> HIDE DEF own, Rec
<1>4. ASSUME NEW f \in own
      PROVE  f \in ReadChain(x)
  <2>1. FtNode(f) \in nodes /\ f.s \in Of(FtNode(f))
    OBVIOUS
  <2>2. f \in {Rec(s, FtNode(f)) : s \in x.chain[FtNode(f)]}
    BY <1>1, <1>3, <2>1
  <2> QED
    BY <1>1, <1>2, <2>1, <2>2
<1>5. ASSUME NEW y \in ReadChain(x)
      PROVE  y \in own
  <2>1. PICK n \in nodes : \E s \in Of(n) : y = Rec(s, n)
    BY <1>1, <1>2
  <2>2. PICK f \in own : FtNode(f) = n /\ y = Rec(f.s, n)
    BY <2>1
  <2> QED
    BY <1>3, <2>1, <2>2
<1> QED
  BY <1>4, <1>5 DEF own, x

\* The chains that are read make up the transitions.
LEMMA ChainsRead ==
  ASSUME NEW d, d.vers \in Nat, ~(d.vers < POLICYDB_VERSION_COMP_FTRANS),
         \A f \in d.filename_trans : FilenameTransOK(f)
  PROVE  UNION {ReadChain(x) : x \in FtSet(d)} = d.filename_trans
<1> DEFINE Own(key) == Chain(d.filename_trans, key)
<1>1. FtSet(d) = {FtItem(d, key) : key \in FtKeys(d)}
  BY DEF FtSet
<1>2. \A key \in FtKeys(d) : ReadChain(FtItem(d, key)) = Own(key)
  BY ChainRead
<1>3. ASSUME NEW f \in d.filename_trans
      PROVE  \E key \in FtKeys(d) : f \in Own(key)
  <2> DEFINE key == [t |-> f.t, name |-> f.name]
  <2>1. key \in FtKeys(d) /\ key.t = f.t /\ key.name = f.name
    BY DEF FtKeys
  <2> HIDE DEF key
  <2> QED
    BY <2>1 DEF Chain
<1>4. \A key \in FtKeys(d) : Own(key) \subseteq d.filename_trans
  BY DEF Chain
<1> HIDE DEF Own
<1> QED
  BY <1>1, <1>2, <1>3, <1>4

\* In two nodes of a chain there is one default, or one source.
ChainsCollide(d) ==
  \E f, g \in d.filename_trans : /\ <<f.t, f.name>> = <<g.t, g.name>> /\ f.at # g.at
                                 /\ f.otype = g.otype \/ f.s = g.s

\* What filename_trans_check_datum refuses was there.
LEMMA CollisionIs ==
  ASSUME NEW d, NEW key, Collides(FtChain(d, key))
  PROVE  ChainsCollide(d)
<1> DEFINE own == Chain(d.filename_trans, key)
           chain == FtChain(d, key)
           Of(n) == {f.s : f \in {g \in own : FtNode(g) = n}}
<1>1. /\ DOMAIN chain = {FtNode(f) : f \in own}
      /\ \A n \in DOMAIN chain : chain[n] = Of(n)
  BY DEF FtChain
<1> HIDE DEF chain, own
<1>2. PICK n \in DOMAIN chain, m \in DOMAIN chain :
         n.at # m.at /\ (n.otype = m.otype \/ chain[n] \cap chain[m] # {})
  BY DEF Collides, chain
<1>3. PICK f \in own, g \in own :
         FtNode(f) = n /\ FtNode(g) = m /\ (n.otype = m.otype \/ f.s = g.s)
  <2>1. CASE n.otype = m.otype
    BY <1>1, <2>1
  <2>2. CASE chain[n] \cap chain[m] # {}
    <3>1. PICK s \in Of(n) : s \in Of(m)
      BY <1>1, <2>2
    <3>2. PICK f \in own : FtNode(f) = n /\ f.s = s
      BY <3>1
    <3>3. PICK g \in own : FtNode(g) = m /\ g.s = s
      BY <3>1
    <3> QED
      BY <3>2, <3>3
  <2> QED
    BY <1>2, <2>1, <2>2
<1>4. f.at = n.at /\ f.otype = n.otype /\ g.at = m.at /\ g.otype = m.otype
  BY <1>3 DEF FtNode
<1>5. /\ f \in d.filename_trans /\ f.t = key.t /\ f.name = key.name
      /\ g \in d.filename_trans /\ g.t = key.t /\ g.name = key.name
  BY DEF own, Chain
<1> QED
  BY <1>2, <1>3, <1>4, <1>5 DEF ChainsCollide

(***************************************************************************)
(* What policydb_filetrans_insert makes of the entries: the transitions    *)
(* are some of theirs, and every source of an entry has one.               *)
(***************************************************************************)
\* An entry, and the transitions with places that entries can become.
IsEntry(e) == e = [s |-> e.s, t |-> e.t, name |-> e.name, otype |-> e.otype]
Placed(E) == UNION {{Trans(e.s, e, e.otype, n) : n \in Nat \ {0}} : e \in E}
Inserted(E) == {trans \in SUBSET Placed(E) : IsFiniteSet(trans)}
Source(f) == [s |-> f.s, t |-> f.t, name |-> f.name]
SourcesOf(trans) == {Source(f) : f \in trans}

LEMMA PlacedIs ==
  ASSUME NEW E, \A e \in E : IsEntry(e), NEW f
  PROVE  f \in Placed(E) <=> FilenameTransOK(f) /\ Transition(f) \in E
<1>1. ASSUME f \in Placed(E)
      PROVE  FilenameTransOK(f) /\ Transition(f) \in E
  <2>1. PICK e \in E : \E n \in Nat \ {0} : f = Trans(e.s, e, e.otype, n)
    BY <1>1 DEF Placed
  <2>2. PICK n \in Nat \ {0} : f = Trans(e.s, e, e.otype, n)
    BY <2>1
  <2>3. /\ f = [s |-> e.s, t |-> e.t, name |-> e.name, otype |-> e.otype, at |-> n]
        /\ f.s = e.s /\ f.t = e.t /\ f.name = e.name /\ f.otype = e.otype /\ f.at = n
    BY <2>2 DEF Trans
  <2>4. Transition(f) = e
    BY <2>3 DEF Transition, IsEntry
  <2> QED
    BY <2>3, <2>4 DEF FilenameTransOK
<1>2. ASSUME FilenameTransOK(f), Transition(f) \in E
      PROVE  f \in Placed(E)
  <2> DEFINE e == Transition(f)
  <2>1. e.s = f.s /\ e.t = f.t /\ e.name = f.name /\ e.otype = f.otype /\ e \in E
    BY <1>2 DEF Transition
  <2> HIDE DEF e
  <2>2. f = Trans(e.s, e, e.otype, f.at) /\ f.at \in Nat \ {0}
    BY <1>2, <2>1 DEF FilenameTransOK, Trans
  <2> QED
    BY <2>1, <2>2 DEF Placed
<1> QED
  BY <1>1, <1>2

\* The transitions an entry is inserted as: with its own source and key, and a
\* transition of its own or one that was there.
LEMMA InsertedAre ==
  ASSUME NEW E, \A e \in E : IsEntry(e), NEW trans \in Inserted(E), NEW e, IsEntry(e)
  PROVE  \E new : /\ InsertEntry(trans, e) = trans \cup new
                  /\ IsFiniteSet(new) /\ SourcesOf(new) = {Source(e)}
                  /\ \A f \in new : f \in trans \/ (FilenameTransOK(f) /\ Transition(f) = e)
<1> DEFINE chain == Chain(trans, e)
           stop == Stop(chain, e)
           F == [f \in stop |-> Trans(e.s, e, f.otype, f.at)]
           last == Trans(e.s, e, e.otype, Length(chain) + 1)
           new == IF stop = {} THEN {last} ELSE {F[f] : f \in stop}
<1>1. IsFiniteSet(trans) /\ \A f \in trans : FilenameTransOK(f)
  BY PlacedIs DEF Inserted
<1>2. /\ chain \subseteq trans /\ \A f \in chain : f.t = e.t /\ f.name = e.name
      /\ stop \subseteq chain /\ \A f \in stop : f.s = e.s \/ f.otype = e.otype
  BY DEF Chain, Stop
<1>3. InsertEntry(trans, e) = trans \cup new
  BY DEF InsertEntry
<1>4. \A f \in stop : F[f] = Trans(e.s, e, f.otype, f.at)
  OBVIOUS
<1> HIDE DEF chain, stop, F
<1>5. IsFiniteSet(chain) /\ IsFiniteSet(stop)
  BY <1>1, <1>2, FS_Subset
<1>6. Length(chain) \in Nat
  <2>1. \A f \in chain : f.at \in Nat
    BY <1>1, <1>2 DEF FilenameTransOK
  <2> QED
    BY <1>5, <2>1, LengthIs
<1>7. /\ Source(last) = Source(e) /\ FilenameTransOK(last) /\ Transition(last) = e
  BY <1>6 DEF Trans, Source, FilenameTransOK, Transition, IsEntry
<1>8. ASSUME NEW f \in stop
      PROVE  /\ Source(F[f]) = Source(e)
             /\ F[f] \in trans \/ (FilenameTransOK(F[f]) /\ Transition(F[f]) = e)
  <2>1. /\ f \in trans /\ f.t = e.t /\ f.name = e.name /\ (f.s = e.s \/ f.otype = e.otype)
        /\ FilenameTransOK(f)
    BY <1>1, <1>2
  <2>2. F[f] = [s |-> e.s, t |-> e.t, name |-> e.name, otype |-> f.otype, at |-> f.at]
    BY <1>4 DEF Trans
  <2>3. CASE f.s = e.s
    <3>1. F[f] = f
      BY <2>1, <2>2, <2>3 DEF FilenameTransOK
    <3> QED
      BY <2>1, <2>3, <3>1 DEF Source
  <2>4. CASE f.otype = e.otype
    BY <2>1, <2>2, <2>4 DEF Source, FilenameTransOK, Transition, IsEntry
  <2> QED
    BY <2>1, <2>3, <2>4
<1> HIDE DEF last
<1>9. CASE stop = {}
  <2>1. new = {last}
    BY <1>9
  <2> HIDE DEF new
  <2>2. IsFiniteSet(new) /\ SourcesOf(new) = {Source(e)}
    <3>1. IsFiniteSet(new)
      BY <2>1, FS_Singleton
    <3>2. SourcesOf(new) = {Source(last)}
      BY <2>1 DEF SourcesOf
    <3> QED
      BY <1>7, <3>1, <3>2
  <2> QED
    BY <1>3, <1>7, <2>1, <2>2
<1>10. CASE stop # {}
  <2>1. new = {F[f] : f \in stop}
    BY <1>10
  <2> HIDE DEF new
  <2>2. IsFiniteSet(new)
    BY <1>5, <2>1, ImageFinite
  <2>3. SourcesOf(new) = {Source(e)}
    <3>1. new # {} /\ \A f \in new : Source(f) = Source(e)
      BY <1>8, <1>10, <2>1
    <3> QED
      BY <3>1 DEF SourcesOf
  <2> QED
    BY <1>3, <1>8, <2>1, <2>2, <2>3
<1> QED
  BY <1>9, <1>10

\* One entry more.
LEMMA InsertStep ==
  ASSUME NEW E, \A e \in E : IsEntry(e), NEW trans \in Inserted(E), NEW e \in E
  PROVE  /\ InsertEntry(trans, e) \in Inserted(E)
         /\ SourcesOf(InsertEntry(trans, e)) = SourcesOf(trans) \cup {Source(e)}
<1>1. PICK new : /\ InsertEntry(trans, e) = trans \cup new
                 /\ IsFiniteSet(new) /\ SourcesOf(new) = {Source(e)}
                 /\ \A f \in new : f \in trans \/ (FilenameTransOK(f) /\ Transition(f) = e)
  BY InsertedAre
<1>2. trans \subseteq Placed(E) /\ IsFiniteSet(trans)
  BY DEF Inserted
<1>3. new \subseteq Placed(E)
  BY <1>1, <1>2, PlacedIs
<1>4. IsFiniteSet(trans \cup new)
  BY <1>1, <1>2, FS_Union
<1>5. SourcesOf(trans \cup new) = SourcesOf(trans) \cup SourcesOf(new)
  BY DEF SourcesOf
<1> QED
  BY <1>1, <1>2, <1>3, <1>4, <1>5 DEF Inserted

\* The fold of ReadFilenameTrans as a function of the number of entries read.
AreInserted(g, items) ==
  /\ g[0] = {}
  /\ \A i \in 1..Len(items) : g[i] = InsertEntry(g[i - 1], items[i].trans)

LEMMA InsertSteps ==
  ASSUME NEW v \in Nat, v < POLICYDB_VERSION_COMP_FTRANS, NEW items, IsList(items),
         NEW E, \A e \in E : IsEntry(e), \A i \in DOMAIN items : items[i].trans \in E
  PROVE  \E g : /\ AreInserted(g, items)
                /\ ReadFilenameTrans(v, items) = g[Len(items)]
                /\ \A i \in 0..Len(items) : g[i] \in Inserted(E)
<1> DEFINE A == Inserted(E)
           n == Len(items)
           step == [p \in (1..n) \X A |-> InsertEntry(p[2], items[p[1]].trans)]
           Eq(it) == it = [s \in SUBSET (1..n) |->
                             IF s = {} THEN {}
                             ELSE InsertEntry(it[s \ {Max(s)}], items[Max(s)].trans)]
           it == CHOOSE it : Eq(it)
<1>1. n \in Nat /\ DOMAIN items = 1..n
  BY DEF IsList
<1>2. {} \in A
  BY FS_EmptySet DEF Inserted
<1>3. /\ step \in [(1..n) \X A -> A]
      /\ \A i \in 1..n, x \in A : step[<<i, x>>] = InsertEntry(x, items[i].trans)
  <2>1. \A i \in 1..n, x \in A : InsertEntry(x, items[i].trans) \in A
    BY <1>1, InsertStep
  <2> HIDE DEF A
  <2> QED
    BY <2>1
<1>4. ReadFilenameTrans(v, items) = it[1..n]
  BY <1>1 DEF ReadFilenameTrans, FoldLeft, MapThenFoldSet
<1> HIDE DEF n, step, A
<1>5. \A s \in SUBSET (1..n) : s # {} => Max(s) \in 1..n
  BY <1>1, MaxOf
<1>6. \E g : Eq(g)
  <2>1. PICK g : IsFoldLeft(g, n, A, {}, step)
    BY <1>1, <1>2, <1>3, FoldLeftExists
  <2>2. ASSUME NEW s \in SUBSET (1..n)
        PROVE  g[s] = IF s = {} THEN {}
                      ELSE InsertEntry(g[s \ {Max(s)}], items[Max(s)].trans)
    <3>1. CASE s = {}
      BY <2>1, <3>1 DEF IsFoldLeft
    <3>2. CASE s # {}
      <4>1. Max(s) \in 1..n /\ s \ {Max(s)} \in SUBSET (1..n)
        BY <1>5, <3>2
      <4>2. g[s \ {Max(s)}] \in A /\ g[s] = step[<<Max(s), g[s \ {Max(s)}]>>]
        BY <2>1, <3>2, <4>1 DEF IsFoldLeft
      <4> QED
        BY <1>3, <3>2, <4>1, <4>2
    <3> QED
      BY <3>1, <3>2
  <2>3. Eq(g)
    BY <2>1, <2>2 DEF IsFoldLeft
  <2> HIDE DEF Eq
  <2> QED
    BY <2>3
<1>7. Eq(it)
  <2> HIDE DEF Eq
  <2> QED
    BY <1>6
<1> HIDE DEF it
<1>8. PICK g : IsStepped(g, n, A, {}, step) /\ g[n] = it[1..n]
  <2>1. it[{}] = {}
    BY <1>7
  <2>2. ASSUME NEW s \in SUBSET (1..n), s # {}, it[s \ {Max(s)}] \in A
        PROVE  it[s] = step[<<Max(s), it[s \ {Max(s)}]>>]
    <3>1. Max(s) \in 1..n
      BY <1>5, <2>2
    <3>2. it[s] = InsertEntry(it[s \ {Max(s)}], items[Max(s)].trans)
      BY <1>7, <2>2
    <3> QED
      BY <1>3, <2>2, <3>1, <3>2
  <2>3. FoldsLeft(it, n, A, {}, step)
    BY <2>1, <2>2 DEF FoldsLeft
  <2> HIDE DEF Eq
  <2>4. Reached(it[1..n], n, A, {}, step)
    BY <1>1, <1>2, <1>3, <2>3, FoldLeftSteps
  <2> QED
    BY <2>4 DEF Reached
<1>9. ASSUME NEW i \in 1..n
      PROVE  g[i] = InsertEntry(g[i - 1], items[i].trans)
  <2>1. i - 1 \in 0..n
    BY <1>1
  <2>2. g[i - 1] \in A /\ g[i] = step[<<i, g[i - 1]>>]
    BY <1>8, <2>1 DEF IsStepped
  <2> QED
    BY <1>3, <2>2
<1>10. g[0] = {} /\ \A i \in 0..n : g[i] \in A
  BY <1>8 DEF IsStepped
<1>11. AreInserted(g, items)
  BY <1>9, <1>10 DEF AreInserted, n
<1> QED
  BY <1>4, <1>8, <1>10, <1>11 DEF A, n

\* Every source of an entry has a transition, and every transition is an entry.
LEMMA EntriesInserted ==
  ASSUME NEW v \in Nat, v < POLICYDB_VERSION_COMP_FTRANS, NEW items, IsList(items),
         NEW E, \A e \in E : IsEntry(e), \A i \in DOMAIN items : items[i].trans \in E
  PROVE  /\ ReadFilenameTrans(v, items) \in Inserted(E)
         /\ SourcesOf(ReadFilenameTrans(v, items)) =
              {Source(items[i].trans) : i \in DOMAIN items}
<1> DEFINE n == Len(items)
           src(i) == Source(items[i].trans)
<1>1. PICK g : /\ AreInserted(g, items)
               /\ ReadFilenameTrans(v, items) = g[n]
               /\ \A i \in 0..n : g[i] \in Inserted(E)
  BY InsertSteps
<1>2. n \in Nat /\ DOMAIN items = 1..n
  BY DEF IsList
<1> HIDE DEF n
<1> DEFINE Good == {i \in 0..n : SourcesOf(g[i]) = {src(j) : j \in 1..i}}
<1>3. 0 \in Good
  BY <1>1, <1>2 DEF AreInserted, SourcesOf, n
<1>4. ASSUME NEW i \in 1..n, i - 1 \in Good
      PROVE  i \in Good
  <2> DEFINE a == g[i - 1]
             e == items[i].trans
  <2>1. i - 1 \in 0..n /\ i \in 0..n /\ 1..i = (1..(i - 1)) \cup {i}
    BY <1>2
  <2>2. g[i] = InsertEntry(a, e) /\ e \in E /\ a \in Inserted(E)
    BY <1>1, <1>2, <2>1 DEF AreInserted, n
  <2>3. SourcesOf(a) = {src(j) : j \in 1..(i - 1)} /\ src(i) = Source(e)
    BY <1>4
  <2> HIDE DEF a, e, src
  <2>4. SourcesOf(g[i]) = SourcesOf(a) \cup {Source(e)}
    BY <2>2, InsertStep
  <2>5. {src(j) : j \in 1..i} = {src(j) : j \in 1..(i - 1)} \cup {src(i)}
    BY <2>1
  <2> QED
    BY <2>1, <2>3, <2>4, <2>5
<1> HIDE DEF Good
<1>5. 0..n \subseteq Good
  BY <1>2, <1>3, <1>4, UpTo
<1>6. n \in 0..n
  BY <1>2
<1>7. SourcesOf(g[n]) = {src(j) : j \in 1..n}
  BY <1>5, <1>6 DEF Good
<1> QED
  BY <1>1, <1>2, <1>6, <1>7

\* What is read of the filename transitions that were written.
FtRestored(d) == IF d.vers >= 25 THEN ReadFilenameTrans(d.vers, FtItems(d)) ELSE {}

\* They are finitely many of those there were, and none of their sources is missing;
\* from version 33 on they are all there.
FtKept(d, r) ==
  /\ IsFiniteSet(r) /\ \A f \in r : FilenameTransOK(f)
  /\ {Transition(f) : f \in r} \subseteq Transitions(d)
  /\ d.vers >= 25 => SourcesOf(r) = SourcesOf(d.filename_trans)
  /\ d.vers < 25 => r = {}
  /\ d.vers >= 33 => r = d.filename_trans

LEMMA FtRestoredIs ==
  ASSUME NEW d, d.vers \in Nat, IsFiniteSet(d.filename_trans),
         \A f \in d.filename_trans : FilenameTransOK(f)
  PROVE  FtKept(d, FtRestored(d))
<1> DEFINE S == d.filename_trans
           v == d.vers
           items == FtItems(d)
           r == ReadFilenameTrans(v, items)
<1>0. Spans(items, FtSet(d))
  BY FtItemsAre
<1>1. CASE v < 25
  <2>1. FtRestored(d) = {}
    BY <1>1 DEF FtRestored
  <2> QED
    BY <1>1, <2>1, FS_EmptySet DEF FtKept
<1>2. CASE ~(v < 33)
  <2>1. ~(v < POLICYDB_VERSION_COMP_FTRANS) /\ v >= 25
    BY <1>2 DEF POLICYDB_VERSION_COMP_FTRANS
  <2>2. ToSet(items) = FtSet(d)
    BY <1>0 DEF Spans
  <2> HIDE DEF items
  <2>3. r = UNION {ReadChain(x) : x \in FtSet(d)}
    BY <2>1, <2>2 DEF ReadFilenameTrans
  <2> HIDE DEF r
  <2>4. r = S
    BY <2>1, <2>3, ChainsRead
  <2>5. FtRestored(d) = S
    BY <2>1, <2>4 DEF FtRestored, r, items
  <2> QED
    BY <1>2, <2>5 DEF FtKept, Transitions
<1>3. CASE v >= 25 /\ v < 33
  <2> DEFINE E == Transitions(d)
  <2>1. v < POLICYDB_VERSION_COMP_FTRANS
    BY <1>3 DEF POLICYDB_VERSION_COMP_FTRANS
  <2>2. FtSet(d) = {WriteEntry(f) : f \in S}
    BY <2>1 DEF FtSet
  <2>3. \A e \in E : IsEntry(e)
    BY DEF Transitions, Transition, IsEntry
  <2>4. IsList(items) /\ ToSet(items) = {WriteEntry(f) : f \in S}
    BY <1>0, <2>2 DEF Spans
  <2>5. ToSet(items) = {items[i] : i \in DOMAIN items}
    BY DEF ToSet
  <2>6. \A f \in S : WriteEntry(f).trans = Transition(f) /\ Transition(f) \in E
    BY DEF WriteEntry, Transitions
  <2>7. \A f \in S : Source(Transition(f)) = Source(f)
    BY DEF Transition, Source
  <2> HIDE DEF items, E, S
  <2>8. ASSUME NEW i \in DOMAIN items
        PROVE  \E f \in S : items[i] = WriteEntry(f)
    BY <2>4, <2>5
  <2>9. \A i \in DOMAIN items : items[i].trans \in E
    BY <2>6, <2>8
  <2>10. r \in Inserted(E) /\ SourcesOf(r) = {Source(items[i].trans) : i \in DOMAIN items}
    BY <2>1, <2>3, <2>4, <2>9, EntriesInserted
  <2>11. {Source(items[i].trans) : i \in DOMAIN items} = SourcesOf(S)
    <3>1. ASSUME NEW i \in DOMAIN items
          PROVE  Source(items[i].trans) \in SourcesOf(S)
      BY <2>6, <2>7, <2>8 DEF SourcesOf
    <3>2. ASSUME NEW f \in S
          PROVE  \E i \in DOMAIN items : Source(items[i].trans) = Source(f)
      <4>1. PICK i \in DOMAIN items : items[i] = WriteEntry(f)
        BY <2>4, <2>5
      <4> QED
        BY <2>6, <2>7, <4>1
    <3> QED
      BY <3>1, <3>2 DEF SourcesOf
  <2> HIDE DEF r
  <2>12. IsFiniteSet(r) /\ \A f \in r : FilenameTransOK(f) /\ Transition(f) \in E
    BY <2>3, <2>10, PlacedIs DEF Inserted
  <2>13. FtRestored(d) = r
    BY <1>3 DEF FtRestored, r, items
  <2>14. {Transition(f) : f \in r} \subseteq E
    BY <2>12
  <2>15. SourcesOf(r) = SourcesOf(S)
    BY <2>10, <2>11
  <2>16. FtKept(d, r)
    BY <1>3, <2>12, <2>14, <2>15 DEF FtKept, E, S
  <2> QED
    BY <2>13, <2>16
<1> QED
  BY <1>1, <1>2, <1>3

\* The same of a policy.
LEMMA FtPolicy ==
  ASSUME NEW d, PolicyOK(d)
  PROVE  FtKept(d, FtRestored(d))
<1>1. d.vers \in Nat
  BY DEF PolicyOK
<1>2. IsFiniteSet(d.filename_trans) /\ \A f \in d.filename_trans : FilenameTransOK(f)
  BY DEF PolicyOK, FiniteOK, RecordsOK
<1> QED
  BY <1>1, <1>2, FtRestoredIs

\* A section that is not there has no transitions.
LEMMA NoneInserted ==
  ASSUME NEW v \in Nat, v < POLICYDB_VERSION_COMP_FTRANS
  PROVE  ReadFilenameTrans(v, <<>>) = {}
<1> DEFINE none == <<>>
<1>1. IsList(none) /\ Len(none) = 0 /\ DOMAIN none = {}
  BY DEF IsList
<1> HIDE DEF none
<1>2. ReadFilenameTrans(v, none) \in Inserted({})
  BY <1>1, EntriesInserted
<1> QED
  BY <1>2 DEF Inserted, Placed, none

\* A section that was written is refused only for a collision.
LEMMA FtRefusedIs ==
  ASSUME NEW d, PolicyOK(d), FtRefused(d.vers, FtItems(d))
  PROVE  d.vers >= POLICYDB_VERSION_COMP_FTRANS /\ ChainsCollide(d)
<1>1. Spans(FtItems(d), FtSet(d))
  BY FtItemsAre DEF PolicyOK, FiniteOK, RecordsOK
<1>2. d.vers \in Nat /\ d.vers >= POLICYDB_VERSION_COMP_FTRANS
  BY DEF FtRefused, PolicyOK
<1>3. PICK x \in FtSet(d) : Collides(x.chain)
  BY <1>1 DEF FtRefused, Spans
<1>4. PICK key : x = FtItem(d, key)
  BY <1>2, <1>3 DEF FtSet, POLICYDB_VERSION_COMP_FTRANS
<1>5. x.chain = FtChain(d, key)
  BY <1>4 DEF FtItem
<1> QED
  BY <1>2, <1>3, <1>5, CollisionIs

(***************************************************************************)
(* The rows of types, and a section behind its first word.                 *)
(***************************************************************************)
LEMMA RowItemsAre ==
  ASSUME NEW d, d.nprim \in Nat
  PROVE  /\ IsList(RowItems(d)) /\ Len(RowItems(d)) = d.nprim
         /\ \A i \in 1..d.nprim : RowItems(d)[i] = Bitmap(d.type_attr_map[i])
<1> DEFINE s == RowItems(d)
           n == d.nprim
           T == {Bitmap(d.type_attr_map[i]) : i \in 1..n}
<1>1. s = [i \in 1..n |-> Bitmap(d.type_attr_map[i])] /\ n \in Nat
  BY DEF RowItems
<1> HIDE DEF s, n
<1>2. s \in Seq(T) /\ Len(s) = n /\ \A i \in 1..n : s[i] = Bitmap(d.type_attr_map[i])
  BY <1>1
<1> HIDE DEF T
<1>3. \A x \in T : \E i \in 1..Len(s) : s[i] = x
  BY <1>2 DEF T
<1>4. Spans(s, T)
  BY <1>2, <1>3, SpansIs
<1> QED
  BY <1>2, <1>4 DEF s, n, Spans

\* The items behind the number that is written in front of them.
LEMMA BehindWord ==
  ASSUME NEW x, NEW items, IsList(items)
  PROVE  LET s == <<x>> \o items
         IN  /\ Spans(s, {x} \cup ToSet(items)) /\ Len(items) \in Nat
             /\ Len(s) = Len(items) + 1 /\ s[1] = x
             /\ \A i \in 1..Len(items) : s[i + 1] = items[i]
             /\ Tail(s) = items
<1> DEFINE word == <<x>>
           s == word \o items
           T == {x} \cup ToSet(items)
           n == Len(items)
<1>1. word \in Seq(T) /\ Len(word) = 1 /\ word[1] = x
  OBVIOUS
<1>2. items \in Seq(T) /\ n \in Nat
  BY DEF IsList
<1>3. ToSet(word) = {x}
  <2>1. ToSet(word) = {word[i] : i \in 1..1}
    BY <1>1, ToSetIs
  <2> QED
    BY <1>1, <2>1
<1> HIDE DEF word, T
<1>4. s \in Seq(T) /\ ToSet(s) = ToSet(word) \cup ToSet(items)
  BY <1>1, <1>2, Concatenated
<1>5. /\ Len(s) = 1 + n
      /\ \A i \in 1..(1 + n) : s[i] = IF i <= 1 THEN word[i] ELSE items[i - 1]
  BY <1>1, <1>2, ConcatProperties
<1> HIDE DEF s, n
<1>6. s[1] = x /\ \A i \in 1..n : s[i + 1] = items[i]
  <2>1. s[1] = x
    BY <1>1, <1>2, <1>5
  <2>2. ASSUME NEW i \in 1..n
        PROVE  s[i + 1] = items[i]
    <3>1. i + 1 \in 1..(1 + n) /\ ~(i + 1 <= 1) /\ (i + 1) - 1 = i
      BY <1>2
    <3> QED
      BY <1>5, <3>1
  <2> QED
    BY <2>1, <2>2
<1>7. Spans(s, T)
  BY <1>3, <1>4 DEF Spans, IsList, T
<1>8. Tail(s) = items
  <2>1. s # <<>>
    BY <1>2, <1>5
  <2>2. Tail(s) \in Seq(T) /\ Len(Tail(s)) = n /\ \A i \in 1..n : Tail(s)[i] = s[i + 1]
    BY <1>2, <1>4, <1>5, <2>1, HeadTailProperties
  <2> QED
    BY <1>2, <1>6, <2>2, SeqEqual DEF n
<1> QED
  BY <1>2, <1>5, <1>6, <1>7, <1>8 DEF s, word, T, n

(***************************************************************************)
(* Rules, from version 20 on: a node per key.                              *)
(***************************************************************************)
Rule(tab, k) == [key |-> k, data |-> tab[k]]
RulesFor(keys, tab) == [i \in DOMAIN keys |-> Rule(tab, keys[i])]
IsKey(k) ==
  \/ k.spec \in AvSpecs \cup TypeSpecs /\ k = Key(k.s, k.t, k.c, k.spec)
  \/ k.kind \in {"function", "driver"} /\ k = XKey(k.s, k.t, k.c, k.kind, k.driver)

IsPlain(x, tab, k) ==
  /\ x.k = "te_avtab" /\ x.data = tab[k] /\ x.key.spec = k.spec
  /\ DOMAIN x = {"k", "key", "data"}
PlainRead(node, b, k) == node.ok = TRUE /\ node.m = b /\ node.key = k
\* A node that is not extended is read as it was written, whatever came before.
LEMMA PlainNode ==
  ASSUME NEW v \in Nat, v >= 20, NEW m \in BOOLEAN, NEW b \in BOOLEAN, NEW tab, NEW k,
         IsKey(k), ~IsXperm(k)
  PROVE  /\ IsPlain(WriteNode(m, tab, k), tab, k)
         /\ PlainRead(ReadNode(v, b, WriteNode(m, tab, k)), b, k)
<1> DEFINE x == WriteNode(m, tab, k)
           node == ReadNode(v, b, x)
<1>1. k = Key(k.s, k.t, k.c, k.spec)
  BY DEF IsKey, IsXperm, XKey
<1>2. /\ x.k = "te_avtab" /\ x.data = tab[k] /\ x.key = k
      /\ DOMAIN x = {"k", "key", "data"}
  BY <1>1 DEF WriteNode, Also, If
<1> HIDE DEF x
<1>3. ~IsXperm(x.key)
  BY <1>2
<1>4. DOMAIN x = {"k"} \cup RuleFields(v)
  BY <1>2 DEF RuleFields, POLICYDB_VERSION_AVTAB
<1>5. ReadNode(v, b, x) = [ok |-> TRUE, m |-> b, key |-> x.key]
  BY <1>3, <1>4 DEF ReadNode
<1> QED
  BY <1>2, <1>5 DEF x, IsPlain, PlainRead

\* A node of extended rules, as it is written for Android M and for others.
LEMMA XpermNode ==
  ASSUME NEW v \in Nat, v >= 20, NEW m \in BOOLEAN, m => v = 30, NEW b \in BOOLEAN, NEW tab,
         NEW k, IsKey(k), IsXperm(k), b => m
  PROVE  LET x == WriteNode(m, tab, k)
             node == ReadNode(v, b, x)
         IN  /\ x.k = "te_avtab" /\ x.data = tab[k] /\ x.key.spec = "xperms"
             /\ DOMAIN x = {"k", "key", "data", "optype", "bytes"}
             /\ node.ok \in BOOLEAN /\ node.m \in BOOLEAN
             /\ node.ok => node.m = m /\ node.key = k
             /\ ~node.ok => /\ m /\ ~b /\ ~x.optype /\ Len(x.bytes) = 1
                            /\ x.bytes[1] \in KindBytes
<1> DEFINE Good(y, z) ==
             /\ z.ok => z.m = m /\ z.key = k
             /\ ~z.ok => /\ m /\ ~b /\ ~y.optype /\ Len(y.bytes) = 1
                         /\ y.bytes[1] \in KindBytes
<1> DEFINE x == WriteNode(m, tab, k)
           node == ReadNode(v, b, x)
           one == OneByte(v, b, x)
<1>1. k = XKey(k.s, k.t, k.c, k.kind, k.driver) /\ k.kind \in {"function", "driver"}
  BY DEF IsKey, IsXperm, AvSpecs, TypeSpecs
<1>2. /\ x.k = "te_avtab" /\ x.data = tab[k] /\ x.key = Key(k.s, k.t, k.c, "xperms")
      /\ DOMAIN x = {"k", "key", "data", "optype", "bytes"}
      /\ x.optype <=> m /\ k.kind = "driver"
      /\ x.bytes = IF m THEN <<k.driver>> ELSE <<KindByte(k.kind), k.driver>>
  BY DEF WriteNode, Also, If, IsXperm
<1> HIDE DEF x
<1>3. IsXperm(x.key) /\ x.key.s = k.s /\ x.key.t = k.t /\ x.key.c = k.c
  BY <1>2 DEF Key, IsXperm
<1>4. one <=> b \/ (v = 30 /\ x.optype) \/ (v = 30 /\ x.bytes[1] \notin KindBytes)
  BY DEF OneByte, AfterOptype, POLICYDB_VERSION_XPERMS_IOCTL
<1>5. /\ node.ok <=> Len(x.bytes) = IF one THEN 1 ELSE 2
      /\ node.m <=> one
      /\ node.key = XKey(k.s, k.t, k.c,
                         IF ~one THEN KindOf(x.bytes[1])
                         ELSE IF x.optype THEN "driver" ELSE "function",
                         Last(x.bytes))
      /\ node.ok \in BOOLEAN /\ node.m \in BOOLEAN
  <2> DEFINE fits == Len(x.bytes) = IF one THEN 1 ELSE 2
             key  == XKey(k.s, k.t, k.c,
                          IF ~one THEN KindOf(x.bytes[1])
                          ELSE IF x.optype THEN "driver" ELSE "function",
                          Last(x.bytes))
  <2>1. node = [ok |-> fits, m |-> one, key |-> key]
    BY <1>3 DEF ReadNode
  <2>2. fits \in BOOLEAN /\ one \in BOOLEAN
    BY DEF OneByte
  <2>3. node.ok = fits /\ node.m = one /\ node.key = key
    <3> HIDE DEF fits, one, key, node
    <3> QED
      BY <2>1, Zenon
  <2> HIDE DEF node, one
  <2> QED
    BY <2>2, <2>3
<1> HIDE DEF one, node
<1>6. ASSUME m
      PROVE  Good(x, node)
  <2>1. x.bytes = <<k.driver>>
    BY <1>2, <1>6
  <2>2. Len(x.bytes) = 1 /\ x.bytes[1] = k.driver /\ Last(x.bytes) = k.driver
    BY <2>1 DEF Last
  <2>3. CASE one
    <3>1. node.ok /\ node.m
      BY <1>5, <2>2, <2>3
    <3>2. node.key = XKey(k.s, k.t, k.c, k.kind, k.driver)
      BY <1>1, <1>2, <1>5, <1>6, <2>2, <2>3
    <3>3. node.m = m
      BY <1>5, <1>6, <3>1
    <3> QED
      BY <1>1, <3>1, <3>2, <3>3
  <2>4. CASE ~one
    <3>1. ~node.ok
      BY <1>5, <2>2, <2>4
    <3>2. ~b /\ ~x.optype /\ x.bytes[1] \in KindBytes
      BY <1>4, <1>6, <2>4
    <3> QED
      BY <1>6, <2>2, <3>1, <3>2
  <2> QED
    BY <2>3, <2>4
<1>7. ASSUME ~m
      PROVE  Good(x, node)
  <2>1. x.bytes = <<KindByte(k.kind), k.driver>>
    BY <1>2, <1>7
  <2>2. Len(x.bytes) = 2 /\ x.bytes[1] = KindByte(k.kind) /\ Last(x.bytes) = k.driver
    BY <2>1 DEF Last
  <2>3. KindByte(k.kind) \in KindBytes /\ KindOf(KindByte(k.kind)) = k.kind
    BY <1>1 DEF KindByte, KindBytes, KindOf
  <2>4. ~one
    BY <1>2, <1>4, <1>7, <2>2, <2>3
  <2>5. node.ok /\ ~node.m
    BY <1>5, <2>2, <2>4
  <2>6. node.key = XKey(k.s, k.t, k.c, k.kind, k.driver)
    BY <1>5, <2>2, <2>3, <2>4
  <2>7. node.m = m
    BY <1>5, <1>7, <2>5
  <2> QED
    BY <1>1, <2>5, <2>6, <2>7
<1>8. Good(x, node)
  <2> HIDE DEF Good
  <2> QED
    BY <1>6, <1>7
<1>9. x.key.spec = "xperms"
  BY <1>2 DEF Key
<1> QED
  BY <1>2, <1>5, <1>8, <1>9 DEF x, node

ReadStates(V) == [ok : BOOLEAN, m : BOOLEAN, rules : Seq(V)]
NoneRead(m) == [ok |-> TRUE, m |-> m, rules |-> <<>>]
\* What ReadNew can make of the items.
NodeRules(v, items) ==
  {[key |-> ReadNode(v, b, items[i]).key, data |-> items[i].data]
     : b \in BOOLEAN, i \in DOMAIN items}

\* The flags of avtab_read_item are flags.
LEMMA ReadNodeType ==
  ASSUME NEW v, NEW b \in BOOLEAN, NEW x
  PROVE  ReadNode(v, b, x).ok \in BOOLEAN /\ ReadNode(v, b, x).m \in BOOLEAN
<1> DEFINE one == OneByte(v, b, x)
           fits == DOMAIN x = {"k"} \cup RuleFields(v)
           long == Len(x.bytes) = IF one THEN 1 ELSE 2
           kind == IF ~one THEN KindOf(x.bytes[1]) ELSE IF x.optype THEN "driver" ELSE "function"
           key  == XKey(x.key.s, x.key.t, x.key.c, kind, Last(x.bytes))
<1>1. one \in BOOLEAN /\ fits \in BOOLEAN /\ long \in BOOLEAN
  BY DEF OneByte
<1>2. ReadNode(v, b, x) = IF ~IsXperm(x.key) THEN [ok |-> fits, m |-> b, key |-> x.key]
                          ELSE [ok |-> long, m |-> one, key |-> key]
  BY DEF ReadNode
<1> HIDE DEF one, fits, long, kind, key
<1>3. CASE ~IsXperm(x.key)
  <2>1. ReadNode(v, b, x) = [ok |-> fits, m |-> b, key |-> x.key]
    BY <1>2, <1>3
  <2>2. ReadNode(v, b, x).ok = fits /\ ReadNode(v, b, x).m = b
    BY <2>1
  <2> QED
    BY <1>1, <2>2
<1>4. CASE IsXperm(x.key)
  <2>1. ReadNode(v, b, x) = [ok |-> long, m |-> one, key |-> key]
    BY <1>2, <1>4
  <2>2. ReadNode(v, b, x).ok = long /\ ReadNode(v, b, x).m = one
    BY <2>1
  <2> QED
    BY <1>1, <2>2
<1> QED
  BY <1>3, <1>4

LEMMA ReadNewType ==
  ASSUME NEW v, NEW items, NEW i \in DOMAIN items, NEW a \in ReadStates(NodeRules(v, items))
  PROVE  /\ ReadNew(v, a, items[i]) \in ReadStates(NodeRules(v, items))
         /\ LET node == ReadNode(v, a.m, items[i])
                next == ReadNew(v, a, items[i])
            IN  /\ next.ok <=> a.ok /\ node.ok
                /\ next.m = node.m
                /\ next.rules = Append(a.rules, [key |-> node.key, data |-> items[i].data])
<1> DEFINE V == NodeRules(v, items)
           x == items[i]
           node == ReadNode(v, a.m, x)
           rule == [key |-> node.key, data |-> x.data]
           fine == a.ok /\ node.ok
<1>1. a.ok \in BOOLEAN /\ a.m \in BOOLEAN /\ a.rules \in Seq(V)
  BY DEF ReadStates
<1>2. node.ok \in BOOLEAN /\ node.m \in BOOLEAN
  BY <1>1, ReadNodeType
<1>3. rule \in V
  BY <1>1 DEF NodeRules
<1> DEFINE mm == node.m
           rr == Append(a.rules, rule)
           next == ReadNew(v, a, x)
<1>4. next = [ok |-> fine, m |-> mm, rules |-> rr]
  BY DEF ReadNew
<1>5. fine \in BOOLEAN
  OBVIOUS
<1> HIDE DEF V, rule
<1>6. rr \in Seq(V)
  BY <1>1, <1>3
<1>7. next.ok = fine /\ next.m = mm /\ next.rules = rr
  <2> HIDE DEF fine, x, node, next, mm, rr
  <2> QED
    BY <1>4, Zenon
<1>8. next \in ReadStates(V)
  <2>1. mm \in BOOLEAN
    BY <1>2
  <2> HIDE DEF fine, x, node, mm, rr, next
  <2> QED
    BY <1>4, <1>5, <1>6, <2>1 DEF ReadStates
<1>9. next.ok <=> a.ok /\ node.ok
  <2> HIDE DEF node, x, next
  <2> QED
    BY <1>1, <1>2, <1>7
<1> HIDE DEF node, x, next
<1>10. next.m = node.m /\ next.rules = Append(a.rules, rule)
  BY <1>7
<1> QED
  BY <1>8, <1>9, <1>10 DEF node, x, V, rule, next

\* The rules that are read of more and more items.
AreRead(g, v, m, items) ==
  /\ g[0] = NoneRead(m)
  /\ \A i \in 1..Len(items) : g[i] = ReadNew(v, g[i - 1], items[i])
  /\ ReadRules(v, m, items) = g[Len(items)]

\* The fold of ReadRules as a function of the number of nodes read.
LEMMA NewSteps ==
  ASSUME NEW v \in Nat, v >= 20, NEW m \in BOOLEAN, NEW items, IsList(items)
  PROVE  \E g : /\ AreRead(g, v, m, items)
                /\ \A i \in 0..Len(items) : g[i] \in ReadStates(NodeRules(v, items))
<1> DEFINE A == ReadStates(NodeRules(v, items))
           n == Len(items)
           none == NoneRead(m)
           step == [p \in (1..n) \X A |-> ReadNew(v, p[2], items[p[1]])]
           Eq(it) == it = [s \in SUBSET (1..n) |->
                             IF s = {} THEN none
                             ELSE ReadNew(v, it[s \ {Max(s)}], items[Max(s)])]
           it == CHOOSE it : Eq(it)
<1>1. n \in Nat /\ DOMAIN items = 1..n
  BY DEF IsList
<1>2. none \in A
  <2> DEFINE V == NodeRules(v, items)
  <2>1. TRUE \in BOOLEAN /\ m \in BOOLEAN /\ <<>> \in Seq(V)
    OBVIOUS
  <2> HIDE DEF V
  <2>2. none \in ReadStates(V)
    BY <2>1 DEF ReadStates, NoneRead
  <2> QED
    BY <2>2 DEF V
<1>3. /\ step \in [(1..n) \X A -> A]
      /\ \A i \in 1..n, x \in A : step[<<i, x>>] = ReadNew(v, x, items[i])
  <2>1. \A i \in 1..n, x \in A : ReadNew(v, x, items[i]) \in A
    BY <1>1, ReadNewType
  <2> HIDE DEF A
  <2> QED
    BY <2>1
<1>4. ReadRules(v, m, items) = it[1..n]
  BY <1>1 DEF ReadRules, FoldLeft, MapThenFoldSet, NoneRead, POLICYDB_VERSION_AVTAB
<1> HIDE DEF n, step, A, none
<1>5. \A s \in SUBSET (1..n) : s # {} => Max(s) \in 1..n
  BY <1>1, MaxOf
<1>6. \E g : Eq(g)
  <2>1. PICK g : IsFoldLeft(g, n, A, none, step)
    BY <1>1, <1>2, <1>3, FoldLeftExists
  <2>2. ASSUME NEW s \in SUBSET (1..n)
        PROVE  g[s] = IF s = {} THEN none
                      ELSE ReadNew(v, g[s \ {Max(s)}], items[Max(s)])
    <3>1. CASE s = {}
      BY <2>1, <3>1 DEF IsFoldLeft
    <3>2. CASE s # {}
      <4>1. Max(s) \in 1..n /\ s \ {Max(s)} \in SUBSET (1..n)
        BY <1>5, <3>2
      <4>2. g[s \ {Max(s)}] \in A /\ g[s] = step[<<Max(s), g[s \ {Max(s)}]>>]
        BY <2>1, <3>2, <4>1 DEF IsFoldLeft
      <4> QED
        BY <1>3, <3>2, <4>1, <4>2
    <3> QED
      BY <3>1, <3>2
  <2>3. Eq(g)
    BY <2>1, <2>2 DEF IsFoldLeft
  <2> HIDE DEF Eq
  <2> QED
    BY <2>3
<1>7. Eq(it)
  <2> HIDE DEF Eq
  <2> QED
    BY <1>6
<1> HIDE DEF it
<1>8. PICK g : IsStepped(g, n, A, none, step) /\ g[n] = it[1..n]
  <2>1. it[{}] = none
    BY <1>7
  <2>2. ASSUME NEW s \in SUBSET (1..n), s # {}, it[s \ {Max(s)}] \in A
        PROVE  it[s] = step[<<Max(s), it[s \ {Max(s)}]>>]
    <3>1. Max(s) \in 1..n
      BY <1>5, <2>2
    <3>2. it[s] = ReadNew(v, it[s \ {Max(s)}], items[Max(s)])
      BY <1>7, <2>2
    <3> QED
      BY <1>3, <2>2, <3>1, <3>2
  <2>3. FoldsLeft(it, n, A, none, step)
    BY <2>1, <2>2 DEF FoldsLeft
  <2> HIDE DEF Eq
  <2>4. Reached(it[1..n], n, A, none, step)
    BY <1>1, <1>2, <1>3, <2>3, FoldLeftSteps
  <2> QED
    BY <2>4 DEF Reached
<1>9. ASSUME NEW i \in 1..n
      PROVE  g[i] = ReadNew(v, g[i - 1], items[i])
  <2>1. i - 1 \in 0..n
    BY <1>1
  <2>2. g[i - 1] \in A /\ g[i] = step[<<i, g[i - 1]>>]
    BY <1>8, <2>1 DEF IsStepped
  <2> QED
    BY <1>3, <2>2
<1>10. g[0] = none /\ \A i \in 0..n : g[i] \in A
  BY <1>8 DEF IsStepped
<1>11. AreRead(g, v, m, items)
  BY <1>4, <1>8, <1>9, <1>10 DEF AreRead, n, none
<1> QED
  BY <1>10, <1>11 DEF A, n

\* The first extended node is mistaken for one of another kind.
FirstMistaken(items) ==
  \E e \in DOMAIN items :
     /\ "bytes" \in DOMAIN items[e]
     /\ \A j \in DOMAIN items : j < e => "bytes" \notin DOMAIN items[j]
     /\ ~items[e].optype /\ Len(items[e].bytes) = 1 /\ items[e].bytes[1] \in KindBytes
IsNodes(items, m, tab, keys) ==
  /\ DOMAIN items = DOMAIN keys
  /\ \A i \in DOMAIN keys : items[i] = WriteNode(m, tab, keys[i])
\* What is known of the rules read of the first i nodes.
NewRead(a, i, m, tab, keys, items) ==
  LET Extended == \E j \in 1..i : IsXperm(keys[j])
  IN /\ a.ok \/ FirstMistaken(items)
     /\ ~Extended => a.ok /\ ~a.m
     /\ a.ok => /\ Len(a.rules) = i
                /\ \A j \in 1..i : a.rules[j] = Rule(tab, keys[j])
                /\ a.m => m
     /\ a.ok /\ Extended => a.m = m

\* One node more: unless the first extended one was mistaken, it is read as written.
LEMMA NewReadStep ==
  ASSUME NEW v \in Nat, v >= 20, NEW m \in BOOLEAN, m => v = 30, NEW tab,
         NEW keys, NEW n \in Nat, DOMAIN keys = 1..n, \A i \in 1..n : IsKey(keys[i]),
         NEW items, IsNodes(items, m, tab, keys), NEW i \in 1..n,
         NEW a \in ReadStates(NodeRules(v, items)), NewRead(a, i - 1, m, tab, keys, items)
  PROVE  NewRead(ReadNew(v, a, items[i]), i, m, tab, keys, items)
<1> DEFINE k == keys[i]
           x == items[i]
           b == a.m
           node == ReadNode(v, b, x)
           next == ReadNew(v, a, x)
           Before == \E j \in 1..(i - 1) : IsXperm(keys[j])
           Now == \E j \in 1..i : IsXperm(keys[j])
<1>1. /\ a.ok \in BOOLEAN /\ b \in BOOLEAN /\ a.rules \in Seq(NodeRules(v, items))
  BY DEF ReadStates
<1>2. x = WriteNode(m, tab, k) /\ IsKey(k)
  BY DEF IsNodes
<1>3. /\ a.ok \/ FirstMistaken(items)
      /\ ~Before => a.ok /\ ~b
      /\ a.ok => /\ Len(a.rules) = i - 1
                 /\ \A j \in 1..(i - 1) : a.rules[j] = Rule(tab, keys[j])
                 /\ b => m
      /\ a.ok /\ Before => b = m
  BY DEF NewRead
<1>4. Now <=> Before \/ IsXperm(k)
  <2>1. \A j \in 1..i : j \in 1..(i - 1) \/ j = i
    OBVIOUS
  <2>2. \A j \in 1..(i - 1) : j \in 1..i
    OBVIOUS
  <2>3. i \in 1..i
    OBVIOUS
  <2> QED
    BY <2>1, <2>2, <2>3
<1>5. /\ next.ok <=> a.ok /\ node.ok
      /\ next.m = node.m
      /\ next.rules = Append(a.rules, [key |-> node.key, data |-> x.data])
      /\ next.ok \in BOOLEAN /\ next.m \in BOOLEAN
  <2>1. i \in DOMAIN items
    BY DEF IsNodes
  <2>2. next \in ReadStates(NodeRules(v, items))
    BY <2>1, ReadNewType
  <2>3. next.ok \in BOOLEAN /\ next.m \in BOOLEAN
    BY <2>2 DEF ReadStates
  <2> QED
    BY <2>1, <2>3, ReadNewType
<1> HIDE DEF next
<1> USE DEF NewRead
<1> SUFFICES /\ next.ok \/ FirstMistaken(items)
             /\ ~Now => next.ok /\ ~next.m
             /\ next.ok => /\ Len(next.rules) = i
                           /\ \A j \in 1..i : next.rules[j] = Rule(tab, keys[j])
                           /\ next.m => m
             /\ next.ok /\ Now => next.m = m
  BY DEF next
<1>6. CASE ~a.ok
  <2>1. Before /\ FirstMistaken(items) /\ ~next.ok
    BY <1>3, <1>5, <1>6
  <2> QED
    BY <1>4, <2>1
<1>7. ASSUME a.ok, node.ok, node.key = k, x.data = tab[k]
      PROVE  /\ Len(next.rules) = i
             /\ \A j \in 1..i : next.rules[j] = Rule(tab, keys[j])
  <2> DEFINE rule == Rule(tab, k)
  <2>1. next.rules = Append(a.rules, rule)
    BY <1>5, <1>7 DEF Rule
  <2> HIDE DEF rule
  <2>2. /\ Len(next.rules) = i
        /\ \A j \in 1..(i - 1) : next.rules[j] = a.rules[j]
        /\ next.rules[i] = rule
    <3>1. /\ Len(Append(a.rules, rule)) = Len(a.rules) + 1
          /\ \A j \in 1..Len(a.rules) : Append(a.rules, rule)[j] = a.rules[j]
          /\ Append(a.rules, rule)[Len(a.rules) + 1] = rule
      BY <1>1
    <3>2. Len(a.rules) = i - 1 /\ (i - 1) + 1 = i
      BY <1>3, <1>7
    <3> QED
      BY <2>1, <3>1, <3>2
  <2>3. \A j \in 1..i : j \in 1..(i - 1) \/ j = i
    OBVIOUS
  <2> QED
    BY <1>3, <1>7, <2>2, <2>3 DEF rule
<1>8. CASE a.ok /\ ~IsXperm(k)
  <2>1. x.data = tab[k] /\ node.ok = TRUE /\ node.m = b /\ node.key = k
    <3> DEFINE y == WriteNode(m, tab, k)
    <3> HIDE DEF b, k
    <3>1. /\ y.data = tab[k] /\ ReadNode(v, b, y).ok = TRUE /\ ReadNode(v, b, y).m = b
          /\ ReadNode(v, b, y).key = k
      <4>1. IsPlain(y, tab, k) /\ PlainRead(ReadNode(v, b, y), b, k)
        BY <1>1, <1>2, <1>8, PlainNode
      <4> HIDE DEF y
      <4> QED
        BY <4>1 DEF IsPlain, PlainRead
    <3>2. x = y
      BY <1>2
    <3> QED
      BY <3>1, <3>2
  <2>2. next.ok /\ next.m = b
    BY <1>5, <1>8, <2>1
  <2> HIDE DEF node, x, k, Before, Now
  <2> QED
    BY <1>3, <1>4, <1>7, <1>8, <2>1, <2>2
<1>9. CASE a.ok /\ IsXperm(k)
  <2>0. b => m
    BY <1>3, <1>9
  <2>1. /\ x.data = tab[k] /\ node.ok \in BOOLEAN /\ node.m \in BOOLEAN
        /\ "bytes" \in DOMAIN x
        /\ node.ok => node.m = m /\ node.key = k
        /\ ~node.ok => /\ m /\ ~b /\ ~x.optype /\ Len(x.bytes) = 1
                       /\ x.bytes[1] \in KindBytes
    BY <1>1, <1>2, <1>9, <2>0, XpermNode
  <2>2. CASE node.ok
    <3> HIDE DEF node, x, k, Before, Now
    <3>1. next.ok /\ next.m = m
      BY <1>5, <1>9, <2>1, <2>2
    <3> QED
      BY <1>4, <1>7, <1>9, <2>1, <2>2, <3>1
  <2>3. CASE ~node.ok
    <3>1. ~Before /\ ~next.ok
      <4> HIDE DEF node, x, k, Before
      <4> QED
        BY <1>3, <1>5, <1>9, <2>1, <2>3
    <3>2. ASSUME NEW j \in DOMAIN items, j < i
          PROVE  "bytes" \notin DOMAIN items[j]
      <4>1. j \in 1..(i - 1) /\ j \in 1..n
        BY <3>2 DEF IsNodes
      <4>2. ~IsXperm(keys[j]) /\ IsKey(keys[j]) /\ items[j] = WriteNode(m, tab, keys[j])
        BY <3>1, <4>1 DEF IsNodes
      <4> DEFINE other == keys[j]
                 y == WriteNode(m, tab, other)
      <4>3. DOMAIN y = {"k", "key", "data"}
        <5>1. IsKey(other) /\ ~IsXperm(other)
          BY <4>2
        <5>2. IsPlain(y, tab, other)
          <6> HIDE DEF other, b
          <6> QED
            BY <1>1, <5>1, PlainNode
        <5> QED
          BY <5>2 DEF IsPlain
      <4> QED
        BY <4>2, <4>3
    <3>3. FirstMistaken(items)
      <4>1. i \in DOMAIN items
        BY DEF IsNodes
      <4> QED
        BY <2>1, <2>3, <3>2, <4>1 DEF FirstMistaken
    <3> HIDE DEF Before, Now
    <3> QED
      BY <1>4, <1>9, <3>1, <3>3 DEF k
  <2> QED
    BY <2>1, <2>2, <2>3
<1> QED
  BY <1>1, <1>6, <1>8, <1>9

\* What is written for some keys is read as their rules, if at all.
NodesRead(read, v, K, keys, tab, items) ==
  /\ read.ok \in BOOLEAN /\ read.m \in BOOLEAN
  /\ read.ok => read.rules = RulesFor(keys, tab) /\ (read.m => v = 30)
  /\ read.ok \/ FirstMistaken(items)
  /\ (\A k \in K : ~IsXperm(k)) => read.ok
AreKeys(K) == \A k \in K : IsKey(k)
\* All nodes are read as written, or the first extended one was mistaken.
LEMMA NewRulesAre ==
  ASSUME NEW v \in Nat, v >= 20, NEW m \in BOOLEAN, m => v = 30, NEW tab,
         NEW keys, NEW K, Enumerates(keys, K), AreKeys(K),
         NEW items, IsList(items), IsNodes(items, m, tab, keys)
  PROVE  NodesRead(ReadRules(v, FALSE, items), v, K, keys, tab, items)
<1> DEFINE n == Len(items)
           read == ReadRules(v, FALSE, items)
<1>1. n \in Nat /\ DOMAIN items = 1..n /\ DOMAIN keys = 1..n
  BY DEF IsList, IsNodes
<1>2. \A i \in 1..n : keys[i] \in K
  BY <1>1 DEF Enumerates
<1>3. PICK g : /\ AreRead(g, v, FALSE, items)
               /\ \A i \in 0..n : g[i] \in ReadStates(NodeRules(v, items))
  BY NewSteps
<1> DEFINE Good == {i \in 0..n : NewRead(g[i], i, m, tab, keys, items)}
<1>4. 0 \in Good
  <2>1. g[0] = NoneRead(FALSE)
    BY <1>3 DEF AreRead
  <2>2. g[0].ok = TRUE /\ g[0].m = FALSE /\ g[0].rules = <<>>
    BY <2>1 DEF NoneRead
  <2>3. 1..0 = {}
    OBVIOUS
  <2>4. Len(g[0].rules) = 0
    BY <2>2
  <2>5. NewRead(g[0], 0, m, tab, keys, items)
    BY <2>2, <2>3, <2>4 DEF NewRead
  <2> QED
    BY <1>1, <2>5
<1>5. ASSUME NEW i \in 1..n, i - 1 \in Good
      PROVE  i \in Good
  <2>1. i - 1 \in 0..n /\ i \in 0..n
    BY <1>1
  <2>2. g[i] = ReadNew(v, g[i - 1], items[i])
    BY <1>3 DEF AreRead
  <2> DEFINE a == g[i - 1]
  <2>3. a \in ReadStates(NodeRules(v, items)) /\ NewRead(a, i - 1, m, tab, keys, items)
    BY <1>3, <1>5, <2>1
  <2> HIDE DEF a
  <2>4. NewRead(ReadNew(v, a, items[i]), i, m, tab, keys, items)
    <3>1. \A j \in 1..n : IsKey(keys[j])
      BY <1>2 DEF AreKeys
    <3> QED
      BY <1>1, <2>3, <3>1, NewReadStep
  <2> QED
    BY <2>1, <2>2, <2>4 DEF a
<1>6. n \in Good
  <2> HIDE DEF Good, n
  <2> QED
    BY <1>1, <1>4, <1>5, UpTo
<1>7. read \in ReadStates(NodeRules(v, items)) /\ NewRead(read, n, m, tab, keys, items)
  <2>1. read = g[n]
    BY <1>3 DEF AreRead
  <2> QED
    BY <1>1, <1>3, <1>6, <2>1
<1> HIDE DEF read, n
<1>8. read.ok \in BOOLEAN /\ read.m \in BOOLEAN /\ read.rules \in Seq(NodeRules(v, items))
  BY <1>7 DEF ReadStates
<1>9. ASSUME read.ok
      PROVE  read.rules = RulesFor(keys, tab)
  <2>1. Len(read.rules) = n /\ \A j \in 1..n : read.rules[j] = Rule(tab, keys[j])
    BY <1>7, <1>9 DEF NewRead
  <2>2. read.rules = [j \in 1..n |-> read.rules[j]]
    BY <1>8, <2>1
  <2>3. RulesFor(keys, tab) = [j \in 1..n |-> Rule(tab, keys[j])]
    BY <1>1 DEF RulesFor
  <2> QED
    BY <2>1, <2>2, <2>3
<1>10. read.ok => (read.m => v = 30)
  BY <1>7, <1>8 DEF NewRead
<1>11. read.ok \/ FirstMistaken(items)
  BY <1>7 DEF NewRead
<1>12. (\A k \in K : ~IsXperm(k)) => read.ok
  BY <1>2, <1>7 DEF NewRead
<1> QED
  BY <1>8, <1>9, <1>10, <1>11, <1>12 DEF read, NodesRead

\* The table that is made of the rules for some keys.
LEMMA TableIs ==
  ASSUME NEW keys, NEW K, Enumerates(keys, K), NEW tab
  PROVE  /\ Table(RulesFor(keys, tab)) = [k \in K |-> tab[k]]
         /\ ~HasTwice(RulesFor(keys, tab))
<1> DEFINE rules == RulesFor(keys, tab)
           n == Len(keys)
<1>1. /\ n \in Nat /\ DOMAIN keys = 1..n
      /\ \A i, j \in 1..n : keys[i] = keys[j] => i = j
  BY DEF Enumerates
<1>2. K = {keys[i] : i \in 1..n}
  BY ToSetIs DEF Enumerates
<1>3. /\ rules = [i \in 1..n |-> Rule(tab, keys[i])] /\ DOMAIN rules = 1..n
      /\ \A i \in 1..n : rules[i].key = keys[i] /\ rules[i].data = tab[keys[i]]
  BY <1>1 DEF RulesFor, Rule
<1> HIDE DEF n, rules
<1>5. {rules[i].key : i \in DOMAIN rules} = K
  BY <1>2, <1>3
<1>6. ASSUME NEW k \in K
      PROVE  rules[CHOOSE i \in DOMAIN rules : rules[i].key = k].data = tab[k]
  <2> DEFINE c == CHOOSE i \in DOMAIN rules : rules[i].key = k
  <2>1. \E i \in DOMAIN rules : rules[i].key = k
    BY <1>2, <1>3
  <2>2. c \in DOMAIN rules /\ rules[c].key = k
    BY <2>1
  <2> HIDE DEF c
  <2>3. c \in 1..n /\ keys[c] = k
    BY <1>3, <2>2
  <2>4. rules[c].data = tab[k]
    BY <1>3, <2>3
  <2> QED
    BY <2>4 DEF c
<1>7. Table(rules) = [k \in K |-> tab[k]]
  BY <1>5, <1>6 DEF Table
<1>8. ~HasTwice(rules)
  <2>1. \A i, j \in 1..n : rules[i].key = rules[j].key => i = j
    BY <1>1, <1>3
  <2> QED
    BY <1>1, <1>3, <2>1 DEF HasTwice, Same
<1> QED
  BY <1>7, <1>8 DEF rules

(***************************************************************************)
(* Rules before version 20: an entry per class of keys.                    *)
(***************************************************************************)
IsClass(tab, keys) ==
  /\ IsFiniteSet(keys) /\ keys # {} /\ keys \subseteq DOMAIN tab
  /\ \A j \in keys : j = Key(j.s, j.t, j.c, j.spec)
  /\ \A j, k \in keys : j.s = k.s /\ j.t = k.t /\ j.c = k.c
Holds(entry, keys, tab) ==
  \E ks : Enumerates(ks, keys) /\ OldRules(entry) = RulesFor(ks, tab)

\* An entry has what its nodes say, under their kinds.
LEMMA OldEntryIs ==
  ASSUME NEW tab, NEW keys, IsClass(tab, keys)
  PROVE  LET x == OldEntry(tab, keys)
         IN  /\ x.k = "te_avtab" /\ DOMAIN x = {"k", "s", "t", "c", "data"}
             /\ Holds(x, keys, tab)
<1> DEFINE x == OldEntry(tab, keys)
           any == CHOOSE k \in keys : TRUE
           S == {j.spec : j \in keys}
           ks == [i \in DOMAIN Listed(S) |-> Key(any.s, any.t, any.c, Listed(S)[i])]
           Of(spec) == CHOOSE j \in keys : j.spec = spec
<1>1. any \in keys
  BY DEF IsClass
<1>2. /\ x.k = "te_avtab" /\ DOMAIN x = {"k", "s", "t", "c", "data"}
      /\ x.s = any.s /\ x.t = any.t /\ x.c = any.c
      /\ x.data = [spec \in S |-> tab[Of(spec)]]
  BY DEF OldEntry
<1> HIDE DEF any, x
<1>3. ASSUME NEW j \in keys
      PROVE  j = Key(any.s, any.t, any.c, j.spec)
  BY <1>1 DEF IsClass
<1>4. ASSUME NEW spec \in S
      PROVE  Of(spec) = Key(any.s, any.t, any.c, spec) /\ Key(any.s, any.t, any.c, spec) \in keys
  <2>1. \E j \in keys : j.spec = spec
    BY DEF S
  <2>2. Of(spec) \in keys /\ Of(spec).spec = spec
    BY <2>1
  <2> HIDE DEF Of
  <2> QED
    BY <1>3, <2>2
<1>5. IsFiniteSet(S)
  <2> DEFINE F == [j \in keys |-> j.spec]
  <2>1. F \in Surjection(keys, S)
    BY DEF Surjection
  <2> HIDE DEF F, S
  <2> QED
    BY <2>1, FS_Surjection DEF IsClass
<1> HIDE DEF Of
<1> DEFINE l == Listed(S)
           n == Len(l)
<1>6. /\ l \in Seq(S) /\ DOMAIN l = 1..n /\ n \in Nat /\ S = {l[i] : i \in 1..n}
      /\ \A i, j \in 1..n : l[i] = l[j] => i = j
  <2>1. Enumerates(l, S)
    BY <1>5, ListedIs
  <2> HIDE DEF l
  <2>2. l \in Seq(S) /\ ToSet(l) = S /\ \A i, j \in DOMAIN l : l[i] = l[j] => i = j
    BY <2>1 DEF Enumerates
  <2> HIDE DEF S
  <2> QED
    BY <2>2, ToSetIs
<1> DEFINE K(spec) == Key(any.s, any.t, any.c, spec)
<1>7. ks = [i \in 1..n |-> K(l[i])]
  BY <1>6
<1> HIDE DEF l, n, ks
<1>8. keys = {K(spec) : spec \in S}
  BY <1>3, <1>4
<1> HIDE DEF S
<1>9. Enumerates(ks, keys)
  <2>1. \A i \in 1..n : K(l[i]) \in keys
    BY <1>6, <1>8
  <2>2. ks \in Seq(keys) /\ Len(ks) = n /\ DOMAIN ks = 1..n
    BY <1>6, <1>7, <2>1
  <2>3. ToSet(ks) = {ks[i] : i \in 1..n}
    BY <2>2, ToSetIs
  <2>4. \A i \in 1..n : ks[i] = K(l[i])
    BY <1>7
  <2>5. {K(l[i]) : i \in 1..n} = keys
    BY <1>6, <1>8
  <2>6. ToSet(ks) = keys
    BY <2>3, <2>4, <2>5
  <2>7. \A a, b : K(a) = K(b) => a = b
    BY DEF Key
  <2>8. \A i, j \in 1..n : ks[i] = ks[j] => i = j
    BY <1>6, <2>4, <2>7
  <2> QED
    BY <2>2, <2>6, <2>8 DEF Enumerates
<1>10. OldRules(x) = RulesFor(ks, tab)
  <2>1. DOMAIN x.data = S
    BY <1>2
  <2>2. OldRules(x) = [i \in 1..n |-> [key |-> K(l[i]), data |-> x.data[l[i]]]]
    BY <1>2, <1>6, <2>1 DEF OldRules, l
  <2>3. \A i \in 1..n : l[i] \in S /\ x.data[l[i]] = tab[K(l[i])]
    BY <1>2, <1>4, <1>6
  <2>4. RulesFor(ks, tab) = [i \in 1..n |-> [key |-> K(l[i]), data |-> tab[K(l[i])]]]
    BY <1>7 DEF RulesFor, Rule
  <2> HIDE DEF K
  <2> QED
    BY <2>2, <2>3, <2>4
<1> QED
  BY <1>2, <1>9, <1>10 DEF Holds, x

IsEntries(items, tab, classes) ==
  /\ DOMAIN items = DOMAIN classes
  /\ \A i \in DOMAIN classes : items[i] = OldEntry(tab, classes[i])
AreOldRead(g, v, items) ==
  /\ g[0] = NoneRead(FALSE)
  /\ \A i \in 1..Len(items) : g[i] = ReadOld(v, g[i - 1], items[i])
  /\ ReadRules(v, FALSE, items) = g[Len(items)]

LEMMA ReadOldType ==
  ASSUME NEW v, NEW V, NEW x, OldRules(x) \in Seq(V), NEW a \in ReadStates(V)
  PROVE  ReadOld(v, a, x) \in ReadStates(V)
<1> DEFINE fine == a.ok /\ DOMAIN x = {"k"} \cup RuleFields(v)
           rr == a.rules \o OldRules(x)
<1>1. a.ok \in BOOLEAN /\ a.m \in BOOLEAN /\ a.rules \in Seq(V)
  BY DEF ReadStates
<1>2. ReadOld(v, a, x) = [ok |-> fine, m |-> a.m, rules |-> rr]
  BY DEF ReadOld
<1>3. fine \in BOOLEAN
  OBVIOUS
<1>4. rr \in Seq(V)
  BY <1>1, ConcatProperties
<1> HIDE DEF fine, rr
<1> QED
  BY <1>1, <1>2, <1>3, <1>4 DEF ReadStates

\* The fold of ReadRules as a function of the number of entries read.
LEMMA OldSteps ==
  ASSUME NEW v \in Nat, v < 20, NEW V, NEW items, IsList(items),
         \A i \in DOMAIN items : OldRules(items[i]) \in Seq(V)
  PROVE  \E g : /\ AreOldRead(g, v, items)
                /\ \A i \in 0..Len(items) : g[i] \in ReadStates(V)
<1> DEFINE A == ReadStates(V)
           n == Len(items)
           none == NoneRead(FALSE)
           step == [p \in (1..n) \X A |-> ReadOld(v, p[2], items[p[1]])]
           Eq(it) == it = [s \in SUBSET (1..n) |->
                             IF s = {} THEN none
                             ELSE ReadOld(v, it[s \ {Max(s)}], items[Max(s)])]
           it == CHOOSE it : Eq(it)
<1>1. n \in Nat /\ DOMAIN items = 1..n
  BY DEF IsList
<1>2. none \in A
  <2>1. TRUE \in BOOLEAN /\ FALSE \in BOOLEAN /\ <<>> \in Seq(V)
    OBVIOUS
  <2> QED
    BY <2>1 DEF ReadStates, NoneRead
<1>3. /\ step \in [(1..n) \X A -> A]
      /\ \A i \in 1..n, x \in A : step[<<i, x>>] = ReadOld(v, x, items[i])
  <2>1. \A i \in 1..n, x \in A : ReadOld(v, x, items[i]) \in A
    BY <1>1, ReadOldType
  <2> HIDE DEF A
  <2> QED
    BY <2>1
<1>4. ReadRules(v, FALSE, items) = it[1..n]
  BY <1>1 DEF ReadRules, FoldLeft, MapThenFoldSet, NoneRead, POLICYDB_VERSION_AVTAB
<1> HIDE DEF n, step, A, none
<1>5. \A s \in SUBSET (1..n) : s # {} => Max(s) \in 1..n
  BY <1>1, MaxOf
<1>6. \E g : Eq(g)
  <2>1. PICK g : IsFoldLeft(g, n, A, none, step)
    BY <1>1, <1>2, <1>3, FoldLeftExists
  <2>2. ASSUME NEW s \in SUBSET (1..n)
        PROVE  g[s] = IF s = {} THEN none
                      ELSE ReadOld(v, g[s \ {Max(s)}], items[Max(s)])
    <3>1. CASE s = {}
      BY <2>1, <3>1 DEF IsFoldLeft
    <3>2. CASE s # {}
      <4>1. Max(s) \in 1..n /\ s \ {Max(s)} \in SUBSET (1..n)
        BY <1>5, <3>2
      <4>2. g[s \ {Max(s)}] \in A /\ g[s] = step[<<Max(s), g[s \ {Max(s)}]>>]
        BY <2>1, <3>2, <4>1 DEF IsFoldLeft
      <4> QED
        BY <1>3, <3>2, <4>1, <4>2
    <3> QED
      BY <3>1, <3>2
  <2>3. Eq(g)
    BY <2>1, <2>2 DEF IsFoldLeft
  <2> HIDE DEF Eq
  <2> QED
    BY <2>3
<1>7. Eq(it)
  <2> HIDE DEF Eq
  <2> QED
    BY <1>6
<1> HIDE DEF it
<1>8. PICK g : IsStepped(g, n, A, none, step) /\ g[n] = it[1..n]
  <2>1. it[{}] = none
    BY <1>7
  <2>2. ASSUME NEW s \in SUBSET (1..n), s # {}, it[s \ {Max(s)}] \in A
        PROVE  it[s] = step[<<Max(s), it[s \ {Max(s)}]>>]
    <3>1. Max(s) \in 1..n
      BY <1>5, <2>2
    <3>2. it[s] = ReadOld(v, it[s \ {Max(s)}], items[Max(s)])
      BY <1>7, <2>2
    <3> QED
      BY <1>3, <2>2, <3>1, <3>2
  <2>3. FoldsLeft(it, n, A, none, step)
    BY <2>1, <2>2 DEF FoldsLeft
  <2> HIDE DEF Eq
  <2>4. Reached(it[1..n], n, A, none, step)
    BY <1>1, <1>2, <1>3, <2>3, FoldLeftSteps
  <2> QED
    BY <2>4 DEF Reached
<1>9. ASSUME NEW i \in 1..n
      PROVE  g[i] = ReadOld(v, g[i - 1], items[i])
  <2>1. i - 1 \in 0..n
    BY <1>1
  <2>2. g[i - 1] \in A /\ g[i] = step[<<i, g[i - 1]>>]
    BY <1>8, <2>1 DEF IsStepped
  <2> QED
    BY <1>3, <2>2
<1>10. g[0] = none /\ \A i \in 0..n : g[i] \in A
  BY <1>8 DEF IsStepped
<1>11. AreOldRead(g, v, items)
  BY <1>4, <1>8, <1>9, <1>10 DEF AreOldRead, n, none
<1> QED
  BY <1>10, <1>11 DEF A, n

\* What is known of the rules read of the first i entries.
OldRead(a, i, tab, classes) ==
  /\ a.ok = TRUE /\ a.m = FALSE
  /\ \E ks : /\ Enumerates(ks, UNION {classes[j] : j \in 1..i})
             /\ a.rules = RulesFor(ks, tab)

InTurn(a, b, tab) == RulesFor(a, tab) \o RulesFor(b, tab) = RulesFor(a \o b, tab)
\* The rules for two lists of keys.
LEMMA RulesForBoth ==
  ASSUME NEW S, NEW T, NEW a \in Seq(S), NEW b \in Seq(T), NEW tab
  PROVE  /\ InTurn(a, b, tab)
         /\ RulesFor(a, tab) \in Seq({Rule(tab, k) : k \in S})
<1> DEFINE U == S \cup T
           V == {Rule(tab, k) : k \in U}
           R(k) == Rule(tab, k)
           ra == RulesFor(a, tab)
           rb == RulesFor(b, tab)
           ab == a \o b
<1>1. /\ a \in Seq(U) /\ b \in Seq(U) /\ Len(a) \in Nat /\ Len(b) \in Nat
      /\ DOMAIN a = 1..Len(a) /\ DOMAIN b = 1..Len(b)
      /\ \A i \in 1..Len(a) : a[i] \in S
      /\ \A i \in 1..Len(b) : b[i] \in T
  OBVIOUS
<1>2. /\ ra = [i \in 1..Len(a) |-> R(a[i])] /\ rb = [i \in 1..Len(b) |-> R(b[i])]
  BY <1>1 DEF RulesFor
<1>3. \A k \in U : R(k) \in V
  OBVIOUS
<1>4. ra \in Seq({Rule(tab, k) : k \in S})
  <2>1. \A i \in 1..Len(a) : R(a[i]) \in {Rule(tab, k) : k \in S}
    BY <1>1
  <2> HIDE DEF ra, R
  <2> QED
    BY <1>1, <1>2, <2>1
<1> HIDE DEF V, R, U
<1>5. ra \in Seq(V) /\ rb \in Seq(V) /\ Len(ra) = Len(a) /\ Len(rb) = Len(b)
  <2>1. \A i \in 1..Len(a) : R(a[i]) \in V
    BY <1>1, <1>3 DEF U
  <2>2. \A i \in 1..Len(b) : R(b[i]) \in V
    BY <1>1, <1>3 DEF U
  <2> HIDE DEF ra, rb
  <2> QED
    BY <1>1, <1>2, <2>1, <2>2
<1> HIDE DEF ra, rb
<1>6. /\ ab \in Seq(U) /\ Len(ab) = Len(a) + Len(b)
      /\ \A i \in 1..(Len(a) + Len(b)) :
            ab[i] = IF i <= Len(a) THEN a[i] ELSE b[i - Len(a)]
  BY <1>1, ConcatProperties
<1>7. /\ ra \o rb \in Seq(V) /\ Len(ra \o rb) = Len(a) + Len(b)
      /\ \A i \in 1..(Len(a) + Len(b)) :
            (ra \o rb)[i] = IF i <= Len(a) THEN ra[i] ELSE rb[i - Len(a)]
  <2>1. /\ ra \o rb \in Seq(V) /\ Len(ra \o rb) = Len(ra) + Len(rb)
        /\ \A i \in 1..(Len(ra) + Len(rb)) :
              (ra \o rb)[i] = IF i <= Len(ra) THEN ra[i] ELSE rb[i - Len(ra)]
    BY <1>5, ConcatProperties
  <2> QED
    BY <1>5, <2>1
<1> DEFINE n == Len(a) + Len(b)
           rr == ra \o rb
           r2 == RulesFor(ab, tab)
<1> HIDE DEF ab
<1>8. n \in Nat /\ DOMAIN ab = 1..n /\ r2 = [i \in 1..n |-> R(ab[i])]
  BY <1>1, <1>6 DEF RulesFor, R
<1> DEFINE la == Len(a)
           lb == Len(b)
<1>13. /\ la \in Nat /\ lb \in Nat /\ n = la + lb
       /\ \A i \in 1..n : ab[i] = IF i <= la THEN a[i] ELSE b[i - la]
       /\ \A i \in 1..n : rr[i] = IF i <= la THEN ra[i] ELSE rb[i - la]
       /\ \A i \in 1..la : ra[i] = R(a[i])
       /\ \A i \in 1..lb : rb[i] = R(b[i])
  BY <1>1, <1>2, <1>6, <1>7 DEF ab
<1> HIDE DEF la, lb, n, rr
<1>9. ASSUME NEW i \in 1..n
      PROVE  rr[i] = R(ab[i])
  <2>1. CASE i <= la
    <3>1. i \in 1..la
      BY <1>13, <2>1
    <3> QED
      BY <1>13, <2>1, <3>1
  <2>2. CASE i > la
    <3>1. i - la \in 1..lb /\ ~(i <= la)
      BY <1>13, <2>2
    <3> QED
      BY <1>13, <3>1
  <2> QED
    BY <1>13, <2>1, <2>2
<1>10. rr \in Seq(V) /\ Len(rr) = n
  BY <1>7 DEF rr, n
<1> HIDE DEF r2
<1>11. rr = [i \in 1..n |-> rr[i]]
  BY <1>10
<1>12. rr = r2
  BY <1>8, <1>9, <1>11
<1> QED
  BY <1>4, <1>12 DEF InTurn, rr, r2, ra, rb, ab

AreClasses(C, tab) ==
  /\ \A keys \in C : IsClass(tab, keys)
  /\ \A keys, other \in C : keys # other => keys \cap other = {}
EntriesRead(read, K, tab) ==
  /\ read.ok = TRUE /\ read.m = FALSE
  /\ \E ks : Enumerates(ks, K) /\ read.rules = RulesFor(ks, tab)

\* All entries are read as written, each as the nodes it was merged of.
LEMMA OldRulesAre ==
  ASSUME NEW v \in Nat, v < 20, NEW tab, NEW C, NEW classes, Enumerates(classes, C),
         AreClasses(C, tab), NEW items, IsList(items), IsEntries(items, tab, classes)
  PROVE  EntriesRead(ReadRules(v, FALSE, items), UNION C, tab)
<1> DEFINE n == Len(items)
           read == ReadRules(v, FALSE, items)
           K == UNION C
           V == {Rule(tab, k) : k \in K}
<1>1. n \in Nat /\ DOMAIN items = 1..n /\ DOMAIN classes = 1..n
  BY DEF IsList, IsEntries
<1>2. /\ \A i \in 1..n : classes[i] \in C
      /\ \A i, j \in 1..n : classes[i] = classes[j] => i = j
      /\ C = {classes[i] : i \in 1..n}
  <2>1. classes \in Seq(C) /\ ToSet(classes) = C
    BY DEF Enumerates
  <2>2. Len(classes) = n
    BY <1>1, <2>1
  <2>3. C = {classes[i] : i \in 1..n}
    BY <2>1, <2>2, ToSetIs
  <2> QED
    BY <1>1, <2>1, <2>3 DEF Enumerates
<1>3. ASSUME NEW i \in 1..n
      PROVE  /\ \E ks : Enumerates(ks, classes[i]) /\ OldRules(items[i]) = RulesFor(ks, tab)
             /\ DOMAIN items[i] = {"k"} \cup RuleFields(v)
  <2> DEFINE c == classes[i]
  <2>1. IsClass(tab, c) /\ items[i] = OldEntry(tab, c)
    BY <1>1, <1>2 DEF IsEntries, AreClasses
  <2> HIDE DEF c
  <2>2. Holds(OldEntry(tab, c), c, tab) /\ DOMAIN OldEntry(tab, c) = {"k", "s", "t", "c", "data"}
    BY <2>1, OldEntryIs
  <2>3. DOMAIN items[i] = {"k"} \cup RuleFields(v)
    BY <2>1, <2>2 DEF RuleFields, POLICYDB_VERSION_AVTAB
  <2> QED
    BY <2>1, <2>2, <2>3 DEF Holds, c
<1>4. ASSUME NEW i \in DOMAIN items
      PROVE  OldRules(items[i]) \in Seq(V)
  <2>1. PICK ks : Enumerates(ks, classes[i]) /\ OldRules(items[i]) = RulesFor(ks, tab)
    BY <1>1, <1>3
  <2>2. ks \in Seq(K)
    <3>1. classes[i] \subseteq K /\ ks \in Seq(classes[i])
      BY <1>1, <1>2, <2>1 DEF Enumerates
    <3> HIDE DEF K
    <3> QED
      BY <3>1
  <2> HIDE DEF K
  <2> QED
    BY <2>1, <2>2, RulesForBoth
<1>5. PICK g : /\ AreOldRead(g, v, items)
               /\ \A i \in 0..n : g[i] \in ReadStates(V)
  <2> HIDE DEF V
  <2> QED
    BY <1>4, OldSteps
<1> DEFINE Upto(i) == UNION {classes[j] : j \in 1..i}
           Good == {i \in 0..n : OldRead(g[i], i, tab, classes)}
<1>6. 0 \in Good
  <2>1. g[0] = NoneRead(FALSE)
    BY <1>5 DEF AreOldRead
  <2>2. g[0].ok = TRUE /\ g[0].m = FALSE /\ g[0].rules = <<>>
    BY <2>1 DEF NoneRead
  <2>3. Upto(0) = {}
    OBVIOUS
  <2>4. Enumerates(<<>>, {}) /\ RulesFor(<<>>, tab) = <<>>
    <3>1. <<>> \in Seq({}) /\ DOMAIN <<>> = {} /\ ToSet(<<>>) = {}
      BY DEF ToSet
    <3> QED
      BY <3>1 DEF Enumerates, RulesFor
  <2> HIDE DEF Upto
  <2>5. Enumerates(<<>>, Upto(0)) /\ g[0].rules = RulesFor(<<>>, tab)
    BY <2>2, <2>3, <2>4
  <2>6. OldRead(g[0], 0, tab, classes)
    BY <2>2, <2>5 DEF OldRead, Upto
  <2> QED
    BY <1>1, <2>6
<1>7. ASSUME NEW i \in 1..n, i - 1 \in Good
      PROVE  i \in Good
  <2>1. i - 1 \in 0..n /\ i \in 0..n
    BY <1>1
  <2> DEFINE a == g[i - 1]
             x == items[i]
             fine == a.ok /\ DOMAIN x = {"k"} \cup RuleFields(v)
             next == ReadOld(v, a, x)
             rr == a.rules \o OldRules(x)
             mm == a.m
  <2>2. a.ok = TRUE /\ a.m = FALSE
    BY <1>7 DEF OldRead
  <2>3. PICK ks : Enumerates(ks, Upto(i - 1)) /\ a.rules = RulesFor(ks, tab)
    BY <1>7 DEF OldRead
  <2>4. PICK k2 : Enumerates(k2, classes[i]) /\ OldRules(x) = RulesFor(k2, tab)
    BY <1>3
  <2>5. DOMAIN x = {"k"} \cup RuleFields(v)
    BY <1>3
  <2>6. next = [ok |-> fine, m |-> mm, rules |-> rr]
    BY DEF ReadOld
  <2>13. g[i] = next
    BY <1>5 DEF AreOldRead
  <2>7. fine = TRUE
    BY <2>2, <2>5
  <2>8. mm = FALSE
    BY <2>2
  <2>9. rr = RulesFor(ks \o k2, tab)
    <3>1. ks \in Seq(Upto(i - 1)) /\ k2 \in Seq(classes[i])
      BY <2>3, <2>4 DEF Enumerates
    <3>2. RulesFor(ks, tab) \o RulesFor(k2, tab) = RulesFor(ks \o k2, tab)
      <4> DEFINE S == Upto(i - 1)
                 T == classes[i]
      <4>1. ks \in Seq(S) /\ k2 \in Seq(T)
        BY <3>1
      <4> HIDE DEF S, T
      <4>2. InTurn(ks, k2, tab)
        BY <4>1, RulesForBoth
      <4> QED
        BY <4>2 DEF InTurn
    <3> QED
      BY <2>3, <2>4, <3>2
  <2>10. Enumerates(ks \o k2, Upto(i))
    <3>1. Upto(i) = Upto(i - 1) \cup classes[i]
      <4>1. 1..i = (1..(i - 1)) \cup {i}
        BY <1>1
      <4> QED
        BY <4>1
    <3>2. Upto(i - 1) \cap classes[i] = {}
      <4>1. ASSUME NEW j \in 1..(i - 1)
            PROVE  classes[j] \cap classes[i] = {}
        <5>1. j \in 1..n /\ j # i
          BY <1>1
        <5>2. classes[j] # classes[i] /\ classes[j] \in C /\ classes[i] \in C
          BY <1>2, <5>1
        <5> QED
          BY <5>2 DEF AreClasses
      <4> QED
        BY <4>1
    <3> HIDE DEF Upto
    <3>3. Enumerates(ks \o k2, Upto(i - 1) \cup classes[i])
      BY <2>3, <2>4, <3>2, EnumeratesBoth
    <3> QED
      BY <3>1, <3>3
  <2>11. next.ok = TRUE /\ next.m = FALSE /\ next.rules = RulesFor(ks \o k2, tab)
    <3> HIDE DEF fine, mm, rr, next, a, x
    <3>1. next.ok = fine /\ next.m = mm /\ next.rules = rr
      BY <2>6, Zenon
    <3> QED
      BY <2>7, <2>8, <2>9, <3>1
  <2>12. OldRead(g[i], i, tab, classes)
    <3> HIDE DEF next
    <3> QED
      BY <2>10, <2>11, <2>13 DEF OldRead, Upto
  <2> QED
    BY <2>1, <2>12
<1>8. n \in Good
  <2> HIDE DEF Good, n
  <2> QED
    BY <1>1, <1>6, <1>7, UpTo
<1>9. read = g[n] /\ OldRead(g[n], n, tab, classes)
  BY <1>5, <1>8 DEF AreOldRead
<1>10. Upto(n) = K
  BY <1>2
<1> HIDE DEF read, K, n, Upto
<1>11. read.ok = TRUE /\ read.m = FALSE
  BY <1>9 DEF OldRead
<1>12. \E ks : Enumerates(ks, K) /\ read.rules = RulesFor(ks, tab)
  BY <1>9, <1>10 DEF OldRead, Upto
<1> QED
  BY <1>11, <1>12 DEF read, K, EntriesRead

(***************************************************************************)
(* Attributes replaced by their types, as the versions before 20 have it.  *)
(***************************************************************************)
\* An attribute, a rule and a table become finitely many.
LEMMA MembersFinite ==
  ASSUME NEW d, d.nprim \in Nat, NEW v
  PROVE  IsFiniteSet(Members(d, v))
<1>1. IsFiniteSet({v})
  BY FS_Singleton
<1>2. IsFiniteSet(1..d.nprim)
  BY FS_Interval
<1>3. IsFiniteSet({i \in 1..d.nprim : i # v /\ v \in d.type_attr_map[i]})
  BY <1>2, FS_Subset
<1> QED
  BY <1>1, <1>3 DEF Members

Expanded(d, j) == {Key(s, t, j.c, j.spec) : s \in Members(d, j.s), t \in Members(d, j.t)}
LEMMA ExpandedFinite ==
  ASSUME NEW d, d.nprim \in Nat, NEW j
  PROVE  IsFiniteSet(Expanded(d, j))
<1> DEFINE P == Members(d, j.s) \X Members(d, j.t)
           F == [p \in P |-> Key(p[1], p[2], j.c, j.spec)]
<1>1. IsFiniteSet(P)
  BY MembersFinite, FS_Product
<1>2. Expanded(d, j) = {F[p] : p \in P}
  <2>1. ASSUME NEW s \in Members(d, j.s), NEW t \in Members(d, j.t)
        PROVE  Key(s, t, j.c, j.spec) \in {F[p] : p \in P}
    <3>1. <<s, t>> \in P /\ F[<<s, t>>] = Key(s, t, j.c, j.spec)
      OBVIOUS
    <3> HIDE DEF F, P
    <3> QED
      BY <3>1
  <2>2. ASSUME NEW p \in P
        PROVE  F[p] \in Expanded(d, j)
    BY DEF Expanded
  <2> HIDE DEF F, P
  <2>3. \A x \in Expanded(d, j) : x \in {F[p] : p \in P}
    BY <2>1 DEF Expanded
  <2> QED
    BY <2>2, <2>3
<1> HIDE DEF F, P
<1> QED
  BY <1>1, <1>2, ImageFinite

LEMMA ExpandableIs ==
  ASSUME NEW d, d.nprim \in Nat, NEW tab, IsFiniteSet(DOMAIN tab)
  PROVE  /\ IsFiniteSet(Expandable(d, tab)) /\ DOMAIN Expand(d, tab) = Expandable(d, tab)
         /\ \A k \in Expandable(d, tab) :
               /\ k = Key(k.s, k.t, k.c, k.spec)
               /\ \E j \in DOMAIN tab : /\ j.spec = k.spec /\ j.c = k.c
                                        /\ k.s \in Members(d, j.s) /\ k.t \in Members(d, j.t)
         /\ Expandable(d, tab) = UNION {Expanded(d, j) : j \in DOMAIN tab}
<1> DEFINE F == [j \in DOMAIN tab |-> Expanded(d, j)]
           T == {Expanded(d, j) : j \in DOMAIN tab}
<1>1. Expandable(d, tab) = UNION T
  BY DEF Expandable, Expanded
<1>2. T = {F[j] : j \in DOMAIN tab}
  OBVIOUS
<1>3. \A x \in T : IsFiniteSet(x)
  BY ExpandedFinite
<1>4. ASSUME NEW k \in UNION T
      PROVE  /\ k = Key(k.s, k.t, k.c, k.spec)
             /\ \E j \in DOMAIN tab : /\ j.spec = k.spec /\ j.c = k.c
                                      /\ k.s \in Members(d, j.s) /\ k.t \in Members(d, j.t)
  BY DEF Expanded, Key
<1> HIDE DEF F, T
<1>5. IsFiniteSet(T)
  BY <1>2, ImageFinite
<1>6. IsFiniteSet(UNION T)
  BY <1>3, <1>5, FS_UNION
<1>7. DOMAIN Expand(d, tab) = Expandable(d, tab)
  BY DEF Expand
<1> QED
  BY <1>1, <1>4, <1>6, <1>7 DEF T

\* A list whose keys are of types alone is as it was.
LEMMA ExpandSimple ==
  ASSUME NEW d, NEW tab, tab = [k \in DOMAIN tab |-> tab[k]],
         \A k \in DOMAIN tab : /\ k = Key(k.s, k.t, k.c, k.spec)
                               /\ k.s \in Simple(d) /\ k.t \in Simple(d)
                               /\ k.spec \in AvSpecs => tab[k] \subseteq Perms
  PROVE  Expand(d, tab) = tab
<1> DEFINE K == DOMAIN tab
<1>1. \A k \in K : Members(d, k.s) = {k.s} /\ Members(d, k.t) = {k.t}
  BY DEF Members
<1>2. Expandable(d, tab) = K
  <2>1. ASSUME NEW j \in K
        PROVE  Expanded(d, j) = {j}
    BY <1>1 DEF Expanded
  <2>2. Expandable(d, tab) = UNION {Expanded(d, j) : j \in K}
    BY DEF Expandable, Expanded
  <2> QED
    BY <2>1, <2>2
<1>3. ASSUME NEW k \in K
      PROVE  Joined(k.spec, {tab[j] : j \in Sources(d, tab, k)}) = tab[k]
  <2>1. Sources(d, tab, k) = {k}
    <3>1. ASSUME NEW j \in Sources(d, tab, k)
          PROVE  j = k
      BY <1>1 DEF Sources
    <3>2. k \in Sources(d, tab, k)
      BY <1>1 DEF Sources
    <3> QED
      BY <3>1, <3>2
  <2>2. {tab[j] : j \in Sources(d, tab, k)} = {tab[k]}
    BY <2>1
  <2>3. Joined(k.spec, {tab[k]}) = tab[k]
    <3>1. CASE k.spec = "auditdeny"
      <4>1. tab[k] \subseteq Perms
        BY <3>1 DEF AvSpecs
      <4> QED
        BY <3>1, <4>1 DEF Joined
    <3>2. CASE k.spec # "auditdeny" /\ k.spec \in TypeSpecs
      BY <3>2 DEF Joined
    <3>3. CASE k.spec # "auditdeny" /\ k.spec \notin TypeSpecs
      <4>1. Joined(k.spec, {tab[k]}) = UNION {tab[k]}
        BY <3>3 DEF Joined
      <4> QED
        BY <4>1
    <3> QED
      BY <3>1, <3>2, <3>3
  <2> QED
    BY <2>2, <2>3
<1>4. Expand(d, tab) = [k \in K |-> tab[k]]
  BY <1>2, <1>3 DEF Expand
<1> QED
  BY <1>4

\* The keys of an entry are a class of a partition.
LEMMA MergedIs ==
  ASSUME NEW tab, IsFiniteSet(DOMAIN tab),
         \A k \in DOMAIN tab : k = Key(k.s, k.t, k.c, k.spec)
  PROVE  /\ IsFiniteSet(Merged(tab)) /\ UNION Merged(tab) = DOMAIN tab
         /\ \A keys \in Merged(tab) : IsClass(tab, keys)
         /\ \A keys, other \in Merged(tab) : keys # other => keys \cap other = {}
<1> DEFINE K == DOMAIN tab
           Like(j, k) == /\ <<j.s, j.t, j.c>> = <<k.s, k.t, k.c>>
                         /\ j.spec \in AvSpecs <=> k.spec \in AvSpecs
           F == [k \in K |-> {j \in K : Like(j, k)}]
<1>1. Merged(tab) = {F[k] : k \in K}
  BY DEF Merged
<1>2. IsFiniteSet(Merged(tab))
  <2> HIDE DEF F, K
  <2> QED
    BY <1>1, ImageFinite DEF K
<1>3. \A k \in K : k \in F[k]
  OBVIOUS
<1>4. ASSUME NEW keys \in Merged(tab)
      PROVE  IsClass(tab, keys)
  <2>1. PICK k \in K : keys = F[k]
    BY <1>1
  <2>2. keys \subseteq K /\ k \in keys
    BY <2>1
  <2>3. IsFiniteSet(keys)
    BY <2>2, FS_Subset
  <2>4. \A j \in keys : j.s = k.s /\ j.t = k.t /\ j.c = k.c
    BY <2>1
  <2> QED
    BY <2>2, <2>3, <2>4 DEF IsClass
<1>5. ASSUME NEW keys \in Merged(tab), NEW other \in Merged(tab), keys \cap other # {}
      PROVE  keys = other
  <2>1. PICK k \in K : keys = {j \in K : Like(j, k)}
    BY <1>1
  <2>2. PICK k2 \in K : other = {j \in K : Like(j, k2)}
    BY <1>1
  <2>3. PICK x \in K : Like(x, k) /\ Like(x, k2)
    BY <1>5, <2>1, <2>2
  <2>4. \A j \in K : Like(j, k) <=> Like(j, k2)
    BY <2>3
  <2> HIDE DEF Like
  <2> QED
    BY <2>1, <2>2, <2>4
<1>6. UNION Merged(tab) = K
  <2>1. \A keys \in Merged(tab) : keys \subseteq K
    BY <1>4 DEF IsClass
  <2>2. \A k \in K : F[k] \in Merged(tab)
    BY <1>1
  <2> HIDE DEF F, K
  <2> QED
    BY <1>3, <2>1, <2>2
<1> QED
  BY <1>2, <1>4, <1>5, <1>6

(***************************************************************************)
(* The rules of a policy and of its conditionals, written and read.        *)
(***************************************************************************)
Written(d, tab) == IF d.vers < POLICYDB_VERSION_AVTAB THEN Expand(d, tab) ELSE tab
RuleNames == {"k", "s", "t", "c", "key", "data", "optype", "bytes"}
AreRules(items) ==
  IsList(items) /\ \A x \in ToSet(items) : x.k = "te_avtab" /\ DOMAIN x \subseteq RuleNames
ReadsAs(read, items, v, tab) ==
  /\ read.ok \in BOOLEAN /\ read.m \in BOOLEAN
  /\ read.ok => /\ Table(read.rules) = tab /\ ~HasTwice(read.rules)
                /\ read.m => v = 30
  /\ read.ok \/ FirstMistaken(items)

\* No items, no elements.
LEMMA EmptyList ==
  ASSUME NEW s, IsList(s)
  PROVE  s = <<>> <=> ToSet(s) = {}
<1> DEFINE T == ToSet(s)
<1>1. s \in Seq(T)
  BY DEF IsList
<1> HIDE DEF T
<1>2. Len(s) \in Nat /\ T = {s[i] : i \in 1..Len(s)}
  BY <1>1, ToSetIs DEF T
<1>3. s = <<>> <=> Len(s) = 0
  BY <1>1, EmptySeq
<1>4. Len(s) = 0 <=> T = {}
  <2>1. Len(s) # 0 => 1 \in 1..Len(s)
    BY <1>2
  <2>2. Len(s) = 0 => 1..Len(s) = {}
    BY <1>2
  <2> QED
    BY <1>2, <2>1, <2>2
<1> QED
  BY <1>3, <1>4 DEF T

IsTable(tab) == IsFiniteSet(DOMAIN tab) /\ tab = [k \in DOMAIN tab |-> tab[k]]
\* The keys of a table are keys.
LEMMA TableKeys ==
  ASSUME NEW d, NEW tab, TableOK(d, tab)
  PROVE  /\ IsTable(tab) /\ AreKeys(DOMAIN tab)
         /\ \A k \in DOMAIN tab : ~IsXperm(k) => k = Key(k.s, k.t, k.c, k.spec)
BY DEF TableOK, KeyOK, IsKey, AreKeys, IsXperm, XKey, IsTable

NodesOf(m, tab, keys) == [i \in DOMAIN keys |-> WriteNode(m, tab, keys[i])]
Carry(v, items, tab) ==
  /\ AreRules(items) /\ ReadsAs(ReadRules(v, FALSE, items), items, v, tab)
  /\ items = <<>> <=> DOMAIN tab = {}

\* avtab_write and avtab_read, from version 20 on.
LEMMA NewItemsAre ==
  ASSUME NEW v \in Nat, v >= 20, NEW m \in BOOLEAN, m => v = 30,
         NEW tab, IsTable(tab), AreKeys(DOMAIN tab), NEW keys, Enumerates(keys, DOMAIN tab)
  PROVE  LET items == NodesOf(m, tab, keys)
         IN  /\ Carry(v, items, tab)
             /\ (\A k \in DOMAIN tab : ~IsXperm(k)) => ReadRules(v, FALSE, items).ok
<1> DEFINE K == DOMAIN tab
           items == NodesOf(m, tab, keys)
           F == [k \in K |-> WriteNode(m, tab, k)]
           T == {F[k] : k \in K}
           n == Len(keys)
<1>1. n \in Nat /\ DOMAIN keys = 1..n /\ \A i \in DOMAIN keys : keys[i] \in K
  BY DEF Enumerates
<1>2. items = [i \in DOMAIN keys |-> F[keys[i]]]
  BY <1>1 DEF NodesOf
<1>4. IsNodes(items, m, tab, keys)
  BY DEF IsNodes, NodesOf
<1> HIDE DEF items
<1>3. Spans(items, T)
  <2>1. Enumerates(keys, K)
    OBVIOUS
  <2> HIDE DEF F, K
  <2> QED
    BY <1>2, <2>1, MappedIs
<1>5. ASSUME NEW k \in K
      PROVE  F[k].k = "te_avtab" /\ DOMAIN F[k] \subseteq RuleNames
  <2>1. F[k] = WriteNode(m, tab, k)
    OBVIOUS
  <2>2. CASE ~IsXperm(k)
    BY <2>1, <2>2 DEF WriteNode, Also, If, RuleNames
  <2>3. CASE IsXperm(k)
    BY <2>1, <2>3 DEF WriteNode, Also, If, RuleNames
  <2> QED
    BY <2>2, <2>3
<1>6. AreRules(items)
  <2> HIDE DEF F, K
  <2> QED
    BY <1>3, <1>5 DEF AreRules, Spans
<1> DEFINE read == ReadRules(v, FALSE, items)
<1>7. NodesRead(read, v, K, keys, tab, items)
  <2>1. IsList(items) /\ Enumerates(keys, K) /\ AreKeys(K)
    BY <1>3 DEF Spans
  <2> HIDE DEF K
  <2> QED
    BY <1>4, <2>1, NewRulesAre
<1>8. Table(RulesFor(keys, tab)) = tab /\ ~HasTwice(RulesFor(keys, tab))
  BY TableIs DEF IsTable
<1>9. items = <<>> <=> K = {}
  <2>1. items = <<>> <=> T = {}
    BY <1>3, EmptyList DEF Spans
  <2> HIDE DEF F, K
  <2> QED
    BY <2>1
<1> HIDE DEF read
<1>10. ReadsAs(read, items, v, tab)
  BY <1>7, <1>8 DEF ReadsAs, NodesRead
<1> QED
  BY <1>6, <1>7, <1>9, <1>10 DEF read, items, NodesRead, Carry

EntriesOf(tab, classes) == [i \in DOMAIN classes |-> OldEntry(tab, classes[i])]
\* avtab_write and avtab_read, before version 20.
LEMMA OldItemsAre ==
  ASSUME NEW v \in Nat, v < 20, NEW tab, IsTable(tab),
         NEW C, UNION C = DOMAIN tab, AreClasses(C, tab), NEW classes, Enumerates(classes, C)
  PROVE  LET items == EntriesOf(tab, classes)
         IN  Carry(v, items, tab) /\ ReadRules(v, FALSE, items).ok = TRUE
<1> DEFINE items == EntriesOf(tab, classes)
           F == [keys \in C |-> OldEntry(tab, keys)]
           T == {F[keys] : keys \in C}
           n == Len(classes)
<1>1. n \in Nat /\ DOMAIN classes = 1..n /\ \A i \in DOMAIN classes : classes[i] \in C
  BY DEF Enumerates
<1>2. items = [i \in DOMAIN classes |-> F[classes[i]]]
  BY <1>1 DEF EntriesOf
<1>4. IsEntries(items, tab, classes)
  BY DEF IsEntries, EntriesOf
<1> HIDE DEF items
<1>3. Spans(items, T)
  <2> HIDE DEF F
  <2> QED
    BY <1>2, MappedIs
<1>5. ASSUME NEW keys \in C
      PROVE  F[keys].k = "te_avtab" /\ DOMAIN F[keys] \subseteq RuleNames
  <2> DEFINE x == OldEntry(tab, keys)
  <2>1. F[keys] = x
    OBVIOUS
  <2>2. x.k = "te_avtab" /\ DOMAIN x = {"k", "s", "t", "c", "data"}
    BY OldEntryIs DEF AreClasses
  <2> HIDE DEF x, F
  <2> QED
    BY <2>1, <2>2 DEF RuleNames
<1>6. AreRules(items)
  <2> HIDE DEF F
  <2> QED
    BY <1>3, <1>5 DEF AreRules, Spans
<1> DEFINE read == ReadRules(v, FALSE, items)
<1>7. EntriesRead(read, UNION C, tab)
  <2>1. IsList(items)
    BY <1>3 DEF Spans
  <2> QED
    BY <1>4, <2>1, OldRulesAre
<1> HIDE DEF read
<1>11. PICK ks : /\ read.ok = TRUE /\ read.m = FALSE
                 /\ Enumerates(ks, DOMAIN tab) /\ read.rules = RulesFor(ks, tab)
  BY <1>7 DEF EntriesRead
<1>8. Table(RulesFor(ks, tab)) = tab /\ ~HasTwice(RulesFor(ks, tab))
  BY <1>11, TableIs DEF IsTable
<1>9. items = <<>> <=> DOMAIN tab = {}
  <2>1. items = <<>> <=> T = {}
    BY <1>3, EmptyList DEF Spans
  <2>2. \A keys \in C : keys # {}
    BY DEF IsClass, AreClasses
  <2> HIDE DEF F
  <2>3. T = {} <=> C = {}
    OBVIOUS
  <2>4. C = {} <=> UNION C = {}
    BY <2>2
  <2> QED
    BY <2>1, <2>3, <2>4
<1>10. ReadsAs(read, items, v, tab)
  BY <1>11, <1>8 DEF ReadsAs
<1> QED
  BY <1>6, <1>9, <1>10, <1>11 DEF read, items, Carry

\* The rules of a policy, in every version.
LEMMA RuleItemsAre ==
  ASSUME NEW d, d.vers \in 15..33, d.nprim \in Nat, TableOK(d, d.te_avtab),
         NEW m \in BOOLEAN, m => d.vers = 30, NEW order \in Orders(d)
  PROVE  Carry(d.vers, RuleItems(d, m, order), Written(d, d.te_avtab))
<1> DEFINE items == RuleItems(d, m, order)
           tab == d.te_avtab
           v == d.vers
<1>1. IsTable(tab) /\ AreKeys(DOMAIN tab)
  BY TableKeys
<1>2. v \in Nat /\ (m => v = 30)
  OBVIOUS
<1>3. CASE v < 20
  <2> DEFINE exp == Expand(d, tab)
             C == Merged(exp)
             classes == Listed(C)
  <2>1. IsTable(exp) /\ \A k \in DOMAIN exp : k = Key(k.s, k.t, k.c, k.spec)
    BY <1>1, ExpandableIs DEF Expand, IsTable
  <2>2. items = EntriesOf(exp, classes)
    BY <1>3 DEF RuleItems, Items, EntriesOf, POLICYDB_VERSION_AVTAB
  <2>3. Written(d, tab) = exp
    BY <1>3 DEF Written, POLICYDB_VERSION_AVTAB
  <2> HIDE DEF exp, items, v
  <2>4. /\ IsFiniteSet(C) /\ UNION C = DOMAIN exp /\ AreClasses(C, exp)
    BY <2>1, MergedIs DEF IsTable, AreClasses
  <2>5. Enumerates(classes, C)
    BY <2>4, ListedIs
  <2> HIDE DEF C, classes
  <2>6. Carry(v, EntriesOf(exp, classes), exp)
    BY <1>2, <1>3, <2>1, <2>4, <2>5, OldItemsAre
  <2> QED
    BY <2>2, <2>3, <2>6 DEF items, v
<1>4. CASE v >= 20
  <2>1. items = NodesOf(m, tab, order)
    BY <1>4 DEF RuleItems, NodesOf, POLICYDB_VERSION_AVTAB
  <2>2. Written(d, tab) = tab
    BY <1>4 DEF Written, POLICYDB_VERSION_AVTAB
  <2>3. Enumerates(order, DOMAIN tab)
    BY <1>1, OrderIs DEF IsTable
  <2> HIDE DEF items, tab, v
  <2>4. Carry(v, NodesOf(m, tab, order), tab)
    BY <1>1, <1>2, <1>4, <2>3, NewItemsAre
  <2> QED
    BY <2>1, <2>2, <2>4 DEF items, tab, v
<1> QED
  BY <1>2, <1>3, <1>4

\* The list of a conditional; its keys are no extended ones.
CondRead(d, m, tab) == Table(ReadRules(d.vers, FALSE, Tail(WriteCondRules(d, m, tab))).rules)
LEMMA CountedTail ==
  ASSUME NEW items, IsList(items)
  PROVE  Tail(Counted(items)) = items
<1> DEFINE x == Nel(Len(items))
<1>1. Counted(items) = <<x>> \o items
  BY DEF Counted
<1> HIDE DEF x
<1>2. Tail(<<x>> \o items) = items
  BY BehindWord
<1> QED
  BY <1>1, <1>2

\* The table that is made of a list read without fault is the one it was written of.
LEMMA CarriedIs ==
  ASSUME NEW v, NEW tab, NEW items, Carry(v, items, tab), ReadRules(v, FALSE, items).ok
  PROVE  Table(ReadRules(v, FALSE, Tail(Counted(items))).rules) = tab
<1> DEFINE read == ReadRules(v, FALSE, items)
<1>1. read.ok /\ ReadsAs(read, items, v, tab) /\ IsList(items)
  BY DEF Carry, AreRules
<1> HIDE DEF read
<1>2. Table(read.rules) = tab
  BY <1>1 DEF ReadsAs
<1>3. Tail(Counted(items)) = items
  BY <1>1, CountedTail
<1> QED
  BY <1>2, <1>3 DEF read

\* cond_write_av_list and cond_read_av_list.
LEMMA CondRulesAre ==
  ASSUME NEW d, d.vers \in 15..33, d.nprim \in Nat, NEW m \in BOOLEAN, m => d.vers = 30,
         NEW tab, TableOK(d, tab), \A k \in DOMAIN tab : ~IsXperm(k)
  PROVE  CondRead(d, m, tab) = Written(d, tab)
<1> DEFINE v == d.vers
<1>1. IsTable(tab) /\ AreKeys(DOMAIN tab)
  BY TableKeys
<1>2. v \in Nat /\ (m => v = 30)
  OBVIOUS
<1>3. CASE v < 20
  <2> DEFINE exp == Expand(d, tab)
             K == DOMAIN exp
             keys == Listed(K)
             F == [k \in K |-> {k}]
             C == {F[k] : k \in K}
             classes == [i \in DOMAIN keys |-> F[keys[i]]]
             items == EntriesOf(exp, classes)
  <2>1. IsTable(exp) /\ \A k \in K : k = Key(k.s, k.t, k.c, k.spec)
    BY <1>1, ExpandableIs DEF Expand, IsTable
  <2>4. Enumerates(keys, K) /\ \A i \in DOMAIN keys : keys[i] \in K
    BY <2>1, ListedIs, ListedInSet DEF IsTable
  <2>2. WriteCondRules(d, m, tab) = Counted(items)
    <3>1. WriteCondRules(d, m, tab) = Counted([i \in DOMAIN keys |-> OldEntry(exp, {keys[i]})])
      BY <1>3 DEF WriteCondRules, List, Items, POLICYDB_VERSION_AVTAB
    <3>2. items = [i \in DOMAIN keys |-> OldEntry(exp, {keys[i]})]
      BY <2>4 DEF EntriesOf
    <3> QED
      BY <3>1, <3>2
  <2>3. Written(d, tab) = exp
    BY <1>3 DEF Written, POLICYDB_VERSION_AVTAB
  <2> HIDE DEF exp, v
  <2>5. \A c \in C : IsClass(exp, c)
    <3> SUFFICES ASSUME NEW k \in K
                 PROVE  IsClass(exp, {k})
      OBVIOUS
    <3>1. IsFiniteSet({k})
      BY FS_Singleton
    <3> QED
      BY <2>1, <3>1 DEF IsClass
  <2>6. UNION C = DOMAIN exp /\ AreClasses(C, exp)
    BY <2>5 DEF AreClasses
  <2>7. Enumerates(classes, C)
    <3> HIDE DEF keys, K
    <3>1. Spans(classes, C)
      <4> HIDE DEF F
      <4> QED
        BY <2>4, MappedIs
    <3>2. DOMAIN classes = DOMAIN keys /\ \A i \in DOMAIN keys : classes[i] = {keys[i]}
      BY <2>4
    <3>3. \A i, j \in DOMAIN classes : classes[i] = classes[j] => i = j
      <4>1. \A i, j \in DOMAIN keys : keys[i] = keys[j] => i = j
        BY <2>4 DEF Enumerates
      <4> HIDE DEF classes
      <4>2. \A i, j \in DOMAIN keys : classes[i] = classes[j] => keys[i] = keys[j]
        BY <3>2
      <4> QED
        BY <3>2, <4>1, <4>2
    <3> HIDE DEF classes, C
    <3> QED
      BY <3>1, <3>3 DEF Enumerates, Spans, IsList
  <2> HIDE DEF classes, C, keys
  <2>8. Carry(v, items, exp) /\ ReadRules(v, FALSE, items).ok
    BY <1>2, <1>3, <2>1, <2>6, <2>7, OldItemsAre
  <2> HIDE DEF items
  <2>9. Table(ReadRules(v, FALSE, Tail(Counted(items))).rules) = exp
    BY <2>8, CarriedIs
  <2> QED
    BY <2>2, <2>3, <2>9 DEF CondRead, v
<1>4. CASE v >= 20
  <2> DEFINE keys == Listed(DOMAIN tab)
             items == NodesOf(m, tab, keys)
  <2>1. WriteCondRules(d, m, tab) = Counted(items)
    BY <1>4 DEF WriteCondRules, List, Items, NodesOf, POLICYDB_VERSION_AVTAB
  <2>2. Written(d, tab) = tab
    BY <1>4 DEF Written, POLICYDB_VERSION_AVTAB
  <2>3. Enumerates(keys, DOMAIN tab)
    BY <1>1, ListedIs DEF IsTable
  <2> HIDE DEF keys, v
  <2>4. Carry(v, items, tab) /\ ReadRules(v, FALSE, items).ok
    BY <1>1, <1>2, <1>4, <2>3, NewItemsAre
  <2> HIDE DEF items
  <2>5. Table(ReadRules(v, FALSE, Tail(Counted(items))).rules) = tab
    BY <2>4, CarriedIs
  <2> QED
    BY <2>1, <2>2, <2>5 DEF CondRead, v
<1> QED
  BY <1>2, <1>3, <1>4

(***************************************************************************)
(* Every item fits the section it is in.                                   *)
(***************************************************************************)
LEMMA CondIs ==
  ASSUME NEW d, d.vers \in 15..33, d.nprim \in Nat, NEW m \in BOOLEAN, m => d.vers = 30,
         NEW n, CondOK(d, n)
  PROVE  LET x == WriteCond(d, m, n)
         IN  /\ x.k = "cond_list" /\ DOMAIN x = {"k", "state", "expr", "true_list", "false_list"}
             /\ ReadCond(d.vers, x) = n
<1> DEFINE x == WriteCond(d, m, n)
<1>1. /\ x.k = "cond_list" /\ DOMAIN x = {"k", "state", "expr", "true_list", "false_list"}
      /\ x.state = n.state /\ x.expr = n.expr
      /\ x.true_list = WriteCondRules(d, m, n.true_list)
      /\ x.false_list = WriteCondRules(d, m, n.false_list)
  BY DEF WriteCond
<1> HIDE DEF x
<1>2. ASSUME NEW tab, TableOK(d, tab),
             \A k \in DOMAIN tab : /\ ~IsXperm(k)
                                   /\ d.vers < POLICYDB_VERSION_AVTAB => {k.s, k.t} \subseteq Simple(d)
      PROVE  CondRead(d, m, tab) = tab
  <2>1. CondRead(d, m, tab) = Written(d, tab)
    BY <1>2, CondRulesAre
  <2>2. CASE d.vers < POLICYDB_VERSION_AVTAB
    <3>1. \A k \in DOMAIN tab : /\ k = Key(k.s, k.t, k.c, k.spec)
                                /\ k.s \in Simple(d) /\ k.t \in Simple(d)
                                /\ k.spec \in AvSpecs => tab[k] \subseteq Perms
      BY <1>2, <2>2, TableKeys DEF TableOK
    <3>2. Expand(d, tab) = tab
      <4>1. tab = [k \in DOMAIN tab |-> tab[k]]
        BY <1>2 DEF TableOK
      <4> QED
        BY <3>1, <4>1, ExpandSimple
    <3> QED
      BY <2>1, <2>2, <3>2 DEF Written
  <2>3. CASE ~(d.vers < POLICYDB_VERSION_AVTAB)
    BY <2>1, <2>3 DEF Written
  <2> QED
    BY <2>2, <2>3
<1>3. CondRead(d, m, n.true_list) = n.true_list /\ CondRead(d, m, n.false_list) = n.false_list
  BY <1>2 DEF CondOK
<1>4. n = [state |-> n.state, expr |-> n.expr,
           true_list |-> n.true_list, false_list |-> n.false_list]
  BY DEF CondOK
<1>5. ReadCond(d.vers, x) = [state |-> n.state, expr |-> n.expr,
                             true_list |-> CondRead(d, m, n.true_list),
                             false_list |-> CondRead(d, m, n.false_list)]
  BY <1>1 DEF ReadCond, CondRead
<1> QED
  BY <1>1, <1>3, <1>4, <1>5 DEF x

Plain(sec, x) ==
  "n" \notin DOMAIN x /\ "nprim" \notin DOMAIN x /\ (sec # "te_avtab" => x.k # "te_avtab")
BodyFits(v, sec, s) == IsList(s) /\ \A x \in ToSet(s) : Fits(v, sec, x) /\ Plain(sec, x)

\* The fields the reader expects of an item of a section.
LEMMA ListSections ==
  ASSUME NEW v
  PROVE  /\ ItemFields(v, "classes") = ClassFields(v)
         /\ ItemFields(v, "roles") = RoleFields(v)
         /\ ItemFields(v, "types") = TypeFields(v)
         /\ ItemFields(v, "users") = UserFields(v)
         /\ ItemFields(v, "cond_list") = {"state", "expr", "true_list", "false_list"}
         /\ ItemFields(v, "role_tr") = RoleTransFields(v)
         /\ ItemFields(v, "role_allow") = {"role", "new_role"}
         /\ ItemFields(v, "filename_trans") = FilenameTransFields(v)
         /\ \A kind \in OconNames : ItemFields(v, kind) = {"id", "contexts"}
         /\ ItemFields(v, "genfs") = {"fs", "entries"}
         /\ ItemFields(v, "range_tr") = RangeTransFields(v)
         /\ \A tab \in NameTabs : ItemFields(v, tab) = {"name"}
<1>1. ToSet(Ocontexts) = OconNames
  BY NamesAre
<1> QED
  BY <1>1 DEF ItemFields, OconNames, NameTabs

LEMMA InnerSections ==
  ASSUME NEW v, NEW x
  PROVE  /\ (\A e \in x.constraints \cup FieldOr(x, "validatetrans", {}) :
               DOMAIN e = ConstraintFields(v)) => InnerFits(v, "classes", x)
         /\ (\A e \in x.entries : DOMAIN e.context = ContextFields(v)) => InnerFits(v, "genfs", x)
         /\ \A kind \in OconNames :
              (\A i \in DOMAIN x.contexts : DOMAIN x.contexts[i] = ContextFields(v))
                => InnerFits(v, kind, x)
         /\ \A sec \in SectionNames \ (OconNames \cup {"classes", "genfs"}) :
              InnerFits(v, sec, x)
<1>1. ToSet(Ocontexts) = OconNames
  BY NamesAre
<1>2. \A kind \in OconNames :
        (\A i \in DOMAIN x.contexts : DOMAIN x.contexts[i] = ContextFields(v))
          => InnerFits(v, kind, x)
  BY <1>1 DEF InnerFits, OconNames
<1>3. \A sec \in SectionNames \ (OconNames \cup {"classes", "genfs"}) : InnerFits(v, sec, x)
  BY <1>1 DEF InnerFits
<1>4. (\A e \in x.constraints \cup FieldOr(x, "validatetrans", {}) :
         DOMAIN e = ConstraintFields(v)) => InnerFits(v, "classes", x)
  BY <1>1 DEF InnerFits, OconNames
<1>5. (\A e \in x.entries : DOMAIN e.context = ContextFields(v)) => InnerFits(v, "genfs", x)
  BY <1>1 DEF InnerFits, OconNames
<1> QED
  BY <1>2, <1>3, <1>4, <1>5

NamesOfFields ==
  {"name", "constraints", "validatetrans", "defaults", "default_type", "types", "bounds",
   "value", "properties", "primary", "roles", "range", "state", "expr", "true_list", "false_list",
   "role", "type", "new_role", "class", "key", "chain", "trans", "id", "contexts", "fs",
   "entries", "s", "t"}
\* No item that is expected has a field the layout takes for a number.
LEMMA FieldsAre ==
  ASSUME NEW v
  PROVE  /\ ClassFields(v) \subseteq NamesOfFields /\ RoleFields(v) \subseteq NamesOfFields
         /\ TypeFields(v) \subseteq NamesOfFields /\ UserFields(v) \subseteq NamesOfFields
         /\ RoleTransFields(v) \subseteq NamesOfFields
         /\ RangeTransFields(v) \subseteq NamesOfFields
         /\ FilenameTransFields(v) \subseteq NamesOfFields
         /\ {"state", "expr", "true_list", "false_list"} \subseteq NamesOfFields
         /\ {"role", "new_role"} \subseteq NamesOfFields
         /\ {"id", "contexts"} \subseteq NamesOfFields /\ {"fs", "entries"} \subseteq NamesOfFields
         /\ {"name"} \subseteq NamesOfFields
<1>1. ClassFields(v) \subseteq NamesOfFields /\ RoleFields(v) \subseteq NamesOfFields
  BY DEF ClassFields, RoleFields, Given, NamesOfFields
<1>2. TypeFields(v) \subseteq NamesOfFields /\ UserFields(v) \subseteq NamesOfFields
  BY DEF TypeFields, UserFields, Given, NamesOfFields
<1>3. RoleTransFields(v) \subseteq NamesOfFields /\ RangeTransFields(v) \subseteq NamesOfFields
  BY DEF RoleTransFields, RangeTransFields, Given, NamesOfFields
<1>4. /\ FilenameTransFields(v) \subseteq NamesOfFields
      /\ {"state", "expr", "true_list", "false_list"} \subseteq NamesOfFields
      /\ {"role", "new_role"} \subseteq NamesOfFields
      /\ {"id", "contexts"} \subseteq NamesOfFields /\ {"fs", "entries"} \subseteq NamesOfFields
      /\ {"name"} \subseteq NamesOfFields
  BY DEF FilenameTransFields, NamesOfFields
<1> QED
  BY <1>1, <1>2, <1>3, <1>4

\* An item with the fields of its section fits it.
LEMMA ItemFits ==
  ASSUME NEW v, NEW sec \in SectionNames, ~Bare(sec), sec # "te_avtab", NEW x, x.k = sec,
         NEW F, F = ItemFields(v, sec), F \subseteq NamesOfFields, DOMAIN x = {"k"} \cup F,
         InnerFits(v, sec, x)
  PROVE  Fits(v, sec, x) /\ Plain(sec, x)
<1>1. Fits(v, sec, x)
  <2>1. sec # "header" /\ sec \notin {"policycaps", "permissive", "type_attr_map"}
    BY DEF Bare, Alone
  <2> QED
    BY <2>1 DEF Fits
<1>2. "n" \notin NamesOfFields /\ "nprim" \notin NamesOfFields
  BY DEF NamesOfFields
<1>3. Plain(sec, x)
  <2>1. "n" # "k" /\ "nprim" # "k"
    OBVIOUS
  <2> QED
    BY <1>2, <2>1 DEF Plain
<1> QED
  BY <1>1, <1>3

(***************************************************************************)
(* The sections of a policy fit, and say what it has.                      *)
(***************************************************************************)
LEMMA VersionIs ==
  ASSUME NEW d, PolicyOK(d)
  PROVE  d.vers \in 15..33 /\ d.vers \in Nat /\ d.nprim \in Nat
BY DEF PolicyOK

\* The classes fit their section and are read back; so for every section below.
LEMMA ClassBody ==
  ASSUME NEW d, PolicyOK(d)
  PROVE  /\ BodyFits(d.vers, "classes", ClassItems(d))
         /\ {ReadClass(x) : x \in ToSet(ClassItems(d))} = d.classes
<1> DEFINE S == d.classes
           v == d.vers
           W(c) == WriteClass(v, c)
<1>1. v \in Nat /\ IsFiniteSet(S) /\ \A c \in S : ClassOK(v, c)
  BY DEF PolicyOK, FiniteOK, RecordsOK
<1>2. Spans(ClassItems(d), {W(c) : c \in S})
  BY <1>1, ClassItemsAre
<1>3. "classes" \in SectionNames /\ ~Bare("classes")
  BY DEF SectionNames, SymNames, Bare, Alone
<1>4. ASSUME NEW c \in S
      PROVE  Fits(v, "classes", W(c)) /\ Plain("classes", W(c)) /\ ReadClass(W(c)) = c
  <2> DEFINE x == W(c)
             F == ClassFields(v)
  <2>1. /\ x.k = "classes" /\ DOMAIN x = {"k"} \cup F /\ ReadClass(x) = c
        /\ \A e \in x.constraints \cup FieldOr(x, "validatetrans", {}) :
              DOMAIN e = ConstraintFields(v)
    BY <1>1, ClassIs
  <2> HIDE DEF x
  <2>2. F = ItemFields(v, "classes") /\ F \subseteq NamesOfFields
    BY ListSections, FieldsAre
  <2>3. InnerFits(v, "classes", x)
    BY <1>3, <2>1, InnerSections DEF OconNames
  <2> HIDE DEF F
  <2>4. Fits(v, "classes", x) /\ Plain("classes", x)
    BY <1>3, <2>1, <2>2, <2>3, ItemFits
  <2> QED
    BY <2>1, <2>4 DEF x
<1> HIDE DEF W
<1>5. BodyFits(v, "classes", ClassItems(d))
  BY <1>2, <1>4 DEF BodyFits, Spans
<1>6. {ReadClass(x) : x \in ToSet(ClassItems(d))} = S
  BY <1>2, <1>4 DEF Spans
<1> QED
  BY <1>5, <1>6

LEMMA RoleBody ==
  ASSUME NEW d, PolicyOK(d)
  PROVE  /\ BodyFits(d.vers, "roles", RoleItems(d))
         /\ {ReadRole(x) : x \in ToSet(RoleItems(d))} = d.roles
<1> DEFINE S == d.roles
           v == d.vers
           W(r) == WriteRole(v, r)
<1>1. v \in Nat /\ IsFiniteSet(S) /\ \A r \in S : RoleOK(v, r)
  BY DEF PolicyOK, FiniteOK, RecordsOK
<1>2. Spans(RoleItems(d), {W(r) : r \in S})
  BY <1>1, RoleItemsAre
<1>3. "roles" \in SectionNames /\ ~Bare("roles")
  BY DEF SectionNames, SymNames, Bare, Alone
<1>4. ASSUME NEW r \in S
      PROVE  Fits(v, "roles", W(r)) /\ Plain("roles", W(r)) /\ ReadRole(W(r)) = r
  <2> DEFINE x == W(r)
             F == RoleFields(v)
  <2>1. /\ x.k = "roles" /\ DOMAIN x = {"k"} \cup F /\ ReadRole(x) = r
    BY <1>1, RoleIs
  <2> HIDE DEF x
  <2>2. F = ItemFields(v, "roles") /\ F \subseteq NamesOfFields
    BY ListSections, FieldsAre
  <2>3. InnerFits(v, "roles", x)
    BY <1>3, <2>1, InnerSections DEF OconNames
  <2> HIDE DEF F
  <2>4. Fits(v, "roles", x) /\ Plain("roles", x)
    BY <1>3, <2>1, <2>2, <2>3, ItemFits
  <2> QED
    BY <2>1, <2>4 DEF x
<1> HIDE DEF W
<1>5. BodyFits(v, "roles", RoleItems(d))
  BY <1>2, <1>4 DEF BodyFits, Spans
<1>6. {ReadRole(x) : x \in ToSet(RoleItems(d))} = S
  BY <1>2, <1>4 DEF Spans
<1> QED
  BY <1>5, <1>6

LEMMA TypeBody ==
  ASSUME NEW d, PolicyOK(d)
  PROVE  /\ BodyFits(d.vers, "types", TypeItems(d))
         /\ {ReadType(x) : x \in ToSet(TypeItems(d))} = WrittenTypes(d)
<1> DEFINE S == WrittenTypes(d)
           v == d.vers
           W(t) == WriteType(v, t)
<1>1. v \in Nat /\ IsFiniteSet(S) /\ \A t \in S : TypeOK(d, t)
  <2>1. WrittenTypes(d) \subseteq d.types
    BY DEF WrittenTypes
  <2>2. IsFiniteSet(d.types) /\ \A t \in d.types : TypeOK(d, t)
    BY DEF PolicyOK, FiniteOK, RecordsOK
  <2>3. IsFiniteSet(WrittenTypes(d))
    BY <2>1, <2>2, FS_Subset
  <2> QED
    BY <2>1, <2>2, <2>3, VersionIs
<1>2. Spans(TypeItems(d), {W(t) : t \in S})
  BY <1>1, TypeItemsAre
<1>3. "types" \in SectionNames /\ ~Bare("types")
  BY DEF SectionNames, SymNames, Bare, Alone
<1>4. ASSUME NEW t \in S
      PROVE  Fits(v, "types", W(t)) /\ Plain("types", W(t)) /\ ReadType(W(t)) = t
  <2> DEFINE x == W(t)
             F == TypeFields(v)
  <2>1. /\ x.k = "types" /\ DOMAIN x = {"k"} \cup F /\ ReadType(x) = t
    BY <1>1, TypeIs
  <2> HIDE DEF x
  <2>2. F = ItemFields(v, "types") /\ F \subseteq NamesOfFields
    BY ListSections, FieldsAre
  <2>3. InnerFits(v, "types", x)
    BY <1>3, <2>1, InnerSections DEF OconNames
  <2> HIDE DEF F
  <2>4. Fits(v, "types", x) /\ Plain("types", x)
    BY <1>3, <2>1, <2>2, <2>3, ItemFits
  <2> QED
    BY <2>1, <2>4 DEF x
<1> HIDE DEF W
<1>5. BodyFits(v, "types", TypeItems(d))
  BY <1>2, <1>4 DEF BodyFits, Spans
<1>6. {ReadType(x) : x \in ToSet(TypeItems(d))} = S
  BY <1>2, <1>4 DEF Spans
<1> QED
  BY <1>5, <1>6

LEMMA UserBody ==
  ASSUME NEW d, PolicyOK(d)
  PROVE  /\ BodyFits(d.vers, "users", UserItems(d))
         /\ {ReadUser(x) : x \in ToSet(UserItems(d))} = d.users
<1> DEFINE S == d.users
           v == d.vers
           W(u) == WriteUser(v, u)
<1>1. v \in Nat /\ IsFiniteSet(S) /\ \A u \in S : UserOK(v, u)
  BY DEF PolicyOK, FiniteOK, RecordsOK
<1>2. Spans(UserItems(d), {W(u) : u \in S})
  BY <1>1, UserItemsAre
<1>3. "users" \in SectionNames /\ ~Bare("users")
  BY DEF SectionNames, SymNames, Bare, Alone
<1>4. ASSUME NEW u \in S
      PROVE  Fits(v, "users", W(u)) /\ Plain("users", W(u)) /\ ReadUser(W(u)) = u
  <2> DEFINE x == W(u)
             F == UserFields(v)
  <2>1. /\ x.k = "users" /\ DOMAIN x = {"k"} \cup F /\ ReadUser(x) = u
    BY <1>1, UserIs
  <2> HIDE DEF x
  <2>2. F = ItemFields(v, "users") /\ F \subseteq NamesOfFields
    BY ListSections, FieldsAre
  <2>3. InnerFits(v, "users", x)
    BY <1>3, <2>1, InnerSections DEF OconNames
  <2> HIDE DEF F
  <2>4. Fits(v, "users", x) /\ Plain("users", x)
    BY <1>3, <2>1, <2>2, <2>3, ItemFits
  <2> QED
    BY <2>1, <2>4 DEF x
<1> HIDE DEF W
<1>5. BodyFits(v, "users", UserItems(d))
  BY <1>2, <1>4 DEF BodyFits, Spans
<1>6. {ReadUser(x) : x \in ToSet(UserItems(d))} = S
  BY <1>2, <1>4 DEF Spans
<1> QED
  BY <1>5, <1>6

LEMMA RoleAllowBody ==
  ASSUME NEW d, PolicyOK(d)
  PROVE  /\ BodyFits(d.vers, "role_allow", RoleAllowItems(d))
         /\ {ReadRoleAllow(x) : x \in ToSet(RoleAllowItems(d))} = d.role_allow
<1> DEFINE S == d.role_allow
           v == d.vers
           W(r) == WriteRoleAllow(r)
<1>1. v \in Nat /\ IsFiniteSet(S) /\ \A r \in S : RoleAllowOK(r)
  BY DEF PolicyOK, FiniteOK, RecordsOK
<1>2. Spans(RoleAllowItems(d), {W(r) : r \in S})
  BY <1>1, RoleAllowItemsAre
<1>3. "role_allow" \in SectionNames /\ ~Bare("role_allow")
  BY DEF SectionNames, SymNames, Bare, Alone
<1>4. ASSUME NEW r \in S
      PROVE  Fits(v, "role_allow", W(r)) /\ Plain("role_allow", W(r)) /\ ReadRoleAllow(W(r)) = r
  <2> DEFINE x == W(r)
             F == {"role", "new_role"}
  <2>1. /\ x.k = "role_allow" /\ DOMAIN x = {"k"} \cup F /\ ReadRoleAllow(x) = r
    BY <1>1, RoleAllowIs
  <2> HIDE DEF x
  <2>2. F = ItemFields(v, "role_allow") /\ F \subseteq NamesOfFields
    BY ListSections, FieldsAre
  <2>3. InnerFits(v, "role_allow", x)
    BY <1>3, <2>1, InnerSections DEF OconNames
  <2> HIDE DEF F
  <2>4. Fits(v, "role_allow", x) /\ Plain("role_allow", x)
    BY <1>3, <2>1, <2>2, <2>3, ItemFits
  <2> QED
    BY <2>1, <2>4 DEF x
<1> HIDE DEF W
<1>5. BodyFits(v, "role_allow", RoleAllowItems(d))
  BY <1>2, <1>4 DEF BodyFits, Spans
<1>6. {ReadRoleAllow(x) : x \in ToSet(RoleAllowItems(d))} = S
  BY <1>2, <1>4 DEF Spans
<1> QED
  BY <1>5, <1>6

LEMMA GenfsBody ==
  ASSUME NEW d, PolicyOK(d)
  PROVE  /\ BodyFits(d.vers, "genfs", GenfsItems(d))
         /\ {ReadGenfs(x) : x \in ToSet(GenfsItems(d))} = d.genfs
<1> DEFINE S == d.genfs
           v == d.vers
           W(g) == WriteGenfs(v, g)
<1>1. v \in Nat /\ IsFiniteSet(S) /\ \A g \in S : GenfsOK(v, g)
  BY DEF PolicyOK, FiniteOK, RecordsOK
<1>2. Spans(GenfsItems(d), {W(g) : g \in S})
  BY <1>1, GenfsItemsAre
<1>3. "genfs" \in SectionNames /\ ~Bare("genfs")
  BY DEF SectionNames, SymNames, Bare, Alone
<1>4. ASSUME NEW g \in S
      PROVE  Fits(v, "genfs", W(g)) /\ Plain("genfs", W(g)) /\ ReadGenfs(W(g)) = g
  <2> DEFINE x == W(g)
             F == {"fs", "entries"}
  <2>1. /\ x.k = "genfs" /\ DOMAIN x = {"k"} \cup F /\ ReadGenfs(x) = g
        /\ \A e \in x.entries : DOMAIN e.context = ContextFields(v)
    BY <1>1, GenfsIs
  <2> HIDE DEF x
  <2>2. F = ItemFields(v, "genfs") /\ F \subseteq NamesOfFields
    BY ListSections, FieldsAre
  <2>3. InnerFits(v, "genfs", x)
    BY <1>3, <2>1, InnerSections DEF OconNames
  <2> HIDE DEF F
  <2>4. Fits(v, "genfs", x) /\ Plain("genfs", x)
    BY <1>3, <2>1, <2>2, <2>3, ItemFits
  <2> QED
    BY <2>1, <2>4 DEF x
<1> HIDE DEF W
<1>5. BodyFits(v, "genfs", GenfsItems(d))
  BY <1>2, <1>4 DEF BodyFits, Spans
<1>6. {ReadGenfs(x) : x \in ToSet(GenfsItems(d))} = S
  BY <1>2, <1>4 DEF Spans
<1> QED
  BY <1>5, <1>6

LEMMA RoleTransBody ==
  ASSUME NEW d, PolicyOK(d)
  PROVE  /\ BodyFits(d.vers, "role_tr", RoleTransItems(d))
         /\ {ReadRoleTrans(x) : x \in ToSet(RoleTransItems(d))} = d.role_tr
<1> DEFINE S == OfProcess(d.role_tr, d.vers >= POLICYDB_VERSION_ROLETRANS)
           v == d.vers
           W(r) == WriteRoleTrans(v, r)
<1>1. v \in Nat /\ IsFiniteSet(S) /\ \A r \in S : RoleTransOK(v, r)
  <2>1. OfProcess(d.role_tr, d.vers >= POLICYDB_VERSION_ROLETRANS) = d.role_tr
    BY VersionIs DEF PolicyOK, RecordsOK, OfProcess, RoleTransOK, POLICYDB_VERSION_ROLETRANS
  <2>2. IsFiniteSet(d.role_tr) /\ \A r \in d.role_tr : RoleTransOK(v, r)
    BY DEF PolicyOK, FiniteOK, RecordsOK
  <2> HIDE DEF v
  <2> QED
    BY <2>1, <2>2, VersionIs DEF v
<1>2. Spans(RoleTransItems(d), {W(r) : r \in S})
  BY <1>1, RoleTransItemsAre
<1>3. "role_tr" \in SectionNames /\ ~Bare("role_tr")
  BY DEF SectionNames, SymNames, Bare, Alone
<1>4. ASSUME NEW r \in S
      PROVE  Fits(v, "role_tr", W(r)) /\ Plain("role_tr", W(r)) /\ ReadRoleTrans(W(r)) = r
  <2> DEFINE x == W(r)
             F == RoleTransFields(v)
  <2>1. /\ x.k = "role_tr" /\ DOMAIN x = {"k"} \cup F /\ ReadRoleTrans(x) = r
    BY <1>1, RoleTransIs
  <2> HIDE DEF x
  <2>2. F = ItemFields(v, "role_tr") /\ F \subseteq NamesOfFields
    BY ListSections, FieldsAre
  <2>3. InnerFits(v, "role_tr", x)
    BY <1>3, <2>1, InnerSections DEF OconNames
  <2> HIDE DEF F
  <2>4. Fits(v, "role_tr", x) /\ Plain("role_tr", x)
    BY <1>3, <2>1, <2>2, <2>3, ItemFits
  <2> QED
    BY <2>1, <2>4 DEF x
<1> HIDE DEF W
<1>5. BodyFits(v, "role_tr", RoleTransItems(d))
  BY <1>2, <1>4 DEF BodyFits, Spans
<1>6. {ReadRoleTrans(x) : x \in ToSet(RoleTransItems(d))} = S
  BY <1>2, <1>4 DEF Spans
<1>7. S = d.role_tr
  BY VersionIs DEF PolicyOK, RecordsOK, OfProcess, RoleTransOK, POLICYDB_VERSION_ROLETRANS
<1> QED
  BY <1>5, <1>6, <1>7

LEMMA RangeTransBody ==
  ASSUME NEW d, PolicyOK(d)
  PROVE  /\ BodyFits(d.vers, "range_tr", RangeTransItems(d))
         /\ {ReadRangeTrans(x) : x \in ToSet(RangeTransItems(d))} = d.range_tr
<1> DEFINE S == OfProcess(d.range_tr, d.vers >= POLICYDB_VERSION_RANGETRANS)
           v == d.vers
           W(r) == WriteRangeTrans(v, r)
<1>1. v \in Nat /\ IsFiniteSet(S) /\ \A r \in S : RangeTransOK(v, r)
  <2>1. OfProcess(d.range_tr, d.vers >= POLICYDB_VERSION_RANGETRANS) = d.range_tr
    BY VersionIs DEF PolicyOK, RecordsOK, OfProcess, RangeTransOK, POLICYDB_VERSION_RANGETRANS
  <2>2. IsFiniteSet(d.range_tr) /\ \A r \in d.range_tr : RangeTransOK(v, r)
    BY DEF PolicyOK, FiniteOK, RecordsOK
  <2> HIDE DEF v
  <2> QED
    BY <2>1, <2>2, VersionIs DEF v
<1>2. Spans(RangeTransItems(d), {W(r) : r \in S})
  BY <1>1, RangeTransItemsAre
<1>3. "range_tr" \in SectionNames /\ ~Bare("range_tr")
  BY DEF SectionNames, SymNames, Bare, Alone
<1>4. ASSUME NEW r \in S
      PROVE  Fits(v, "range_tr", W(r)) /\ Plain("range_tr", W(r)) /\ ReadRangeTrans(W(r)) = r
  <2> DEFINE x == W(r)
             F == RangeTransFields(v)
  <2>1. /\ x.k = "range_tr" /\ DOMAIN x = {"k"} \cup F /\ ReadRangeTrans(x) = r
    BY <1>1, RangeTransIs
  <2> HIDE DEF x
  <2>2. F = ItemFields(v, "range_tr") /\ F \subseteq NamesOfFields
    BY ListSections, FieldsAre
  <2>3. InnerFits(v, "range_tr", x)
    BY <1>3, <2>1, InnerSections DEF OconNames
  <2> HIDE DEF F
  <2>4. Fits(v, "range_tr", x) /\ Plain("range_tr", x)
    BY <1>3, <2>1, <2>2, <2>3, ItemFits
  <2> QED
    BY <2>1, <2>4 DEF x
<1> HIDE DEF W
<1>5. BodyFits(v, "range_tr", RangeTransItems(d))
  BY <1>2, <1>4 DEF BodyFits, Spans
<1>6. {ReadRangeTrans(x) : x \in ToSet(RangeTransItems(d))} = S
  BY <1>2, <1>4 DEF Spans
<1>7. S = d.range_tr
  BY VersionIs DEF PolicyOK, RecordsOK, OfProcess, RangeTransOK, POLICYDB_VERSION_RANGETRANS
<1> QED
  BY <1>5, <1>6, <1>7

LEMMA NameBody ==
  ASSUME NEW d, PolicyOK(d), NEW tab \in NameTabs
  PROVE  /\ BodyFits(d.vers, tab, NameItems(d, tab))
         /\ {x.name : x \in ToSet(NameItems(d, tab))} = d[tab]
<1> DEFINE S == d[tab]
           v == d.vers
           W(n) == WriteName(tab, n)
<1>1. IsFiniteSet(S)
  BY DEF PolicyOK, FiniteOK, NameTabs
<1>2. Spans(NameItems(d, tab), {W(n) : n \in S})
  BY <1>1, NameItemsAre
<1>3. tab \in SectionNames /\ ~Bare(tab) /\ tab # "te_avtab"
  BY DEF SectionNames, SymNames, NameTabs, Bare, Alone
<1>4. ASSUME NEW n \in S
      PROVE  Fits(v, tab, W(n)) /\ Plain(tab, W(n)) /\ W(n).name = n
  <2> DEFINE x == W(n)
             F == {"name"}
  <2>1. x.k = tab /\ DOMAIN x = {"k"} \cup F /\ x.name = n
    BY DEF WriteName
  <2> HIDE DEF x
  <2>2. F = ItemFields(v, tab) /\ F \subseteq NamesOfFields
    BY ListSections, FieldsAre
  <2>3. InnerFits(v, tab, x)
    <3>1. tab \notin OconNames /\ tab # "classes" /\ tab # "genfs"
      BY DEF OconNames, NameTabs
    <3> QED
      BY <1>3, <3>1, InnerSections
  <2> HIDE DEF F
  <2>4. Fits(v, tab, x) /\ Plain(tab, x)
    BY <1>3, <2>1, <2>2, <2>3, ItemFits
  <2> QED
    BY <2>1, <2>4 DEF x
<1> HIDE DEF W
<1>5. BodyFits(v, tab, NameItems(d, tab))
  BY <1>2, <1>4 DEF BodyFits, Spans
<1>6. {x.name : x \in ToSet(NameItems(d, tab))} = S
  BY <1>2, <1>4 DEF Spans
<1> QED
  BY <1>5, <1>6

LEMMA OconBody ==
  ASSUME NEW d, PolicyOK(d), NEW kind \in OconNames
  PROVE  /\ BodyFits(d.vers, kind, OconItems(d, kind))
         /\ {ReadOcontext(x) : x \in ToSet(OconItems(d, kind))} = d.ocontexts[kind]
<1> DEFINE S == d.ocontexts[kind]
           v == d.vers
           W(o) == WriteOcontext(v, kind, o)
<1>1. v \in Nat /\ IsFiniteSet(S) /\ \A o \in S : OcontextOK(v, o)
  <2>1. ToSet(Ocontexts) = OconNames
    BY NamesAre
  <2> QED
    BY <2>1, VersionIs DEF PolicyOK, OcontextsOK
<1>2. Spans(OconItems(d, kind), {W(o) : o \in S})
  BY <1>1, OconItemsAre
<1>3. kind \in SectionNames /\ ~Bare(kind) /\ kind # "te_avtab"
  BY DEF SectionNames, OconNames, Bare, Alone
<1>4. ASSUME NEW o \in S
      PROVE  Fits(v, kind, W(o)) /\ Plain(kind, W(o)) /\ ReadOcontext(W(o)) = o
  <2> DEFINE x == W(o)
             F == {"id", "contexts"}
  <2>1. /\ x.k = kind /\ DOMAIN x = {"k"} \cup F /\ ReadOcontext(x) = o
        /\ \A i \in DOMAIN x.contexts : DOMAIN x.contexts[i] = ContextFields(v)
    BY <1>1, OcontextIs
  <2> HIDE DEF x
  <2>2. F = ItemFields(v, kind) /\ F \subseteq NamesOfFields
    BY ListSections, FieldsAre
  <2>3. InnerFits(v, kind, x)
    BY <2>1, InnerSections
  <2> HIDE DEF F
  <2>4. Fits(v, kind, x) /\ Plain(kind, x)
    BY <1>3, <2>1, <2>2, <2>3, ItemFits
  <2> QED
    BY <2>1, <2>4 DEF x
<1> HIDE DEF W
<1>5. BodyFits(v, kind, OconItems(d, kind))
  BY <1>2, <1>4 DEF BodyFits, Spans
<1>6. {ReadOcontext(x) : x \in ToSet(OconItems(d, kind))} = S
  BY <1>2, <1>4 DEF Spans
<1> QED
  BY <1>5, <1>6

LEMMA CondBody ==
  ASSUME NEW d, PolicyOK(d), NEW m \in BOOLEAN, m => d.vers = 30
  PROVE  /\ BodyFits(d.vers, "cond_list", CondItems(d, m))
         /\ {ReadCond(d.vers, x) : x \in ToSet(CondItems(d, m))} = d.cond_list
<1> DEFINE S == d.cond_list
           v == d.vers
           W(n) == WriteCond(d, m, n)
           R(x) == ReadCond(v, x)
<1>1. v \in 15..33 /\ d.nprim \in Nat /\ IsFiniteSet(S) /\ \A n \in S : CondOK(d, n)
  BY VersionIs DEF PolicyOK, FiniteOK, CondsOK
<1>2. Spans(CondItems(d, m), {W(n) : n \in S})
  BY <1>1, CondItemsAre
<1>3. "cond_list" \in SectionNames /\ ~Bare("cond_list")
  BY DEF SectionNames, SymNames, Bare, Alone
<1>4. ASSUME NEW n \in S
      PROVE  Fits(v, "cond_list", W(n)) /\ Plain("cond_list", W(n)) /\ R(W(n)) = n
  <2> DEFINE x == W(n)
             F == {"state", "expr", "true_list", "false_list"}
  <2>1. x.k = "cond_list" /\ DOMAIN x = {"k"} \cup F /\ R(x) = n
    BY <1>1, CondIs
  <2> HIDE DEF x
  <2>2. F = ItemFields(v, "cond_list") /\ F \subseteq NamesOfFields
    BY ListSections, FieldsAre
  <2>3. InnerFits(v, "cond_list", x)
    BY <1>3, <2>1, InnerSections DEF OconNames
  <2> HIDE DEF F
  <2>4. Fits(v, "cond_list", x) /\ Plain("cond_list", x)
    BY <1>3, <2>1, <2>2, <2>3, ItemFits
  <2> QED
    BY <2>1, <2>4 DEF x
<1> HIDE DEF W
<1>5. BodyFits(v, "cond_list", CondItems(d, m))
  BY <1>2, <1>4 DEF BodyFits, Spans
<1>6. {R(x) : x \in ToSet(CondItems(d, m))} = S
  BY <1>2, <1>4 DEF Spans
<1> QED
  BY <1>5, <1>6

LEMMA FtBody ==
  ASSUME NEW d, PolicyOK(d)
  PROVE  BodyFits(d.vers, "filename_trans", FtItems(d))
<1> DEFINE v == d.vers
           F == FilenameTransFields(v)
<1>1. Spans(FtItems(d), FtSet(d))
  BY FtItemsAre DEF PolicyOK, FiniteOK, RecordsOK
<1>2. \A x \in FtSet(d) : x.k = "filename_trans" /\ DOMAIN x = {"k"} \cup F
  BY VersionIs, FtSetIs
<1>3. "filename_trans" \in SectionNames /\ ~Bare("filename_trans")
  BY DEF SectionNames, SymNames, Bare, Alone
<1>4. F = ItemFields(v, "filename_trans") /\ F \subseteq NamesOfFields
  BY ListSections, FieldsAre
<1> HIDE DEF F
<1>5. ASSUME NEW x \in FtSet(d)
      PROVE  Fits(v, "filename_trans", x) /\ Plain("filename_trans", x)
  <2>1. InnerFits(v, "filename_trans", x)
    BY <1>3, InnerSections DEF OconNames
  <2> QED
    BY <1>2, <1>3, <1>4, <2>1, ItemFits
<1> QED
  BY <1>1, <1>2, <1>5 DEF BodyFits, Spans

\* The sections that are bitmaps and have no number in front.
LEMMA BareBodies ==
  ASSUME NEW d, PolicyOK(d)
  PROVE  /\ BodyFits(d.vers, "header", <<Header(d)>>)
         /\ BodyFits(d.vers, "policycaps", <<Bitmap(d.policycaps)>>)
         /\ UNION {x.bits : x \in ToSet(<<Bitmap(d.policycaps)>>)} = d.policycaps
         /\ BodyFits(d.vers, "permissive", <<Bitmap(d.permissive)>>)
         /\ UNION {x.bits : x \in ToSet(<<Bitmap(d.permissive)>>)} = d.permissive
         /\ BodyFits(d.vers, "type_attr_map", RowItems(d)) /\ Len(RowItems(d)) = d.nprim
         /\ \A i \in 1..d.nprim : RowItems(d)[i].bits = d.type_attr_map[i]
<1> DEFINE v == d.vers
<1>1. ASSUME NEW x
      PROVE  IsList(<<x>>) /\ ToSet(<<x>>) = {x}
  <2> DEFINE w == <<x>>
  <2>1. w \in Seq({x}) /\ Len(w) = 1 /\ w[1] = x
    OBVIOUS
  <2> HIDE DEF w
  <2>2. ToSet(w) = {w[i] : i \in 1..1}
    BY <2>1, ToSetIs
  <2>3. ToSet(w) = {x}
    BY <2>1, <2>2
  <2> QED
    BY <2>1, <2>3 DEF IsList, w
<1>2. Fits(v, "header", Header(d)) /\ Plain("header", Header(d))
  <2> DEFINE h == Header(d)
  <2>1. h.k = "header" /\ DOMAIN h = {"k", "vers", "mls", "sym_num", "ocon_num"}
    BY DEF Header
  <2> HIDE DEF h
  <2>2. Fits(v, "header", h)
    <3>1. \A sec, x : sec = "header" /\ x.k = sec => Fits(v, sec, x)
      BY DEF Fits
    <3> QED
      BY <2>1, <3>1
  <2>3. Plain("header", h)
    BY <2>1 DEF Plain
  <2> QED
    BY <2>2, <2>3 DEF h
<1>3. ASSUME NEW set
      PROVE  /\ Fits(v, "policycaps", Bitmap(set)) /\ Plain("policycaps", Bitmap(set))
             /\ Fits(v, "permissive", Bitmap(set)) /\ Plain("permissive", Bitmap(set))
             /\ Fits(v, "type_attr_map", Bitmap(set)) /\ Plain("type_attr_map", Bitmap(set))
             /\ Bitmap(set).bits = set
  BY DEF Fits, Plain, Bitmap, Alone
<1>4. BodyFits(v, "header", <<Header(d)>>)
  BY <1>1, <1>2 DEF BodyFits
<1>5. ASSUME NEW set
      PROVE  /\ BodyFits(v, "policycaps", <<Bitmap(set)>>)
             /\ BodyFits(v, "permissive", <<Bitmap(set)>>)
             /\ UNION {x.bits : x \in ToSet(<<Bitmap(set)>>)} = set
  <2> DEFINE b == Bitmap(set)
             w == <<b>>
  <2>1. b.bits = set /\ IsList(w) /\ ToSet(w) = {b}
    BY <1>1, <1>3
  <2>2. /\ Fits(v, "policycaps", b) /\ Plain("policycaps", b)
        /\ Fits(v, "permissive", b) /\ Plain("permissive", b)
    BY <1>3
  <2> HIDE DEF b, w
  <2>3. BodyFits(v, "policycaps", w) /\ BodyFits(v, "permissive", w)
    BY <2>1, <2>2 DEF BodyFits
  <2>4. UNION {x.bits : x \in ToSet(w)} = set
    BY <2>1
  <2> QED
    BY <2>3, <2>4 DEF b, w
<1>6. /\ BodyFits(v, "type_attr_map", RowItems(d)) /\ Len(RowItems(d)) = d.nprim
      /\ \A i \in 1..d.nprim : RowItems(d)[i].bits = d.type_attr_map[i]
  <2> DEFINE s == RowItems(d)
             n == d.nprim
  <2>1. /\ IsList(s) /\ Len(s) = n /\ n \in Nat
        /\ \A i \in 1..n : s[i] = Bitmap(d.type_attr_map[i])
    BY VersionIs, RowItemsAre
  <2> HIDE DEF s, n
  <2>2. ToSet(s) = {s[i] : i \in 1..n}
    BY <2>1, ToSetIs DEF IsList
  <2>3. \A x \in ToSet(s) : Fits(v, "type_attr_map", x) /\ Plain("type_attr_map", x)
    BY <1>3, <2>1, <2>2
  <2>4. \A i \in 1..n : s[i].bits = d.type_attr_map[i]
    BY <1>3, <2>1
  <2> QED
    BY <2>1, <2>3, <2>4 DEF BodyFits, s, n
<1> QED
  BY <1>4, <1>5, <1>6

\* The rules carry the table that the version can write.
LEMMA RuleBody ==
  ASSUME NEW d, PolicyOK(d), NEW m \in BOOLEAN, m => d.vers = 30, NEW order \in Orders(d)
  PROVE  /\ BodyFits(d.vers, "te_avtab", RuleItems(d, m, order))
         /\ Carry(d.vers, RuleItems(d, m, order), Written(d, d.te_avtab))
<1> DEFINE s == RuleItems(d, m, order)
           v == d.vers
<1>1. Carry(v, s, Written(d, d.te_avtab))
  <2>1. TableOK(d, d.te_avtab)
    BY DEF PolicyOK
  <2> QED
    BY <2>1, VersionIs, RuleItemsAre
<1> HIDE DEF s
<1>2. AreRules(s)
  BY <1>1 DEF Carry
<1>3. \A x \in ToSet(s) : Fits(v, "te_avtab", x) /\ Plain("te_avtab", x)
  BY <1>2 DEF AreRules, Fits, Plain, Alone, RuleNames
<1>4. BodyFits(v, "te_avtab", s)
  BY <1>2, <1>3 DEF AreRules, BodyFits
<1> QED
  BY <1>1, <1>4 DEF s

(***************************************************************************)
(* The file of a policy, as its reader lays it out.                        *)
(***************************************************************************)
Saves(d, m, order) ==
  /\ PolicyOK(d) /\ m \in BOOLEAN /\ order \in Orders(d)
  /\ m => d.vers = 30

\* Every item of a file fits the section it is in.
LEMMA BodiesFit ==
  ASSUME NEW d, NEW m, NEW order, Saves(d, m, order), NEW sec \in SectionNames
  PROVE  BodyFits(d.vers, sec, Bodies(d, m, order)[sec])
<1> DEFINE b == Bodies(d, m, order)
           v == d.vers
<1>1. PolicyOK(d) /\ m \in BOOLEAN /\ order \in Orders(d) /\ (m => d.vers = 30)
  BY DEF Saves
<1>2. /\ b["header"] = <<Header(d)>>
      /\ b["policycaps"] = <<Bitmap(d.policycaps)>>
      /\ b["permissive"] = <<Bitmap(d.permissive)>>
      /\ b["classes"] = ClassItems(d) /\ b["roles"] = RoleItems(d)
      /\ b["types"] = TypeItems(d) /\ b["users"] = UserItems(d)
      /\ b["te_avtab"] = RuleItems(d, m, order) /\ b["cond_list"] = CondItems(d, m)
      /\ b["role_tr"] = RoleTransItems(d) /\ b["role_allow"] = RoleAllowItems(d)
      /\ b["filename_trans"] = FtItems(d) /\ b["genfs"] = GenfsItems(d)
      /\ b["range_tr"] = RangeTransItems(d) /\ b["type_attr_map"] = RowItems(d)
      /\ \A kind \in OconNames : b[kind] = OconItems(d, kind)
      /\ \A tab \in NameTabs : b[tab] = NameItems(d, tab)
  BY BodyIs
<1> HIDE DEF b
<1>3. BodyFits(v, "classes", b["classes"]) /\ BodyFits(v, "roles", b["roles"])
  BY <1>1, <1>2, ClassBody, RoleBody
<1>4. BodyFits(v, "types", b["types"]) /\ BodyFits(v, "users", b["users"])
  BY <1>1, <1>2, TypeBody, UserBody
<1>5. BodyFits(v, "te_avtab", b["te_avtab"]) /\ BodyFits(v, "cond_list", b["cond_list"])
  BY <1>1, <1>2, RuleBody, CondBody
<1>6. BodyFits(v, "role_tr", b["role_tr"]) /\ BodyFits(v, "role_allow", b["role_allow"])
  BY <1>1, <1>2, RoleTransBody, RoleAllowBody
<1>7. BodyFits(v, "filename_trans", b["filename_trans"]) /\ BodyFits(v, "genfs", b["genfs"])
  BY <1>1, <1>2, FtBody, GenfsBody
<1>8. BodyFits(v, "range_tr", b["range_tr"])
  BY <1>1, <1>2, RangeTransBody
<1>9. /\ BodyFits(v, "header", b["header"]) /\ BodyFits(v, "policycaps", b["policycaps"])
      /\ BodyFits(v, "permissive", b["permissive"])
      /\ BodyFits(v, "type_attr_map", b["type_attr_map"])
  BY <1>1, <1>2, BareBodies
<1>10. \A kind \in OconNames : BodyFits(v, kind, b[kind])
  BY <1>1, <1>2, OconBody
<1>11. \A tab \in NameTabs : BodyFits(v, tab, b[tab])
  BY <1>1, <1>2, NameBody
<1>12. BodyFits(v, sec, b[sec])
  BY <1>3, <1>4, <1>5, <1>6, <1>7, <1>8, <1>9, <1>10, <1>11 DEF SectionNames, SymNames
<1> QED
  BY <1>12 DEF b

\* The number in front of the types is how many follow.
LEMMA TypeItemsCounted ==
  ASSUME NEW d, IsFiniteSet(WrittenTypes(d))
  PROVE  Len(TypeItems(d)) = TypeCount(d) /\ TypeCount(d) \in Nat
<1> DEFINE S == WrittenTypes(d)
           l == Listed(S)
           n == Len(l)
<1>1. Enumerates(l, S)
  BY ListedIs
<1>2. TypeItems(d) = [i \in DOMAIN l |-> WriteType(d.vers, l[i])]
  BY DEF TypeItems, Items
<1> HIDE DEF l, S
<1>3. l \in Seq(S) /\ ToSet(l) = S /\ \A i, j \in DOMAIN l : l[i] = l[j] => i = j
  BY <1>1 DEF Enumerates
<1>4. n \in Nat /\ DOMAIN l = 1..n /\ l \in [1..n -> S]
  BY <1>3
<1>5. S = {l[i] : i \in 1..n}
  BY <1>3, ToSetIs
<1>6. Len(TypeItems(d)) = n
  BY <1>2, <1>4
<1> HIDE DEF n
<1>7. l \in Bijection(1..n, S)
  BY <1>3, <1>4, <1>5 DEF Bijection, Injection, Surjection, IsInjective
<1>9. Cardinality(S) = n
  <2>1. ExistsBijection(1..n, S)
    BY <1>7 DEF ExistsBijection
  <2> QED
    BY <1>4, <2>1, FS_CountingElements
<1> QED
  BY <1>4, <1>6, <1>9 DEF TypeCount, S

\* A section as it is written, w, and without the number of its items, b.
IsWord(x) == x.k = "nel" /\ "bytes" \notin DOMAIN x /\ x.n \in Nat
Wraps(w, b, sec, nprim) ==
  /\ IsList(w) /\ IsList(b)
  /\ Bare(sec) => w = b
  /\ Alone(sec) => Len(b) = 1
  /\ sec = "type_attr_map" => Len(b) = nprim
  /\ ~Bare(sec) =>
       /\ Len(w) = Len(b) + 1 /\ Len(b) \in Nat
       /\ IsWord(w[1]) /\ "n" \in DOMAIN w[1] /\ w[1].n = Len(b)
       /\ "nprim" \in DOMAIN w[1] <=> sec = "types"
       /\ \A j \in 1..Len(b) : w[j + 1] = b[j]
       /\ ToSet(w) = {w[1]} \cup ToSet(b)
  /\ sec = "types" => w[1].nprim = nprim

\* A section as written is its items behind their number.
LEMMA SegmentWraps ==
  ASSUME NEW d, NEW m, NEW order, Saves(d, m, order), NEW sec \in SectionNames
  PROVE  Wraps(Segments(d, m, order)[sec], Bodies(d, m, order)[sec], sec, d.nprim)
<1> DEFINE w == Segments(d, m, order)[sec]
           b == Bodies(d, m, order)[sec]
           n == Len(b)
<1>1. IsList(b)
  BY BodiesFit DEF BodyFits
<1>2. /\ Bare(sec) => w = b
      /\ ~Bare(sec) /\ sec # "types" => w = Counted(b)
      /\ sec = "types" => w = <<Also(Nel(TypeCount(d)), [nprim |-> d.nprim])>> \o b
  BY SegmentIs
<1>3. n \in Nat
  <2>1. b \in Seq(ToSet(b))
    BY <1>1 DEF IsList
  <2> HIDE DEF b
  <2> QED
    BY <2>1
<1>4. PolicyOK(d) /\ d.nprim \in Nat
  BY VersionIs DEF Saves
<1>5. Alone(sec) => n = 1
  <2>1. \A x : Len(<<x>>) = 1
    OBVIOUS
  <2>2. /\ Bodies(d, m, order)["header"] = <<Header(d)>>
        /\ Bodies(d, m, order)["policycaps"] = <<Bitmap(d.policycaps)>>
        /\ Bodies(d, m, order)["permissive"] = <<Bitmap(d.permissive)>>
    BY BodyIs
  <2> QED
    BY <2>1, <2>2 DEF Alone
<1>6. sec = "type_attr_map" => n = d.nprim
  <2>1. Bodies(d, m, order)["type_attr_map"] = RowItems(d)
    BY BodyIs
  <2>2. Len(RowItems(d)) = d.nprim
    BY <1>4, BareBodies
  <2> QED
    BY <2>1, <2>2
<1>7. sec = "types" => n = TypeCount(d)
  <2>1. IsFiniteSet(WrittenTypes(d))
    <3>1. IsFiniteSet(d.types) /\ WrittenTypes(d) \subseteq d.types
      BY <1>4 DEF PolicyOK, FiniteOK, WrittenTypes
    <3> QED
      BY <3>1, FS_Subset
  <2> QED
    BY <2>1, TypeItemsCounted, BodyIs
<1> HIDE DEF w, b
<1>8. ASSUME Bare(sec)
      PROVE  Wraps(w, b, sec, d.nprim)
  <2>1. sec # "types"
    BY <1>8 DEF Bare, Alone
  <2> HIDE DEF n
  <2> QED
    BY <1>1, <1>2, <1>5, <1>6, <1>8, <2>1 DEF Wraps, n
<1>9. ASSUME ~Bare(sec)
      PROVE  Wraps(w, b, sec, d.nprim)
  <2> DEFINE x == IF sec = "types" THEN Also(Nel(TypeCount(d)), [nprim |-> d.nprim]) ELSE Nel(n)
  <2>1. w = <<x>> \o b
    BY <1>2, <1>9 DEF Counted
  <2>2. /\ x.k = "nel" /\ "bytes" \notin DOMAIN x /\ "n" \in DOMAIN x /\ x.n = n
        /\ "nprim" \in DOMAIN x <=> sec = "types"
        /\ sec = "types" => x.nprim = d.nprim
    BY <1>7 DEF Also, Nel
  <2> HIDE DEF x
  <2>3. /\ Spans(w, {x} \cup ToSet(b)) /\ Len(w) = Len(b) + 1 /\ w[1] = x
        /\ \A i \in 1..Len(b) : w[i + 1] = b[i]
    BY <1>1, <2>1, BehindWord
  <2>4. IsWord(x)
    BY <1>3, <2>2 DEF IsWord
  <2>5. ~Alone(sec) /\ sec # "type_attr_map"
    BY <1>9 DEF Bare
  <2> HIDE DEF n
  <2> QED
    BY <1>1, <1>3, <1>9, <2>2, <2>3, <2>4, <2>5 DEF Wraps, Spans, n
<1> QED
  BY <1>8, <1>9 DEF w, b

LEMMA ListWithin ==
  ASSUME NEW s, IsList(s), NEW U, ToSet(s) \subseteq U
  PROVE  s \in Seq(U)
<1> DEFINE T == ToSet(s)
<1>1. s \in Seq(T)
  BY DEF IsList
<1> HIDE DEF T
<1>2. T \subseteq U
  BY DEF T
<1> QED
  BY <1>1, <1>2

LEMMA ListItems ==
  ASSUME NEW s, IsList(s)
  PROVE  /\ Len(s) \in Nat /\ DOMAIN s = 1..Len(s)
         /\ ToSet(s) = {s[i] : i \in 1..Len(s)}
<1> DEFINE T == ToSet(s)
<1>1. s \in Seq(T)
  BY DEF IsList
<1> HIDE DEF T
<1> QED
  BY <1>1, ToSetIs

\* All items of a file, and the words in front of its lists.
FileItems(d, m, order) == UNION {ToSet(Segments(d, m, order)[sec]) : sec \in SectionNames}

\* What LayoutIs takes for granted of a file holds of the file of a policy.
LEMMA ItemsAre ==
  ASSUME NEW d, NEW m, NEW order, Saves(d, m, order)
  PROVE  LET w == Segments(d, m, order)
             b == Bodies(d, m, order)
             U == FileItems(d, m, order)
         IN  /\ Headed(w, b, SectionNames, d.nprim) /\ Numbered(U)
             /\ \A sec \in SectionNames : w[sec] \in Seq(U) /\ b[sec] \in Seq(U)
<1> DEFINE w == Segments(d, m, order)
           b == Bodies(d, m, order)
           U == FileItems(d, m, order)
           n == d.nprim
<1>1. \A sec \in SectionNames : Wraps(w[sec], b[sec], sec, n)
  BY SegmentWraps
<1>2. \A sec \in SectionNames : BodyFits(d.vers, sec, b[sec])
  BY BodiesFit
<1>3. n \in Nat
  BY VersionIs DEF Saves
<1>4. U = UNION {ToSet(w[sec]) : sec \in SectionNames}
  BY DEF FileItems
<1> HIDE DEF w, b, U, n
<1>5. Headed(w, b, SectionNames, n)
  <2>1. ASSUME NEW sec \in SectionNames
        PROVE  /\ Bare(sec) => w[sec] = b[sec]
               /\ Alone(sec) => Len(b[sec]) = 1
               /\ sec = "type_attr_map" => Len(b[sec]) = n
               /\ ~Bare(sec) =>
                    /\ Len(w[sec]) = Len(b[sec]) + 1
                    /\ "n" \in DOMAIN w[sec][1] /\ w[sec][1].n = Len(b[sec])
                    /\ \A j \in 1..Len(b[sec]) : w[sec][j + 1] = b[sec][j]
               /\ sec = "types" => "nprim" \in DOMAIN w[sec][1] /\ w[sec][1].nprim = n
    <3>1. Wraps(w[sec], b[sec], sec, n)
      BY <1>1
    <3>2. sec = "types" => ~Bare(sec)
      BY DEF Bare, Alone
    <3> QED
      BY <3>1, <3>2 DEF Wraps
  <2> QED
    BY <2>1 DEF Headed
<1>6. Numbered(U)
  <2>1. ASSUME NEW sec \in SectionNames, NEW x \in ToSet(w[sec])
        PROVE  /\ "n" \in DOMAIN x => x.n \in Nat
               /\ "nprim" \in DOMAIN x => x.nprim \in Nat
    <3>1. Wraps(w[sec], b[sec], sec, n)
      BY <1>1
    <3>2. \A y \in ToSet(b[sec]) : "n" \notin DOMAIN y /\ "nprim" \notin DOMAIN y
      BY <1>2 DEF BodyFits, Plain
    <3>3. CASE x \in ToSet(b[sec])
      BY <3>2, <3>3
    <3>4. CASE x \notin ToSet(b[sec])
      <4>1. ~Bare(sec) /\ x = w[sec][1]
        BY <3>1, <3>4 DEF Wraps
      <4> QED
        BY <1>3, <3>1, <4>1 DEF Wraps, IsWord
    <3> QED
      BY <3>3, <3>4
  <2> QED
    BY <1>4, <2>1 DEF Numbered
<1>7. ASSUME NEW sec \in SectionNames
      PROVE  w[sec] \in Seq(U) /\ b[sec] \in Seq(U)
  <2>1. Wraps(w[sec], b[sec], sec, n)
    BY <1>1
  <2>2. IsList(w[sec]) /\ IsList(b[sec]) /\ ToSet(b[sec]) \subseteq ToSet(w[sec])
    BY <2>1 DEF Wraps
  <2>3. ToSet(w[sec]) \subseteq U
    BY <1>4
  <2> QED
    BY <2>2, <2>3, ListWithin
<1> QED
  BY <1>5, <1>6, <1>7 DEF w, b, U, n

FoundIn(layout, f, b, d) ==
  /\ f # <<>> /\ f[1] = Header(d)
  /\ layout.at = Len(f) + 1 /\ layout.nprim = d.nprim
  /\ Holding(layout.parts, b, ToSet(Sections(d.vers)))

\* The reader finds the sections of a policy's file as they were written.
LEMMA FileIs ==
  ASSUME NEW d, NEW m, NEW order, Saves(d, m, order)
  PROVE  FoundIn(Layout(Image(d, m, order)), Image(d, m, order), Bodies(d, m, order), d)
<1> DEFINE w == Segments(d, m, order)
           b == Bodies(d, m, order)
           U == FileItems(d, m, order)
           f == Image(d, m, order)
           n == d.nprim
           v == d.vers
           secs == Sections(v)
<1>1. v \in 15..33 /\ n \in Nat
  BY VersionIs DEF Saves
<1>2. /\ Headed(w, b, SectionNames, n) /\ Numbered(U)
      /\ \A sec \in SectionNames : w[sec] \in Seq(U) /\ b[sec] \in Seq(U)
  BY ItemsAre
<1>3. Spells(w, SectionNames, U, secs, f)
  BY <1>1, <1>2, ImageIs
<1>4. secs \in Seq(SectionNames) /\ TypesBefore(secs) /\ Begins(secs, "header")
  BY <1>1, SectionsAre
<1>5. "types" \in ToSet(secs)
  <2>1. ToSet(secs) = FrontSections(v) \cup Given(v >= 20, {"type_attr_map"})
    BY <1>1, SectionsAre
  <2>2. 4 \in 1..SymNum(v) /\ Symtabs[4] = "types"
    <3>1. SymNum(v) \in 1..8 /\ SymNum(v) >= 5
      BY <1>1, NumbersOfTables
    <3>2. 4 \in 1..SymNum(v)
      BY <3>1
    <3> QED
      BY <3>2, NamesAre
  <2> QED
    BY <2>1, <2>2 DEF FrontSections
<1>6. w["header"] = <<Header(d)>>
  <2>1. "header" \in SectionNames /\ Bare("header")
    BY DEF SectionNames, Bare, Alone
  <2>2. w["header"] = b["header"]
    BY <2>1, SegmentIs
  <2>3. b["header"] = <<Header(d)>>
    BY BodyIs
  <2> QED
    BY <2>2, <2>3
<1> HIDE DEF w, b, U, f, n, secs
<1>7. f # <<>> /\ f[1] = Header(d)
  <2> DEFINE h == w["header"]
  <2>1. Len(h) = 1 /\ h[1] = Header(d)
    BY <1>6
  <2> HIDE DEF h
  <2>2. PICK st : Places(st, w, secs, f)
    BY <1>3 DEF Spells
  <2>3. Len(secs) \in Nat /\ Len(secs) > 0 /\ secs[1] = "header" /\ f \in Seq(U)
    BY <1>3, <1>4 DEF Begins, Spells
  <2>4. /\ st[1] = 0 /\ st[1 + 1] = st[1] + Len(h) /\ f[st[1] + 1] = h[1]
        /\ st[1 + 1] \in 0..Len(f)
    <3>1. 1 \in 1..Len(secs) /\ 1 + 1 \in 1..(Len(secs) + 1) /\ 1 \in 1..Len(h)
      BY <2>1, <2>3
    <3> QED
      BY <2>2, <2>3, <3>1 DEF Places, h
  <2>5. f[1] = h[1] /\ 1 \in 0..Len(f)
    BY <2>1, <2>4
  <2>6. f # <<>>
    BY <2>3, <2>5
  <2> QED
    BY <2>1, <2>5, <2>6
<1>8. Sections(f[1].vers) = secs
  BY <1>7 DEF Header, secs
<1>9. /\ Layout(f).at = Len(f) + 1
      /\ "types" \in ToSet(secs) => Layout(f).nprim = n
      /\ Holding(Layout(f).parts, b, ToSet(secs))
  BY <1>1, <1>2, <1>3, <1>4, <1>7, <1>8, LayoutIs
<1>10. FoundIn(Layout(f), f, b, d)
  BY <1>5, <1>7, <1>9 DEF FoundIn, secs, n
<1> QED
  BY <1>10 DEF f, b

\* Every item of a file is in one of its sections.
LEMMA PlaceOf ==
  ASSUME NEW W, NEW S, NEW secs \in Seq(S), NEW f, NEW st, Places(st, W, secs, f),
         \A sec \in S : Len(W[sec]) \in Nat, Len(f) \in Nat, NEW p \in 1..Len(f)
  PROVE  \E q \in 1..Len(secs) : \E j \in 1..Len(W[secs[q]]) : p = st[q] + j
<1> DEFINE n == Len(secs)
           Found == \E q \in 1..n : \E j \in 1..Len(W[secs[q]]) : p = st[q] + j
           Good == {i \in 0..n : p <= st[i + 1] => Found}
<1>1. n \in Nat /\ \A i \in 1..n : Len(W[secs[i]]) \in Nat
  OBVIOUS
<1>2. /\ st \in [1..(n + 1) -> 0..Len(f)] /\ st[1] = 0 /\ st[n + 1] = Len(f)
      /\ \A i \in 1..n : st[i + 1] = st[i] + Len(W[secs[i]])
  BY DEF Places
<1> HIDE DEF n
<1>3. 0 \in Good
  <2>1. ~(p <= st[0 + 1])
    BY <1>2
  <2> QED
    BY <1>1, <2>1
<1>4. ASSUME NEW i \in 1..n, i - 1 \in Good
      PROVE  i \in Good
  <2> DEFINE a == st[i]
             len == Len(W[secs[i]])
  <2>1. i \in 1..(n + 1) /\ (i - 1) + 1 = i /\ i \in 0..n
    BY <1>1
  <2>2. a \in Nat /\ len \in Nat /\ st[i + 1] = a + len
    BY <1>1, <1>2, <2>1
  <2>3. p <= a => Found
    BY <1>4, <2>1
  <2>4. ASSUME p > a, p <= a + len
        PROVE  Found
    <3> HIDE DEF a, len
    <3>1. p - a \in 1..len /\ p = a + (p - a)
      BY <2>2, <2>4
    <3> QED
      BY <3>1 DEF a, len
  <2> HIDE DEF a, len, Found
  <2> QED
    BY <2>1, <2>2, <2>3, <2>4
<1> HIDE DEF Found, Good
<1>5. 0..n \subseteq Good
  BY <1>1, <1>3, <1>4, UpTo
<1>6. n \in Good
  BY <1>1, <1>5
<1>7. Found
  BY <1>2, <1>6 DEF Good
<1> QED
  BY <1>7 DEF Found, n

\* Where the extended nodes of a file are.
LEMMA ExtendedAt ==
  ASSUME NEW d, NEW m, NEW order, Saves(d, m, order), file = Image(d, m, order)
  PROVE  LET items == RuleItems(d, m, order)
         IN  \E A \in SUBSET Nat :
               /\ \A a \in A, j \in 1..Len(items) :
                     a + j \in DOMAIN file /\ file[a + j] = items[j]
               /\ \A p \in ExtendedNodes : \E a \in A, j \in 1..Len(items) : p = a + j
               /\ A # {}
<1> DEFINE w == Segments(d, m, order)
           b == Bodies(d, m, order)
           U == FileItems(d, m, order)
           S == SectionNames
           v == d.vers
           secs == Sections(v)
           n == Len(secs)
           items == RuleItems(d, m, order)
<1>1. v \in 15..33
  BY VersionIs DEF Saves
<1>2. \A sec \in S : w[sec] \in Seq(U) /\ b[sec] \in Seq(U)
  BY ItemsAre
<1>3. Spells(w, S, U, secs, file)
  BY <1>1, <1>2, ImageIs
<1>4. \A sec \in S : Wraps(w[sec], b[sec], sec, d.nprim)
  BY SegmentWraps
<1>5. \A sec \in S : BodyFits(v, sec, b[sec])
  BY BodiesFit
<1>6. b["te_avtab"] = items
  BY BodyIs
<1>7. "te_avtab" \in ToSet(secs) /\ secs \in Seq(S)
  BY <1>1, SectionsAre DEF FrontSections
<1>8. "te_avtab" \in S /\ ~Bare("te_avtab")
  BY DEF SectionNames, Bare, Alone
<1> HIDE DEF w, b, U, S, v, secs, items
<1>9. PICK st : Places(st, w, secs, file)
  BY <1>3 DEF Spells
<1>10. /\ n \in Nat /\ Len(file) \in Nat /\ DOMAIN file = 1..Len(file)
       /\ \A q \in 1..n : secs[q] \in S
       /\ \A sec \in S : Len(w[sec]) \in Nat
       /\ file \in Seq(U)
  BY <1>2, <1>3 DEF Spells
<1>11. /\ st \in [1..(n + 1) -> 0..Len(file)]
       /\ \A q \in 1..n : /\ st[q + 1] = st[q] + Len(w[secs[q]])
                          /\ \A j \in 1..Len(w[secs[q]]) : file[st[q] + j] = w[secs[q]][j]
  BY <1>9 DEF Places
<1> HIDE DEF n
<1> DEFINE Q == {q \in 1..n : secs[q] = "te_avtab"}
           A == {st[q] + 1 : q \in Q}
           len == Len(items)
<1>12. /\ Len(w["te_avtab"]) = len + 1 /\ len \in Nat
       /\ \A j \in 1..len : w["te_avtab"][j + 1] = items[j]
       /\ IsWord(w["te_avtab"][1])
  BY <1>4, <1>6, <1>8 DEF Wraps
<1>13. \A q \in 1..n : st[q] \in Nat
  <2>1. \A q \in 1..n : q \in 1..(n + 1)
    BY <1>10
  <2> QED
    BY <1>11, <2>1
<1>14. A \in SUBSET Nat
  BY <1>13
<1>15. A # {}
  <2>1. \E q \in 1..n : secs[q] = "te_avtab"
    BY <1>7, ToSetIs DEF n
  <2> QED
    BY <2>1
<1>16. ASSUME NEW a \in A, NEW j \in 1..len
       PROVE  a + j \in DOMAIN file /\ file[a + j] = items[j]
  <2>1. PICK q \in Q : a = st[q] + 1
    OBVIOUS
  <2> DEFINE z == st[q]
  <2>2. /\ z \in Nat /\ a = z + 1 /\ q + 1 \in 1..(n + 1) /\ q \in 1..n
        /\ secs[q] = "te_avtab"
    BY <1>10, <1>13, <2>1
  <2>3. /\ st[q + 1] = z + (len + 1) /\ st[q + 1] \in 0..Len(file)
        /\ \A i \in 1..(len + 1) : file[z + i] = w["te_avtab"][i]
    <3> DEFINE wlen == Len(w["te_avtab"])
    <3>1. /\ st[q + 1] = st[q] + wlen
          /\ \A i \in 1..wlen : file[st[q] + i] = w["te_avtab"][i]
      BY <1>11, <2>2
    <3>2. st[q + 1] \in 0..Len(file)
      BY <1>11, <2>2
    <3>3. wlen = len + 1
      BY <1>12
    <3> HIDE DEF wlen, len
    <3> QED
      BY <3>1, <3>2, <3>3
  <2> HIDE DEF z, A, Q, len
  <2>4. j + 1 \in 1..(len + 1) /\ a + j = z + (j + 1) /\ a + j \in 1..Len(file)
    BY <1>10, <1>12, <2>2, <2>3
  <2>5. file[a + j] = w["te_avtab"][j + 1]
    BY <2>3, <2>4
  <2> QED
    BY <1>10, <1>12, <2>4, <2>5
<1>17. ASSUME NEW p \in ExtendedNodes
       PROVE  \E a \in A, j \in 1..len : p = a + j
  <2>1. p \in 1..Len(file) /\ file[p].k = "te_avtab" /\ "bytes" \in DOMAIN file[p]
    BY <1>10 DEF ExtendedNodes
  <2>2. PICK q \in 1..n : \E j \in 1..Len(w[secs[q]]) : p = st[q] + j
    <3>1. \E q \in 1..Len(secs) : \E j \in 1..Len(w[secs[q]]) : p = st[q] + j
      <4>1. \A sec \in S : Len(w[sec]) \in Nat
        BY <1>10
      <4>2. Len(file) \in Nat /\ p \in 1..Len(file)
        BY <1>10, <2>1
      <4>3. secs \in Seq(S)
        BY <1>7
      <4> QED
        BY <1>9, <4>1, <4>2, <4>3, PlaceOf
    <3> QED
      BY <3>1 DEF n
  <2>3. PICK j \in 1..Len(w[secs[q]]) : p = st[q] + j
    BY <2>2
  <2> DEFINE sec == secs[q]
  <2>4. sec \in S /\ file[p] = w[sec][j] /\ Wraps(w[sec], b[sec], sec, d.nprim)
    BY <1>4, <1>10, <1>11, <2>3
  <2>5. w[sec][j] \in ToSet(w[sec])
    <3>1. IsList(w[sec])
      BY <2>4 DEF Wraps
    <3>2. ToSet(w[sec]) = {w[sec][i] : i \in 1..Len(w[sec])}
      BY <3>1, ListItems
    <3> QED
      BY <3>2
  <2> HIDE DEF sec
  <2>6. sec = "te_avtab"
    <3>1. CASE file[p] \in ToSet(b[sec])
      <4>1. Plain(sec, file[p])
        BY <1>5, <2>4, <3>1 DEF BodyFits
      <4> QED
        BY <2>1, <4>1 DEF Plain
    <3>2. CASE file[p] \notin ToSet(b[sec])
      <4>1. ~Bare(sec) /\ file[p] = w[sec][1]
        BY <2>4, <2>5, <3>2 DEF Wraps
      <4>2. IsWord(file[p])
        BY <2>4, <4>1 DEF Wraps
      <4> QED
        BY <2>1, <4>2 DEF IsWord
    <3> QED
      BY <3>1, <3>2
  <2>7. j # 1
    BY <1>12, <2>1, <2>4, <2>6 DEF IsWord
  <2>8. j \in 1..(len + 1)
    BY <1>12, <2>3, <2>6 DEF sec
  <2> DEFINE z == st[q]
             i == j - 1
  <2>9. z \in Nat /\ p = z + j /\ z + 1 \in A
    BY <1>13, <2>3, <2>6 DEF sec
  <2> HIDE DEF z, A, len
  <2>10. i \in 1..len /\ p = (z + 1) + i
    BY <1>12, <2>7, <2>8, <2>9
  <2> QED
    BY <2>9, <2>10
<1> HIDE DEF A
<1> QED
  BY <1>14, <1>15, <1>16, <1>17 DEF items

\* If the first extended node is mistaken, the file is an ambiguous one.
LEMMA MistakenIsAmbiguous ==
  ASSUME NEW d, NEW m, NEW order, Saves(d, m, order), file = Image(d, m, order),
         FirstMistaken(RuleItems(d, m, order))
  PROVE  Ambiguous
<1> DEFINE items == RuleItems(d, m, order)
           len == Len(items)
<1>1. PICK A \in SUBSET Nat :
        /\ \A a \in A, j \in 1..len : a + j \in DOMAIN file /\ file[a + j] = items[j]
        /\ \A p \in ExtendedNodes : \E a \in A, j \in 1..len : p = a + j
        /\ A # {}
  BY ExtendedAt
<1>2. AreRules(items)
  BY RuleBody DEF Saves, Carry
<1>3. FirstMistaken(items)
  OBVIOUS
<1> HIDE DEF items
<1>4. /\ len \in Nat /\ DOMAIN items = 1..len
      /\ \A j \in 1..len : items[j].k = "te_avtab"
  <2>1. IsList(items) /\ \A x \in ToSet(items) : x.k = "te_avtab"
    BY <1>2 DEF AreRules
  <2>2. len \in Nat /\ DOMAIN items = 1..len /\ ToSet(items) = {items[i] : i \in 1..len}
    BY <2>1, ListItems
  <2> QED
    BY <2>1, <2>2
<1>5. PICK e \in 1..len :
        /\ "bytes" \in DOMAIN items[e]
        /\ \A j \in 1..len : j < e => "bytes" \notin DOMAIN items[j]
        /\ ~items[e].optype /\ Len(items[e].bytes) = 1 /\ items[e].bytes[1] \in KindBytes
  BY <1>3, <1>4 DEF FirstMistaken
<1> HIDE DEF len
<1>6. PICK a0 \in A : \A a \in A : a0 <= a
  BY <1>1, LeastNumber
<1>7. a0 + e \in ExtendedNodes /\ file[a0 + e] = items[e]
  BY <1>1, <1>4, <1>5 DEF ExtendedNodes
<1>8. ASSUME NEW p \in ExtendedNodes
      PROVE  a0 + e <= p
  <2>1. PICK a \in A, j \in 1..len : p = a + j
    BY <1>1
  <2>2. "bytes" \in DOMAIN file[p]
    BY DEF ExtendedNodes
  <2>3. ~(j < e)
    BY <1>1, <1>5, <2>1, <2>2
  <2>4. a0 <= a /\ a0 \in Nat /\ a \in Nat
    BY <1>6
  <2> QED
    BY <1>4, <2>1, <2>3, <2>4
<1> QED
  BY <1>5, <1>7, <1>8 DEF Ambiguous

(***************************************************************************)
(* What the reader makes of the sections of a file.                        *)
(***************************************************************************)
LEMMA Presence ==
  ASSUME NEW v \in 15..33
  PROVE  LET T == ToSet(Sections(v))
         IN  /\ T \subseteq SectionNames
             /\ {"header", "commons", "classes", "roles", "types", "users", "te_avtab", "role_tr",
                 "role_allow", "genfs"} \subseteq T
             /\ "policycaps" \in T <=> v >= 22
             /\ "permissive" \in T <=> v >= 23
             /\ "bools" \in T <=> v >= 16
             /\ "levels" \in T <=> v >= 19
             /\ "cats" \in T <=> v >= 19
             /\ "cond_list" \in T <=> v >= 16
             /\ "filename_trans" \in T <=> v >= 25
             /\ "range_tr" \in T <=> v >= 19
             /\ "type_attr_map" \in T <=> v >= 20
             /\ \A kind \in OconNames : kind \in T <=> kind \in ToSet(SubSeq(Ocontexts, 1, OconNum(v)))
<1> DEFINE T == ToSet(Sections(v))
           Syms == {Symtabs[i] : i \in 1..SymNum(v)}
           Ocons == {Ocontexts[i] : i \in 1..OconNum(v)}
           Always == {"header", "te_avtab", "role_tr", "role_allow", "genfs"}
           Others == Always \cup {"policycaps", "permissive", "cond_list", "filename_trans",
                                 "range_tr", "type_attr_map"}
<1>1. T = FrontSections(v) \cup Given(v >= 20, {"type_attr_map"}) /\ Sections(v) \in Seq(SectionNames)
  BY SectionsAre
<1>2. T = Always \cup Given(v >= 22, {"policycaps"}) \cup Given(v >= 23, {"permissive"})
            \cup Given(v >= 16, {"cond_list"}) \cup Given(v >= 25, {"filename_trans"})
            \cup Given(v >= 19, {"range_tr"}) \cup Given(v >= 20, {"type_attr_map"})
            \cup Syms \cup Ocons
  BY <1>1 DEF FrontSections
<1>3. T \subseteq SectionNames
  BY <1>1, ToSetIs
<1>4. /\ SymNum(v) \in 1..8 /\ OconNum(v) \in 1..9 /\ SymNum(v) >= 5
      /\ SymNum(v) >= 6 <=> v >= 16
      /\ SymNum(v) >= 7 <=> v >= 19
      /\ SymNum(v) >= 8 <=> v >= 19
  BY NumbersOfTables
<1>5. /\ Symtabs[1] = "commons" /\ Symtabs[2] = "classes" /\ Symtabs[3] = "roles"
      /\ Symtabs[4] = "types" /\ Symtabs[5] = "users" /\ Symtabs[6] = "bools"
      /\ Symtabs[7] = "levels" /\ Symtabs[8] = "cats"
  BY NamesAre
<1>6. /\ {"commons", "classes", "roles", "types", "users"} \subseteq Syms
      /\ "bools" \in Syms <=> v >= 16
      /\ "levels" \in Syms <=> v >= 19
      /\ "cats" \in Syms <=> v >= 19
      /\ Syms \subseteq SymNames
  <2> DEFINE n == SymNum(v)
  <2>1. \A i \in 1..8 : i \in 1..n <=> n >= i
    BY <1>4
  <2>2. n \in 1..8 /\ n >= 5
    BY <1>4
  <2>3. \A x : x \in Syms <=> \E i \in 1..8 : n >= i /\ x = Symtabs[i]
    BY <2>1, <2>2
  <2> HIDE DEF Syms
  <2>4. {"commons", "classes", "roles", "types", "users"} \subseteq Syms
    BY <1>5, <2>2, <2>3
  <2>5. /\ "bools" \in Syms <=> n >= 6
        /\ "levels" \in Syms <=> n >= 7
        /\ "cats" \in Syms <=> n >= 8
    <3>1. \A i \in 1..8 : /\ Symtabs[i] = "bools" <=> i = 6
                          /\ Symtabs[i] = "levels" <=> i = 7
                          /\ Symtabs[i] = "cats" <=> i = 8
      BY <1>5
    <3> QED
      BY <2>3, <3>1
  <2>6. Syms \subseteq SymNames
    <3>1. \A i \in 1..8 : Symtabs[i] \in SymNames
      BY NamesAre
    <3> QED
      BY <2>3, <3>1
  <2> QED
    BY <1>4, <2>4, <2>5, <2>6
<1>7. Ocons \subseteq OconNames
  BY <1>4, NamesAre
<1>8. ToSet(SubSeq(Ocontexts, 1, OconNum(v))) = Ocons
  <2>1. Ocontexts \in Seq(OconNames) /\ OconNum(v) \in 1..Len(Ocontexts)
    BY <1>4, NamesAre
  <2> QED
    BY <2>1, FirstAre
<1>9. Others \cap SymNames = {} /\ Others \cap OconNames = {} /\ SymNames \cap OconNames = {}
  BY DEF SymNames, NameTabs, OconNames
<1>10. {"commons", "classes", "roles", "types", "users", "bools", "levels", "cats"} \subseteq SymNames
  BY DEF SymNames, NameTabs
<1> HIDE DEF Syms, Ocons, T
<1>11. \A tab \in SymNames : tab \in T <=> tab \in Syms
  BY <1>2, <1>7, <1>9 DEF Given
<1>12. \A kind \in OconNames : kind \in T <=> kind \in Ocons
  BY <1>2, <1>6, <1>9 DEF Given
<1>13. /\ Always \subseteq T
       /\ "policycaps" \in T <=> v >= 22
       /\ "permissive" \in T <=> v >= 23
       /\ "cond_list" \in T <=> v >= 16
       /\ "filename_trans" \in T <=> v >= 25
       /\ "range_tr" \in T <=> v >= 19
       /\ "type_attr_map" \in T <=> v >= 20
  BY <1>2, <1>6, <1>7, <1>9 DEF Given
<1>14. {"commons", "classes", "roles", "types", "users"} \subseteq T
  BY <1>6, <1>10, <1>11
<1>15. /\ "bools" \in T <=> v >= 16
       /\ "levels" \in T <=> v >= 19
       /\ "cats" \in T <=> v >= 19
  BY <1>6, <1>10, <1>11
<1>16. {"header", "commons", "classes", "roles", "types", "users", "te_avtab", "role_tr",
        "role_allow", "genfs"} \subseteq T
  BY <1>13, <1>14
<1>17. \A kind \in OconNames : kind \in T <=> kind \in ToSet(SubSeq(Ocontexts, 1, OconNum(v)))
  BY <1>8, <1>12
<1> QED
  BY <1>3, <1>13, <1>15, <1>16, <1>17 DEF T

\* The parts the reader has are the items the writer wrote, none in sections a version lacks.
LEMMA PartIs ==
  ASSUME NEW d, NEW m, NEW order, Saves(d, m, order)
  PROVE  LET parts == Layout(Image(d, m, order)).parts
             b == Bodies(d, m, order)
             T == ToSet(Sections(d.vers))
         IN  /\ DOMAIN parts = T
             /\ \A sec \in T : Part(parts, sec) = b[sec] /\ parts[sec] = b[sec]
             /\ \A sec \in SectionNames \ T : Part(parts, sec) = <<>>
<1> DEFINE parts == Layout(Image(d, m, order)).parts
           b == Bodies(d, m, order)
           T == ToSet(Sections(d.vers))
<1>1. Holding(parts, b, T)
  BY FileIs DEF FoundIn
<1>2. "header" \in T
  BY VersionIs, Presence DEF Saves
<1> HIDE DEF parts, b, T
<1>3. DOMAIN parts = T /\ \A sec \in T : parts[sec] = b[sec]
  BY <1>1, <1>2 DEF Holding
<1>4. /\ \A sec \in T : Part(parts, sec) = b[sec]
      /\ \A sec \in SectionNames \ T : Part(parts, sec) = <<>>
  BY <1>3 DEF Part, FieldOr
<1> QED
  BY <1>3, <1>4 DEF parts, b, T

\* The reader is in step with the writer.
LEMMA IsInStep ==
  ASSUME NEW d, NEW m, NEW order, Saves(d, m, order)
  PROVE  InStep(Image(d, m, order), Layout(Image(d, m, order)))
<1> DEFINE f == Image(d, m, order)
           layout == Layout(f)
           parts == layout.parts
           b == Bodies(d, m, order)
           v == d.vers
           T == ToSet(Sections(v))
<1>1. f[1].vers = v /\ layout.at = Len(f) + 1
  <2>1. FoundIn(layout, f, b, d)
    BY FileIs
  <2>2. Header(d).vers = v
    BY DEF Header
  <2> HIDE DEF f, layout, b
  <2> QED
    BY <2>1, <2>2 DEF FoundIn
<1>2. \A sec \in T : Part(parts, sec) = b[sec]
  BY PartIs
<1>3. T \subseteq SectionNames
  BY VersionIs, Presence DEF Saves
<1>4. \A sec \in SectionNames : BodyFits(v, sec, b[sec])
  BY BodiesFit
<1> HIDE DEF b, T
<1>5. ASSUME NEW sec \in T, NEW i \in DOMAIN Part(parts, sec)
      PROVE  Fits(v, sec, Part(parts, sec)[i])
  <2> DEFINE s == b[sec]
  <2>1. IsList(s) /\ \A x \in ToSet(s) : Fits(v, sec, x)
    BY <1>3, <1>4 DEF BodyFits
  <2>2. Part(parts, sec) = s
    BY <1>2
  <2> HIDE DEF s
  <2>3. s[i] \in ToSet(s)
    BY <2>1, <2>2, ListItems
  <2> QED
    BY <2>1, <2>2, <2>3
<1> HIDE DEF parts
<1>6. InStep(f, layout)
  BY <1>1, <1>5 DEF InStep, parts, T
<1> QED
  BY <1>6

\* What a file restores of the policy it was saved from.
NamedIn(types) == {t.value : t \in types}
RestoredRows(d) ==
  IF d.vers >= POLICYDB_VERSION_AVTAB THEN d.type_attr_map
  ELSE [i \in 1..d.nprim |-> IF i \in NamedIn(WrittenTypes(d)) THEN {i} ELSE {}]
Restored(d) ==
  [d EXCEPT
     !.permissive     = IF d.vers >= POLICYDB_VERSION_PERMISSIVE THEN @ ELSE {},
     !.types          = WrittenTypes(d),
     !.type_attr_map  = RestoredRows(d),
     !.te_avtab       = Written(d, @),
     !.filename_trans = FtRestored(d)]

\* The fields of Restored, all of them.
LEMMA RestoredIs ==
  ASSUME NEW d, HasFields(d)
  PROVE  LET v == d.vers
         IN  Restored(d) =
      [vers |-> d.vers, mls |-> d.mls, policycaps |-> d.policycaps,
       permissive |-> IF v >= 23 THEN d.permissive ELSE {},
       commons |-> d.commons, bools |-> d.bools,
       levels |-> d.levels, cats |-> d.cats, classes |-> d.classes, roles |-> d.roles,
       types |-> WrittenTypes(d), users |-> d.users, nprim |-> d.nprim,
       te_avtab |-> Written(d, d.te_avtab),
       cond_list |-> d.cond_list, role_tr |-> d.role_tr, role_allow |-> d.role_allow,
       filename_trans |-> FtRestored(d),
       ocontexts |-> d.ocontexts, genfs |-> d.genfs,
       range_tr |-> d.range_tr, type_attr_map |-> RestoredRows(d)]
<1> DEFINE v == d.vers
           p == IF v >= 23 THEN d.permissive ELSE {}
           t == WrittenTypes(d)
           m == RestoredRows(d)
           a == Written(d, d.te_avtab)
           f == FtRestored(d)
           x == Restored(d)
<1>1. x = [d EXCEPT !.permissive = p, !.types = t, !.type_attr_map = m, !.te_avtab = a,
                      !.filename_trans = f]
  BY DEF Restored, POLICYDB_VERSION_PERMISSIVE, HasFields
<1> HIDE DEF p, t, m, a, f, v, x
<1>2. x =
      [vers |-> d.vers, mls |-> d.mls, policycaps |-> d.policycaps,
       permissive |-> p, commons |-> d.commons, bools |-> d.bools,
       levels |-> d.levels, cats |-> d.cats, classes |-> d.classes, roles |-> d.roles,
       types |-> t, users |-> d.users, nprim |-> d.nprim, te_avtab |-> a,
       cond_list |-> d.cond_list, role_tr |-> d.role_tr, role_allow |-> d.role_allow,
       filename_trans |-> f, ocontexts |-> d.ocontexts, genfs |-> d.genfs,
       range_tr |-> d.range_tr, type_attr_map |-> m]
  BY <1>1 DEF HasFields
<1> QED
  BY <1>2 DEF p, t, m, a, f, v, x

LEMMA NothingRead ==
  /\ ToSet(<<>>) = {}
  /\ \A parts, sec : Part(parts, sec) = <<>> => /\ NamesOf(parts, sec) = {}
                                                /\ BitsOf(parts, sec) = {}
<1>1. ToSet(<<>>) = {}
  BY DEF ToSet
<1> QED
  BY <1>1 DEF NamesOf, BitsOf

\* The fields of a policy, as they are read of the sections.
LEMMA NamesRead ==
  ASSUME NEW d, NEW m, NEW order, Saves(d, m, order)
  PROVE  LET parts == Layout(Image(d, m, order)).parts
         IN  /\ NamesOf(parts, "commons") = d.commons
             /\ NamesOf(parts, "bools") = d.bools
             /\ NamesOf(parts, "levels") = d.levels
             /\ NamesOf(parts, "cats") = d.cats
             /\ BitsOf(parts, "policycaps") = d.policycaps
             /\ BitsOf(parts, "permissive") = IF d.vers >= 23 THEN d.permissive ELSE {}
<1> DEFINE parts == Layout(Image(d, m, order)).parts
           b == Bodies(d, m, order)
           T == ToSet(Sections(d.vers))
           v == d.vers
<1>1. PolicyOK(d) /\ v \in 15..33
  BY VersionIs DEF Saves
<1>2. /\ \A sec \in T : Part(parts, sec) = b[sec]
      /\ \A sec \in SectionNames \ T : Part(parts, sec) = <<>>
  BY PartIs
<1>3. /\ "commons" \in T
      /\ "policycaps" \in T <=> v >= 22
      /\ "permissive" \in T <=> v >= 23
      /\ "bools" \in T <=> v >= 16
      /\ "levels" \in T <=> v >= 19
      /\ "cats" \in T <=> v >= 19
  BY <1>1, Presence
<1>4. {"commons", "bools", "levels", "cats"} = NameTabs /\ NameTabs \subseteq SectionNames
      /\ {"policycaps", "permissive"} \subseteq SectionNames
  BY DEF NameTabs, SectionNames, SymNames
<1>5. /\ \A tab \in NameTabs : b[tab] = NameItems(d, tab)
      /\ b["policycaps"] = <<Bitmap(d.policycaps)>> /\ b["permissive"] = <<Bitmap(d.permissive)>>
  BY BodyIs
<1>6. /\ v < 22 => d.policycaps = {}
      /\ v < 16 => d.bools = {}
      /\ v < 19 => d.levels = {} /\ d.cats = {}
  BY <1>1 DEF PolicyOK, LacksOK, POLICYDB_VERSION_POLCAP, POLICYDB_VERSION_BOOL, POLICYDB_VERSION_MLS
<1> HIDE DEF parts, b, T
<1>7. ASSUME NEW tab \in NameTabs, tab \in T \/ d[tab] = {}
      PROVE  NamesOf(parts, tab) = d[tab]
  <2>1. {x.name : x \in ToSet(NameItems(d, tab))} = d[tab]
    BY <1>1, NameBody
  <2>2. CASE tab \in T
    BY <1>2, <1>5, <2>1, <2>2 DEF NamesOf
  <2>3. CASE tab \notin T
    BY <1>2, <1>4, <1>7, <2>3, NothingRead
  <2> QED
    BY <2>2, <2>3
<1>8. /\ NamesOf(parts, "commons") = d.commons
      /\ NamesOf(parts, "bools") = d.bools
      /\ NamesOf(parts, "levels") = d.levels
      /\ NamesOf(parts, "cats") = d.cats
  <2>1. /\ "commons" \in NameTabs /\ "bools" \in NameTabs
        /\ "levels" \in NameTabs /\ "cats" \in NameTabs
    BY DEF NameTabs
  <2> QED
    BY <1>1, <1>3, <1>6, <1>7, <2>1
<1>9. /\ BitsOf(parts, "policycaps") = IF v >= 22 THEN d.policycaps ELSE {}
      /\ BitsOf(parts, "permissive") = IF v >= 23 THEN d.permissive ELSE {}
  <2>1. /\ UNION {x.bits : x \in ToSet(<<Bitmap(d.policycaps)>>)} = d.policycaps
        /\ UNION {x.bits : x \in ToSet(<<Bitmap(d.permissive)>>)} = d.permissive
    BY <1>1, BareBodies
  <2>2. ASSUME v >= 22
        PROVE  BitsOf(parts, "policycaps") = d.policycaps
    BY <1>2, <1>3, <1>5, <2>1, <2>2 DEF BitsOf
  <2>3. ASSUME v >= 23
        PROVE  BitsOf(parts, "permissive") = d.permissive
    BY <1>2, <1>3, <1>5, <2>1, <2>3 DEF BitsOf
  <2>4. ~(v >= 22) => BitsOf(parts, "policycaps") = {}
    BY <1>2, <1>3, <1>4, NothingRead
  <2>5. ~(v >= 23) => BitsOf(parts, "permissive") = {}
    BY <1>2, <1>3, <1>4, NothingRead
  <2> QED
    BY <2>2, <2>3, <2>4, <2>5
<1>10. BitsOf(parts, "policycaps") = d.policycaps
  BY <1>1, <1>6, <1>9
<1> QED
  BY <1>8, <1>9, <1>10 DEF parts

\* What is read of the sections that every version has.
LEMMA RecordsRead ==
  ASSUME NEW d, NEW m, NEW order, Saves(d, m, order)
  PROVE  LET parts == Layout(Image(d, m, order)).parts
         IN  /\ All(parts, "classes", ReadClass) = d.classes
             /\ All(parts, "roles", ReadRole) = d.roles
             /\ All(parts, "types", ReadType) = WrittenTypes(d)
             /\ All(parts, "users", ReadUser) = d.users
             /\ All(parts, "role_tr", ReadRoleTrans) = d.role_tr
             /\ All(parts, "role_allow", ReadRoleAllow) = d.role_allow
             /\ All(parts, "genfs", ReadGenfs) = d.genfs
<1> DEFINE parts == Layout(Image(d, m, order)).parts
           b == Bodies(d, m, order)
           T == ToSet(Sections(d.vers))
           v == d.vers
<1>1. PolicyOK(d) /\ v \in 15..33
  BY VersionIs DEF Saves
<1>2. \A sec \in T : Part(parts, sec) = b[sec]
  BY PartIs
<1>3. {"classes", "roles", "types", "users", "role_tr", "role_allow", "genfs"} \subseteq T
  BY <1>1, Presence
<1>4. /\ b["classes"] = ClassItems(d) /\ b["roles"] = RoleItems(d)
      /\ b["types"] = TypeItems(d) /\ b["users"] = UserItems(d)
      /\ b["role_tr"] = RoleTransItems(d) /\ b["role_allow"] = RoleAllowItems(d)
      /\ b["genfs"] = GenfsItems(d)
  BY BodyIs
<1> HIDE DEF parts, b, T
<1>5. /\ Part(parts, "classes") = ClassItems(d) /\ Part(parts, "roles") = RoleItems(d)
      /\ Part(parts, "types") = TypeItems(d) /\ Part(parts, "users") = UserItems(d)
      /\ Part(parts, "role_tr") = RoleTransItems(d)
      /\ Part(parts, "role_allow") = RoleAllowItems(d)
      /\ Part(parts, "genfs") = GenfsItems(d)
  BY <1>2, <1>3, <1>4
<1>6. All(parts, "classes", ReadClass) = d.classes
  BY <1>1, <1>5, ClassBody DEF All
<1>7. All(parts, "roles", ReadRole) = d.roles
  BY <1>1, <1>5, RoleBody DEF All
<1>8. All(parts, "types", ReadType) = WrittenTypes(d)
  BY <1>1, <1>5, TypeBody DEF All
<1>9. All(parts, "users", ReadUser) = d.users
  BY <1>1, <1>5, UserBody DEF All
<1>10. All(parts, "role_tr", ReadRoleTrans) = d.role_tr
  BY <1>1, <1>5, RoleTransBody DEF All
<1>11. All(parts, "role_allow", ReadRoleAllow) = d.role_allow
  BY <1>1, <1>5, RoleAllowBody DEF All
<1>12. All(parts, "genfs", ReadGenfs) = d.genfs
  BY <1>1, <1>5, GenfsBody DEF All
<1> QED
  BY <1>6, <1>7, <1>8, <1>9, <1>10, <1>11, <1>12 DEF parts

\* What is read of the sections that some versions lack.
LEMMA ListsRead ==
  ASSUME NEW d, NEW m, NEW order, Saves(d, m, order)
  PROVE  LET parts == Layout(Image(d, m, order)).parts
         IN  /\ ReadConds(d.vers, parts) = d.cond_list
             /\ All(parts, "range_tr", ReadRangeTrans) = d.range_tr
             /\ ReadFilenameTrans(d.vers, Part(parts, "filename_trans")) = FtRestored(d)
             /\ FtRefused(d.vers, Part(parts, "filename_trans")) =>
                  d.vers >= POLICYDB_VERSION_COMP_FTRANS /\ ChainsCollide(d)
             /\ [kind \in ToSet(Ocontexts) |-> All(parts, kind, ReadOcontext)] = d.ocontexts
<1> DEFINE parts == Layout(Image(d, m, order)).parts
           b == Bodies(d, m, order)
           T == ToSet(Sections(d.vers))
           v == d.vers
<1>1. PolicyOK(d) /\ v \in 15..33 /\ m \in BOOLEAN /\ (m => v = 30)
  BY VersionIs DEF Saves
<1>2. /\ \A sec \in T : Part(parts, sec) = b[sec]
      /\ \A sec \in SectionNames \ T : Part(parts, sec) = <<>>
  BY PartIs
<1>3. /\ "cond_list" \in T <=> v >= 16
      /\ "filename_trans" \in T <=> v >= 25
      /\ "range_tr" \in T <=> v >= 19
      /\ \A kind \in OconNames : kind \in T <=> kind \in ToSet(SubSeq(Ocontexts, 1, OconNum(v)))
  BY <1>1, Presence
<1>4. {"cond_list", "filename_trans", "range_tr"} \subseteq SectionNames /\ OconNames \subseteq SectionNames
  BY DEF SectionNames
<1>5. /\ b["cond_list"] = CondItems(d, m) /\ b["filename_trans"] = FtItems(d)
      /\ b["range_tr"] = RangeTransItems(d)
      /\ \A kind \in OconNames : b[kind] = OconItems(d, kind)
  BY BodyIs
<1>6. /\ v < 16 => d.cond_list = {}
      /\ v < 19 => d.range_tr = {}
  BY <1>1 DEF PolicyOK, LacksOK, POLICYDB_VERSION_BOOL, POLICYDB_VERSION_MLS
<1> HIDE DEF parts, b, T
<1>7. ReadConds(v, parts) = d.cond_list
  <2>1. {ReadCond(v, x) : x \in ToSet(CondItems(d, m))} = d.cond_list
    BY <1>1, CondBody
  <2>2. CASE v >= 16
    BY <1>2, <1>3, <1>5, <2>1, <2>2 DEF ReadConds
  <2>3. CASE ~(v >= 16)
    <3>1. Part(parts, "cond_list") = <<>> /\ d.cond_list = {}
      BY <1>1, <1>2, <1>3, <1>4, <1>6, <2>3
    <3> QED
      BY <3>1, NothingRead DEF ReadConds
  <2> QED
    BY <2>2, <2>3
<1>8. All(parts, "range_tr", ReadRangeTrans) = d.range_tr
  <2>1. CASE v >= 19
    BY <1>1, <1>2, <1>3, <1>5, <2>1, RangeTransBody DEF All
  <2>2. CASE ~(v >= 19)
    <3>1. Part(parts, "range_tr") = <<>> /\ d.range_tr = {}
      BY <1>1, <1>2, <1>3, <1>4, <1>6, <2>2
    <3> QED
      BY <3>1, NothingRead DEF All
  <2> QED
    BY <2>1, <2>2
<1> DEFINE ft == Part(parts, "filename_trans")
<1>9. /\ ReadFilenameTrans(v, ft) = FtRestored(d)
      /\ FtRefused(v, ft) => v >= POLICYDB_VERSION_COMP_FTRANS /\ ChainsCollide(d)
  <2>1. CASE v >= 25
    <3>1. ft = FtItems(d)
      BY <1>2, <1>3, <1>5, <2>1
    <3> HIDE DEF ft
    <3>2. ReadFilenameTrans(v, ft) = FtRestored(d)
      BY <2>1, <3>1 DEF FtRestored
    <3>3. FtRefused(v, FtItems(d)) => v >= POLICYDB_VERSION_COMP_FTRANS /\ ChainsCollide(d)
      BY <1>1, FtRefusedIs
    <3> QED
      BY <3>1, <3>2, <3>3
  <2>2. CASE ~(v >= 25)
    <3>1. ft = <<>>
      BY <1>2, <1>3, <1>4, <2>2
    <3>2. ReadFilenameTrans(v, <<>>) = {}
      BY <1>1, <2>2, NoneInserted DEF POLICYDB_VERSION_COMP_FTRANS
    <3>3. FtRestored(d) = {}
      BY <2>2 DEF FtRestored
    <3>4. ~FtRefused(v, <<>>)
      BY <1>1, <2>2 DEF FtRefused, POLICYDB_VERSION_COMP_FTRANS
    <3> HIDE DEF ft
    <3> QED
      BY <3>1, <3>2, <3>3, <3>4
  <2> QED
    BY <2>1, <2>2
<1>10. [kind \in ToSet(Ocontexts) |-> All(parts, kind, ReadOcontext)] = d.ocontexts
  <2>1. ToSet(Ocontexts) = OconNames
    BY NamesAre
  <2>2. /\ d.ocontexts = [kind \in OconNames |-> d.ocontexts[kind]]
        /\ \A kind \in OconNames :
              kind \notin ToSet(SubSeq(Ocontexts, 1, OconNum(v))) => d.ocontexts[kind] = {}
    BY <1>1, <2>1 DEF PolicyOK, OcontextsOK
  <2>3. ASSUME NEW kind \in OconNames
        PROVE  All(parts, kind, ReadOcontext) = d.ocontexts[kind]
    <3>1. CASE kind \in T
      <4>1. {ReadOcontext(x) : x \in ToSet(OconItems(d, kind))} = d.ocontexts[kind]
        BY <1>1, OconBody
      <4>2. Part(parts, kind) = OconItems(d, kind)
        BY <1>2, <1>5, <3>1
      <4> QED
        BY <4>1, <4>2 DEF All
    <3>2. CASE kind \notin T
      <4>1. Part(parts, kind) = <<>> /\ d.ocontexts[kind] = {}
        BY <1>2, <1>3, <1>4, <2>2, <3>2
      <4> QED
        BY <4>1, NothingRead DEF All
    <3> QED
      BY <3>1, <3>2
  <2>4. [kind \in OconNames |-> All(parts, kind, ReadOcontext)]
          = [kind \in OconNames |-> d.ocontexts[kind]]
    BY <2>3
  <2> QED
    BY <2>1, <2>2, <2>4
<1> QED
  BY <1>7, <1>8, <1>9, <1>10 DEF parts

\* type_attr_map, as it is read or made.
LEMMA RowsRead ==
  ASSUME NEW d, NEW m, NEW order, Saves(d, m, order)
  PROVE  LET parts == Layout(Image(d, m, order)).parts
             named == NamedIn(WrittenTypes(d))
         IN  [i \in 1..d.nprim |-> ReadRow(parts, named, i)] = RestoredRows(d)
<1> DEFINE parts == Layout(Image(d, m, order)).parts
           b == Bodies(d, m, order)
           T == ToSet(Sections(d.vers))
           v == d.vers
           n == d.nprim
           named == NamedIn(WrittenTypes(d))
<1>1. PolicyOK(d) /\ v \in 15..33 /\ n \in Nat
  BY VersionIs DEF Saves
<1>2. DOMAIN parts = T /\ \A sec \in T : parts[sec] = b[sec]
  BY PartIs
<1>3. "type_attr_map" \in T <=> v >= 20
  BY <1>1, Presence
<1>4. b["type_attr_map"] = RowItems(d) /\ \A i \in 1..n : RowItems(d)[i].bits = d.type_attr_map[i]
  <2>1. b["type_attr_map"] = RowItems(d)
    BY BodyIs
  <2>2. \A i \in 1..n : RowItems(d)[i].bits = d.type_attr_map[i]
    BY <1>1, BareBodies
  <2> QED
    BY <2>1, <2>2
<1>5. named \subseteq Named(d)
  BY DEF NamedIn, WrittenTypes, Named
<1>6. /\ d.type_attr_map = [i \in 1..n |-> d.type_attr_map[i]]
      /\ \A i \in 1..n : i \in Named(d) => i \in d.type_attr_map[i]
  BY <1>1 DEF PolicyOK, RowsOK
<1>7. RestoredRows(d) = IF v >= 20 THEN d.type_attr_map
                        ELSE [i \in 1..n |-> IF i \in named THEN {i} ELSE {}]
  BY DEF RestoredRows, POLICYDB_VERSION_AVTAB
<1> HIDE DEF parts, b, T, named, n
<1>8. CASE v >= 20
  <2>1. parts.type_attr_map = RowItems(d) /\ "type_attr_map" \in DOMAIN parts
    BY <1>2, <1>3, <1>4, <1>8
  <2>2. ASSUME NEW i \in 1..n
        PROVE  ReadRow(parts, named, i) = d.type_attr_map[i]
    <3>1. ReadRow(parts, named, i) = d.type_attr_map[i] \cup IF i \in named THEN {i} ELSE {}
      BY <1>4, <2>1 DEF ReadRow
    <3>2. i \in named => i \in d.type_attr_map[i]
      BY <1>5, <1>6
    <3> QED
      BY <3>1, <3>2
  <2>3. [i \in 1..n |-> ReadRow(parts, named, i)] = [i \in 1..n |-> d.type_attr_map[i]]
    BY <2>2
  <2>4. [i \in 1..n |-> ReadRow(parts, named, i)] = RestoredRows(d)
    BY <1>6, <1>7, <1>8, <2>3
  <2> QED
    BY <2>4 DEF parts, named, n
<1>9. CASE ~(v >= 20)
  <2>1. "type_attr_map" \notin DOMAIN parts
    BY <1>2, <1>3, <1>9
  <2>2. ASSUME NEW i \in 1..n
        PROVE  ReadRow(parts, named, i) = IF i \in named THEN {i} ELSE {}
    BY <2>1 DEF ReadRow
  <2>3. [i \in 1..n |-> ReadRow(parts, named, i)]
          = [i \in 1..n |-> IF i \in named THEN {i} ELSE {}]
    BY <2>2
  <2>4. [i \in 1..n |-> ReadRow(parts, named, i)] = RestoredRows(d)
    BY <1>7, <1>9, <2>3
  <2> QED
    BY <2>4 DEF parts, named, n
<1> QED
  BY <1>8, <1>9

\* What is read of a file in step is what the file restores.
LEMMA DbRead ==
  ASSUME NEW d, NEW m, NEW order, Saves(d, m, order)
  PROVE  LET f == Image(d, m, order)
         IN  ReadDb(f[1], Layout(f).parts, Layout(f).nprim, Written(d, d.te_avtab)) = Restored(d)
<1> DEFINE f == Image(d, m, order)
           parts == Layout(f).parts
           np == Layout(f).nprim
           table == Written(d, d.te_avtab)
           v == d.vers
           types == WrittenTypes(d)
<1>1. HasFields(d)
  BY DEF Saves, PolicyOK
<1>2. f[1].vers = v /\ f[1].mls = d.mls /\ np = d.nprim
  <2>1. f[1] = Header(d) /\ np = d.nprim
    <3> DEFINE lay == Layout(f)
               b == Bodies(d, m, order)
    <3>1. FoundIn(lay, f, b, d)
      BY FileIs
    <3> HIDE DEF f, lay, b
    <3>2. f[1] = Header(d) /\ lay.nprim = d.nprim
      BY <3>1 DEF FoundIn
    <3> QED
      BY <3>2 DEF lay
  <2> HIDE DEF f, np
  <2> QED
    BY <2>1 DEF Header
<1>3. /\ NamesOf(parts, "commons") = d.commons /\ NamesOf(parts, "bools") = d.bools
      /\ NamesOf(parts, "levels") = d.levels /\ NamesOf(parts, "cats") = d.cats
      /\ BitsOf(parts, "policycaps") = d.policycaps
      /\ BitsOf(parts, "permissive") = IF v >= 23 THEN d.permissive ELSE {}
  BY NamesRead
<1>4. /\ All(parts, "classes", ReadClass) = d.classes /\ All(parts, "roles", ReadRole) = d.roles
      /\ All(parts, "types", ReadType) = types /\ All(parts, "users", ReadUser) = d.users
      /\ All(parts, "role_tr", ReadRoleTrans) = d.role_tr
      /\ All(parts, "role_allow", ReadRoleAllow) = d.role_allow
      /\ All(parts, "genfs", ReadGenfs) = d.genfs
  BY RecordsRead
<1>5. /\ ReadConds(v, parts) = d.cond_list
      /\ All(parts, "range_tr", ReadRangeTrans) = d.range_tr
      /\ ReadFilenameTrans(v, Part(parts, "filename_trans")) = FtRestored(d)
      /\ [kind \in ToSet(Ocontexts) |-> All(parts, kind, ReadOcontext)] = d.ocontexts
  BY ListsRead
<1>6. [i \in 1..d.nprim |-> ReadRow(parts, NamedIn(types), i)] = RestoredRows(d)
  BY RowsRead
<1> HIDE DEF f, parts, np, table, types
<1> DEFINE ft == ReadFilenameTrans(f[1].vers, Part(parts, "filename_trans"))
           oc == [kind \in ToSet(Ocontexts) |-> All(parts, kind, ReadOcontext)]
           perm == BitsOf(parts, "permissive")
           rows(ts, n) == [i \in 1..n |-> ReadRow(parts, NamedIn(ts), i)]
<1>7. ReadDb(f[1], parts, np, table) =
     [vers |-> f[1].vers, mls |-> f[1].mls,
      policycaps |-> BitsOf(parts, "policycaps"), permissive |-> perm,
      commons |-> NamesOf(parts, "commons"), bools |-> NamesOf(parts, "bools"),
      levels |-> NamesOf(parts, "levels"), cats |-> NamesOf(parts, "cats"),
      classes |-> All(parts, "classes", ReadClass), roles |-> All(parts, "roles", ReadRole),
      types |-> All(parts, "types", ReadType), users |-> All(parts, "users", ReadUser), nprim |-> np,
      te_avtab |-> table, cond_list |-> ReadConds(f[1].vers, parts),
      role_tr |-> All(parts, "role_tr", ReadRoleTrans),
      role_allow |-> All(parts, "role_allow", ReadRoleAllow),
      filename_trans |-> ft, ocontexts |-> oc,
      genfs |-> All(parts, "genfs", ReadGenfs),
      range_tr |-> All(parts, "range_tr", ReadRangeTrans),
      type_attr_map |-> rows(All(parts, "types", ReadType), np)]
  BY DEF ReadDb, NamedIn
<1> HIDE DEF ft, oc, perm, rows
<1>8. /\ ft = FtRestored(d)
      /\ oc = d.ocontexts
      /\ perm = IF v >= 23 THEN d.permissive ELSE {}
      /\ rows(types, d.nprim) = RestoredRows(d)
  BY <1>2, <1>3, <1>5, <1>6 DEF ft, oc, perm, rows
<1>9. ReadDb(f[1], parts, np, table) =
     [vers |-> v, mls |-> d.mls,
      policycaps |-> d.policycaps, permissive |-> perm,
      commons |-> d.commons, bools |-> d.bools,
      levels |-> d.levels, cats |-> d.cats,
      classes |-> d.classes, roles |-> d.roles,
      types |-> types, users |-> d.users, nprim |-> d.nprim,
      te_avtab |-> table, cond_list |-> d.cond_list,
      role_tr |-> d.role_tr,
      role_allow |-> d.role_allow,
      filename_trans |-> ft, ocontexts |-> d.ocontexts,
      genfs |-> d.genfs,
      range_tr |-> d.range_tr,
      type_attr_map |-> RestoredRows(d)]
  BY <1>2, <1>3, <1>4, <1>5, <1>7, <1>8
<1>10. ReadDb(f[1], parts, np, table) = Restored(d)
  BY <1>1, <1>8, <1>9, RestoredIs DEF table, types
<1> QED
  BY <1>10 DEF parts, np, table, f

(***************************************************************************)
(* What becomes of a file that was saved.                                  *)
(***************************************************************************)
ReadsBack(read, d, m, order) ==
  \/ read.result = "misread" /\ FirstMistaken(RuleItems(d, m, order))
  \/ /\ read.result = "refused"
     /\ \/ DOMAIN Written(d, d.te_avtab) = {}
        \/ \E n \in d.cond_list : CondKeys(n) \cap DOMAIN Written(d, d.te_avtab) # {}
        \/ d.vers >= POLICYDB_VERSION_COMP_FTRANS /\ ChainsCollide(d)
  \/ /\ read.result = "loaded" /\ read.db = Restored(d)
     /\ read.compat \in BOOLEAN /\ (read.compat => d.vers = 30)

\* What policydb_read makes of any file policydb_write can have written.
LEMMA ReadBack ==
  ASSUME NEW d, NEW m, NEW order, Saves(d, m, order)
  PROVE  ReadsBack(Read(Image(d, m, order)), d, m, order)
<1> DEFINE f == Image(d, m, order)
           layout == Layout(f)
           v == d.vers
           items == RuleItems(d, m, order)
           tab == Written(d, d.te_avtab)
           rules == ReadRules(v, FALSE, items)
           ok == rules.ok
           empty == items = <<>>
           twice == HasTwice(rules.rules)
           conflict == CondConflict(Table(rules.rules), d.cond_list)
           collision == FtRefused(v, Part(layout.parts, "filename_trans"))
           db1 == ReadDb(f[1], layout.parts, layout.nprim, Table(rules.rules))
<1>1. PolicyOK(d) /\ v \in 15..33
  BY VersionIs DEF Saves
<1>2. Carry(v, items, tab)
  BY RuleBody DEF Saves
<1>3. InStep(f, layout)
  BY IsInStep
<1>4. f[1].vers = v
  <2> DEFINE b == Bodies(d, m, order)
  <2>1. FoundIn(layout, f, b, d)
    BY FileIs
  <2> HIDE DEF f, layout, b
  <2> QED
    BY <2>1 DEF FoundIn, Header
<1>5. Part(layout.parts, "te_avtab") = items
  <2>1. "te_avtab" \in ToSet(Sections(v))
    BY <1>1, Presence
  <2> QED
    BY <2>1, PartIs, BodyIs
<1>6. /\ ReadConds(v, layout.parts) = d.cond_list
      /\ collision => v >= POLICYDB_VERSION_COMP_FTRANS /\ ChainsCollide(d)
  BY ListsRead
<1>7. ReadDb(f[1], layout.parts, layout.nprim, tab) = Restored(d)
  BY DbRead
<1> HIDE DEF f, items, tab, rules
<1>8. Read(f) = IF ~ok THEN [result |-> "misread"]
                ELSE IF empty \/ twice \/ conflict \/ collision THEN [result |-> "refused"]
                ELSE [result |-> "loaded", compat |-> rules.m, db |-> db1]
  BY <1>3, <1>4, <1>5, <1>6 DEF Read, rules
<1>9. /\ ok \in BOOLEAN /\ rules.m \in BOOLEAN
      /\ ok => Table(rules.rules) = tab /\ ~twice /\ (rules.m => v = 30)
      /\ ok \/ FirstMistaken(items)
      /\ empty <=> DOMAIN tab = {}
  BY <1>2 DEF Carry, ReadsAs, rules
<1>10. ok => db1 = Restored(d)
  BY <1>7, <1>9
<1>11. ok /\ conflict => \E n \in d.cond_list : CondKeys(n) \cap DOMAIN tab # {}
  BY <1>1, <1>9 DEF CondConflict, PolicyOK, CondsOK
<1> DEFINE mm == rules.m
<1> HIDE DEF ok, empty, twice, conflict, collision, db1, mm
<1>12. ReadsBack(Read(f), d, m, order)
  <2>1. CASE ~ok
    <3>1. Read(f).result = "misread"
      BY <1>8, <2>1
    <3> QED
      BY <1>9, <2>1, <3>1 DEF ReadsBack, items
  <2>2. CASE ok /\ (empty \/ twice \/ conflict \/ collision)
    <3>1. Read(f).result = "refused"
      BY <1>8, <2>2
    <3>2. \/ DOMAIN tab = {}
          \/ \E n \in d.cond_list : CondKeys(n) \cap DOMAIN tab # {}
          \/ v >= POLICYDB_VERSION_COMP_FTRANS /\ ChainsCollide(d)
      BY <1>6, <1>9, <1>11, <2>2
    <3> QED
      BY <3>1, <3>2 DEF ReadsBack, tab
  <2>3. CASE ok /\ ~empty /\ ~twice /\ ~conflict /\ ~collision
    <3>1. Read(f) = [result |-> "loaded", compat |-> mm, db |-> db1]
      BY <1>8, <2>3 DEF mm
    <3>2. mm \in BOOLEAN /\ (mm => v = 30)
      BY <1>9, <2>3 DEF mm
    <3>3. Read(f).result = "loaded" /\ Read(f).db = Restored(d) /\ Read(f).compat = mm
      <4>1. Read(f).result = "loaded" /\ Read(f).db = db1
        BY <3>1
      <4>2. Read(f).compat = mm
        <5> DEFINE res == "loaded"
                   r == [result |-> res, compat |-> mm, db |-> db1]
        <5>1. r.compat = mm
          <6> HIDE DEF res
          <6> QED
            BY Zenon
        <5>2. Read(f) = r
          BY <3>1
        <5> HIDE DEF r
        <5> QED
          BY <5>1, <5>2
      <4> QED
        BY <1>10, <2>3, <4>1, <4>2
    <3>4. Read(f).compat \in BOOLEAN /\ (Read(f).compat => v = 30)
      BY <3>2, <3>3, Zenon
    <3> QED
      BY <3>3, <3>4 DEF ReadsBack
  <2> QED
    BY <1>9, <2>1, <2>2, <2>3
<1> QED
  BY <1>12 DEF f

(***************************************************************************)
(* What is restored of a policy is one a process may have loaded.          *)
(***************************************************************************)
LEMMA SimpleIs ==
  ASSUME NEW d, PolicyOK(d)
  PROVE  /\ Simple(d) = {t.value : t \in {u \in d.types : ~u.attrib}}
         /\ Simple(d) \subseteq 1..d.nprim /\ Simple(d) \subseteq Named(d)
         /\ d.vers < POLICYDB_VERSION_BOUNDARY => NamedIn(WrittenTypes(d)) = Simple(d)
<1>1. ValuesOK(d) /\ \A t \in d.types : t.value \in 1..d.nprim /\ t.attrib \in BOOLEAN
  BY DEF PolicyOK, RecordsOK, TypeOK
<1>2. Simple(d) = {t.value : t \in {u \in d.types : ~u.attrib}}
  <2> DEFINE T == {t.value : t \in {u \in d.types : ~u.attrib}}
  <2>1. ASSUME NEW x \in Simple(d)
        PROVE  x \in T
    BY <1>1 DEF Simple, Named, Attribs
  <2>2. ASSUME NEW x \in T
        PROVE  x \in Simple(d)
    <3>1. PICK t \in d.types : ~t.attrib /\ x = t.value
      OBVIOUS
    <3>2. x \in Named(d)
      BY <3>1 DEF Named
    <3>3. x \notin Attribs(d)
      BY <1>1, <3>1 DEF ValuesOK, Attribs
    <3> QED
      BY <3>2, <3>3 DEF Simple
  <2> QED
    BY <2>1, <2>2
<1>3. Simple(d) \subseteq 1..d.nprim
  BY <1>1, <1>2
<1>4. Simple(d) \subseteq Named(d)
  BY DEF Simple
<1>5. d.vers < POLICYDB_VERSION_BOUNDARY => NamedIn(WrittenTypes(d)) = Simple(d)
  BY <1>2 DEF NamedIn, WrittenTypes
<1> QED
  BY <1>2, <1>3, <1>4, <1>5

\* Who an attribute is replaced by are the types in it.
LEMMA MembersAre ==
  ASSUME NEW d, PolicyOK(d), NEW x \in 1..d.nprim
  PROVE  /\ Members(d, x) \subseteq Simple(d)
         /\ \A s \in Simple(d) : s \in Members(d, x) <=> x \in d.type_attr_map[s]
<1>1. \A i \in 1..d.nprim :
       /\ d.type_attr_map[i] \subseteq {i} \cup ((1..d.nprim) \ Simple(d))
       /\ i \notin Simple(d) => d.type_attr_map[i] \subseteq {i}
       /\ i \in Named(d) => i \in d.type_attr_map[i]
  BY DEF PolicyOK, RowsOK
<1>2. Simple(d) \subseteq 1..d.nprim /\ Simple(d) \subseteq Named(d)
  BY SimpleIs
<1>3. Members(d, x) \subseteq Simple(d)
  BY <1>1 DEF Members
<1>4. ASSUME NEW s \in Simple(d)
      PROVE  s \in Members(d, x) <=> x \in d.type_attr_map[s]
  <2>1. s \in 1..d.nprim /\ s \in Named(d)
    BY <1>2
  <2>2. CASE x \in Simple(d)
    BY <1>1, <2>1, <2>2 DEF Members
  <2>3. CASE x \notin Simple(d)
    BY <1>1, <2>1, <2>3 DEF Members
  <2> QED
    BY <2>2, <2>3
<1> QED
  BY <1>3, <1>4

\* An old table has no extended rules.
LEMMA OldKeys ==
  ASSUME NEW d, PolicyOK(d), d.vers < POLICYDB_VERSION_AVTAB
  PROVE  \A k \in DOMAIN d.te_avtab :
            /\ k.s \in 1..d.nprim /\ k.t \in 1..d.nprim
            /\ k.spec \in AvSpecs \cup TypeSpecs /\ k = Key(k.s, k.t, k.c, k.spec)
            /\ k.spec \in AvSpecs => d.te_avtab[k] \subseteq Perms
<1>1. d.vers \in 15..33
  BY VersionIs
<1>2. ~(d.vers >= POLICYDB_VERSION_XPERMS_IOCTL)
  BY <1>1 DEF POLICYDB_VERSION_AVTAB, POLICYDB_VERSION_XPERMS_IOCTL
<1> QED
  BY <1>2 DEF PolicyOK, TableOK, KeyOK

\* The table a policy without attributes is written with.
LEMMA ExpandOK ==
  ASSUME NEW d, PolicyOK(d), d.vers < POLICYDB_VERSION_AVTAB
  PROVE  LET tab == Expand(d, d.te_avtab)
         IN  /\ IsFiniteSet(DOMAIN tab) /\ tab = [k \in DOMAIN tab |-> tab[k]]
             /\ \A k \in DOMAIN tab :
                   /\ k.s \in Simple(d) /\ k.t \in Simple(d)
                   /\ k.spec \in AvSpecs \cup TypeSpecs /\ k = Key(k.s, k.t, k.c, k.spec)
                   /\ k.spec \in AvSpecs => tab[k] \subseteq Perms
<1> DEFINE te == d.te_avtab
           tab == Expand(d, te)
           K == Expandable(d, te)
<1>1. d.nprim \in Nat /\ IsFiniteSet(DOMAIN te)
  BY DEF PolicyOK, TableOK
<1>2. \A k \in DOMAIN te :
            /\ k.s \in 1..d.nprim /\ k.t \in 1..d.nprim
            /\ k.spec \in AvSpecs \cup TypeSpecs /\ k = Key(k.s, k.t, k.c, k.spec)
            /\ k.spec \in AvSpecs => te[k] \subseteq Perms
  BY OldKeys
<1> HIDE DEF te
<1>3. /\ IsFiniteSet(K) /\ DOMAIN tab = K
      /\ \A k \in K : /\ k = Key(k.s, k.t, k.c, k.spec)
                      /\ \E j \in DOMAIN te : /\ j.spec = k.spec /\ j.c = k.c
                                              /\ k.s \in Members(d, j.s) /\ k.t \in Members(d, j.t)
  BY <1>1, ExpandableIs
<1>4. \A k \in K : tab[k] = Joined(k.spec, {te[j] : j \in Sources(d, te, k)})
  BY DEF Expand
<1>5. tab = [k \in DOMAIN tab |-> tab[k]]
  BY DEF Expand
<1> HIDE DEF K, tab
<1>6. ASSUME NEW k \in K
      PROVE  /\ k.s \in Simple(d) /\ k.t \in Simple(d)
             /\ k.spec \in AvSpecs \cup TypeSpecs /\ k = Key(k.s, k.t, k.c, k.spec)
             /\ k.spec \in AvSpecs => tab[k] \subseteq Perms
  <2>1. PICK j \in DOMAIN te : /\ j.spec = k.spec /\ j.c = k.c
                               /\ k.s \in Members(d, j.s) /\ k.t \in Members(d, j.t)
    BY <1>3
  <2>2. k.s \in Simple(d) /\ k.t \in Simple(d) /\ k.spec \in AvSpecs \cup TypeSpecs
    BY <1>2, <2>1, MembersAre
  <2>3. ASSUME k.spec \in AvSpecs
        PROVE  tab[k] \subseteq Perms
    <3> DEFINE data == {te[i] : i \in Sources(d, te, k)}
    <3>1. \A i \in Sources(d, te, k) : te[i] \subseteq Perms
      BY <1>2, <2>3 DEF Sources
    <3>2. UNION data \subseteq Perms
      BY <3>1
    <3> HIDE DEF data
    <3>3. Joined(k.spec, data) \subseteq Perms
      BY <2>3, <3>2 DEF Joined, AvSpecs, TypeSpecs
    <3> QED
      BY <1>4, <3>3 DEF data
  <2> QED
    BY <1>3, <2>2, <2>3
<1> QED
  BY <1>3, <1>5, <1>6 DEF tab, te

\* The fields of a restored policy, as facts of their own.
RestoresAs(d, r) ==
  /\ HasFields(r) /\ r.vers = d.vers /\ r.mls = d.mls /\ r.nprim = d.nprim
  /\ r.policycaps = d.policycaps
  /\ r.permissive = IF d.vers >= 23 THEN d.permissive ELSE {}
  /\ r.commons = d.commons /\ r.bools = d.bools /\ r.levels = d.levels /\ r.cats = d.cats
  /\ r.classes = d.classes /\ r.roles = d.roles /\ r.users = d.users
  /\ r.types = WrittenTypes(d) /\ r.te_avtab = Written(d, d.te_avtab)
  /\ r.cond_list = d.cond_list /\ r.role_tr = d.role_tr /\ r.role_allow = d.role_allow
  /\ r.filename_trans = FtRestored(d)
  /\ r.ocontexts = d.ocontexts /\ r.genfs = d.genfs /\ r.range_tr = d.range_tr
  /\ r.type_attr_map = RestoredRows(d)

\* The fields of a restored policy.
LEMMA RestoredFields ==
  ASSUME NEW d, HasFields(d)
  PROVE  RestoresAs(d, Restored(d))
<1> DEFINE v == d.vers
           p == IF v >= 23 THEN d.permissive ELSE {}
           t == WrittenTypes(d)
           m == RestoredRows(d)
           a == Written(d, d.te_avtab)
           f == FtRestored(d)
           r == Restored(d)
<1>1. r = [vers |-> v, mls |-> d.mls, policycaps |-> d.policycaps,
       permissive |-> p, commons |-> d.commons, bools |-> d.bools,
       levels |-> d.levels, cats |-> d.cats, classes |-> d.classes, roles |-> d.roles,
       types |-> t, users |-> d.users, nprim |-> d.nprim, te_avtab |-> a,
       cond_list |-> d.cond_list, role_tr |-> d.role_tr, role_allow |-> d.role_allow,
       filename_trans |-> f, ocontexts |-> d.ocontexts, genfs |-> d.genfs,
       range_tr |-> d.range_tr, type_attr_map |-> m]
  BY RestoredIs
<1> HIDE DEF p, t, m, a, f, r, v
<1>2. /\ r.vers = v /\ r.mls = d.mls /\ r.nprim = d.nprim
      /\ r.policycaps = d.policycaps /\ r.permissive = p
      /\ r.commons = d.commons /\ r.bools = d.bools /\ r.levels = d.levels /\ r.cats = d.cats
      /\ r.classes = d.classes /\ r.roles = d.roles /\ r.users = d.users
      /\ r.types = t /\ r.te_avtab = a
      /\ r.cond_list = d.cond_list /\ r.role_tr = d.role_tr /\ r.role_allow = d.role_allow
      /\ r.filename_trans = f
      /\ r.ocontexts = d.ocontexts /\ r.genfs = d.genfs /\ r.range_tr = d.range_tr
      /\ r.type_attr_map = m
  BY <1>1, Zenon
<1>3. HasFields(r)
  BY <1>1, <1>2 DEF HasFields
<1> QED
  BY <1>2, <1>3 DEF RestoresAs, p, t, m, a, f, r, v

\* A policy without what the version cannot say has the same types.
LEMMA RestoredSimple ==
  ASSUME NEW d, PolicyOK(d), NEW r, RestoresAs(d, r)
  PROVE  Simple(r) = Simple(d) /\ Named(r) \subseteq Named(d)
         /\ Named(r) = NamedIn(WrittenTypes(d))
<1>1. r.types = WrittenTypes(d) /\ WrittenTypes(d) \subseteq d.types
  BY DEF RestoresAs, WrittenTypes
<1>2. Simple(d) = {t.value : t \in {u \in d.types : ~u.attrib}}
  BY SimpleIs
<1>3. ValuesOK(d) /\ \A t \in d.types : t.attrib \in BOOLEAN
  BY DEF PolicyOK, RecordsOK, TypeOK
<1>4. Named(r) = NamedIn(WrittenTypes(d)) /\ Named(r) \subseteq Named(d)
  BY <1>1 DEF Named, NamedIn
<1>5. Simple(r) \subseteq Simple(d)
  BY <1>1, <1>2, <1>3 DEF Simple, Named, Attribs
<1>6. Simple(d) \subseteq Simple(r)
  <2>1. ASSUME NEW t \in d.types, ~t.attrib
        PROVE  t.value \in Simple(r)
    <3>1. t \in r.types
      BY <1>1, <2>1 DEF WrittenTypes
    <3>2. t.value \in Named(r)
      BY <3>1 DEF Named
    <3>3. t.value \notin Attribs(r)
      BY <1>1, <1>3, <2>1 DEF Attribs, ValuesOK
    <3> QED
      BY <3>2, <3>3 DEF Simple
  <2> QED
    BY <1>2, <2>1
<1> QED
  BY <1>4, <1>5, <1>6

\* Its rules are rules of the version.
LEMMA RestoredTable ==
  ASSUME NEW d, PolicyOK(d), NEW r, RestoresAs(d, r)
  PROVE  TableOK(r, r.te_avtab)
<1>1. r.te_avtab = Written(d, d.te_avtab) /\ r.vers = d.vers /\ r.nprim = d.nprim
  BY DEF RestoresAs
<1>2. CASE d.vers < POLICYDB_VERSION_AVTAB
  <2> DEFINE tab == Expand(d, d.te_avtab)
  <2>1. /\ IsFiniteSet(DOMAIN tab) /\ tab = [k \in DOMAIN tab |-> tab[k]]
        /\ \A k \in DOMAIN tab :
              /\ k.s \in Simple(d) /\ k.t \in Simple(d)
              /\ k.spec \in AvSpecs \cup TypeSpecs /\ k = Key(k.s, k.t, k.c, k.spec)
              /\ k.spec \in AvSpecs => tab[k] \subseteq Perms
    BY <1>2, ExpandOK
  <2>2. r.te_avtab = tab
    BY <1>1, <1>2 DEF Written
  <2>3. Simple(d) \subseteq 1..d.nprim
    BY SimpleIs
  <2> HIDE DEF tab
  <2> QED
    BY <1>1, <2>1, <2>2, <2>3 DEF TableOK, KeyOK
<1>3. CASE ~(d.vers < POLICYDB_VERSION_AVTAB)
  <2>1. r.te_avtab = d.te_avtab
    BY <1>1, <1>3 DEF Written
  <2>2. TableOK(d, d.te_avtab)
    BY DEF PolicyOK
  <2> QED
    BY <1>1, <2>1, <2>2 DEF TableOK, KeyOK
<1> QED
  BY <1>2, <1>3

\* A restored policy is one that can be saved again.
LEMMA RestoredOK ==
  ASSUME NEW d, PolicyOK(d)
  PROVE  PolicyOK(Restored(d)) /\ RestoresAs(d, Restored(d))
<1> DEFINE r == Restored(d)
           v == d.vers
<1>1. RestoresAs(d, r)
  BY RestoredFields DEF PolicyOK
<1> HIDE DEF r
<1>2. /\ HasFields(r) /\ r.vers = v /\ r.mls = d.mls /\ r.nprim = d.nprim
      /\ r.policycaps = d.policycaps
      /\ r.commons = d.commons /\ r.bools = d.bools /\ r.levels = d.levels /\ r.cats = d.cats
      /\ r.classes = d.classes /\ r.roles = d.roles /\ r.users = d.users
      /\ r.types \subseteq d.types /\ r.filename_trans = FtRestored(d)
      /\ r.cond_list = d.cond_list /\ r.role_tr = d.role_tr /\ r.role_allow = d.role_allow
      /\ r.ocontexts = d.ocontexts /\ r.genfs = d.genfs /\ r.range_tr = d.range_tr
      /\ r.type_attr_map = RestoredRows(d)
  BY <1>1 DEF RestoresAs, WrittenTypes
<1>3. v \in 15..33 /\ d.nprim \in Nat
  BY VersionIs
<1>4. Simple(r) = Simple(d) /\ Named(r) \subseteq Named(d) /\ Named(r) = NamedIn(WrittenTypes(d))
  BY <1>1, RestoredSimple
<1>a. IsFiniteSet(r.filename_trans) /\ \A f \in r.filename_trans : FilenameTransOK(f)
  BY <1>2, FtPolicy DEF FtKept
<1>5. FiniteOK(r)
  <2>1. /\ IsFiniteSet(d.commons) /\ IsFiniteSet(d.bools) /\ IsFiniteSet(d.levels)
        /\ IsFiniteSet(d.cats) /\ IsFiniteSet(d.classes) /\ IsFiniteSet(d.roles)
        /\ IsFiniteSet(d.types) /\ IsFiniteSet(d.users) /\ IsFiniteSet(d.cond_list)
        /\ IsFiniteSet(d.role_tr) /\ IsFiniteSet(d.role_allow)
        /\ IsFiniteSet(d.genfs) /\ IsFiniteSet(d.range_tr)
    BY DEF PolicyOK, FiniteOK
  <2>2. IsFiniteSet(r.types) /\ IsFiniteSet(r.filename_trans)
    BY <1>2, <1>a, <2>1, FS_Subset
  <2> QED
    BY <1>2, <2>1, <2>2 DEF FiniteOK
<1>6. LacksOK(r)
  BY <1>2 DEF PolicyOK, LacksOK
<1>7. RecordsOK(r)
  <2>1. RecordsOK(d)
    BY DEF PolicyOK
  <2> QED
    BY <1>2, <1>a, <2>1 DEF RecordsOK, TypeOK
<1>8. OcontextsOK(r)
  BY <1>2 DEF PolicyOK, OcontextsOK
<1>9. ValuesOK(r)
  BY <1>2 DEF PolicyOK, ValuesOK
<1>10. RowsOK(r)
  <2> DEFINE rows == r.type_attr_map
             n == d.nprim
  <2>1. rows = RestoredRows(d) /\ r.nprim = n
    BY <1>2
  <2>2. CASE v >= POLICYDB_VERSION_AVTAB
    <3>1. rows = d.type_attr_map
      BY <2>1, <2>2 DEF RestoredRows
    <3>2. RowsOK(d)
      BY DEF PolicyOK
    <3> HIDE DEF rows
    <3> QED
      BY <1>4, <2>1, <3>1, <3>2 DEF RowsOK, rows
  <2>3. CASE ~(v >= POLICYDB_VERSION_AVTAB)
    <3>1. rows = [i \in 1..n |-> IF i \in Named(r) THEN {i} ELSE {}]
      BY <1>4, <2>1, <2>3 DEF RestoredRows
    <3> HIDE DEF rows
    <3>2. \A i \in 1..n : rows[i] = IF i \in Named(r) THEN {i} ELSE {}
      BY <3>1
    <3>3. rows = [i \in 1..n |-> rows[i]]
      BY <3>1
    <3> QED
      BY <2>1, <3>2, <3>3 DEF RowsOK, rows
  <2> QED
    BY <2>2, <2>3
<1>11. TableOK(r, r.te_avtab)
  BY <1>1, RestoredTable
<1>12. CondsOK(r)
  <2>1. CondsOK(d)
    BY DEF PolicyOK
  <2>2. \A tab : TableOK(d, tab) => TableOK(r, tab)
    BY <1>2 DEF TableOK, KeyOK
  <2>3. \A n \in d.cond_list : CondOK(r, n)
    BY <1>2, <1>4, <2>1, <2>2 DEF CondsOK, CondOK
  <2> QED
    BY <1>2, <2>1, <2>3 DEF CondsOK
<1>13. PolicyOK(r)
  BY <1>2, <1>3, <1>5, <1>6, <1>7, <1>8, <1>9, <1>10, <1>11, <1>12 DEF PolicyOK
<1> QED
  BY <1>1, <1>13 DEF r

(***************************************************************************)
(* Saving loses nothing but what the version cannot say.                   *)
(***************************************************************************)
LEMMA CondSimple ==
  ASSUME NEW d, d.vers < POLICYDB_VERSION_AVTAB, NEW n, CondOK(d, n)
  PROVE  /\ Expand(d, n.true_list) = n.true_list /\ Expand(d, n.false_list) = n.false_list
         /\ CarriedCond(d, n) = n
<1>1. ASSUME NEW tab, TableOK(d, tab),
             \A k \in DOMAIN tab : ~IsXperm(k) /\ {k.s, k.t} \subseteq Simple(d)
      PROVE  Expand(d, tab) = tab
  <2>1. \A k \in DOMAIN tab : /\ k = Key(k.s, k.t, k.c, k.spec)
                              /\ k.s \in Simple(d) /\ k.t \in Simple(d)
                              /\ k.spec \in AvSpecs => tab[k] \subseteq Perms
    BY <1>1, TableKeys DEF TableOK
  <2>2. tab = [k \in DOMAIN tab |-> tab[k]]
    BY <1>1 DEF TableOK
  <2> QED
    BY <2>1, <2>2, ExpandSimple
<1> DEFINE t == n.true_list
           f == n.false_list
<1>2. Expand(d, t) = t /\ Expand(d, f) = f
  BY <1>1 DEF CondOK
<1>3. n = [state |-> n.state, expr |-> n.expr, true_list |-> t, false_list |-> f]
  BY DEF CondOK
<1>4. CarriedCond(d, n) = [n EXCEPT !.true_list = Expand(d, t), !.false_list = Expand(d, f)]
  BY <1>3 DEF CarriedCond
<1>5. [n EXCEPT !.true_list = t, !.false_list = f] = n
  BY <1>3
<1>6. CarriedCond(d, n) = n
  BY <1>2, <1>4, <1>5
<1> QED
  BY <1>2, <1>6

Revised(d, p, t, m, a, c, f) ==
  [d EXCEPT !.permissive = p, !.types = t, !.type_attr_map = m, !.te_avtab = a,
            !.cond_list = c, !.filename_trans = f]
\* The fields of Revised, all of them.
LEMMA RevisedIs ==
  ASSUME NEW d, HasFields(d), NEW p, NEW t, NEW m, NEW a, NEW c, NEW f
  PROVE  Revised(d, p, t, m, a, c, f) =
           [vers |-> d.vers, mls |-> d.mls, policycaps |-> d.policycaps,
            permissive |-> p, commons |-> d.commons, bools |-> d.bools,
            levels |-> d.levels, cats |-> d.cats, classes |-> d.classes, roles |-> d.roles,
            types |-> t, users |-> d.users, nprim |-> d.nprim, te_avtab |-> a,
            cond_list |-> c, role_tr |-> d.role_tr, role_allow |-> d.role_allow,
            filename_trans |-> f, ocontexts |-> d.ocontexts, genfs |-> d.genfs,
            range_tr |-> d.range_tr, type_attr_map |-> m]
<1> DEFINE x == Revised(d, p, t, m, a, c, f)
<1>1. x = [d EXCEPT !.permissive = p, !.types = t, !.type_attr_map = m, !.te_avtab = a,
                    !.cond_list = c, !.filename_trans = f]
  BY DEF Revised
<1> HIDE DEF x
<1>2. x = [vers |-> d.vers, mls |-> d.mls, policycaps |-> d.policycaps,
           permissive |-> p, commons |-> d.commons, bools |-> d.bools,
           levels |-> d.levels, cats |-> d.cats, classes |-> d.classes, roles |-> d.roles,
           types |-> t, users |-> d.users, nprim |-> d.nprim, te_avtab |-> a,
           cond_list |-> c, role_tr |-> d.role_tr, role_allow |-> d.role_allow,
           filename_trans |-> f, ocontexts |-> d.ocontexts, genfs |-> d.genfs,
           range_tr |-> d.range_tr, type_attr_map |-> m]
  BY <1>1 DEF HasFields
<1> QED
  BY <1>2 DEF x

\* Restoring a policy keeps all that its version can say.
LEMMA CarriedAre ==
  ASSUME NEW d, PolicyOK(d)
  PROVE  Carried(Restored(d)) = Carried(d)
<1> DEFINE r == Restored(d)
           v == d.vers
           te == Written(d, d.te_avtab)
<1>1. PolicyOK(r) /\ RestoresAs(d, r)
  BY RestoredOK
<1> HIDE DEF r
<1>2. HasFields(d) /\ HasFields(r) /\ v \in 15..33
  BY <1>1, VersionIs DEF PolicyOK
<1>3. /\ r.vers = v /\ r.mls = d.mls /\ r.nprim = d.nprim
      /\ r.policycaps = d.policycaps
      /\ r.permissive = IF v >= 23 THEN d.permissive ELSE {}
      /\ r.commons = d.commons /\ r.bools = d.bools /\ r.levels = d.levels /\ r.cats = d.cats
      /\ r.classes = d.classes /\ r.roles = d.roles /\ r.users = d.users
      /\ r.types = WrittenTypes(d) /\ r.te_avtab = te
      /\ r.cond_list = d.cond_list /\ r.role_tr = d.role_tr /\ r.role_allow = d.role_allow
      /\ r.filename_trans = FtRestored(d)
      /\ r.ocontexts = d.ocontexts /\ r.genfs = d.genfs /\ r.range_tr = d.range_tr
      /\ r.type_attr_map = RestoredRows(d)
  BY <1>1 DEF RestoresAs
<1>4. Simple(r) = Simple(d)
  BY <1>1, RestoredSimple
<1> DEFINE P(x) == IF x.vers >= POLICYDB_VERSION_PERMISSIVE THEN x.permissive ELSE {}
           T(x) == {t \in x.types : t.attrib => x.vers >= POLICYDB_VERSION_BOUNDARY}
           M(x) == IF x.vers >= POLICYDB_VERSION_AVTAB THEN x.type_attr_map ELSE <<>>
           A(x) == IF x.vers >= POLICYDB_VERSION_AVTAB THEN x.te_avtab ELSE Expand(x, x.te_avtab)
           C(x) == IF x.vers >= POLICYDB_VERSION_AVTAB THEN x.cond_list
                   ELSE {CarriedCond(x, n) : n \in x.cond_list}
           F(x) == IF x.vers >= POLICYDB_VERSION_FILENAME_TRANS
                   THEN SourcesOf(x.filename_trans) ELSE {}
<1>5. ASSUME NEW x, HasFields(x)
      PROVE  Carried(x) = Revised(x, P(x), T(x), M(x), A(x), C(x), F(x))
  BY <1>5 DEF Carried, Revised, HasFields, SourcesOf, Source
<1>6. P(r) = P(d) /\ F(r) = F(d)
  <2>1. v >= 25 => SourcesOf(r.filename_trans) = SourcesOf(d.filename_trans)
    BY <1>3, FtPolicy DEF FtKept
  <2> QED
    BY <1>2, <1>3, <2>1 DEF POLICYDB_VERSION_PERMISSIVE, POLICYDB_VERSION_FILENAME_TRANS
<1>7. T(r) = T(d)
  BY <1>2, <1>3 DEF WrittenTypes, POLICYDB_VERSION_BOUNDARY
<1>8. M(r) = M(d)
  BY <1>3 DEF RestoredRows
<1>9. A(r) = A(d)
  <2>1. CASE v < POLICYDB_VERSION_AVTAB
    <3> DEFINE tab == Expand(d, d.te_avtab)
    <3>1. /\ tab = [k \in DOMAIN tab |-> tab[k]]
          /\ \A k \in DOMAIN tab :
                /\ k.s \in Simple(d) /\ k.t \in Simple(d)
                /\ k = Key(k.s, k.t, k.c, k.spec)
                /\ k.spec \in AvSpecs => tab[k] \subseteq Perms
      BY <2>1, ExpandOK
    <3>2. te = tab
      BY <2>1 DEF Written
    <3>3. A(d) = tab
      BY <1>2, <2>1 DEF POLICYDB_VERSION_AVTAB
    <3> HIDE DEF tab
    <3>4. Expand(r, tab) = tab
      BY <1>4, <3>1, ExpandSimple
    <3>5. A(r) = Expand(r, tab)
      BY <1>2, <1>3, <2>1, <3>2 DEF POLICYDB_VERSION_AVTAB
    <3> QED
      BY <3>3, <3>4, <3>5
  <2>2. CASE ~(v < POLICYDB_VERSION_AVTAB)
    BY <1>2, <1>3, <2>2 DEF Written, POLICYDB_VERSION_AVTAB
  <2> QED
    BY <2>1, <2>2
<1>10. C(r) = C(d)
  <2>1. CASE v < POLICYDB_VERSION_AVTAB
    <3>1. \A n \in d.cond_list : CondOK(d, n) /\ CondOK(r, n)
      BY <1>1, <1>3 DEF PolicyOK, CondsOK
    <3>2. \A n \in d.cond_list : CarriedCond(d, n) = n /\ CarriedCond(r, n) = n
      BY <1>3, <2>1, <3>1, CondSimple
    <3>3. C(d) = {CarriedCond(d, n) : n \in d.cond_list} /\ C(r) = {CarriedCond(r, n) : n \in d.cond_list}
      BY <1>2, <1>3, <2>1 DEF POLICYDB_VERSION_AVTAB
    <3> HIDE DEF C
    <3> QED
      BY <3>2, <3>3
  <2>2. CASE ~(v < POLICYDB_VERSION_AVTAB)
    BY <1>2, <1>3, <2>2 DEF POLICYDB_VERSION_AVTAB
  <2> QED
    BY <2>1, <2>2
<1> HIDE DEF P, T, M, A, C, F, v, te
<1> DEFINE p == P(d)
           t == T(d)
           m == M(d)
           a == A(d)
           c == C(d)
           f == F(d)
<1>11. Carried(d) = Revised(d, p, t, m, a, c, f) /\ Carried(r) = Revised(r, p, t, m, a, c, f)
  BY <1>2, <1>5, <1>6, <1>7, <1>8, <1>9, <1>10
<1> HIDE DEF p, t, m, a, c, f
<1>12. Carried(r) = Carried(d)
  <2>1. Revised(d, p, t, m, a, c, f) =
          [vers |-> d.vers, mls |-> d.mls, policycaps |-> d.policycaps,
           permissive |-> p, commons |-> d.commons, bools |-> d.bools,
           levels |-> d.levels, cats |-> d.cats, classes |-> d.classes, roles |-> d.roles,
           types |-> t, users |-> d.users, nprim |-> d.nprim, te_avtab |-> a,
           cond_list |-> c, role_tr |-> d.role_tr, role_allow |-> d.role_allow,
           filename_trans |-> f, ocontexts |-> d.ocontexts, genfs |-> d.genfs,
           range_tr |-> d.range_tr, type_attr_map |-> m]
    BY <1>2, RevisedIs
  <2>2. Revised(r, p, t, m, a, c, f) =
          [vers |-> r.vers, mls |-> r.mls, policycaps |-> r.policycaps,
           permissive |-> p, commons |-> r.commons, bools |-> r.bools,
           levels |-> r.levels, cats |-> r.cats, classes |-> r.classes, roles |-> r.roles,
           types |-> t, users |-> r.users, nprim |-> r.nprim, te_avtab |-> a,
           cond_list |-> c, role_tr |-> r.role_tr, role_allow |-> r.role_allow,
           filename_trans |-> f, ocontexts |-> r.ocontexts, genfs |-> r.genfs,
           range_tr |-> r.range_tr, type_attr_map |-> m]
    BY <1>2, RevisedIs
  <2>3. Revised(r, p, t, m, a, c, f) = Revised(d, p, t, m, a, c, f)
    BY <1>3, <2>1, <2>2 DEF v
  <2> QED
    BY <1>11, <2>3
<1> QED
  BY <1>12 DEF r

(***************************************************************************)
(* Decisions survive saving, in the versions too that have no attributes.  *)
(***************************************************************************)
LEMMA DecisionsAre ==
  ASSUME NEW d, PolicyOK(d), NEW s \in Simple(d), NEW t \in Simple(d), NEW spec \in AvSpecs
  PROVE  Decision(Restored(d), s, t, spec) = Decision(d, s, t, spec)
<1> DEFINE r == Restored(d)
           te == d.te_avtab
           rows == d.type_attr_map
           Own(x) == {j \in Rows(x, s, t) : j.spec = spec}
           Data(x) == {x.te_avtab[k] : k \in Own(x)}
<1>1. RestoresAs(d, r)
  BY RestoredOK
<1> HIDE DEF r
<1>2. /\ r.vers = d.vers /\ r.nprim = d.nprim /\ r.te_avtab = Written(d, te)
      /\ r.type_attr_map = RestoredRows(d)
  BY <1>1 DEF RestoresAs
<1>3. d.vers \in 15..33 /\ d.nprim \in Nat
  BY VersionIs
<1>4. CASE ~(d.vers < POLICYDB_VERSION_AVTAB)
  <2>1. r.te_avtab = te /\ r.type_attr_map = rows
    BY <1>2, <1>3, <1>4 DEF Written, RestoredRows, POLICYDB_VERSION_AVTAB
  <2>2. Rows(r, s, t) = Rows(d, s, t)
    BY <2>1 DEF Rows
  <2>3. Decision(r, s, t, spec) = Decision(d, s, t, spec)
    BY <2>1, <2>2 DEF Decision
  <2> QED
    BY <2>3 DEF r
<1>5. CASE d.vers < POLICYDB_VERSION_AVTAB
  <2> DEFINE tab == Expand(d, te)
  <2>1. s \in 1..d.nprim /\ t \in 1..d.nprim /\ s \in NamedIn(WrittenTypes(d))
        /\ t \in NamedIn(WrittenTypes(d))
    BY <1>3, <1>5, SimpleIs DEF POLICYDB_VERSION_AVTAB, POLICYDB_VERSION_BOUNDARY
  <2>2. r.te_avtab = tab /\ r.type_attr_map[s] = {s} /\ r.type_attr_map[t] = {t}
    <3> DEFINE named == NamedIn(WrittenTypes(d))
    <3>1. r.te_avtab = tab
      BY <1>2, <1>5 DEF Written
    <3>2. r.type_attr_map = [i \in 1..d.nprim |-> IF i \in named THEN {i} ELSE {}]
      BY <1>2, <1>3, <1>5 DEF RestoredRows, POLICYDB_VERSION_AVTAB
    <3>3. s \in 1..d.nprim /\ t \in 1..d.nprim /\ s \in named /\ t \in named
      BY <2>1
    <3> HIDE DEF named
    <3> QED
      BY <3>1, <3>2, <3>3
  <2>3. \A k \in DOMAIN te : k.s \in 1..d.nprim /\ k.t \in 1..d.nprim /\ k = Key(k.s, k.t, k.c, k.spec)
    BY <1>5, OldKeys
  <2>4. \A k \in DOMAIN tab : k = Key(k.s, k.t, k.c, k.spec)
    BY <1>5, ExpandOK
  <2>5. /\ DOMAIN tab = Expandable(d, te)
        /\ \A k \in DOMAIN tab : tab[k] = Joined(k.spec, {te[j] : j \in Sources(d, te, k)})
    BY DEF Expand
  <2>6. \A x \in 1..d.nprim : /\ s \in Members(d, x) <=> x \in rows[s]
                              /\ t \in Members(d, x) <=> x \in rows[t]
    BY MembersAre
  <2>7. Own(r) = {k \in DOMAIN tab : k.s = s /\ k.t = t /\ k.spec = spec}
    BY <2>2 DEF Rows
  <2>8. Own(d) = {j \in DOMAIN te : j.s \in rows[s] /\ j.t \in rows[t] /\ j.spec = spec}
    BY DEF Rows
  <2>9. ASSUME NEW k \in Own(r)
        PROVE  /\ Sources(d, te, k) \subseteq Own(d)
               /\ k \in DOMAIN tab /\ k.spec = spec
    <3>1. k \in DOMAIN tab /\ k.s = s /\ k.t = t /\ k.spec = spec
      BY <2>7
    <3>2. ASSUME NEW j \in Sources(d, te, k)
          PROVE  j \in Own(d)
      <4>1. j \in DOMAIN te /\ j.spec = spec /\ s \in Members(d, j.s) /\ t \in Members(d, j.t)
        BY <3>1 DEF Sources
      <4> QED
        BY <2>3, <2>6, <2>8, <4>1
    <3> QED
      BY <3>1, <3>2
  <2>10. ASSUME NEW j \in Own(d)
         PROVE  \E k \in Own(r) : j \in Sources(d, te, k)
    <3> DEFINE k == Key(s, t, j.c, spec)
    <3>1. j \in DOMAIN te /\ j.spec = spec /\ j.s \in rows[s] /\ j.t \in rows[t]
      BY <2>8
    <3>2. s \in Members(d, j.s) /\ t \in Members(d, j.t)
      BY <2>3, <2>6, <3>1
    <3>3. k \in Expandable(d, te)
      BY <3>1, <3>2 DEF Expandable
    <3>4. k.s = s /\ k.t = t /\ k.c = j.c /\ k.spec = spec
      BY DEF Key
    <3> HIDE DEF k
    <3>5. k \in Own(r)
      BY <2>5, <2>7, <3>3, <3>4
    <3>6. j \in Sources(d, te, k)
      BY <3>1, <3>2, <3>4 DEF Sources
    <3> QED
      BY <3>5, <3>6
  <2> HIDE DEF tab, te, Own
  <2>11. \A k \in Own(r) : r.te_avtab[k] = Joined(spec, {te[j] : j \in Sources(d, te, k)})
    BY <2>2, <2>5, <2>9
  <2>12. CASE spec = "auditdeny"
    <3>1. \A k \in Own(r) : r.te_avtab[k] = {b \in Perms : \A j \in Sources(d, te, k) : b \in te[j]}
      <4> TAKE k \in Own(r)
      <4> DEFINE data == {te[j] : j \in Sources(d, te, k)}
      <4>1. Joined(spec, data) = {b \in Perms : \A x \in data : b \in x}
        BY <2>12 DEF Joined, TypeSpecs
      <4>2. \A b : (\A x \in data : b \in x) <=> (\A j \in Sources(d, te, k) : b \in te[j])
        OBVIOUS
      <4>3. r.te_avtab[k] = Joined(spec, data)
        BY <2>11
      <4> HIDE DEF data
      <4>4. r.te_avtab[k] = {b \in Perms : \A x \in data : b \in x}
        BY <4>1, <4>3
      <4> QED
        BY <4>2, <4>4
    <3>2. \A b \in Perms : (\A x \in Data(r) : b \in x) <=> (\A x \in Data(d) : b \in x)
      <4> TAKE b \in Perms
      <4>1. (\A x \in Data(r) : b \in x) <=> \A k \in Own(r) : \A j \in Sources(d, te, k) : b \in te[j]
        BY <3>1
      <4>2. (\A x \in Data(d) : b \in x) <=> \A j \in Own(d) : b \in te[j]
        BY DEF te
      <4> QED
        BY <2>9, <2>10, <4>1, <4>2
    <3>3. Decision(r, s, t, spec) = {b \in Perms : \A x \in Data(r) : b \in x}
      BY <2>12 DEF Decision, Own
    <3>4. Decision(d, s, t, spec) = {b \in Perms : \A x \in Data(d) : b \in x}
      BY <2>12 DEF Decision, Own
    <3> HIDE DEF Data
    <3>5. Decision(r, s, t, spec) = Decision(d, s, t, spec)
      BY <3>2, <3>3, <3>4
    <3> QED
      BY <3>5 DEF r
  <2>13. CASE spec # "auditdeny"
    <3>1. \A k \in Own(r) : r.te_avtab[k] = UNION {te[j] : j \in Sources(d, te, k)}
      <4> TAKE k \in Own(r)
      <4> DEFINE data == {te[j] : j \in Sources(d, te, k)}
      <4>1. Joined(spec, data) = UNION data
        BY <2>13 DEF Joined, AvSpecs, TypeSpecs
      <4> QED
        BY <2>11, <4>1
    <3>2. \A b : (\E x \in Data(r) : b \in x) <=> (\E x \in Data(d) : b \in x)
      <4> TAKE b
      <4>1. (\E x \in Data(r) : b \in x) <=> \E k \in Own(r) : \E j \in Sources(d, te, k) : b \in te[j]
        BY <3>1
      <4>2. (\E x \in Data(d) : b \in x) <=> \E j \in Own(d) : b \in te[j]
        BY DEF te
      <4> QED
        BY <2>9, <2>10, <4>1, <4>2
    <3>3. Decision(r, s, t, spec) = UNION Data(r)
      BY <2>13 DEF Decision, Own
    <3>4. Decision(d, s, t, spec) = UNION Data(d)
      BY <2>13 DEF Decision, Own
    <3> HIDE DEF Data
    <3>5. Decision(r, s, t, spec) = Decision(d, s, t, spec)
      BY <3>2, <3>3, <3>4
    <3> QED
      BY <3>5 DEF r
  <2> QED
    BY <2>12, <2>13
<1> QED
  BY <1>4, <1>5

\* A policy with some of its fields changed.
FieldNames ==
  {"vers", "mls", "policycaps", "permissive", "commons", "bools", "levels", "cats", "classes",
   "roles", "types", "users", "nprim", "te_avtab", "cond_list", "role_tr", "role_allow",
   "filename_trans", "ocontexts", "genfs", "range_tr", "type_attr_map"}
Keeps(d, r, changed) ==
  /\ HasFields(r)
  /\ \A f \in FieldNames \ changed : r[f] = d[f]
Changed(d, x, val) == [d EXCEPT ![x] = val]

\* A policydb has its fields and no others.
LEMMA PolicyFieldsAre ==
  ASSUME NEW d
  PROVE  HasFields(d) <=> DOMAIN d = FieldNames /\ d = [f \in DOMAIN d |-> d[f]]
<1>1. ASSUME HasFields(d)
      PROVE  DOMAIN d = FieldNames /\ d = [f \in DOMAIN d |-> d[f]]
  BY <1>1 DEF HasFields, FieldNames
<1>2. ASSUME DOMAIN d = FieldNames, d = [f \in DOMAIN d |-> d[f]]
      PROVE  HasFields(d)
  BY <1>2 DEF HasFields, FieldNames
<1> QED
  BY <1>1, <1>2

\* A policy with one field changed has the others as before.
LEMMA ChangedKeeps ==
  ASSUME NEW d, HasFields(d), NEW x \in FieldNames, NEW val
  PROVE  Keeps(d, Changed(d, x, val), {x}) /\ Changed(d, x, val)[x] = val
<1> DEFINE r == Changed(d, x, val)
<1>1. DOMAIN d = FieldNames
  BY PolicyFieldsAre
<1>2. /\ DOMAIN r = FieldNames /\ r = [f \in DOMAIN r |-> r[f]]
      /\ r[x] = val /\ \A f \in FieldNames \ {x} : r[f] = d[f]
  BY <1>1 DEF Changed
<1> HIDE DEF r
<1>3. HasFields(r)
  BY <1>2, PolicyFieldsAre
<1> QED
  BY <1>2, <1>3 DEF Keeps, r

\* What does not speak of the field that changes.
LEMMA OthersOK ==
  ASSUME NEW d, PolicyOK(d), NEW r,
         NEW x \in {"permissive", "te_avtab", "filename_trans", "genfs", "classes"},
         Keeps(d, r, {x})
  PROVE  /\ HasFields(r) /\ r.vers \in 15..33 /\ r.nprim \in Nat /\ r.vers = d.vers
         /\ LacksOK(r) /\ OcontextsOK(r) /\ ValuesOK(r) /\ RowsOK(r) /\ CondsOK(r)
         /\ \A tab : TableOK(d, tab) => TableOK(r, tab)
         /\ \A f \in FieldNames \ {x} : r[f] = d[f]
<1>1. /\ r.vers = d.vers /\ r.nprim = d.nprim /\ r.policycaps = d.policycaps
      /\ r.bools = d.bools /\ r.cond_list = d.cond_list /\ r.levels = d.levels
      /\ r.cats = d.cats /\ r.range_tr = d.range_tr /\ r.ocontexts = d.ocontexts
      /\ r.types = d.types /\ r.type_attr_map = d.type_attr_map
  BY DEF Keeps, FieldNames
<1>2. HasFields(r) /\ r.vers \in 15..33 /\ r.nprim \in Nat
  BY <1>1 DEF Keeps, PolicyOK
<1>3. LacksOK(r)
  BY <1>1 DEF PolicyOK, LacksOK
<1>4. OcontextsOK(r)
  BY <1>1 DEF PolicyOK, OcontextsOK
<1>5. ValuesOK(r)
  BY <1>1 DEF PolicyOK, ValuesOK
<1>6. Simple(r) = Simple(d) /\ Named(r) = Named(d)
  BY <1>1 DEF Simple, Named, Attribs
<1>7. RowsOK(r)
  BY <1>1, <1>6 DEF PolicyOK, RowsOK
<1>8. \A k : KeyOK(d, k) => KeyOK(r, k)
  BY <1>1 DEF KeyOK
<1>9. \A tab : TableOK(d, tab) => TableOK(r, tab)
  BY <1>8 DEF TableOK
<1>10. \A n : CondOK(d, n) => CondOK(r, n)
  BY <1>1, <1>6, <1>9 DEF CondOK
<1>11. CondsOK(r)
  BY <1>1, <1>10 DEF PolicyOK, CondsOK
<1> QED
  BY <1>1, <1>2, <1>3, <1>4, <1>5, <1>7, <1>9, <1>11 DEF Keeps

\* Its lists stay finite.
LEMMA FiniteKept ==
  ASSUME NEW d, PolicyOK(d), NEW r, NEW x \in FieldNames, Keeps(d, r, {x}),
         x \in {"permissive", "te_avtab"} \/ IsFiniteSet(r[x])
  PROVE  FiniteOK(r)
BY DEF FiniteOK, Keeps, PolicyOK, FieldNames

\* Any set of permissive types is one a policy may have.
LEMMA PermissiveOK ==
  ASSUME NEW d, PolicyOK(d), NEW val
  PROVE  PolicyOK([d EXCEPT !.permissive = val])
<1> DEFINE r == Changed(d, "permissive", val)
<1>1. "permissive" \in FieldNames
  BY DEF FieldNames
<1>2. Keeps(d, r, {"permissive"})
  BY <1>1, ChangedKeeps DEF PolicyOK
<1> HIDE DEF r
<1>3. FiniteOK(r)
  BY <1>1, <1>2, FiniteKept
<1>4. /\ HasFields(r) /\ r.vers \in 15..33 /\ r.nprim \in Nat /\ r.vers = d.vers
      /\ LacksOK(r) /\ OcontextsOK(r) /\ ValuesOK(r) /\ RowsOK(r) /\ CondsOK(r)
      /\ \A tab : TableOK(d, tab) => TableOK(r, tab)
      /\ \A f \in FieldNames \ {"permissive"} : r[f] = d[f]
  BY <1>2, OthersOK
<1>5. RecordsOK(r)
  <2>1. /\ r.classes = d.classes /\ r.roles = d.roles /\ r.types = d.types /\ r.users = d.users
        /\ r.role_tr = d.role_tr /\ r.role_allow = d.role_allow /\ r.nprim = d.nprim
        /\ r.filename_trans = d.filename_trans /\ r.genfs = d.genfs /\ r.range_tr = d.range_tr
    BY <1>4 DEF FieldNames
  <2> QED
    BY <1>4, <2>1 DEF PolicyOK, RecordsOK, TypeOK
<1>6. TableOK(r, r.te_avtab)
  BY <1>4 DEF PolicyOK, FieldNames
<1>7. PolicyOK(r)
  BY <1>3, <1>4, <1>5, <1>6 DEF PolicyOK
<1> QED
  BY <1>7 DEF r, Changed

\* Any rules of the version are rules a policy may have.
LEMMA RulesOK ==
  ASSUME NEW d, PolicyOK(d), NEW tab, TableOK(d, tab)
  PROVE  PolicyOK([d EXCEPT !.te_avtab = tab])
<1> DEFINE r == Changed(d, "te_avtab", tab)
<1>1. "te_avtab" \in FieldNames
  BY DEF FieldNames
<1>2. Keeps(d, r, {"te_avtab"}) /\ r.te_avtab = tab
  BY <1>1, ChangedKeeps DEF PolicyOK
<1> HIDE DEF r
<1>3. FiniteOK(r)
  BY <1>1, <1>2, FiniteKept
<1>4. /\ HasFields(r) /\ r.vers \in 15..33 /\ r.nprim \in Nat /\ r.vers = d.vers
      /\ LacksOK(r) /\ OcontextsOK(r) /\ ValuesOK(r) /\ RowsOK(r) /\ CondsOK(r)
      /\ TableOK(r, tab)
      /\ \A f \in FieldNames \ {"te_avtab"} : r[f] = d[f]
  BY <1>2, OthersOK
<1>5. RecordsOK(r)
  <2>1. /\ r.classes = d.classes /\ r.roles = d.roles /\ r.types = d.types /\ r.users = d.users
        /\ r.role_tr = d.role_tr /\ r.role_allow = d.role_allow /\ r.nprim = d.nprim
        /\ r.filename_trans = d.filename_trans /\ r.genfs = d.genfs /\ r.range_tr = d.range_tr
    BY <1>4 DEF FieldNames
  <2> QED
    BY <1>4, <2>1 DEF PolicyOK, RecordsOK, TypeOK
<1>6. PolicyOK(r)
  BY <1>2, <1>3, <1>4, <1>5 DEF PolicyOK
<1> QED
  BY <1>6 DEF r, Changed

\* Any filename transitions are some a policy may have.
LEMMA FilenamesOK ==
  ASSUME NEW d, PolicyOK(d), NEW val, IsFiniteSet(val), \A f \in val : FilenameTransOK(f)
  PROVE  PolicyOK([d EXCEPT !.filename_trans = val])
<1> DEFINE r == Changed(d, "filename_trans", val)
<1>1. "filename_trans" \in FieldNames
  BY DEF FieldNames
<1>2. Keeps(d, r, {"filename_trans"}) /\ r.filename_trans = val
  BY <1>1, ChangedKeeps DEF PolicyOK
<1> HIDE DEF r
<1>3. FiniteOK(r)
  BY <1>1, <1>2, FiniteKept
<1>4. /\ HasFields(r) /\ r.vers \in 15..33 /\ r.nprim \in Nat /\ r.vers = d.vers
      /\ LacksOK(r) /\ OcontextsOK(r) /\ ValuesOK(r) /\ RowsOK(r) /\ CondsOK(r)
      /\ \A tab : TableOK(d, tab) => TableOK(r, tab)
      /\ \A f \in FieldNames \ {"filename_trans"} : r[f] = d[f]
  BY <1>2, OthersOK
<1>5. RecordsOK(r)
  <2>1. /\ r.classes = d.classes /\ r.roles = d.roles /\ r.types = d.types /\ r.users = d.users
        /\ r.role_tr = d.role_tr /\ r.role_allow = d.role_allow /\ r.nprim = d.nprim
        /\ r.genfs = d.genfs /\ r.range_tr = d.range_tr
    BY <1>4 DEF FieldNames
  <2> QED
    BY <1>2, <1>4, <2>1 DEF PolicyOK, RecordsOK, TypeOK
<1>6. TableOK(r, r.te_avtab)
  BY <1>4 DEF PolicyOK, FieldNames
<1>7. PolicyOK(r)
  BY <1>3, <1>4, <1>5, <1>6 DEF PolicyOK
<1> QED
  BY <1>7 DEF r, Changed

\* Any labels with contexts of the version are some a policy may have.
LEMMA GenfsListOK ==
  ASSUME NEW d, PolicyOK(d), NEW val, IsFiniteSet(val), \A g \in val : GenfsOK(d.vers, g)
  PROVE  PolicyOK([d EXCEPT !.genfs = val])
<1> DEFINE r == Changed(d, "genfs", val)
<1>1. "genfs" \in FieldNames
  BY DEF FieldNames
<1>2. Keeps(d, r, {"genfs"}) /\ r.genfs = val
  BY <1>1, ChangedKeeps DEF PolicyOK
<1> HIDE DEF r
<1>3. FiniteOK(r)
  BY <1>1, <1>2, FiniteKept
<1>4. /\ HasFields(r) /\ r.vers \in 15..33 /\ r.nprim \in Nat /\ r.vers = d.vers
      /\ LacksOK(r) /\ OcontextsOK(r) /\ ValuesOK(r) /\ RowsOK(r) /\ CondsOK(r)
      /\ \A tab : TableOK(d, tab) => TableOK(r, tab)
      /\ \A f \in FieldNames \ {"genfs"} : r[f] = d[f]
  BY <1>2, OthersOK
<1>5. RecordsOK(r)
  <2>1. /\ r.classes = d.classes /\ r.roles = d.roles /\ r.types = d.types /\ r.users = d.users
        /\ r.role_tr = d.role_tr /\ r.role_allow = d.role_allow /\ r.nprim = d.nprim
        /\ r.filename_trans = d.filename_trans /\ r.range_tr = d.range_tr
    BY <1>4 DEF FieldNames
  <2> QED
    BY <1>2, <1>4, <2>1 DEF PolicyOK, RecordsOK, TypeOK
<1>6. TableOK(r, r.te_avtab)
  BY <1>4 DEF PolicyOK, FieldNames
<1>7. PolicyOK(r)
  BY <1>3, <1>4, <1>5, <1>6 DEF PolicyOK
<1> QED
  BY <1>7 DEF r, Changed

\* A table with one key more, or one less.
LEMMA AlsoOK ==
  ASSUME NEW d, NEW tab, TableOK(d, tab), NEW k, KeyOK(d, k), NEW data,
         k.spec \in AvSpecs => data \subseteq Perms
  PROVE  TableOK(d, Also(Single(k, data), tab))
<1> DEFINE new == Also(Single(k, data), tab)
<1>1. DOMAIN new = {k} \cup DOMAIN tab
  BY DEF Also, Single
<1>2. new[k] = data /\ \A j \in DOMAIN tab : j # k => new[j] = tab[j]
  BY DEF Also, Single
<1>3. new = [j \in DOMAIN new |-> new[j]]
  BY DEF Also
<1> HIDE DEF new
<1>4. IsFiniteSet({k} \cup DOMAIN tab)
  BY FS_Singleton, FS_Union DEF TableOK
<1> QED
  BY <1>1, <1>2, <1>3, <1>4 DEF TableOK, new

LEMMA WithoutOK ==
  ASSUME NEW d, NEW tab, TableOK(d, tab), NEW k
  PROVE  TableOK(d, [j \in DOMAIN tab \ {k} |-> tab[j]])
<1> DEFINE new == [j \in DOMAIN tab \ {k} |-> tab[j]]
<1>1. DOMAIN new = DOMAIN tab \ {k} /\ (\A j \in DOMAIN new : new[j] = tab[j])
      /\ new = [j \in DOMAIN new |-> new[j]]
  OBVIOUS
<1> HIDE DEF new
<1>2. IsFiniteSet(DOMAIN tab \ {k})
  BY FS_Difference DEF TableOK
<1> QED
  BY <1>1, <1>2 DEF TableOK, new

LEMMA FieldOrIs ==
  \A tab, k, none : FieldOr(tab, k, none) = IF k \in DOMAIN tab THEN tab[k] ELSE none
BY DEF FieldOr

\* A type that has a name has a number of the table.
LEMMA NamedIs ==
  ASSUME NEW d, PolicyOK(d)
  PROVE  Named(d) \subseteq 1..d.nprim
BY DEF PolicyOK, RecordsOK, TypeOK, Named

\* Each statement leaves a policy that can be saved.  add_rule_impl.
LEMMA AddRuleOK ==
  ASSUME NEW d, PolicyOK(d), NEW s \in Named(d), NEW t \in Named(d),
         NEW spec \in {"allowed", "auditdeny"}, NEW perms, perms \subseteq Perms,
         NEW invert \in BOOLEAN
  PROVE  LET k   == Key(s, t, TypeClass, spec)
             old == FieldOr(d.te_avtab, k, DefaultData(spec))
         IN PolicyOK([d EXCEPT !.te_avtab =
              Put(@, k, IF invert THEN old \ perms ELSE old \cup perms)])
<1> DEFINE k    == Key(s, t, TypeClass, spec)
           old  == FieldOr(d.te_avtab, k, DefaultData(spec))
           data == IF invert THEN old \ perms ELSE old \cup perms
           tab  == d.te_avtab
<1>1. k.spec = spec /\ k.s = s /\ k.t = t /\ k = Key(k.s, k.t, k.c, k.spec)
  BY DEF Key
<1>2. spec \in AvSpecs
  BY DEF AvSpecs
<1>3. TableOK(d, tab)
  BY DEF PolicyOK
<1> HIDE DEF k
<1>4. KeyOK(d, k)
  BY <1>1, <1>2, NamedIs DEF KeyOK
<1>5. old \subseteq Perms
  BY <1>1, <1>2, <1>3, FieldOrIs DEF TableOK, DefaultData
<1>6. data \subseteq Perms
  BY <1>5
<1> HIDE DEF data, old, tab
<1>7. TableOK(d, Put(tab, k, data))
  BY <1>3, <1>4, <1>6, AlsoOK, WithoutOK DEF Put
<1>8. PolicyOK([d EXCEPT !.te_avtab = Put(tab, k, data)])
  BY <1>7, RulesOK
<1> QED
  BY <1>8 DEF tab, data, old, k

\* sepol_add_type_rule.
LEMMA AddTypeRuleOK ==
  ASSUME NEW d, PolicyOK(d), NEW s \in Named(d), NEW t \in Named(d), NEW data
  PROVE  LET k == Key(s, t, TypeClass, "transition")
         IN  PolicyOK([d EXCEPT !.te_avtab = Also(Single(k, data), @)])
<1> DEFINE k   == Key(s, t, TypeClass, "transition")
           tab == d.te_avtab
<1>1. k.spec = "transition" /\ k.s = s /\ k.t = t /\ k = Key(k.s, k.t, k.c, k.spec)
  BY DEF Key
<1>2. "transition" \in TypeSpecs /\ "transition" \notin AvSpecs
  BY DEF TypeSpecs, AvSpecs
<1>3. TableOK(d, tab)
  BY DEF PolicyOK
<1> HIDE DEF k, tab
<1>4. KeyOK(d, k)
  BY <1>1, <1>2, NamedIs DEF KeyOK
<1>5. TableOK(d, Also(Single(k, data), tab))
  BY <1>1, <1>2, <1>3, <1>4, AlsoOK
<1>6. PolicyOK([d EXCEPT !.te_avtab = Also(Single(k, data), tab)])
  BY <1>5, RulesOK
<1> QED
  BY <1>6 DEF k, tab

\* sepol_add_xperm_rule.
LEMMA AddXpermRuleOK ==
  ASSUME NEW d, PolicyOK(d), NEW s \in Named(d), NEW t \in Named(d), NEW driver, NEW perms,
         d.vers >= POLICYDB_VERSION_XPERMS_IOCTL
  PROVE  LET k == XKey(s, t, TypeClass, "function", driver)
         IN  PolicyOK([d EXCEPT !.te_avtab =
                Also(Single(k, FieldOr(@, k, {}) \cup perms), @)])
<1> DEFINE k    == XKey(s, t, TypeClass, "function", driver)
           tab  == d.te_avtab
           data == FieldOr(tab, k, {}) \cup perms
<1>1. /\ k.spec = "xperms" /\ k.s = s /\ k.t = t /\ k.kind = "function"
      /\ k = XKey(k.s, k.t, k.c, k.kind, k.driver)
  BY DEF XKey
<1>2. "xperms" \notin AvSpecs
  BY DEF AvSpecs
<1>3. TableOK(d, tab)
  BY DEF PolicyOK
<1> HIDE DEF k, tab, data
<1>4. KeyOK(d, k)
  BY <1>1, NamedIs DEF KeyOK
<1>5. TableOK(d, Also(Single(k, data), tab))
  BY <1>1, <1>2, <1>3, <1>4, AlsoOK
<1>6. PolicyOK([d EXCEPT !.te_avtab = Also(Single(k, data), tab)])
  BY <1>5, RulesOK
<1> QED
  BY <1>6 DEF k, tab, data

\* sepol_add_filename_trans, with a node that has the source and without one.
LEMMA AddFilenameTransOK ==
  ASSUME NEW d, PolicyOK(d), NEW s, NEW t, NEW name, NEW otype, NEW stop, NEW val,
         \/ val = Redirect(d.filename_trans, stop, otype)
         \/ val = InsertEntry(d.filename_trans, [s |-> s, t |-> t, name |-> name, otype |-> otype])
  PROVE  PolicyOK([d EXCEPT !.filename_trans = val])
<1> DEFINE e == [s |-> s, t |-> t, name |-> name, otype |-> otype]
           S == d.filename_trans
<1>1. IsFiniteSet(S) /\ \A g \in S : FilenameTransOK(g)
  BY DEF PolicyOK, FiniteOK, RecordsOK
<1>2. IsEntry(e)
  BY DEF IsEntry
<1> HIDE DEF e, S
<1>3. CASE val = Redirect(S, stop, otype)
  <2> DEFINE F == [g \in S |-> IF \E f \in stop : <<f.t, f.name, f.at>> = <<g.t, g.name, g.at>>
                               THEN Trans(g.s, g, otype, g.at) ELSE g]
  <2>1. val = {F[g] : g \in S}
    BY <1>3 DEF Redirect
  <2>2. ASSUME NEW g \in S
        PROVE  FilenameTransOK(F[g])
    <3>1. FilenameTransOK(g)
      BY <1>1
    <3>2. FilenameTransOK(Trans(g.s, g, otype, g.at))
      BY <3>1 DEF FilenameTransOK, Trans
    <3> QED
      BY <3>1, <3>2
  <2> HIDE DEF F
  <2>3. IsFiniteSet(val)
    BY <1>1, <2>1, ImageFinite
  <2>4. \A f \in val : FilenameTransOK(f)
    BY <2>1, <2>2
  <2> QED
    BY <2>3, <2>4, FilenamesOK
<1>4. CASE val = InsertEntry(S, e)
  <2> DEFINE E == Transitions(d)
  <2>1. \A x \in E : IsEntry(x)
    BY DEF Transitions, Transition, IsEntry
  <2>2. \A f \in S : Transition(f) \in E
    BY DEF Transitions, S
  <2> HIDE DEF E
  <2>3. S \in Inserted(E)
    BY <1>1, <2>1, <2>2, PlacedIs DEF Inserted
  <2>4. PICK new : /\ val = S \cup new /\ IsFiniteSet(new)
                   /\ \A f \in new : f \in S \/ FilenameTransOK(f)
    BY <1>2, <1>4, <2>1, <2>3, InsertedAre
  <2>5. IsFiniteSet(val)
    BY <1>1, <2>4, FS_Union
  <2>6. \A f \in val : FilenameTransOK(f)
    BY <1>1, <2>4
  <2> QED
    BY <2>5, <2>6, FilenamesOK
<1> QED
  BY <1>3, <1>4 DEF S, e

GenfsAdded(d, fs, path, context) ==
  [d EXCEPT !.genfs =
     {IF g.fs # fs THEN g
      ELSE [g EXCEPT !.entries = {e \in @ : e.path # path}
                                   \cup {[path |-> path, context |-> context]}]
      : g \in @}]
\* sepol_add_genfscon.
LEMMA AddGenfsconOK ==
  ASSUME NEW d, PolicyOK(d), NEW fs, NEW path, NEW o \in d.ocontexts["isid"]
  PROVE  PolicyOK(GenfsAdded(d, fs, path, o.contexts[1]))
<1> DEFINE c == o.contexts[1]
           new == [path |-> path, context |-> c]
           Labelled(g) == IF g.fs # fs THEN g
                   ELSE [g EXCEPT !.entries = {e \in @ : e.path # path} \cup {new}]
           val == {Labelled(g) : g \in d.genfs}
<1>1. ContextOK(d.vers, c)
  <2>1. "isid" \in ToSet(Ocontexts)
    BY NamesAre DEF OconNames
  <2>2. OcontextOK(d.vers, o)
    BY <2>1 DEF PolicyOK, OcontextsOK
  <2>3. 1 \in DOMAIN o.contexts
    BY <2>2 DEF OcontextOK
  <2> QED
    BY <2>2, <2>3 DEF OcontextOK
<1>2. new = [path |-> new.path, context |-> new.context] /\ new.context = c
  OBVIOUS
<1> HIDE DEF new, c
<1>3. ASSUME NEW g, GenfsOK(d.vers, g)
      PROVE  GenfsOK(d.vers, Labelled(g))
  <2>1. CASE g.fs # fs
    BY <1>3, <2>1
  <2>2. ASSUME ~(g.fs # fs)
        PROVE  GenfsOK(d.vers, Labelled(g))
    <3> DEFINE entries == {e \in g.entries : e.path # path} \cup {new}
               h == [fs |-> g.fs, entries |-> entries]
    <3>1. \A e \in entries : e = [path |-> e.path, context |-> e.context] /\ ContextOK(d.vers, e.context)
      BY <1>1, <1>2, <1>3 DEF GenfsOK
    <3>2. [g EXCEPT !.entries = entries] = h
      <4> HIDE DEF entries
      <4> QED
        BY <1>3 DEF GenfsOK
    <3>3. Labelled(g) = h
      BY <2>2, <3>2
    <3>4. GenfsOK(d.vers, h)
      <4> HIDE DEF entries
      <4> QED
        BY <3>1 DEF GenfsOK
    <3> QED
      BY <3>3, <3>4
  <2> QED
    BY <2>1, <2>2
<1>4. IsFiniteSet(d.genfs) /\ \A g \in d.genfs : GenfsOK(d.vers, g)
  BY DEF PolicyOK, FiniteOK, RecordsOK
<1>5. \A g \in val : GenfsOK(d.vers, g)
  <2> HIDE DEF Labelled
  <2> QED
    BY <1>3, <1>4
<1>6. IsFiniteSet(val)
  <2> DEFINE F == [g \in d.genfs |-> Labelled(g)]
  <2>1. val = {F[g] : g \in d.genfs}
    <3> HIDE DEF Labelled
    <3> QED
      OBVIOUS
  <2> HIDE DEF F, val
  <2> QED
    BY <1>4, <2>1, ImageFinite
<1> HIDE DEF val
<1>7. PolicyOK([d EXCEPT !.genfs = val])
  BY <1>5, <1>6, GenfsListOK
<1> QED
  BY <1>7 DEF GenfsAdded, val, new, c

\* sepol_add_typeattribute, one field after the other.
LEMMA RowsChangedOK ==
  ASSUME NEW d, PolicyOK(d), NEW t \in Simple(d), NEW a \in Attribs(d)
  PROVE  PolicyOK([d EXCEPT !.type_attr_map =
            [d.type_attr_map EXCEPT ![t] = d.type_attr_map[t] \cup {a}]])
<1> DEFINE rows == d.type_attr_map
           new  == [rows EXCEPT ![t] = rows[t] \cup {a}]
           r    == Changed(d, "type_attr_map", new)
           n    == d.nprim
<1>1. "type_attr_map" \in FieldNames
  BY DEF FieldNames
<1>2. Keeps(d, r, {"type_attr_map"}) /\ r.type_attr_map = new
  BY <1>1, ChangedKeeps DEF PolicyOK
<1>3. /\ rows = [i \in 1..n |-> rows[i]]
      /\ \A i \in 1..n :
            /\ rows[i] \subseteq {i} \cup ((1..n) \ Simple(d))
            /\ i \notin Simple(d) => rows[i] \subseteq {i}
            /\ i \in Named(d) => i \in rows[i]
  BY DEF PolicyOK, RowsOK
<1>4. t \in 1..n /\ a \in 1..n /\ a \notin Simple(d)
  BY NamedIs DEF Simple, Named, Attribs
<1> HIDE DEF rows
<1>5. /\ DOMAIN new = 1..n /\ new = [i \in 1..n |-> new[i]]
      /\ new[t] = rows[t] \cup {a} /\ \A i \in 1..n : i # t => new[i] = rows[i]
  BY <1>3, <1>4
<1> HIDE DEF r, new
<1>6. /\ HasFields(r) /\ r.vers = d.vers /\ r.nprim = n /\ r.policycaps = d.policycaps
      /\ r.bools = d.bools /\ r.cond_list = d.cond_list /\ r.levels = d.levels
      /\ r.cats = d.cats /\ r.range_tr = d.range_tr /\ r.ocontexts = d.ocontexts
      /\ r.types = d.types /\ r.te_avtab = d.te_avtab
      /\ r.classes = d.classes /\ r.roles = d.roles /\ r.users = d.users
      /\ r.role_tr = d.role_tr /\ r.role_allow = d.role_allow
      /\ r.filename_trans = d.filename_trans /\ r.genfs = d.genfs
  BY <1>2 DEF Keeps, FieldNames
<1>7. Simple(r) = Simple(d) /\ Named(r) = Named(d)
  BY <1>6 DEF Simple, Named, Attribs
<1>8. RowsOK(r)
  <2>1. ASSUME NEW i \in 1..n
        PROVE  /\ new[i] \subseteq {i} \cup ((1..n) \ Simple(d))
               /\ i \notin Simple(d) => new[i] \subseteq {i}
               /\ i \in Named(d) => i \in new[i]
    <3>1. CASE i # t
      BY <1>3, <1>5, <3>1
    <3>2. CASE i = t
      <4>1. new[i] = rows[i] \cup {a} /\ i \in Simple(d)
        BY <1>5, <3>2
      <4> HIDE DEF n
      <4> QED
        BY <1>3, <1>4, <4>1
    <3> QED
      BY <3>1, <3>2
  <2> QED
    BY <1>2, <1>5, <1>6, <1>7, <2>1 DEF RowsOK
<1>9. FiniteOK(r)
  BY <1>6, <1>2 DEF FiniteOK, Keeps, PolicyOK, FieldNames
<1>10. LacksOK(r) /\ OcontextsOK(r) /\ ValuesOK(r)
  BY <1>6 DEF PolicyOK, LacksOK, OcontextsOK, ValuesOK
<1>11. RecordsOK(r)
  BY <1>6 DEF PolicyOK, RecordsOK, TypeOK
<1>12. \A tab : TableOK(d, tab) => TableOK(r, tab)
  BY <1>6 DEF TableOK, KeyOK
<1>13. \A c : CondOK(d, c) => CondOK(r, c)
  BY <1>6, <1>7, <1>12 DEF CondOK
<1>14. CondsOK(r) /\ TableOK(r, r.te_avtab)
  BY <1>6, <1>12, <1>13 DEF PolicyOK, CondsOK
<1>15. PolicyOK(r)
  BY <1>6, <1>8, <1>9, <1>10, <1>11, <1>14 DEF PolicyOK
<1> QED
  BY <1>15 DEF r, new, rows, Changed

\* A constraint that learns of a type.
LEMMA LearnOK ==
  ASSUME NEW v, NEW e, ConstraintOK(v, e), NEW t, NEW a
  PROVE  ConstraintOK(v, Learn(e, t, a))
<1> DEFINE names == e.names \cup {t}
<1>1. Learn(e, t, a) \in {e, [names |-> names, type_names |-> e.type_names]}
  <2>1. [e EXCEPT !.names = @ \cup {t}] = [e EXCEPT !.names = names]
    OBVIOUS
  <2> HIDE DEF names
  <2>2. [e EXCEPT !.names = names] = [names |-> names, type_names |-> e.type_names]
    BY DEF ConstraintOK
  <2> QED
    BY <2>1, <2>2 DEF Learn
<1> QED
  BY <1>1 DEF ConstraintOK

Learned(c, t, a) == [c EXCEPT !.constraints = {Learn(e, t, a) : e \in @}]
LEMMA LearnedOK ==
  ASSUME NEW v, NEW c, ClassOK(v, c), NEW t, NEW a
  PROVE  ClassOK(v, Learned(c, t, a))
<1> DEFINE es == {Learn(e, t, a) : e \in c.constraints}
           r  == [name |-> c.name, constraints |-> es, validatetrans |-> c.validatetrans,
                  defaults |-> c.defaults, default_type |-> c.default_type]
<1>1. \A e \in es : ConstraintOK(v, e)
  BY LearnOK DEF ClassOK
<1> HIDE DEF es
<1>2. [c EXCEPT !.constraints = es] = r
  BY DEF ClassOK
<1>3. Learned(c, t, a) = r
  BY <1>2 DEF Learned, es
<1>4. ClassOK(v, r)
  BY <1>1 DEF ClassOK
<1> QED
  BY <1>3, <1>4

\* Any classes of the version are some a policy may have.
LEMMA ClassesChangedOK ==
  ASSUME NEW d, PolicyOK(d), NEW val, IsFiniteSet(val), \A c \in val : ClassOK(d.vers, c)
  PROVE  PolicyOK([d EXCEPT !.classes = val])
<1> DEFINE r == Changed(d, "classes", val)
<1>1. "classes" \in FieldNames
  BY DEF FieldNames
<1>2. Keeps(d, r, {"classes"}) /\ r.classes = val
  BY <1>1, ChangedKeeps DEF PolicyOK
<1> HIDE DEF r
<1>3. FiniteOK(r)
  BY <1>1, <1>2, FiniteKept
<1>4. /\ HasFields(r) /\ r.vers \in 15..33 /\ r.nprim \in Nat /\ r.vers = d.vers
      /\ LacksOK(r) /\ OcontextsOK(r) /\ ValuesOK(r) /\ RowsOK(r) /\ CondsOK(r)
      /\ \A tab : TableOK(d, tab) => TableOK(r, tab)
      /\ \A f \in FieldNames \ {"classes"} : r[f] = d[f]
  BY <1>2, OthersOK
<1>5. RecordsOK(r)
  <2>1. /\ r.roles = d.roles /\ r.types = d.types /\ r.users = d.users
        /\ r.role_tr = d.role_tr /\ r.role_allow = d.role_allow /\ r.nprim = d.nprim
        /\ r.filename_trans = d.filename_trans /\ r.genfs = d.genfs /\ r.range_tr = d.range_tr
    BY <1>4 DEF FieldNames
  <2> QED
    BY <1>2, <1>4, <2>1 DEF PolicyOK, RecordsOK, TypeOK
<1>6. TableOK(r, r.te_avtab)
  BY <1>4 DEF PolicyOK, FieldNames
<1>7. PolicyOK(r)
  BY <1>3, <1>4, <1>5, <1>6 DEF PolicyOK
<1> QED
  BY <1>7 DEF r, Changed

\* sepol_add_typeattribute, with the constraints that learn of the type.
LEMMA AddTypeAttributeOK ==
  ASSUME NEW d, PolicyOK(d), NEW t \in Simple(d), NEW a \in Attribs(d)
  PROVE  PolicyOK([d EXCEPT
           !.type_attr_map[t] = @ \cup {a},
           !.classes = {[c EXCEPT !.constraints = {Learn(e, t, a) : e \in @}] : c \in @}])
<1> DEFINE rows == [d.type_attr_map EXCEPT ![t] = d.type_attr_map[t] \cup {a}]
           d1   == [d EXCEPT !.type_attr_map = rows]
           val  == {Learned(c, t, a) : c \in d.classes}
<1>1. PolicyOK(d1)
  BY RowsChangedOK
<1>2. IsFiniteSet(d.classes) /\ (\A c \in d.classes : ClassOK(d.vers, c)) /\ HasFields(d)
  BY DEF PolicyOK, FiniteOK, RecordsOK
<1>3. d1.vers = d.vers /\ d1.classes = d.classes
  BY <1>2 DEF HasFields
<1>4. \A c \in val : ClassOK(d.vers, c)
  BY <1>2, LearnedOK
<1>5. IsFiniteSet(val)
  <2> DEFINE F == [c \in d.classes |-> Learned(c, t, a)]
  <2>1. val = {F[c] : c \in d.classes}
    OBVIOUS
  <2> HIDE DEF F, val
  <2> QED
    BY <1>2, <2>1, ImageFinite
<1>6. PolicyOK([d1 EXCEPT !.classes = val])
  <2> HIDE DEF d1, val
  <2> QED
    BY <1>1, <1>3, <1>4, <1>5, ClassesChangedOK
<1>7. [d1 EXCEPT !.classes = val] = [d EXCEPT !.type_attr_map = rows, !.classes = val]
  <2> HIDE DEF rows, val
  <2> QED
    BY <1>2 DEF HasFields
<1> QED
  BY <1>6, <1>7 DEF Learned

\* sepol_add_type: the fields of the policy with one type more.
TypeAdded(d, name, attrib) ==
  LET v == d.nprim + 1
  IN [d EXCEPT
       !.nprim = v,
       !.types = @ \cup {[name |-> name, value |-> v, attrib |-> attrib, bounds |-> 0]},
       !.type_attr_map = Append(@, {v}),
       !.roles = {[r EXCEPT !.types = @ \cup {v}] : r \in @}]
Assigned(role, v) == [role EXCEPT !.types = @ \cup {v}]

LEMMA TypeAddedFields ==
  ASSUME NEW d, HasFields(d), NEW name, NEW attrib, NEW r, r = TypeAdded(d, name, attrib),
         NEW v, v = d.nprim + 1
  PROVE  /\ HasFields(r) /\ r.vers = d.vers /\ r.policycaps = d.policycaps
         /\ r.commons = d.commons /\ r.bools = d.bools /\ r.levels = d.levels
         /\ r.cats = d.cats /\ r.classes = d.classes /\ r.users = d.users
         /\ r.te_avtab = d.te_avtab /\ r.cond_list = d.cond_list /\ r.role_tr = d.role_tr
         /\ r.role_allow = d.role_allow /\ r.filename_trans = d.filename_trans
         /\ r.ocontexts = d.ocontexts /\ r.genfs = d.genfs /\ r.range_tr = d.range_tr
         /\ r.nprim = v /\ r.type_attr_map = Append(d.type_attr_map, {v})
         /\ r.types = d.types \cup {[name |-> name, value |-> v, attrib |-> attrib, bounds |-> 0]}
         /\ r.roles = {Assigned(role, v) : role \in d.roles}
<1> DEFINE types == d.types \cup {[name |-> name, value |-> v, attrib |-> attrib, bounds |-> 0]}
           rows  == Append(d.type_attr_map, {v})
           roles == {Assigned(role, v) : role \in d.roles}
           d1    == Changed(d, "nprim", v)
           d2    == Changed(d1, "types", types)
           d3    == Changed(d2, "type_attr_map", rows)
           d4    == Changed(d3, "roles", roles)
<1>1. r = [d EXCEPT !.nprim = v, !.types = types, !.type_attr_map = rows, !.roles = roles]
  BY DEF TypeAdded, Assigned
<1> HIDE DEF types, rows, roles
<1>2. {"nprim", "types", "type_attr_map", "roles"} \subseteq FieldNames
  BY DEF FieldNames
<1>3. r = d4
  BY <1>1, <1>2, PolicyFieldsAre DEF Changed
<1> HIDE DEF d1, d2, d3, d4
<1>4. Keeps(d, d1, {"nprim"}) /\ d1.nprim = v
  BY <1>2, ChangedKeeps DEF d1
<1>5. Keeps(d1, d2, {"types"}) /\ d2.types = types
  BY <1>2, <1>4, ChangedKeeps DEF d2, Keeps
<1>6. Keeps(d2, d3, {"type_attr_map"}) /\ d3.type_attr_map = rows
  BY <1>2, <1>5, ChangedKeeps DEF d3, Keeps
<1>7. Keeps(d3, r, {"roles"}) /\ r.roles = roles
  BY <1>2, <1>3, <1>6, ChangedKeeps DEF d4, Keeps
<1>8. /\ HasFields(r) /\ r.roles = roles /\ r.nprim = v /\ r.types = types
      /\ r.type_attr_map = rows
  BY <1>4, <1>5, <1>6, <1>7 DEF Keeps, FieldNames
<1>9. \A f \in FieldNames \ {"nprim", "types", "type_attr_map", "roles"} : r[f] = d[f]
  BY <1>4, <1>5, <1>6, <1>7 DEF Keeps
<1> QED
  BY <1>8, <1>9 DEF FieldNames, types, rows, roles

\* sepol_add_type leaves a policy that can be saved.
LEMMA AddTypeOK ==
  ASSUME NEW d, PolicyOK(d), NEW name, NEW attrib \in BOOLEAN
  PROVE  PolicyOK(TypeAdded(d, name, attrib))
<1> DEFINE r == TypeAdded(d, name, attrib)
           n == d.nprim
           v == d.nprim + 1
           new == [name |-> name, value |-> v, attrib |-> attrib, bounds |-> 0]
           rows == d.type_attr_map
<1>1. HasFields(d) /\ d.vers \in 15..33 /\ n \in Nat
  BY DEF PolicyOK
<1> HIDE DEF r, v
<1>2. /\ HasFields(r) /\ r.vers = d.vers /\ r.policycaps = d.policycaps
      /\ r.commons = d.commons /\ r.bools = d.bools /\ r.levels = d.levels
      /\ r.cats = d.cats /\ r.classes = d.classes /\ r.users = d.users
      /\ r.te_avtab = d.te_avtab /\ r.cond_list = d.cond_list /\ r.role_tr = d.role_tr
      /\ r.role_allow = d.role_allow /\ r.filename_trans = d.filename_trans
      /\ r.ocontexts = d.ocontexts /\ r.genfs = d.genfs /\ r.range_tr = d.range_tr
      /\ r.nprim = v /\ r.type_attr_map = Append(rows, {v})
      /\ r.types = d.types \cup {new}
      /\ r.roles = {Assigned(role, v) : role \in d.roles}
  BY <1>1, TypeAddedFields DEF r, v
<1>3. v \in Nat /\ v \notin 1..n /\ 1..v = (1..n) \cup {v} /\ v \in 1..v /\ v = n + 1
  BY <1>1 DEF v
<1>4. /\ new.value = v /\ new.attrib = attrib /\ new.bounds = 0
      /\ new = [name |-> new.name, value |-> new.value, attrib |-> new.attrib, bounds |-> new.bounds]
  OBVIOUS
<1> HIDE DEF new, n
<1>5. /\ \A t \in d.types : t.value \in 1..n /\ t.attrib \in BOOLEAN
      /\ Named(d) \subseteq 1..n
  BY NamedIs DEF PolicyOK, RecordsOK, TypeOK, n
<1>6. /\ Named(r) = Named(d) \cup {v}
      /\ Attribs(r) = Attribs(d) \cup IF attrib THEN {v} ELSE {}
  BY <1>2, <1>4 DEF Named, Attribs
<1>7. Attribs(d) \subseteq Named(d)
  BY DEF Named, Attribs
<1>8. /\ \A i \in 1..n : i \in Simple(r) <=> i \in Simple(d)
      /\ Simple(d) \subseteq 1..n /\ Simple(r) \subseteq Simple(d) \cup {v}
  BY <1>3, <1>5, <1>6, <1>7 DEF Simple
<1>9. ValuesOK(r)
  BY <1>2, <1>3, <1>4, <1>5 DEF ValuesOK, PolicyOK
<1>10. RowsOK(r)
  <2>1. /\ rows = [i \in 1..n |-> rows[i]]
        /\ \A i \in 1..n :
              /\ rows[i] \subseteq {i} \cup ((1..n) \ Simple(d))
              /\ i \notin Simple(d) => rows[i] \subseteq {i}
              /\ i \in Named(d) => i \in rows[i]
    BY DEF PolicyOK, RowsOK, n
  <2> DEFINE more == Append(rows, {v})
             T == {rows[i] : i \in 1..n} \cup {{v}}
  <2> HIDE DEF rows
  <2>2. rows \in Seq(T) /\ Len(rows) = n
    <3>1. rows \in [1..n -> T]
      BY <2>1
    <3> QED
      BY <1>1, <3>1 DEF n
  <2> HIDE DEF T
  <2>3. /\ DOMAIN more = 1..v /\ more[v] = {v} /\ more = [i \in 1..v |-> more[i]]
        /\ \A i \in 1..n : more[i] = rows[i]
    <3>1. /\ more \in Seq(T) /\ Len(more) = n + 1 /\ more[n + 1] = {v}
          /\ \A i \in 1..n : more[i] = rows[i]
      BY <2>2 DEF T
    <3> HIDE DEF more
    <3> QED
      BY <1>3, <3>1
  <2> HIDE DEF more
  <2>4. ASSUME NEW i \in 1..v
        PROVE  /\ more[i] \subseteq {i} \cup ((1..v) \ Simple(r))
               /\ i \notin Simple(r) => more[i] \subseteq {i}
               /\ i \in Named(r) => i \in more[i]
    <3>1. CASE i = v
      BY <2>3, <3>1
    <3>2. CASE i # v
      <4>1. i \in 1..n /\ more[i] = rows[i]
        BY <1>3, <2>3, <3>2
      <4>2. (1..n) \ Simple(d) \subseteq (1..v) \ Simple(r)
        BY <1>3, <1>8
      <4> QED
        BY <1>6, <1>8, <2>1, <3>2, <4>1, <4>2
    <3> QED
      BY <3>1, <3>2
  <2>5. r.type_attr_map = more
    BY <1>2 DEF more, rows
  <2> QED
    BY <1>2, <2>3, <2>4, <2>5 DEF RowsOK
<1>11. IsFiniteSet(r.types) /\ IsFiniteSet(r.roles)
  <2> DEFINE F == [role \in d.roles |-> Assigned(role, v)]
  <2>1. IsFiniteSet(d.types) /\ IsFiniteSet(d.roles)
    BY DEF PolicyOK, FiniteOK
  <2>2. r.roles = {F[role] : role \in d.roles}
    BY <1>2
  <2> HIDE DEF F
  <2>3. IsFiniteSet(r.roles)
    BY <2>1, <2>2, ImageFinite
  <2>4. IsFiniteSet({new}) /\ r.types = d.types \cup {new}
    BY <1>2, FS_Singleton
  <2>5. IsFiniteSet(d.types \cup {new})
    BY <2>1, <2>4, FS_Union
  <2> QED
    BY <2>3, <2>4, <2>5
<1>12. FiniteOK(r)
  BY <1>2, <1>11 DEF PolicyOK, FiniteOK
<1>13. LacksOK(r) /\ OcontextsOK(r)
  BY <1>2 DEF PolicyOK, LacksOK, OcontextsOK
<1>14. \A role \in r.roles : RoleOK(r.vers, role)
  <2>1. ASSUME NEW role \in d.roles
        PROVE  RoleOK(d.vers, Assigned(role, v))
    <3> DEFINE types == role.types \cup {v}
    <3>1. RoleOK(d.vers, role)
      BY DEF PolicyOK, RecordsOK
    <3>2. Assigned(role, v) = [role EXCEPT !.types = types]
      BY DEF Assigned
    <3> HIDE DEF types
    <3>3. Assigned(role, v) = [name |-> role.name, types |-> types, bounds |-> role.bounds]
      BY <3>1, <3>2 DEF RoleOK
    <3> QED
      BY <3>1, <3>3 DEF RoleOK
  <2> QED
    BY <1>2, <2>1
<1>15. \A t \in r.types : TypeOK(r, t)
  <2>1. \A t \in d.types : TypeOK(r, t)
    BY <1>2, <1>3 DEF PolicyOK, RecordsOK, TypeOK, n
  <2>2. TypeOK(r, new)
    BY <1>2, <1>3, <1>4 DEF TypeOK
  <2> QED
    BY <1>2, <2>1, <2>2
<1>16. RecordsOK(r)
  BY <1>2, <1>14, <1>15 DEF PolicyOK, RecordsOK
<1>17. \A k : KeyOK(d, k) => KeyOK(r, k)
  BY <1>2, <1>3 DEF KeyOK, n
<1>18. \A tab : TableOK(d, tab) => TableOK(r, tab)
  BY <1>17 DEF TableOK
<1>19. Simple(d) \subseteq Simple(r)
  BY <1>8
<1>20. \A c : CondOK(d, c) => CondOK(r, c)
  BY <1>2, <1>18, <1>19 DEF CondOK
<1>21. CondsOK(r) /\ TableOK(r, r.te_avtab)
  BY <1>2, <1>18, <1>20 DEF PolicyOK, CondsOK
<1>22. PolicyOK(r)
  BY <1>1, <1>2, <1>3, <1>9, <1>10, <1>12, <1>13, <1>16, <1>21 DEF PolicyOK
<1> QED
  BY <1>22 DEF r

(***************************************************************************)
(* The invariant.  The policy in memory is always one the reader can have  *)
(* made.  A file that is there was written from such a policy, and what    *)
(* was last read of it is what the file says; a loaded policy is what the  *)
(* file restores of the saved one, which is what the four properties of    *)
(* loading are read off.                                                   *)
(***************************************************************************)
FileInv ==
  /\ PolicyOK(db) /\ compat \in BOOLEAN
  /\ compat => db.vers = POLICYDB_VERSION_XPERMS_IOCTL
  /\ file # <<>> => \E m \in BOOLEAN, order \in Orders(saved) :
                       Saves(saved, m, order) /\ file = Image(saved, m, order)
  /\ outcome # "none" => /\ file # <<>> /\ outcome = Read(file).result
                         /\ outcome = "loaded" => db = Restored(saved)

\* A policy as loaded has never been saved.
LEMMA InitFileInv == FileInit => FileInv
<1> SUFFICES ASSUME FileInit
             PROVE  FileInv
  OBVIOUS
<1>1. PICK l \in Loaded : db = l.db /\ compat = l.compat /\ file = <<>> /\ outcome = "none"
  BY DEF FileInit
<1> QED
  BY <1>1, LoadedAssumption DEF FileInv

\* An edit leaves a policy that can be saved, of the same version.
LEMMA EditKeeps ==
  ASSUME PolicyOK(db), Edit
  PROVE  PolicyOK(db') /\ db'.vers = db.vers /\ Edited
<1>1. HasFields(db)
  BY DEF PolicyOK
<1>2. ASSUME NEW n \in Names, NEW a \in BOOLEAN, AddType(n, a)
      PROVE  PolicyOK(db') /\ db'.vers = db.vers /\ Edited
  <2>1. db' = TypeAdded(db, n, a) /\ Edited
    BY <1>2 DEF AddType, TypeAdded
  <2>2. TypeAdded(db, n, a).vers = db.vers
    BY <1>1, TypeAddedFields
  <2> QED
    BY <2>1, <2>2, AddTypeOK
<1>3. ASSUME NEW t \in Named(db), NEW a \in Named(db), AddTypeAttribute(t, a)
      PROVE  PolicyOK(db') /\ db'.vers = db.vers /\ Edited
  <2>1. PolicyOK(db') /\ Edited
    BY <1>3, AddTypeAttributeOK DEF AddTypeAttribute
  <2>2. db'.vers = db.vers
    BY <1>1, <1>3 DEF AddTypeAttribute, HasFields
  <2> QED
    BY <2>1, <2>2
<1>4. ASSUME NEW t \in Named(db), SetPermissive(t)
      PROVE  PolicyOK(db') /\ db'.vers = db.vers /\ Edited
  <2>1. PolicyOK(db') /\ Edited
    BY <1>4, PermissiveOK DEF SetPermissive
  <2>2. db'.vers = db.vers
    BY <1>1, <1>4 DEF SetPermissive, HasFields
  <2> QED
    BY <2>1, <2>2
<1>5. ASSUME NEW s \in Named(db), NEW t \in Named(db), NEW spec \in {"allowed", "auditdeny"},
             NEW perms \in {{p} : p \in Perms} \cup {Perms}, NEW i \in BOOLEAN,
             AddRule(s, t, spec, perms, i)
      PROVE  PolicyOK(db') /\ db'.vers = db.vers /\ Edited
  <2>1. perms \subseteq Perms
    OBVIOUS
  <2>2. PolicyOK(db') /\ Edited
    BY <1>5, <2>1, AddRuleOK DEF AddRule
  <2>3. db'.vers = db.vers
    BY <1>1, <1>5 DEF AddRule, HasFields
  <2> QED
    BY <2>2, <2>3
<1>6. ASSUME NEW s \in Named(db), NEW t \in Named(db), NEW o \in Simple(db), AddTypeRule(s, t, o)
      PROVE  PolicyOK(db') /\ db'.vers = db.vers /\ Edited
  <2>1. PolicyOK(db') /\ Edited
    BY <1>6, AddTypeRuleOK DEF AddTypeRule
  <2>2. db'.vers = db.vers
    BY <1>1, <1>6 DEF AddTypeRule, HasFields
  <2> QED
    BY <2>1, <2>2
<1>7. ASSUME NEW s \in Named(db), NEW t \in Named(db), NEW driver \in Drivers, NEW p \in Perms,
             AddXpermRule(s, t, driver, {p})
      PROVE  PolicyOK(db') /\ db'.vers = db.vers /\ Edited
  <2>1. PolicyOK(db') /\ Edited
    BY <1>7, AddXpermRuleOK DEF AddXpermRule
  <2>2. db'.vers = db.vers
    BY <1>1, <1>7 DEF AddXpermRule, HasFields
  <2> QED
    BY <2>1, <2>2
<1>8. ASSUME NEW s \in Named(db), NEW t \in Named(db), NEW n \in Paths, NEW o \in Simple(db),
             AddFilenameTrans(s, t, n, o)
      PROVE  PolicyOK(db') /\ db'.vers = db.vers /\ Edited
  <2> DEFINE e    == [s |-> s, t |-> t, name |-> n, otype |-> o]
             stop == Stop(Chain(db.filename_trans, e), e)
  <2>0. /\ \/ db' = [db EXCEPT !.filename_trans = Redirect(db.filename_trans, stop, o)]
           \/ db' = [db EXCEPT !.filename_trans = InsertEntry(db.filename_trans, e)]
        /\ Edited
    BY <1>8 DEF AddFilenameTrans
  <2> HIDE DEF stop
  <2>1. PolicyOK(db') /\ Edited
    BY <2>0, AddFilenameTransOK
  <2>2. db'.vers = db.vers
    BY <1>1, <2>0 DEF HasFields
  <2> QED
    BY <2>1, <2>2
<1>9. ASSUME NEW g \in db.genfs, NEW p \in Paths, NEW o \in db.ocontexts["isid"],
             AddGenfscon(g.fs, p, o.contexts[1])
      PROVE  PolicyOK(db') /\ db'.vers = db.vers /\ Edited
  <2>0. db' = GenfsAdded(db, g.fs, p, o.contexts[1]) /\ Edited
    BY <1>9 DEF AddGenfscon, GenfsAdded
  <2>1. PolicyOK(db') /\ Edited
    BY <2>0, AddGenfsconOK
  <2>2. db'.vers = db.vers
    BY <1>1, <1>9 DEF AddGenfscon, HasFields
  <2> QED
    BY <2>1, <2>2
<1> QED
  BY <1>2, <1>3, <1>4, <1>5, <1>6, <1>7, <1>8, <1>9 DEF Edit

\* What a file says, as ReadBack has it, for the file that is there.
LEMMA FileReadsBack ==
  ASSUME FileInv, file # <<>>
  PROVE  \E m \in BOOLEAN, order \in Orders(saved) :
            /\ Saves(saved, m, order) /\ file = Image(saved, m, order)
            /\ ReadsBack(Read(file), saved, m, order)
BY ReadBack DEF FileInv

\* Every statement, save and load keeps the invariant.
LEMMA NextFileInv == FileInv /\ [FileNext]_vars => FileInv'
<1> SUFFICES ASSUME FileInv, [FileNext]_vars
             PROVE  FileInv'
  OBVIOUS
<1>1. CASE Edit
  <2>1. PolicyOK(db') /\ db'.vers = db.vers /\ Edited
    BY <1>1, EditKeeps DEF FileInv
  <2>2. outcome' = "none" /\ compat' = compat /\ file' = file /\ saved' = saved
    BY <2>1 DEF Edited
  <2> QED
    BY <2>1, <2>2 DEF FileInv
<1>2. CASE Save
  <2>1. PICK order \in Orders(db) : file' = Image(db, compat, order)
    BY <1>2 DEF Save
  <2>2. saved' = db /\ outcome' = "none" /\ db' = db /\ compat' = compat
    BY <1>2 DEF Save
  <2>3. Saves(db, compat, order)
    BY DEF FileInv, Saves, POLICYDB_VERSION_XPERMS_IOCTL
  <2>4. \E m \in BOOLEAN, o \in Orders(saved') : Saves(saved', m, o) /\ file' = Image(saved', m, o)
    <3>1. compat \in BOOLEAN
      BY DEF FileInv
    <3> QED
      BY <2>1, <2>2, <2>3, <3>1
  <2> QED
    BY <2>2, <2>4 DEF FileInv
<1>3. CASE Load
  <2> DEFINE read == Read(file)
  <2>1. /\ file # <<>> /\ outcome' = read.result /\ file' = file /\ saved' = saved
        /\ read.result = "loaded" => db' = read.db /\ compat' = read.compat
        /\ read.result # "loaded" => db' = db /\ compat' = compat
    BY <1>3 DEF Load
  <2>2. PICK m \in BOOLEAN, order \in Orders(saved) :
           /\ Saves(saved, m, order) /\ ReadsBack(read, saved, m, order)
    BY <2>1, FileReadsBack
  <2> HIDE DEF read
  <2>3. read.result = "loaded" =>
           /\ read.db = Restored(saved) /\ read.compat \in BOOLEAN
           /\ read.compat => saved.vers = 30
    BY <2>2 DEF ReadsBack
  <2>4. PolicyOK(Restored(saved)) /\ Restored(saved).vers = saved.vers
    BY <2>2, RestoredOK DEF Saves, RestoresAs
  <2>5. /\ PolicyOK(db') /\ compat' \in BOOLEAN
        /\ compat' => db'.vers = POLICYDB_VERSION_XPERMS_IOCTL
    BY <2>1, <2>3, <2>4 DEF FileInv, POLICYDB_VERSION_XPERMS_IOCTL
  <2>6. outcome' = Read(file').result /\ (outcome' = "loaded" => db' = Restored(saved'))
    BY <2>1, <2>3 DEF read
  <2> QED
    BY <2>1, <2>5, <2>6 DEF FileInv
<1>4. CASE UNCHANGED vars
  BY <1>4 DEF FileInv, vars
<1> QED
  BY <1>1, <1>2, <1>3, <1>4 DEF FileNext

\* The file is a policy's, and the policy in memory fits its version, at any time:
\* what policydb_write and policydb_read take for granted of each other.
THEOREM FileInvHolds == FileSpec => []FileInv
BY InitFileInv, NextFileInv, PTL DEF FileSpec

\* A word is taken for another only in the rules, and only by the exception.
LEMMA InStepFollows == FileInv => ReadInStep
<1> SUFFICES ASSUME FileInv, outcome = "misread"
             PROVE  Ambiguous
  BY DEF ReadInStep
<1>1. file # <<>> /\ Read(file).result = "misread"
  BY DEF FileInv
<1>2. PICK m \in BOOLEAN, order \in Orders(saved) :
         /\ Saves(saved, m, order) /\ file = Image(saved, m, order)
         /\ ReadsBack(Read(file), saved, m, order)
  BY <1>1, FileReadsBack
<1>3. FirstMistaken(RuleItems(saved, m, order))
  BY <1>1, <1>2 DEF ReadsBack
<1> QED
  BY <1>2, <1>3, MistakenIsAmbiguous

\* policydb_read takes every word of a saved file for what policydb_write meant by
\* it, but for an Android M policy whose first extended node looks like a new one.
THEOREM ReadsInStep == FileSpec => []ReadInStep
BY FileInvHolds, InStepFollows, PTL

\* What ReadBack says of a refusal, in the terms of the policy that was saved.
LEMMA RefusedFollows == FileInv => RefusedOnlyFor
<1> SUFFICES ASSUME FileInv, outcome = "refused"
             PROVE  \/ SavedRules = {}
                    \/ \E n \in saved.cond_list : SavedCondKeys(n) \cap SavedRules # {}
                    \/ SavedCollides
  BY DEF RefusedOnlyFor
<1>1. file # <<>> /\ Read(file).result = "refused"
  BY DEF FileInv
<1>2. PICK m \in BOOLEAN, order \in Orders(saved) :
         /\ Saves(saved, m, order) /\ ReadsBack(Read(file), saved, m, order)
  BY <1>1, FileReadsBack
<1>3. \/ DOMAIN Written(saved, saved.te_avtab) = {}
      \/ \E n \in saved.cond_list : CondKeys(n) \cap DOMAIN Written(saved, saved.te_avtab) # {}
      \/ SavedCollides
  BY <1>1, <1>2 DEF ReadsBack, SavedCollides, ChainsCollide
<1>4. SavedRules = DOMAIN Written(saved, saved.te_avtab)
  BY DEF SavedRules, Written
<1>5. ASSUME NEW n \in saved.cond_list
      PROVE  SavedCondKeys(n) = CondKeys(n)
  <2>1. CASE saved.vers < POLICYDB_VERSION_AVTAB
    <3>1. CondOK(saved, n) /\ saved.nprim \in Nat
      BY <1>2 DEF Saves, PolicyOK, CondsOK
    <3>2. /\ Expand(saved, n.true_list) = n.true_list
          /\ Expand(saved, n.false_list) = n.false_list
      BY <2>1, <3>1, CondSimple
    <3>3. /\ DOMAIN Expand(saved, n.true_list) = Expandable(saved, n.true_list)
          /\ DOMAIN Expand(saved, n.false_list) = Expandable(saved, n.false_list)
      BY DEF Expand
    <3> QED
      BY <2>1, <3>2, <3>3 DEF SavedCondKeys, CondKeys
  <2>2. CASE ~(saved.vers < POLICYDB_VERSION_AVTAB)
    BY <2>2 DEF SavedCondKeys
  <2> QED
    BY <2>1, <2>2
<1> QED
  BY <1>3, <1>4, <1>5

\* policydb_read refuses a file policydb_write made only when no rule was left to
\* write, a type rule is for the key of a conditional one, or from version 33 on a
\* default or a source is in two nodes of a chain of filename transitions.
THEOREM RefusesOnlyFor == FileSpec => []RefusedOnlyFor
BY FileInvHolds, RefusedFollows, PTL

\* What was loaded is Restored(saved), of which CarriedAre speaks.
LEMMA CarriesFollows == FileInv => CarriesAll
<1> SUFFICES ASSUME FileInv, outcome = "loaded"
             PROVE  Carried(db) = Carried(saved) /\ Transitions(db) \subseteq Transitions(saved)
  BY DEF CarriesAll
<1>1. file # <<>> /\ db = Restored(saved)
  BY DEF FileInv
<1>2. PolicyOK(saved)
  BY <1>1 DEF FileInv, Saves
<1>3. Restored(saved).filename_trans = FtRestored(saved)
  BY <1>2, RestoredOK DEF RestoresAs
<1>4. {Transition(f) : f \in FtRestored(saved)} \subseteq Transitions(saved)
  BY <1>2, FtPolicy DEF FtKept
<1>5. Transitions(db) \subseteq Transitions(saved)
  BY <1>1, <1>3, <1>4 DEF Transitions
<1> QED
  BY <1>1, <1>2, <1>5, CarriedAre

\* A policy that was saved and loaded has everything its version can say.
THEOREM LoadsAllThatIsCarried == FileSpec => []CarriesAll
BY FileInvHolds, CarriesFollows, PTL

\* What was loaded is Restored(saved), of which DecisionsAre speaks.
LEMMA DecisionsFollow == FileInv => SameDecisions
<1> SUFFICES ASSUME FileInv, outcome = "loaded",
                    NEW s \in Simple(saved), NEW t \in Simple(saved), NEW spec \in AvSpecs
             PROVE  Decision(db, s, t, spec) = Decision(saved, s, t, spec)
  BY DEF SameDecisions
<1>1. file # <<>> /\ db = Restored(saved)
  BY DEF FileInv
<1>2. PolicyOK(saved)
  BY <1>1 DEF FileInv, Saves
<1> QED
  BY <1>1, <1>2, DecisionsAre

\* Saving and loading change no decision about two types, in the versions too in
\* which avtab_write replaces every attribute by its types.
THEOREM LoadsTheSameDecisions == FileSpec => []SameDecisions
BY FileInvHolds, DecisionsFollow, PTL
================================================================================
