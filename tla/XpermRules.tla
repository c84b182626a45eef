------------------------------ MODULE XpermRules -------------------------------
(***************************************************************************)
(* The extended permission rules: sepol_add_xperm_rule over te_avtab.  A   *)
(* key has several nodes, one that grants whole drivers and one for each   *)
(* driver whose functions are listed; they are kept here in the order of   *)
(* their hash chain.  An ioctl command is a number below Width * Width,    *)
(* its driver the high byte and its function the low one (Width is 256).   *)
(***************************************************************************)
EXTENDS Integers, Sequences

CONSTANTS Width,    \* the number of drivers, and of functions of a driver
          Types,    \* the values of types and attributes
          Attribs,  \* those of attributes
          Classes,  \* the object classes
          Effects,  \* the AVTAB_XPERMS_* effects in use
          Ranges,   \* the pairs of commands a statement may give, low and high
          Files,    \* the policy files a run may start from
          Any       \* the empty name a * in a statement becomes

VARIABLES xperms,     \* key -> the nodes of te_avtab, in chain order
          policyvers  \* the version of the policy, or what matters of it

xpermVars == <<xperms, policyvers>>

POLICYDB_VERSION_XPERMS_IOCTL == 30

FUNCTION == "IOCTLFUNCTION"
DRIVER   == "IOCTLDRIVER"
NLMSG    == "NLMSG"

Codes == 0..(Width * Width - 1)
ioctl_driver(x) == x \div Width
ioctl_func(x)   == x % Width
Bytes == 0..(Width - 1)

Keys == [source_type : Types, target_type : Types,
         target_class : Classes, specified : Effects]
Node == [specified : {FUNCTION, DRIVER, NLMSG}, driver : Bytes, perms : SUBSET Bytes]

\* The nodes for ioctl commands a key has: the driver node, and function nodes.
IsDriver(n)      == n.specified = DRIVER
IsFunction(n, d) == n.specified = FUNCTION /\ n.driver = d
Places(nodes, Is(_)) == {i \in DOMAIN nodes : Is(nodes[i])}
Drivers(nodes)      == Places(nodes, IsDriver)
Functions(nodes, d) == {i \in DOMAIN nodes : IsFunction(nodes[i], d)}

\* One node of each kind, as every policy compiler writes them.
OneOfEach(nodes) ==
  /\ \A i, j \in Drivers(nodes) : i = j
  /\ \A d \in Bytes : \A i, j \in Functions(nodes, d) : i = j

ASSUME WidthAssumption == Width \in Nat \ {0}
ASSUME SetsAssumption ==
  /\ Attribs \subseteq Types /\ Ranges \subseteq Codes \X Codes
  /\ Any \notin Types /\ Any \notin Classes
ASSUME FilesAssumption ==
  \A f \in Files : /\ f.xperms \in [Keys -> Seq(Node)]
                   /\ \A k \in Keys : OneOfEach(f.xperms[k])
                   /\ f.policyvers \in Nat
                   /\ f.policyvers < POLICYDB_VERSION_XPERMS_IOCTL =>
                        \A k \in Keys : f.xperms[k] = <<>>

XpermInit == \E f \in Files : xperms = f.xperms /\ policyvers = f.policyvers
--------------------------------------------------------------------------------
(***************************************************************************)
(* add_xperm_rule_impl on the nodes of one key.  A node that is missing is *)
(* put before the others of its key (avtab_insert_nonunique);              *)
(* AlwaysInsert forgets to look for it first.                              *)
(***************************************************************************)
NewNode(specified, d, perms) ==
  [specified |-> specified, driver |-> d, perms |-> perms]

AlwaysInsert(nodes, at, node) == <<node>> \o nodes
Store(nodes, at, node) ==
  IF at = {} THEN <<node>> \o nodes
  ELSE [i \in DOMAIN nodes |->
          IF i \in at THEN [nodes[i] EXCEPT !.perms = node.perms] ELSE nodes[i]]

Stored(nodes, at) == UNION {nodes[i].perms : i \in at}

\* What a reset leaves of a key's nodes.
KeepFunctions(nodes) == nodes
KeepNothing(nodes) == <<>>
WithoutFunctions(nodes) ==
  LET kept[n \in 0..Len(nodes)] ==
        IF n = 0 THEN <<>>
        ELSE IF nodes[n].specified = FUNCTION THEN kept[n - 1]
        ELSE Append(kept[n - 1], nodes[n])
  IN kept[Len(nodes)]

SetDrivers(nodes, perms) ==
  Store(nodes, Drivers(nodes), NewNode(DRIVER, 0, perms))
SetFunctions(nodes, d, perms) ==
  Store(nodes, Functions(nodes, d), NewNode(FUNCTION, d, perms))

\* reset = FALSE: the bits of the range are added to the node they belong to.
Extend(nodes, low, high) ==
  LET dl == ioctl_driver(low)
      dh == ioctl_driver(high)
  IN IF dl # dh
     THEN SetDrivers(nodes, Stored(nodes, Drivers(nodes)) \cup (dl..dh))
     ELSE SetFunctions(nodes, dl, Stored(nodes, Functions(nodes, dl))
                                    \cup (ioctl_func(low)..ioctl_func(high)))

\* reset = TRUE: function nodes go, the driver node is filled, and the bits of
\* the range are cleared again.
Complement(nodes, low, high) ==
  LET dl == ioctl_driver(low)
      dh == ioctl_driver(high)
      left == WithoutFunctions(nodes)
  IN IF dl # dh
     THEN SetDrivers(left, Bytes \ (dl..dh))
     ELSE SetFunctions(SetDrivers(left, Bytes \ {dl}), dl,
                       Bytes \ (ioctl_func(low)..ioctl_func(high)))

(***************************************************************************)
(* sepol_add_xperm_rule: a * stands for the attributes in a type field and *)
(* for every class in the class field.  An older policy is left alone.     *)
(***************************************************************************)
Supported == policyvers >= POLICYDB_VERSION_XPERMS_IOCTL

Reach(s, t, c, effect) ==
  [source_type  : IF s = Any THEN Attribs ELSE {s},
   target_type  : IF t = Any THEN Attribs ELSE {t},
   target_class : IF c = Any THEN Classes ELSE {c},
   specified    : {effect}]

AddXpermRule(s, t, c, low, high, reset, effect) ==
  /\ Supported
  /\ xperms' = [k \in Keys |->
                  IF k \notin Reach(s, t, c, effect) THEN xperms[k]
                  ELSE IF reset THEN Complement(xperms[k], low, high)
                                ELSE Extend(xperms[k], low, high)]
  /\ UNCHANGED policyvers

\* Saving and loading: avtab_write goes down the chains, avtab_insert puts each
\* node before those of its key.  FirstOnly refuses a second node of a key, as
\* it does for the rules that have no extended permissions.
Reverse(s) == [i \in DOMAIN s |-> s[Len(s) + 1 - i]]
FirstOnly(nodes) == [i \in DOMAIN nodes \cap {1} |-> nodes[i]]
Reread(nodes) == Reverse(nodes)
ReloadXperms == /\ xperms' = [k \in Keys |-> Reread(xperms[k])]
                /\ UNCHANGED policyvers

XpermNext ==
  \/ \E s, t \in Types \cup {Any}, c \in Classes \cup {Any}, e \in Effects,
        r \in Ranges, reset \in BOOLEAN :
          AddXpermRule(s, t, c, r[1], r[2], reset, e)
  \/ ReloadXperms

XpermSpec == XpermInit /\ [][XpermNext]_xpermVars
--------------------------------------------------------------------------------
XpermTypeOK == xperms \in [Keys -> Seq(Node)] /\ policyvers \in Nat

\* No key ever has two driver nodes, or two function nodes of a driver: the
\* engine remembers one of each when it walks the chain, and would leave the
\* other behind when a rule is reset.
OneNodeOfEach == XpermTypeOK /\ \A k \in Keys : OneOfEach(xperms[k])

\* The commands the nodes of a key name, and whether it has any node for them.
Granted(nodes) ==
  {x \in Codes : \E i \in DOMAIN nodes :
     \/ IsDriver(nodes[i]) /\ ioctl_driver(x) \in nodes[i].perms
     \/ IsFunction(nodes[i], ioctl_driver(x)) /\ ioctl_func(x) \in nodes[i].perms}
HasRule(nodes) == \E i \in DOMAIN nodes : nodes[i].specified # NLMSG

\* Saving and loading changes no rule, whatever it does to the order of nodes.
ReloadKeepsIoctls ==
  [][ReloadXperms => \A k \in Keys :
        /\ Granted(xperms'[k]) = Granted(xperms[k])
        /\ HasRule(xperms'[k]) = HasRule(xperms[k])]_xpermVars

\* Nodes for netlink messages share the keys; ioctl rules leave them alone.
NetlinkNodes(nodes) == {i \in DOMAIN nodes : nodes[i].specified = NLMSG}
NetlinkRulesStay ==
  [][\A k \in Keys :
        {xperms'[k][i] : i \in NetlinkNodes(xperms'[k])}
           = {xperms[k][i] : i \in NetlinkNodes(xperms[k])}]_xpermVars

\* The nodes implement the sets the statements promise.
Sets == INSTANCE IoctlSets
          WITH granted <- [k \in Keys |-> Granted(xperms[k])],
               present <- {k \in Keys : HasRule(xperms[k])}
ImplementsIoctlSets == Sets!Spec
================================================================================
