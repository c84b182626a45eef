------------------------------ MODULE MCPolicyFile ------------------------------
(* Policies of the versions at which the file changes, with everything their    *)
(* version has, and a few statements between loading and saving.                *)
EXTENDS PolicyFile, TLC

CONSTANTS Versions,  \* the versions of policies
          MaxEdits   \* how many statements a run may make

VARIABLE edits
mcVars == <<vars, edits>>

\* Type 1 is in the attribute 2, type 3 in none.
TypesOf(v) ==
  {[name |-> "app", value |-> 1, attrib |-> FALSE, bounds |-> 0],
   [name |-> "obj", value |-> 3, attrib |-> FALSE,
    bounds |-> IF v >= POLICYDB_VERSION_BOUNDARY THEN 1 ELSE 0]}
  \cup Given(v >= POLICYDB_VERSION_BOUNDARY,
             {[name |-> "dom", value |-> 2, attrib |-> TRUE, bounds |-> 0]})
MapOf(v) == IF v >= POLICYDB_VERSION_AVTAB THEN <<{1, 2}, {2}, {3}>> ELSE <<{1}, {}, {3}>>
Subject(v) == IF v >= POLICYDB_VERSION_AVTAB THEN 2 ELSE 1

RulesOf(v) ==
  (Key(Subject(v), 3, "file", "allowed") :> {1})
    @@ If(v >= POLICYDB_VERSION_XPERMS_IOCTL, XKey(1, 3, "file", "driver", 0) :> {7})
CondsOf(v) ==
  Given(v >= POLICYDB_VERSION_BOOL,
        {[state |-> 0, expr |-> "b",
          true_list  |-> (Key(Subject(v), 1, "file", "allowed") :> {2})
                           @@ (Key(1, 1, "file", "transition") :> {3}),
          false_list |-> (Key(1, 1, "file", "transition") :> {1})]})

MlsRange(v) == IF v >= POLICYDB_VERSION_MLS THEN {0} ELSE {}
Context(v, t) == [user |-> "u", type |-> t, range |-> MlsRange(v)]
Constraint(v) ==
  [names |-> {1}, type_names |-> IF v >= POLICYDB_VERSION_CONSTRAINT_NAMES THEN {2} ELSE {}]
ClassOf(v, name) ==
  [name |-> name, constraints |-> {Constraint(v)},
   validatetrans |-> IF v >= POLICYDB_VERSION_VALIDATETRANS THEN {Constraint(v)} ELSE {},
   defaults |-> IF v >= POLICYDB_VERSION_NEW_OBJECT_DEFAULTS THEN 1 ELSE 0,
   default_type |-> IF v >= POLICYDB_VERSION_DEFAULT_TYPE THEN 2 ELSE 0]
Bounds(v) == IF v >= POLICYDB_VERSION_BOUNDARY THEN 1 ELSE 0
Newer(v, class) == {"process"} \cup Given(v, {class})

FtKey == [t |-> 3, name |-> "n"]

PolicyOf(v) ==
  [vers |-> v, mls |-> v >= POLICYDB_VERSION_MLS,
   policycaps |-> Given(v >= POLICYDB_VERSION_POLCAP, {1}),
   permissive |-> Given(v >= POLICYDB_VERSION_PERMISSIVE, {3}),
   commons |-> {"file_perms"}, bools |-> Given(v >= POLICYDB_VERSION_BOOL, {"b"}),
   levels |-> Given(v >= POLICYDB_VERSION_MLS, {"s0"}),
   cats |-> Given(v >= POLICYDB_VERSION_MLS, {"c0"}),
   classes |-> {ClassOf(v, c) : c \in {"process", "file"}},
   roles |-> {[name |-> "r", types |-> {1, 3}, bounds |-> 0],
              [name |-> "object_r", types |-> {}, bounds |-> Bounds(v)]},
   types |-> TypesOf(v), nprim |-> 3, type_attr_map |-> MapOf(v),
   users |-> {[name |-> "u", roles |-> {"r"}, bounds |-> Bounds(v), range |-> MlsRange(v)]},
   te_avtab |-> RulesOf(v), cond_list |-> CondsOf(v),
   role_tr |-> {[role |-> "r", type |-> 1, new_role |-> "r", class |-> c]
                  : c \in Newer(v >= POLICYDB_VERSION_ROLETRANS, "file")},
   role_allow |-> {[role |-> "r", new_role |-> "r"]},
   filename_trans |-> Given(v >= POLICYDB_VERSION_FILENAME_TRANS,
     {Trans(1, FtKey, 1, 1), Trans(3, FtKey, 3, 2)}),
   ocontexts |-> [kind \in ToSet(Ocontexts) |->
     Given(\E i \in 1..OconNum(v) : Ocontexts[i] = kind,
           {[id |-> 1, contexts |-> IF kind \in {"fs", "netif"}
                                    THEN <<Context(v, 1), Context(v, 3)>> ELSE <<Context(v, 1)>>]})],
   genfs |-> {[fs |-> "proc", entries |-> {[path |-> "/", context |-> Context(v, 3)]}]},
   range_tr |-> IF v >= POLICYDB_VERSION_MLS
                THEN {[s |-> 1, t |-> 3, range |-> MlsRange(v), class |-> c]
                        : c \in Newer(v >= POLICYDB_VERSION_RANGETRANS, "file")}
                ELSE {}]

\* An old policy has no attributes but those of earlier statements: here 4, that
\* the type 1 is in, with rules for it.
WithAttribute(d) ==
  [d EXCEPT !.nprim = 4,
            !.types = @ \cup {[name |-> "attr", value |-> 4, attrib |-> TRUE, bounds |-> 0]},
            !.type_attr_map = <<{1, 4}, {}, {3}, {4}>>,
            !.roles = {[r EXCEPT !.types = @ \cup {4}] : r \in @},
            !.te_avtab = (Key(4, 3, "file", "allowed") :> {2})
                            @@ (Key(4, 3, "file", "auditdeny") :> {2}) @@ @]

\* A chain of three nodes, where a statement may find a default before the source.
WithChain(d) ==
  [d EXCEPT !.nprim = 4,
            !.types = @ \cup {[name |-> "other", value |-> 4, attrib |-> FALSE, bounds |-> 0]},
            !.type_attr_map = Append(@, {4}),
            !.filename_trans = {Trans(3, FtKey, 4, 1), Trans(4, FtKey, 3, 2), Trans(1, FtKey, 1, 3)}]

\* A policy of version 30 may come from Android M.
MCLoaded == {[db |-> PolicyOf(v), compat |-> FALSE] : v \in Versions}
              \cup {[db |-> WithAttribute(PolicyOf(v)), compat |-> FALSE]
                      : v \in Versions \cap 0..(POLICYDB_VERSION_AVTAB - 1)}
              \cup {[db |-> WithChain(PolicyOf(v)), compat |-> FALSE] : v \in Versions \cap {25, 33}}
              \cup {[db |-> PolicyOf(v), compat |-> TRUE]
                      : v \in Versions \cap {POLICYDB_VERSION_XPERMS_IOCTL}}
MCPairs == {<<1, 3>>, <<4, 3>>, <<1, 1>>, <<4, 1>>}

MCInit == FileInit /\ edits = 0
MCNext == \/ edits < MaxEdits /\ Edit /\ edits' = edits + 1
          \/ (Save \/ Load) /\ UNCHANGED edits
MCSpec == MCInit /\ [][MCNext]_mcVars
================================================================================
