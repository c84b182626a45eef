--------------------------------- MODULE Avtab ---------------------------------
(***************************************************************************)
(* te_avtab as avtab.c keeps it: chains of nodes in order of source,       *)
(* target and class, so that a search may stop early, and a counter of the *)
(* nodes that avtab_write puts in front of them.  The engine works on it   *)
(* with a search followed by avtab_insert_nonunique, with avtab_insert,    *)
(* and with xperm_remove_node, which takes a node out by its address.      *)
(***************************************************************************)
EXTENDS Integers, Sequences, FiniteSets

CONSTANTS Addrs,      \* where nodes may be
          SourceTypes, TargetTypes, TargetClasses,  \* the values in keys
          AvKinds, TypeKinds, XpermKinds,           \* the kinds of rules
          Buckets,    \* the chains
          Hash        \* avtab_hash: what is looked up -> the chain it is in

VARIABLES htable,     \* chain -> its nodes
          nel         \* the number of nodes

tabVars == <<htable, nel>>

Kinds == AvKinds \cup TypeKinds \cup XpermKinds
Keys == [source_type : SourceTypes, target_type : TargetTypes,
         target_class : TargetClasses, specified : Kinds]
Nodes == [addr : Addrs, key : Keys]

\* A rule of these kinds has one node; an extended one may have several.
UniqueKeys == {k \in Keys : k.specified \in AvKinds \cup TypeKinds}

ASSUME KindsAssumption == /\ AvKinds \cap XpermKinds = {}
                          /\ TypeKinds \cap XpermKinds = {}
ASSUME ValuesAssumption == /\ SourceTypes \subseteq Nat
                           /\ TargetTypes \subseteq Nat
                           /\ TargetClasses \subseteq Nat
\* The hash does not look at the kind of a rule.
ASSUME HashAssumption ==
  /\ Hash \in [Keys -> Buckets]
  /\ \A j, k \in Keys : (/\ j.source_type = k.source_type
                         /\ j.target_type = k.target_type
                         /\ j.target_class = k.target_class) => Hash[j] = Hash[k]

\* The order of keys, which does not look at the kind of a rule either.
Before(j, k) ==
  \/ j.source_type < k.source_type
  \/ j.source_type = k.source_type /\ j.target_type < k.target_type
  \/ /\ j.source_type = k.source_type /\ j.target_type = k.target_type
     /\ j.target_class < k.target_class

AllNodes == UNION {{htable[b][i] : i \in DOMAIN htable[b]} : b \in Buckets}
Free == {a \in Addrs : \A n \in AllNodes : n.addr # a}

Init == htable = [b \in Buckets |-> <<>>] /\ nel = 0
--------------------------------------------------------------------------------
(***************************************************************************)
(* The loops over a chain.  All of them stop at the first node that has    *)
(* the key (Hit), or whose types are past those of the key; what is found  *)
(* with avtab_search_node and avtab_search_node_next, one after another,   *)
(* is every Hit before the first node that is past.  FoundAtHead is only   *)
(* the bucket's first node.                                                *)
(***************************************************************************)
Hit(n, k)  == n.key = k
Past(n, k) == Before(k, n.key)

FoundAtHead(chain, k) == {i \in DOMAIN chain : i = 1 /\ Hit(chain[i], k)}
Found(chain, k) == {i \in DOMAIN chain :
                      Hit(chain[i], k) /\ \A j \in 1..(i - 1) : ~Past(chain[j], k)}

\* Where avtab_insert and avtab_insert_nonunique put a node: at the first place
\* where their loop stops.  AtFront does without the loop.
AtFront(chain, k, p) == p = 1
StopsAt(chain, k, p) ==
  /\ p <= Len(chain) => Hit(chain[p], k) \/ Past(chain[p], k)
  /\ \A j \in 1..(p - 1) : ~Hit(chain[j], k) /\ ~Past(chain[j], k)

Linked(chain, n, p) ==
  [i \in 1..(Len(chain) + 1) |->
     IF i < p THEN chain[i] ELSE IF i = p THEN n ELSE chain[i - 1]]
Unlinked(chain, p) ==
  [i \in 1..(Len(chain) - 1) |-> IF i < p THEN chain[i] ELSE chain[i + 1]]

InsertNode(n) ==
  LET b == Hash[n.key]
  IN \E p \in 1..(Len(htable[b]) + 1) :
       /\ StopsAt(htable[b], n.key, p)
       /\ htable' = [htable EXCEPT ![b] = Linked(htable[b], n, p)]
       /\ nel' = nel + 1

\* add_rule_impl: the node of a rule, made when the search finds none, ...
AddRuleNode(n) ==
  /\ n.key.specified \in AvKinds
  /\ Found(htable[Hash[n.key]], n.key) = {}
  /\ InsertNode(n)

\* ... or avtab_insert: a rule read from a file, or a type rule, unless
\* SEPOL_EEXIST; extended rules are taken as they come.
AvtabInsert(n) ==
  /\ \/ n.key.specified \in XpermKinds
     \/ Found(htable[Hash[n.key]], n.key) = {}
  /\ InsertNode(n)

\* add_xperm_rule_impl: one more node for a driver.
AddXpermNode(n) == n.key.specified \in XpermKinds /\ InsertNode(n)

\* xperm_remove_node.
Uncounted(number)  == number - 1
RemoveNode(n) ==
  LET b == Hash[n.key]
  IN \E p \in DOMAIN htable[b] :
       /\ htable[b][p] = n
       /\ htable' = [htable EXCEPT ![b] = Unlinked(htable[b], p)]
       /\ nel' = Uncounted(nel)

Next ==
  \/ \E a \in Free, k \in Keys :
       LET n == [addr |-> a, key |-> k]
       IN AddRuleNode(n) \/ AvtabInsert(n) \/ AddXpermNode(n)
  \/ \E n \in AllNodes : RemoveNode(n)

Spec == Init /\ [][Next]_tabVars
--------------------------------------------------------------------------------
AvtabTypeOK == /\ nel \in Nat
               /\ htable \in [Buckets -> Seq(Nodes)]

\* The chains are in order, every node is in the chain of its key, and no node
\* is in two places: this is what the early ends of the loops rely on.
InOrder(chain) == \A i, j \in DOMAIN chain :
                    i < j => ~Before(chain[j].key, chain[i].key)
Ordered  == \A b \in Buckets : InOrder(htable[b])
OwnChain == \A b \in Buckets : \A i \in DOMAIN htable[b] : Hash[htable[b][i].key] = b
OnePlace == \A b, c \in Buckets : \A i \in DOMAIN htable[b], j \in DOMAIN htable[c] :
              htable[b][i].addr = htable[c][j].addr => b = c /\ i = j
ChainInv == Ordered /\ OwnChain /\ OnePlace

\* A search never misses a node, though it stops at the first node that is past
\* the key: whatever was inserted and removed, in whatever order.
SearchFindsAll ==
  \A k \in Keys : \A b \in Buckets : \A i \in DOMAIN htable[b] :
    htable[b][i].key = k => b = Hash[k] /\ i \in Found(htable[b], k)

\* The counter in front of a saved table is the number of nodes that follow it.
CountIsNodes == IsFiniteSet(AllNodes) /\ nel = Cardinality(AllNodes)
\* Together: the table is well formed, in order, and counts its nodes right.
TableSound == AvtabTypeOK /\ ChainInv /\ CountIsNodes

\* To those who use it the table is a set of nodes that keeps the keys of access
\* vectors and type rules unique.
NodeTable == INSTANCE NodeSet WITH Unique <- UniqueKeys, nodes <- AllNodes, count <- nel
ImplementsNodeSet == NodeTable!Spec
================================================================================
