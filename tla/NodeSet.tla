-------------------------------- MODULE NodeSet --------------------------------
(***************************************************************************)
(* What an access vector table promises its callers: a set of nodes, of    *)
(* which a key that must be unique never has two, and from which any node  *)
(* can be taken out.  There are no chains here, no order and no hash.      *)
(***************************************************************************)
EXTENDS Integers

CONSTANTS Addrs,   \* where nodes may be
          Keys,    \* their keys
          Unique   \* the keys that may have one node at most

VARIABLES nodes,   \* the nodes, [addr, key]
          count    \* how many the table says there are

Node == [addr : Addrs, key : Keys]
With(k) == {n \in nodes : n.key = k}

\* A table is filled node by node, also when it is read from a file.
Init == nodes = {} /\ count = 0

Insert(n) == /\ \A m \in nodes : m.addr # n.addr
             /\ n.key \in Unique => With(n.key) = {}
             /\ nodes' = nodes \cup {n}
             /\ count' = count + 1

Remove(n) == nodes' = nodes \ {n} /\ count' = count - 1

Next == (\E n \in Node : Insert(n)) \/ (\E n \in nodes : Remove(n))

Spec == Init /\ [][Next]_<<nodes, count>>
================================================================================
