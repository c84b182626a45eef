------------------------- MODULE XpermStatements_proofs -------------------------
(***************************************************************************)
(* Proofs about XpermRules, and then about XpermStatements.  A node is of  *)
(* the driver kind or of the kind of a driver's functions; every operation *)
(* on the nodes of a key is described by what it makes of the permissions  *)
(* of each kind.  For the statements: what their calls add up to, whatever *)
(* the lengths of the list and of the policy's history.                    *)
(***************************************************************************)
EXTENDS XpermStatements, TLAPS

Lists == INSTANCE Lists_proofs

Of(nodes, kind, d) ==
  {i \in DOMAIN nodes : /\ nodes[i].specified = kind
                        /\ kind = FUNCTION => nodes[i].driver = d}
Perms(nodes, kind, d) == Stored(nodes, Of(nodes, kind, d))
Netlinks(nodes) == {nodes[i] : i \in NetlinkNodes(nodes)}

\* The same kind: there is one for drivers, and one for the functions of each.
IsKind(kind, d, other, e) == kind = other /\ (kind = FUNCTION => d = e)

GoodNodes(nodes) == nodes \in Seq(Node) /\ OneOfEach(nodes)

LEMMA Kinds == FUNCTION # DRIVER /\ FUNCTION # NLMSG /\ DRIVER # NLMSG
BY DEF FUNCTION, DRIVER, NLMSG

LEMMA OfKinds ==
  ASSUME NEW nodes
  PROVE  /\ Drivers(nodes) = Of(nodes, DRIVER, 0)
         /\ \A d : Functions(nodes, d) = Of(nodes, FUNCTION, d)
BY Kinds DEF Drivers, Functions, Places, IsDriver, IsFunction, Of

LEMMA PermsHas ==
  ASSUME NEW nodes, NEW kind, NEW d, NEW b
  PROVE  b \in Perms(nodes, kind, d) <=>
           \E i \in Of(nodes, kind, d) : b \in nodes[i].perms
BY DEF Perms, Stored

LEMMA OneOfEachKind ==
  ASSUME NEW nodes
  PROVE  OneOfEach(nodes) <=>
           /\ \A i, j \in Of(nodes, DRIVER, 0) : i = j
           /\ \A d \in Bytes : \A i, j \in Of(nodes, FUNCTION, d) : i = j
BY OfKinds DEF OneOfEach

(***************************************************************************)
(* Commands, drivers and functions.                                        *)
(***************************************************************************)
LEMMA Division ==
  ASSUME NEW x \in Codes
  PROVE  /\ ioctl_driver(x) \in Bytes /\ ioctl_func(x) \in Bytes
         /\ x = Width * ioctl_driver(x) + ioctl_func(x)
<1>1. Width \in Nat /\ Width > 0 /\ x \in Nat /\ x < Width * Width
  BY WidthAssumption DEF Codes
<1> DEFINE d == x \div Width
           f == x % Width
<1>2. d \in Int /\ f \in 0..(Width - 1) /\ x = Width * d + f
  BY <1>1
<1> HIDE DEF d, f
<1>3. d >= 0
  <2>1. CASE d < 0
    <3>1. Width * d <= Width * (-1)
      BY <1>1, <1>2, <2>1
    <3> QED
      BY <1>1, <1>2, <3>1
  <2> QED
    BY <1>2, <2>1
<1>4. d < Width
  <2>1. CASE d >= Width
    <3>1. Width * d >= Width * Width
      BY <1>1, <1>2, <2>1
    <3> QED
      BY <1>1, <1>2, <3>1
  <2> QED
    BY <1>1, <1>2, <2>1
<1> QED
  BY <1>1, <1>2, <1>3, <1>4 DEF Bytes, ioctl_driver, ioctl_func, d, f

\* A range within one driver is a range of its functions.
LEMMA RangeOfDriver ==
  ASSUME NEW low \in Codes, NEW high \in Codes, NEW x \in Codes,
         ioctl_driver(low) = ioctl_driver(high)
  PROVE  x \in low..high <=> /\ ioctl_driver(x) = ioctl_driver(low)
                            /\ ioctl_func(x) \in ioctl_func(low)..ioctl_func(high)
<1> DEFINE d == ioctl_driver(low)
           e == ioctl_driver(x)
           W == Width
<1>1. /\ d \in Bytes /\ e \in Bytes /\ W \in Nat
      /\ ioctl_func(x) \in Bytes /\ ioctl_func(low) \in Bytes /\ ioctl_func(high) \in Bytes
      /\ x = W * e + ioctl_func(x)
      /\ low = W * d + ioctl_func(low)
      /\ high = W * d + ioctl_func(high)
      /\ x \in Int /\ low \in Int /\ high \in Int
  BY Division, WidthAssumption DEF Codes
<1> HIDE DEF d, e
<1>2. CASE e = d
  <2>1. W * d \in Int
    BY <1>1 DEF Bytes
  <2> QED
    BY <1>1, <1>2, <2>1 DEF Bytes, d, e
<1>3. CASE e < d
  <2>1. W * e + W <= W * d
    BY <1>1, <1>3 DEF Bytes
  <2>2. x < low
    BY <1>1, <2>1 DEF Bytes
  <2> QED
    BY <1>1, <1>3, <2>2 DEF Bytes, d, e
<1>4. CASE e > d
  <2>1. W * d + W <= W * e
    BY <1>1, <1>4 DEF Bytes
  <2>2. x > high
    BY <1>1, <2>1 DEF Bytes
  <2> QED
    BY <1>1, <1>4, <2>2 DEF Bytes, d, e
<1> QED
  BY <1>1, <1>2, <1>3, <1>4 DEF Bytes

LEMMA GrantedHas ==
  ASSUME NEW nodes, NEW x
  PROVE  x \in Granted(nodes) <=>
           /\ x \in Codes
           /\ \/ ioctl_driver(x) \in Perms(nodes, DRIVER, 0)
              \/ ioctl_func(x) \in Perms(nodes, FUNCTION, ioctl_driver(x))
BY Kinds, PermsHas DEF Granted, IsDriver, IsFunction, Of

(***************************************************************************)
(* A node is stored: the permissions of its kind are those given, all      *)
(* other nodes stay as they are.                                           *)
(***************************************************************************)
Stores(nodes, r, kind, d, perms) ==
  /\ GoodNodes(r)
  /\ Of(r, kind, d) # {}
  /\ Perms(r, kind, d) = perms
  /\ \A other \in {DRIVER, FUNCTION}, e \in Bytes :
       ~ IsKind(kind, d, other, e) => Perms(r, other, e) = Perms(nodes, other, e)
  /\ Netlinks(r) = Netlinks(nodes)

LEMMA Prepend ==
  ASSUME NEW S, NEW seq \in Seq(S), NEW x \in S
  PROVE  LET r == <<x>> \o seq
         IN /\ r \in Seq(S) /\ DOMAIN r = 1..(Len(seq) + 1) /\ Len(seq) \in Nat
            /\ DOMAIN seq = 1..Len(seq)
            /\ r[1] = x /\ \A i \in 1..Len(seq) : r[i + 1] = seq[i]
OBVIOUS

LEMMA InsertNew ==
  ASSUME NEW nodes, GoodNodes(nodes), NEW kind \in {DRIVER, FUNCTION}, NEW d \in Bytes,
         NEW perms \in SUBSET Bytes, Of(nodes, kind, d) = {}
  PROVE  Stores(nodes, <<NewNode(kind, d, perms)>> \o nodes, kind, d, perms)
<1> DEFINE node == NewNode(kind, d, perms)
           r    == <<node>> \o nodes
           n    == Len(nodes)
<1>1. node \in Node /\ node.specified = kind /\ node.driver = d /\ node.perms = perms
  BY DEF NewNode, Node
<1>2. /\ r \in Seq(Node) /\ DOMAIN r = 1..(n + 1) /\ n \in Nat /\ DOMAIN nodes = 1..n
      /\ r[1] = node /\ \A i \in 1..n : r[i + 1] = nodes[i]
  BY <1>1, Prepend DEF GoodNodes
<1>3. kind # NLMSG
  BY Kinds
<1> HIDE DEF node, r, n
<1>4. \A j \in DOMAIN r : j # 1 => j - 1 \in 1..n /\ r[j] = nodes[j - 1]
  <2> TAKE j \in DOMAIN r
  <2>1. HAVE j # 1
  <2>2. j - 1 \in 1..n /\ (j - 1) + 1 = j
    BY <1>2, <2>1
  <2> QED
    BY <1>2, <2>2
<1>5. Of(r, kind, d) = {1}
  <2>1. 1 \in Of(r, kind, d)
    BY <1>1, <1>2 DEF Of
  <2>2. ASSUME NEW j \in Of(r, kind, d), j # 1
        PROVE  FALSE
    BY <1>2, <1>4, <2>2 DEF Of
  <2> QED
    BY <2>1, <2>2
<1>6. ASSUME NEW other, NEW e, ~ IsKind(kind, d, other, e)
      PROVE  /\ \A i \in Of(nodes, other, e) : i + 1 \in Of(r, other, e)
             /\ \A j \in Of(r, other, e) : j # 1 /\ j - 1 \in Of(nodes, other, e)
  <2>1. 1 \notin Of(r, other, e)
    BY <1>1, <1>2, <1>6 DEF Of, IsKind
  <2> QED
    BY <1>2, <1>4, <2>1 DEF Of
<1>7. ASSUME NEW other, NEW e, ~ IsKind(kind, d, other, e)
      PROVE  Perms(r, other, e) = Perms(nodes, other, e)
  <2>1. ASSUME NEW b
        PROVE  b \in Perms(r, other, e) <=> b \in Perms(nodes, other, e)
    <3>1. ASSUME NEW i \in Of(nodes, other, e), b \in nodes[i].perms
          PROVE  \E j \in Of(r, other, e) : b \in r[j].perms
      BY <1>2, <1>6, <1>7, <3>1 DEF Of
    <3>2. ASSUME NEW j \in Of(r, other, e), b \in r[j].perms
          PROVE  \E i \in Of(nodes, other, e) : b \in nodes[i].perms
      BY <1>4, <1>6, <1>7, <3>2 DEF Of
    <3> QED
      BY <3>1, <3>2, PermsHas
  <2> QED
    BY <2>1
<1>8. Perms(r, kind, d) = perms
  BY <1>1, <1>2, <1>5 DEF Perms, Stored
<1>9. OneOfEach(r)
  <2>1. ASSUME NEW other \in {DRIVER, FUNCTION}, NEW e \in Bytes, other = DRIVER => e = 0
        PROVE  \A i, j \in Of(r, other, e) : i = j
    <3>1. CASE IsKind(kind, d, other, e)
      <4>1. Of(r, other, e) = Of(r, kind, d)
        BY <3>1 DEF IsKind, Of
      <4> QED
        BY <1>5, <4>1
    <3>2. CASE ~ IsKind(kind, d, other, e)
      <4>1. \A i, j \in Of(nodes, other, e) : i = j
        BY <2>1, OneOfEachKind DEF GoodNodes
      <4> SUFFICES ASSUME NEW i \in Of(r, other, e), NEW j \in Of(r, other, e)
                   PROVE  i = j
        OBVIOUS
      <4>2. i - 1 = j - 1 /\ i \in Int /\ j \in Int
        BY <1>2, <1>6, <3>2, <4>1 DEF Of
      <4> QED
        BY <4>2
    <3> QED
      BY <3>1, <3>2
  <2>2. 0 \in Bytes
    BY WidthAssumption DEF Bytes
  <2>3. \A i, j \in Of(r, DRIVER, 0) : i = j
    BY <2>1, <2>2
  <2>4. \A e \in Bytes : \A i, j \in Of(r, FUNCTION, e) : i = j
    BY <2>1, Kinds
  <2> QED
    BY <2>3, <2>4, OneOfEachKind
<1>10. Netlinks(r) = Netlinks(nodes)
  <2>1. ASSUME NEW i \in NetlinkNodes(nodes)
        PROVE  nodes[i] \in Netlinks(r)
    <3>1. i + 1 \in DOMAIN r /\ r[i + 1] = nodes[i]
      BY <1>2 DEF NetlinkNodes
    <3> QED
      BY <3>1 DEF NetlinkNodes, Netlinks
  <2>2. ASSUME NEW j \in NetlinkNodes(r)
        PROVE  r[j] \in Netlinks(nodes)
    <3>1. j # 1
      BY <1>1, <1>2, <1>3 DEF NetlinkNodes
    <3> QED
      BY <1>2, <1>4, <3>1 DEF NetlinkNodes, Netlinks
  <2> QED
    BY <2>1, <2>2 DEF Netlinks
<1> QED
  BY <1>2, <1>5, <1>7, <1>8, <1>9, <1>10 DEF Stores, GoodNodes, r, node

LEMMA StoreInto ==
  ASSUME NEW nodes, GoodNodes(nodes), NEW kind \in {DRIVER, FUNCTION}, NEW d \in Bytes,
         kind = DRIVER => d = 0,
         NEW perms \in SUBSET Bytes, Of(nodes, kind, d) # {}
  PROVE  Stores(nodes, Store(nodes, Of(nodes, kind, d), NewNode(kind, d, perms)),
                kind, d, perms)
<1> DEFINE at == Of(nodes, kind, d)
           r  == [i \in DOMAIN nodes |->
                    IF i \in at THEN [nodes[i] EXCEPT !.perms = perms] ELSE nodes[i]]
<1>1. /\ nodes \in Seq(Node) /\ Len(nodes) \in Nat /\ DOMAIN nodes = 1..Len(nodes)
      /\ \A i \in DOMAIN nodes : nodes[i] \in Node
  BY DEF GoodNodes
<1>2. Store(nodes, at, NewNode(kind, d, perms)) = r
  BY DEF Store, NewNode
<1>3. /\ DOMAIN r = DOMAIN nodes
      /\ \A i \in DOMAIN nodes :
           /\ r[i] \in Node
           /\ r[i].specified = nodes[i].specified /\ r[i].driver = nodes[i].driver
           /\ i \in at => r[i].perms = perms
           /\ i \notin at => r[i] = nodes[i]
  BY <1>1 DEF Node
<1>4. r \in Seq(Node)
  BY <1>1, <1>3
<1> HIDE DEF r
<1>5. \A other, e : Of(r, other, e) = Of(nodes, other, e)
  BY <1>3 DEF Of
<1>6. \A other, e, b : b \in Perms(r, other, e) <=> \E i \in Of(nodes, other, e) : b \in r[i].perms
  BY <1>5, PermsHas
<1>7. Perms(r, kind, d) = perms
  <2>1. \A i \in at : r[i].perms = perms
    BY <1>3 DEF Of
  <2>2. \A b : b \in Perms(r, kind, d) <=> b \in perms
    BY <1>6, <2>1
  <2> QED
    BY <2>2
<1>8. ASSUME NEW other, NEW e, ~ IsKind(kind, d, other, e)
      PROVE  Perms(r, other, e) = Perms(nodes, other, e)
  <2>1. \A i \in Of(nodes, other, e) : i \notin at /\ r[i] = nodes[i]
    BY <1>3, <1>8 DEF Of, IsKind
  <2>2. ASSUME NEW b
        PROVE  b \in Perms(r, other, e) <=> b \in Perms(nodes, other, e)
    <3>1. b \in Perms(r, other, e) <=> \E i \in Of(nodes, other, e) : b \in r[i].perms
      BY <1>6
    <3>2. b \in Perms(nodes, other, e) <=> \E i \in Of(nodes, other, e) : b \in nodes[i].perms
      BY PermsHas
    <3> QED
      BY <2>1, <3>1, <3>2
  <2> QED
    BY <2>2
<1>9. OneOfEach(r)
  BY <1>5, OneOfEachKind DEF GoodNodes
<1>10. Netlinks(r) = Netlinks(nodes)
  <2>1. NetlinkNodes(r) = NetlinkNodes(nodes)
    BY <1>3 DEF NetlinkNodes
  <2>2. \A i \in NetlinkNodes(nodes) : r[i] = nodes[i]
    BY <1>3, Kinds DEF NetlinkNodes, Of
  <2> QED
    BY <2>1, <2>2 DEF Netlinks
<1> QED
  BY <1>2, <1>4, <1>5, <1>7, <1>8, <1>9, <1>10 DEF Stores, GoodNodes

LEMMA StoreStores ==
  ASSUME NEW nodes, GoodNodes(nodes), NEW perms \in SUBSET Bytes
  PROVE  /\ Stores(nodes, SetDrivers(nodes, perms), DRIVER, 0, perms)
         /\ \A d \in Bytes : Stores(nodes, SetFunctions(nodes, d, perms), FUNCTION, d, perms)
<1>1. ASSUME NEW kind \in {DRIVER, FUNCTION}, NEW d \in Bytes, kind = DRIVER => d = 0
      PROVE  Stores(nodes, Store(nodes, Of(nodes, kind, d), NewNode(kind, d, perms)),
                    kind, d, perms)
  <2>1. CASE Of(nodes, kind, d) = {}
    BY <2>1, InsertNew DEF Store
  <2>2. CASE Of(nodes, kind, d) # {}
    BY <1>1, <2>2, StoreInto
  <2> QED
    BY <2>1, <2>2
<1>2. 0 \in Bytes
  BY WidthAssumption DEF Bytes
<1> QED
  BY <1>1, <1>2, Kinds, OfKinds DEF SetDrivers, SetFunctions

(***************************************************************************)
(* A reset drops the function nodes.  The recursive function that does so  *)
(* exists, and by induction on n it keeps the others of the first n nodes. *)
(***************************************************************************)
KeepsNode(kept, nodes, n) ==
  IF n = 0 THEN <<>>
  ELSE IF nodes[n].specified = FUNCTION THEN kept[n - 1]
  ELSE Append(kept[n - 1], nodes[n])
IsKept(kept, nodes, m) == kept = [n \in 0..m |-> KeepsNode(kept, nodes, n)]

LEMMA KeptExists ==
  ASSUME NEW nodes, NEW m \in Nat
  PROVE  \E kept : IsKept(kept, nodes, m)
<1> DEFINE Without == {n \in Nat : ~ \E kept : IsKept(kept, nodes, n)}
<1>1. SUFFICES ASSUME Without # {}
               PROVE  FALSE
  OBVIOUS
<1>2. PICK n \in Without : \A k \in Without : n <= k
  BY <1>1, Lists!LeastNumber
<1>3. n \in Nat /\ ~ \E kept : IsKept(kept, nodes, n)
  BY <1>2
<1>4. CASE n = 0
  <2>1. IsKept([k \in 0..0 |-> <<>>], nodes, 0)
    BY DEF IsKept, KeepsNode
  <2> QED
    BY <1>3, <1>4, <2>1
<1>5. CASE n # 0
  <2>1. n - 1 \in Nat /\ n - 1 \notin Without
    BY <1>2, <1>3, <1>5
  <2>2. PICK shorter : IsKept(shorter, nodes, n - 1)
    BY <2>1
  <2> DEFINE longer == [k \in 0..n |-> IF k = n THEN KeepsNode(shorter, nodes, n)
                                                ELSE shorter[k]]
  <2>3. \A k \in 0..(n - 1) : shorter[k] = KeepsNode(shorter, nodes, k)
    BY <2>1, <2>2 DEF IsKept
  <2>4. \A k \in 0..n : longer[k] = KeepsNode(longer, nodes, k)
    <3> TAKE k \in 0..n
    <3>1. k # 0 => longer[k - 1] = shorter[k - 1]
      BY <1>3
    <3>2. KeepsNode(longer, nodes, k) = KeepsNode(shorter, nodes, k)
      BY <3>1 DEF KeepsNode
    <3>3. longer[k] = KeepsNode(shorter, nodes, k)
      <4>1. CASE k = n
        BY <4>1
      <4>2. CASE k # n
        <5>1. k \in 0..(n - 1)
          BY <1>3, <4>2
        <5> QED
          BY <2>3, <4>2, <5>1
      <4> QED
        BY <4>1, <4>2
    <3> QED
      BY <3>2, <3>3
  <2>5. IsKept(longer, nodes, n)
    <3> HIDE DEF longer
    <3>1. longer = [k \in 0..n |-> longer[k]]
      BY DEF longer
    <3> QED
      BY <2>4, <3>1 DEF IsKept
  <2> QED
    BY <1>3, <2>5
<1> QED
  BY <1>4, <1>5

\* What r has of the first n nodes: all but those for functions, and one
\* driver node at most.
Keeps(r, nodes, n) ==
  /\ r \in Seq(Node)
  /\ \A i \in 1..Len(r) : r[i].specified # FUNCTION /\ \E j \in 1..n : r[i] = nodes[j]
  /\ \A j \in 1..n : nodes[j].specified # FUNCTION => \E i \in 1..Len(r) : r[i] = nodes[j]
  /\ \A i, j \in 1..Len(r) : r[i].specified = DRIVER /\ r[j].specified = DRIVER => i = j

LEMMA AppendKeeps ==
  ASSUME NEW nodes, GoodNodes(nodes), NEW n \in 1..Len(nodes), NEW r,
         Keeps(r, nodes, n - 1), nodes[n].specified # FUNCTION
  PROVE  Keeps(Append(r, nodes[n]), nodes, n)
<1> DEFINE longer == Append(r, nodes[n])
           m      == Len(r)
<1>1. /\ nodes \in Seq(Node) /\ Len(nodes) \in Nat /\ nodes[n] \in Node
      /\ DOMAIN nodes = 1..Len(nodes)
  BY DEF GoodNodes
<1>2. r \in Seq(Node) /\ m \in Nat
  BY DEF Keeps
<1>3. /\ longer \in Seq(Node) /\ Len(longer) = m + 1
      /\ longer[m + 1] = nodes[n] /\ \A i \in 1..m : longer[i] = r[i]
  BY <1>1, <1>2
<1> HIDE DEF longer
<1>4. ASSUME NEW i \in 1..(m + 1)
      PROVE  longer[i].specified # FUNCTION /\ \E j \in 1..n : longer[i] = nodes[j]
  <2>1. CASE i = m + 1
    BY <1>3, <2>1
  <2>2. CASE i # m + 1
    <3>1. i \in 1..m
      BY <1>2, <2>2
    <3>2. PICK j \in 1..(n - 1) : r[i] = nodes[j]
      BY <3>1 DEF Keeps
    <3>3. j \in 1..n
      BY <1>1
    <3> QED
      BY <1>3, <3>1, <3>2, <3>3 DEF Keeps
  <2> QED
    BY <2>1, <2>2
<1>5. ASSUME NEW j \in 1..n, nodes[j].specified # FUNCTION
      PROVE  \E i \in 1..(m + 1) : longer[i] = nodes[j]
  <2>1. CASE j = n
    BY <1>2, <1>3, <2>1
  <2>2. CASE j # n
    <3>1. j \in 1..(n - 1)
      BY <1>1, <2>2
    <3>2. PICK i \in 1..m : r[i] = nodes[j]
      BY <1>5, <3>1 DEF Keeps
    <3>3. i \in 1..(m + 1)
      BY <1>2
    <3> QED
      BY <1>3, <3>2, <3>3
  <2> QED
    BY <2>1, <2>2
<1>6. ASSUME nodes[n].specified = DRIVER
      PROVE  \A i \in 1..m : r[i].specified # DRIVER
  <2> SUFFICES ASSUME NEW i \in 1..m, r[i].specified = DRIVER
               PROVE  FALSE
    OBVIOUS
  <2>1. PICK j \in 1..(n - 1) : r[i] = nodes[j]
    BY DEF Keeps
  <2>2. j \in Of(nodes, DRIVER, 0) /\ n \in Of(nodes, DRIVER, 0)
    BY <1>1, <1>6, <2>1, Kinds DEF Of
  <2>3. j = n
    BY <2>2, OneOfEachKind DEF GoodNodes
  <2> QED
    BY <1>1, <2>3
<1>7. ASSUME NEW i \in 1..(m + 1), NEW j \in 1..(m + 1),
             longer[i].specified = DRIVER, longer[j].specified = DRIVER
      PROVE  i = j
  <2>1. \A k \in 1..(m + 1) : k = m + 1 \/ k \in 1..m
    BY <1>2
  <2> QED
    BY <1>3, <1>6, <1>7, <2>1 DEF Keeps
<1> QED
  BY <1>3, <1>4, <1>5, <1>7 DEF Keeps, longer

LEMMA WithoutFunctionsKeeps ==
  ASSUME NEW nodes, GoodNodes(nodes)
  PROVE  Keeps(WithoutFunctions(nodes), nodes, Len(nodes))
<1>1. Len(nodes) \in Nat /\ nodes \in Seq(Node)
  BY DEF GoodNodes
<1> DEFINE kept == CHOOSE kept : IsKept(kept, nodes, Len(nodes))
<1>2. WithoutFunctions(nodes) = kept[Len(nodes)]
  BY DEF WithoutFunctions, IsKept, KeepsNode
<1>3. IsKept(kept, nodes, Len(nodes))
  BY <1>1, KeptExists
<1> HIDE DEF kept
<1>4. \A n \in 0..Len(nodes) : kept[n] = KeepsNode(kept, nodes, n)
  BY <1>3 DEF IsKept
<1> DEFINE Wrong == {n \in 0..Len(nodes) : ~ Keeps(kept[n], nodes, n)}
<1>5. CASE Wrong = {}
  BY <1>1, <1>2, <1>5
<1>6. CASE Wrong # {}
  <2>1. PICK n \in Wrong : \A k \in Wrong : n <= k
    <3>1. Wrong \subseteq Nat
      BY <1>1
    <3> HIDE DEF Wrong
    <3> QED
      BY <1>6, <3>1, Lists!LeastNumber
  <2>2. n \in 0..Len(nodes) /\ ~ Keeps(kept[n], nodes, n)
    BY <2>1
  <2>3. CASE n = 0
    <3>1. kept[0] = <<>>
      BY <1>4, <2>2, <2>3 DEF KeepsNode
    <3> QED
      BY <2>2, <2>3, <3>1 DEF Keeps
  <2>4. CASE n # 0
    <3>1. n \in 1..Len(nodes) /\ n - 1 \in 0..Len(nodes) /\ n - 1 \notin Wrong
      BY <1>1, <2>1, <2>2, <2>4
    <3>2. Keeps(kept[n - 1], nodes, n - 1)
      BY <3>1
    <3>3. CASE nodes[n].specified = FUNCTION
      <4>1. kept[n] = kept[n - 1]
        BY <1>4, <2>2, <2>4, <3>3 DEF KeepsNode
      <4>2. Keeps(kept[n - 1], nodes, n)
        <5>1. \A j \in 1..n : j = n \/ j \in 1..(n - 1)
          BY <1>1, <3>1
        <5>2. \A j \in 1..(n - 1) : j \in 1..n
          BY <1>1, <3>1
        <5> QED
          BY <3>2, <3>3, <5>1, <5>2 DEF Keeps
      <4> QED
        BY <2>2, <4>1, <4>2
    <3>4. CASE nodes[n].specified # FUNCTION
      <4>1. kept[n] = Append(kept[n - 1], nodes[n])
        BY <1>4, <2>2, <2>4, <3>4 DEF KeepsNode
      <4> QED
        BY <2>2, <3>1, <3>2, <3>4, <4>1, AppendKeeps
    <3> QED
      BY <3>3, <3>4
  <2> QED
    BY <2>3, <2>4
<1> QED
  BY <1>5, <1>6

\* The driver node and the nodes for netlink messages are left.
LEMMA LeftOver ==
  ASSUME NEW nodes, GoodNodes(nodes)
  PROVE  LET left == WithoutFunctions(nodes)
         IN /\ GoodNodes(left) /\ Netlinks(left) = Netlinks(nodes)
            /\ \A d \in Bytes : Perms(left, FUNCTION, d) = {}
<1> DEFINE left == WithoutFunctions(nodes)
<1>1. Keeps(left, nodes, Len(nodes))
  BY WithoutFunctionsKeeps
<1> HIDE DEF left
<1>2. DOMAIN nodes = 1..Len(nodes) /\ left \in Seq(Node) /\ DOMAIN left = 1..Len(left)
  BY <1>1 DEF GoodNodes, Keeps
<1>3. \A d : Of(left, FUNCTION, d) = {}
  BY <1>1, <1>2 DEF Keeps, Of
<1>4. \A d : Perms(left, FUNCTION, d) = {}
  BY <1>3 DEF Perms, Stored
<1>5. \A i, j \in Of(left, DRIVER, 0) : i = j
  BY <1>1, <1>2 DEF Keeps, Of
<1>6. OneOfEach(left)
  BY <1>3, <1>5, OneOfEachKind
<1>7. Netlinks(left) = Netlinks(nodes)
  <2>1. ASSUME NEW i \in NetlinkNodes(left)
        PROVE  left[i] \in Netlinks(nodes)
    <3>1. PICK j \in 1..Len(nodes) : left[i] = nodes[j]
      BY <1>1, <1>2 DEF NetlinkNodes, Keeps
    <3> QED
      BY <1>2, <3>1 DEF NetlinkNodes, Netlinks
  <2>2. ASSUME NEW j \in NetlinkNodes(nodes)
        PROVE  nodes[j] \in Netlinks(left)
    <3>1. PICK i \in 1..Len(left) : left[i] = nodes[j]
      BY <1>1, <1>2, Kinds DEF NetlinkNodes, Keeps
    <3> QED
      BY <1>2, <3>1 DEF NetlinkNodes, Netlinks
  <2> QED
    BY <2>1, <2>2 DEF Netlinks
<1> QED
  BY <1>2, <1>4, <1>6, <1>7 DEF GoodNodes, left

(***************************************************************************)
(* A statement's work on the nodes of one key.                             *)
(***************************************************************************)
LEMMA PermsAreBytes ==
  ASSUME NEW nodes, GoodNodes(nodes), NEW kind, NEW d
  PROVE  Perms(nodes, kind, d) \subseteq Bytes
<1>1. \A i \in DOMAIN nodes : nodes[i].perms \subseteq Bytes
  <2>1. \A i \in DOMAIN nodes : nodes[i] \in Node
    BY DEF GoodNodes
  <2> QED
    BY <2>1 DEF Node
<1> QED
  BY <1>1 DEF Perms, Stored, Of

LEMMA StoresHasRule ==
  ASSUME NEW nodes, NEW r, NEW kind \in {DRIVER, FUNCTION}, NEW d, NEW perms,
         Stores(nodes, r, kind, d, perms)
  PROVE  HasRule(r)
BY Kinds DEF Stores, HasRule, Of

LEMMA RoundHas ==
  ASSUME NEW low \in Codes, NEW high \in Codes, NEW x
  PROVE  x \in Sets!Round(low, high) <=>
           /\ x \in Codes
           /\ IF ioctl_driver(low) = ioctl_driver(high)
              THEN /\ ioctl_driver(x) = ioctl_driver(low)
                   /\ ioctl_func(x) \in ioctl_func(low)..ioctl_func(high)
              ELSE ioctl_driver(x) \in ioctl_driver(low)..ioctl_driver(high)
<1>1. CASE ioctl_driver(low) = ioctl_driver(high)
  <2>1. Sets!Round(low, high) = low..high
    BY <1>1 DEF Sets!Round, Sets!DriverOf, ioctl_driver
  <2>2. x \in low..high => x \in Codes
    BY WidthAssumption DEF Codes
  <2> QED
    BY <1>1, <2>1, <2>2, RangeOfDriver
<1>2. CASE ioctl_driver(low) # ioctl_driver(high)
  <2>1. Sets!Round(low, high) =
          {y \in Codes : ioctl_driver(y) \in ioctl_driver(low)..ioctl_driver(high)}
    BY <1>2 DEF Sets!Round, Sets!DriverOf, Sets!Codes, ioctl_driver, Codes
  <2> QED
    BY <1>2, <2>1
<1> QED
  BY <1>1, <1>2

LEMMA Extended ==
  ASSUME NEW nodes, GoodNodes(nodes), NEW low \in Codes, NEW high \in Codes
  PROVE  LET r == Extend(nodes, low, high)
         IN /\ GoodNodes(r) /\ HasRule(r) /\ Netlinks(r) = Netlinks(nodes)
            /\ Granted(r) = Granted(nodes) \cup Sets!Round(low, high)
<1> DEFINE r  == Extend(nodes, low, high)
           dl == ioctl_driver(low)
           dh == ioctl_driver(high)
<1>1. /\ dl \in Bytes /\ dh \in Bytes
      /\ ioctl_func(low) \in Bytes /\ ioctl_func(high) \in Bytes
  BY Division
<1>2. \A a, b \in Bytes : a..b \subseteq Bytes
  BY WidthAssumption DEF Bytes
<1> HIDE DEF r
<1>3. CASE dl # dh
  <2> DEFINE perms == Perms(nodes, DRIVER, 0) \cup (dl..dh)
  <2>1. r = SetDrivers(nodes, perms)
    BY <1>3, OfKinds DEF Extend, Perms, r
  <2>2. perms \in SUBSET Bytes
    BY <1>1, <1>2, PermsAreBytes
  <2> HIDE DEF perms
  <2>3. Stores(nodes, r, DRIVER, 0, perms)
    BY <2>1, <2>2, StoreStores
  <2>4. Perms(r, DRIVER, 0) = perms
    BY <2>3 DEF Stores
  <2>5. \A e \in Bytes : Perms(r, FUNCTION, e) = Perms(nodes, FUNCTION, e)
    BY <2>3, Kinds DEF Stores, IsKind
  <2>6. ASSUME NEW x \in Codes
        PROVE  x \in Granted(r) <=> x \in Granted(nodes) \/ x \in Sets!Round(low, high)
    <3>1. ioctl_driver(x) \in Bytes
      BY Division
    <3> QED
      BY <1>3, <2>4, <2>5, <3>1, GrantedHas, RoundHas DEF perms
  <2>7. Granted(r) = Granted(nodes) \cup Sets!Round(low, high)
    BY <2>6, GrantedHas, RoundHas
  <2> QED
    BY <2>3, <2>7, StoresHasRule DEF Stores, r
<1>4. CASE dl = dh
  <2> DEFINE perms == Perms(nodes, FUNCTION, dl) \cup (ioctl_func(low)..ioctl_func(high))
  <2>1. r = SetFunctions(nodes, dl, perms)
    BY <1>4, OfKinds DEF Extend, Perms, r
  <2>2. perms \in SUBSET Bytes
    BY <1>1, <1>2, PermsAreBytes
  <2> HIDE DEF perms
  <2>3. Stores(nodes, r, FUNCTION, dl, perms)
    BY <1>1, <2>1, <2>2, StoreStores
  <2>4. Perms(r, FUNCTION, dl) = perms
    BY <2>3 DEF Stores
  <2>5. /\ \A e \in Bytes : e # dl => Perms(r, FUNCTION, e) = Perms(nodes, FUNCTION, e)
        /\ Perms(r, DRIVER, 0) = Perms(nodes, DRIVER, 0)
    <3>1. 0 \in Bytes
      BY WidthAssumption DEF Bytes
    <3> QED
      BY <2>3, <3>1, Kinds DEF Stores, IsKind
  <2>6. ASSUME NEW x \in Codes
        PROVE  x \in Granted(r) <=> x \in Granted(nodes) \/ x \in Sets!Round(low, high)
    <3>1. ioctl_driver(x) \in Bytes
      BY Division
    <3>2. CASE ioctl_driver(x) = dl
      BY <1>4, <2>4, <2>5, <3>2, GrantedHas, RoundHas DEF perms
    <3>3. CASE ioctl_driver(x) # dl
      BY <1>4, <2>5, <3>1, <3>3, GrantedHas, RoundHas
    <3> QED
      BY <3>2, <3>3
  <2>7. Granted(r) = Granted(nodes) \cup Sets!Round(low, high)
    BY <2>6, GrantedHas, RoundHas
  <2> QED
    BY <2>3, <2>7, StoresHasRule DEF Stores, r
<1> QED
  BY <1>3, <1>4

LEMMA Complemented ==
  ASSUME NEW nodes, GoodNodes(nodes), NEW low \in Codes, NEW high \in Codes
  PROVE  LET r == Complement(nodes, low, high)
         IN /\ GoodNodes(r) /\ HasRule(r) /\ Netlinks(r) = Netlinks(nodes)
            /\ Granted(r) = Codes \ Sets!Round(low, high)
<1> DEFINE r    == Complement(nodes, low, high)
           dl   == ioctl_driver(low)
           dh   == ioctl_driver(high)
           left == WithoutFunctions(nodes)
<1>1. dl \in Bytes /\ dh \in Bytes
  BY Division
<1>2. /\ GoodNodes(left) /\ Netlinks(left) = Netlinks(nodes)
      /\ \A d \in Bytes : Perms(left, FUNCTION, d) = {}
  BY LeftOver
<1> HIDE DEF r, left
<1>3. CASE dl # dh
  <2>1. r = SetDrivers(left, Bytes \ (dl..dh))
    BY <1>3 DEF Complement, r, left
  <2>2. Stores(left, r, DRIVER, 0, Bytes \ (dl..dh))
    BY <1>2, <2>1, StoreStores
  <2>3. Perms(r, DRIVER, 0) = Bytes \ (dl..dh)
    BY <2>2 DEF Stores
  <2>4. \A e \in Bytes : Perms(r, FUNCTION, e) = {}
    BY <1>2, <2>2, Kinds DEF Stores, IsKind
  <2>5. ASSUME NEW x \in Codes
        PROVE  x \in Granted(r) <=> x \notin Sets!Round(low, high)
    <3>1. ioctl_driver(x) \in Bytes
      BY Division
    <3> QED
      BY <1>3, <2>3, <2>4, <3>1, GrantedHas, RoundHas
  <2>6. Granted(r) = Codes \ Sets!Round(low, high)
    BY <2>5, GrantedHas
  <2> QED
    BY <1>2, <2>2, <2>6, StoresHasRule DEF Stores, r
<1>4. CASE dl = dh
  <2> DEFINE middle == SetDrivers(left, Bytes \ {dl})
             perms  == Bytes \ (ioctl_func(low)..ioctl_func(high))
  <2>1. r = SetFunctions(middle, dl, perms)
    BY <1>4 DEF Complement, r, left
  <2>2. Stores(left, middle, DRIVER, 0, Bytes \ {dl})
    BY <1>2, StoreStores
  <2> HIDE DEF middle
  <2>3. Stores(middle, r, FUNCTION, dl, perms)
    <3>1. perms \in SUBSET Bytes /\ GoodNodes(middle)
      BY <2>2 DEF Stores
    <3> HIDE DEF perms
    <3> QED
      BY <1>1, <2>1, <3>1, StoreStores
  <2>4. Perms(r, FUNCTION, dl) = perms
    BY <2>3 DEF Stores
  <2>5. Perms(r, DRIVER, 0) = Bytes \ {dl}
    <3>1. 0 \in Bytes
      BY WidthAssumption DEF Bytes
    <3>2. Perms(r, DRIVER, 0) = Perms(middle, DRIVER, 0)
      BY <2>3, <3>1, Kinds DEF Stores, IsKind
    <3> QED
      BY <2>2, <3>2 DEF Stores
  <2>6. \A e \in Bytes : e # dl => Perms(r, FUNCTION, e) = {}
    <3>1. \A e \in Bytes : Perms(middle, FUNCTION, e) = {}
      BY <1>2, <2>2, Kinds DEF Stores, IsKind
    <3> QED
      BY <2>3, <3>1, Kinds DEF Stores, IsKind
  <2>7. ASSUME NEW x \in Codes
        PROVE  x \in Granted(r) <=> x \notin Sets!Round(low, high)
    <3>1. ioctl_driver(x) \in Bytes /\ ioctl_func(x) \in Bytes
      BY Division
    <3>2. CASE ioctl_driver(x) = dl
      BY <1>4, <2>4, <2>5, <3>1, <3>2, GrantedHas, RoundHas
    <3>3. CASE ioctl_driver(x) # dl
      BY <1>4, <2>5, <2>6, <3>1, <3>3, GrantedHas, RoundHas
    <3> QED
      BY <3>2, <3>3
  <2>8. Granted(r) = Codes \ Sets!Round(low, high)
    BY <2>7, GrantedHas
  <2> QED
    BY <1>2, <2>2, <2>3, <2>8, StoresHasRule DEF Stores, r
<1> QED
  BY <1>3, <1>4

\* A policy that is read again has its nodes the other way round.
LEMMA Reversed ==
  ASSUME NEW nodes, GoodNodes(nodes)
  PROVE  LET r == Reread(nodes)
         IN /\ GoodNodes(r) /\ HasRule(r) = HasRule(nodes)
            /\ Netlinks(r) = Netlinks(nodes) /\ Granted(r) = Granted(nodes)
<1> DEFINE r == Reread(nodes)
           n == Len(nodes)
<1>1. /\ nodes \in Seq(Node) /\ n \in Nat /\ DOMAIN nodes = 1..n
      /\ \A i \in 1..n : nodes[i] \in Node
  BY DEF GoodNodes
<1>2. DOMAIN r = 1..n /\ \A i \in 1..n : r[i] = nodes[n + 1 - i]
  BY <1>1 DEF Reread, Reverse
<1>3. \A i \in 1..n : n + 1 - i \in 1..n /\ n + 1 - (n + 1 - i) = i
  BY <1>1
<1>4. r \in Seq(Node)
  BY <1>1, <1>3 DEF Reread, Reverse
<1> HIDE DEF r, n
<1>5. \A kind, d : \A i \in 1..n : i \in Of(r, kind, d) <=> n + 1 - i \in Of(nodes, kind, d)
  BY <1>1, <1>2, <1>3 DEF Of
<1>6. ASSUME NEW kind, NEW d, \A i, j \in Of(nodes, kind, d) : i = j
      PROVE  \A i, j \in Of(r, kind, d) : i = j
  <2> SUFFICES ASSUME NEW i \in Of(r, kind, d), NEW j \in Of(r, kind, d)
               PROVE  i = j
    OBVIOUS
  <2>1. i \in 1..n /\ j \in 1..n
    BY <1>2 DEF Of
  <2>2. n + 1 - i = n + 1 - j
    BY <1>5, <1>6, <2>1
  <2> QED
    BY <1>1, <2>1, <2>2
<1>7. OneOfEach(r)
  BY <1>6, OneOfEachKind DEF GoodNodes
<1>8. ASSUME NEW x
      PROVE  /\ (\E i \in 1..n : r[i] = x) <=> (\E i \in 1..n : nodes[i] = x)
  BY <1>2, <1>3
<1>9. Netlinks(r) = Netlinks(nodes)
  <2>1. \A x : x \in Netlinks(r) <=> x.specified = NLMSG /\ \E i \in 1..n : r[i] = x
    BY <1>2 DEF Netlinks, NetlinkNodes
  <2>2. \A x : x \in Netlinks(nodes) <=> x.specified = NLMSG /\ \E i \in 1..n : nodes[i] = x
    BY <1>1 DEF Netlinks, NetlinkNodes
  <2> QED
    BY <1>8, <2>1, <2>2
<1>10. HasRule(r) = HasRule(nodes)
  <2>1. HasRule(r) <=> HasRule(nodes)
    BY <1>1, <1>2, <1>3 DEF HasRule
  <2> QED
    BY <2>1 DEF HasRule
<1>11. \A kind, d : Perms(r, kind, d) = Perms(nodes, kind, d)
  <2> TAKE kind, d
  <2>1. ASSUME NEW b
        PROVE  b \in Perms(r, kind, d) <=> b \in Perms(nodes, kind, d)
    <3>1. ASSUME NEW i \in Of(r, kind, d), b \in r[i].perms
          PROVE  \E j \in Of(nodes, kind, d) : b \in nodes[j].perms
      <4>1. i \in 1..n
        BY <1>2 DEF Of
      <4> QED
        BY <1>2, <1>5, <3>1, <4>1
    <3>2. ASSUME NEW j \in Of(nodes, kind, d), b \in nodes[j].perms
          PROVE  \E i \in Of(r, kind, d) : b \in r[i].perms
      <4>1. j \in 1..n
        BY <1>1 DEF Of
      <4>2. n + 1 - j \in Of(r, kind, d) /\ r[n + 1 - j] = nodes[j]
        BY <1>2, <1>3, <1>5, <4>1
      <4> QED
        BY <3>2, <4>2
    <3> QED
      BY <3>1, <3>2, PermsHas
  <2> QED
    BY <2>1
<1>12. Granted(r) = Granted(nodes)
  <2>1. \A x : x \in Granted(r) <=> x \in Granted(nodes)
    BY <1>11, GrantedHas
  <2> QED
    BY <2>1
<1> QED
  BY <1>4, <1>7, <1>9, <1>10, <1>12 DEF GoodNodes, r

(***************************************************************************)
(* The keys of a policy.                                                   *)
(***************************************************************************)
\* The commands a key has after a statement that reaches it.
Promised(nodes, low, high, reset) ==
  IF reset THEN Codes \ Sets!Round(low, high)
  ELSE Granted(nodes) \cup Sets!Round(low, high)

LEMMA GoodKeys ==
  OneNodeOfEach <=> /\ xperms = [k \in Keys |-> xperms[k]] /\ policyvers \in Nat
                    /\ \A k \in Keys : GoodNodes(xperms[k])
BY DEF OneNodeOfEach, XpermTypeOK, GoodNodes

LEMMA InitGood == XpermInit => OneNodeOfEach
BY FilesAssumption DEF XpermInit, OneNodeOfEach, XpermTypeOK

\* A statement changes the rules it reaches, and of these the ioctl nodes.
Changes(s, t, c, e, r, reset) ==
  /\ r[1] \in Codes /\ r[2] \in Codes
  /\ \A k \in Keys :
       /\ Netlinks(xperms'[k]) = Netlinks(xperms[k])
       /\ k \notin Reach(s, t, c, e) => xperms'[k] = xperms[k]
       /\ k \in Reach(s, t, c, e) =>
            /\ HasRule(xperms'[k])
            /\ Granted(xperms'[k]) = Promised(xperms[k], r[1], r[2], reset)

LEMMA StatementStep ==
  ASSUME OneNodeOfEach, NEW s, NEW t, NEW c, NEW e, NEW r \in Codes \X Codes,
         NEW reset \in BOOLEAN, AddXpermRule(s, t, c, r[1], r[2], reset, e)
  PROVE  OneNodeOfEach' /\ Changes(s, t, c, e, r, reset)
<1>1. r[1] \in Codes /\ r[2] \in Codes
  OBVIOUS
<1>2. /\ xperms' = [k \in Keys |->
                      IF k \notin Reach(s, t, c, e) THEN xperms[k]
                      ELSE IF reset THEN Complement(xperms[k], r[1], r[2])
                                    ELSE Extend(xperms[k], r[1], r[2])]
      /\ policyvers' = policyvers
  BY DEF AddXpermRule
<1>3. policyvers \in Nat /\ \A k \in Keys : GoodNodes(xperms[k])
  BY GoodKeys
<1>4. ASSUME NEW k \in Keys
      PROVE  /\ GoodNodes(xperms'[k])
             /\ Netlinks(xperms'[k]) = Netlinks(xperms[k])
             /\ k \notin Reach(s, t, c, e) => xperms'[k] = xperms[k]
             /\ k \in Reach(s, t, c, e) =>
                   /\ HasRule(xperms'[k])
                   /\ Granted(xperms'[k]) = Promised(xperms[k], r[1], r[2], reset)
  <2>1. CASE k \notin Reach(s, t, c, e)
    BY <1>2, <1>3, <2>1
  <2>2. CASE k \in Reach(s, t, c, e) /\ reset
    <3>1. xperms'[k] = Complement(xperms[k], r[1], r[2])
      BY <1>2, <2>2
    <3> QED
      BY <1>1, <1>3, <2>2, <3>1, Complemented DEF Promised
  <2>3. CASE k \in Reach(s, t, c, e) /\ ~ reset
    <3>1. xperms'[k] = Extend(xperms[k], r[1], r[2])
      BY <1>2, <2>3
    <3> QED
      BY <1>1, <1>3, <2>3, <3>1, Extended DEF Promised
  <2> QED
    BY <2>1, <2>2, <2>3
<1>5. xperms' = [k \in Keys |-> xperms'[k]] /\ policyvers' \in Nat
  BY <1>2, <1>3
<1>6. OneNodeOfEach'
  BY <1>4, <1>5 DEF OneNodeOfEach, XpermTypeOK, GoodNodes
<1>7. Changes(s, t, c, e, r, reset)
  BY <1>1, <1>4 DEF Changes
<1> QED
  BY <1>6, <1>7

LEMMA SomeStatementStep ==
  ASSUME OneNodeOfEach,
         \E s, t \in Types \cup {Any}, c \in Classes \cup {Any}, e \in Effects,
            r \in Ranges, reset \in BOOLEAN :
              AddXpermRule(s, t, c, r[1], r[2], reset, e)
  PROVE  /\ OneNodeOfEach'
         /\ \E s, t \in Types \cup {Any}, c \in Classes \cup {Any}, e \in Effects,
               r \in Ranges, reset \in BOOLEAN : Changes(s, t, c, e, r, reset)
<1>1. PICK s \in Types \cup {Any}, t \in Types \cup {Any}, c \in Classes \cup {Any},
           e \in Effects, r \in Ranges, reset \in BOOLEAN :
             AddXpermRule(s, t, c, r[1], r[2], reset, e)
  OBVIOUS
<1>2. r \in Codes \X Codes
  BY SetsAssumption
<1>3. OneNodeOfEach' /\ Changes(s, t, c, e, r, reset)
  BY <1>1, <1>2, StatementStep
<1> QED
  BY <1>3

LEMMA ReloadStep ==
  ASSUME OneNodeOfEach, ReloadXperms
  PROVE  /\ OneNodeOfEach'
         /\ \A k \in Keys :
              /\ Netlinks(xperms'[k]) = Netlinks(xperms[k])
              /\ Granted(xperms'[k]) = Granted(xperms[k])
              /\ HasRule(xperms'[k]) = HasRule(xperms[k])
<1>1. /\ xperms' = [k \in Keys |-> Reread(xperms[k])] /\ policyvers' = policyvers
  BY DEF ReloadXperms
<1>2. policyvers \in Nat /\ \A k \in Keys : GoodNodes(xperms[k])
  BY GoodKeys
<1>3. ASSUME NEW k \in Keys
      PROVE  /\ GoodNodes(xperms'[k])
             /\ Netlinks(xperms'[k]) = Netlinks(xperms[k])
             /\ Granted(xperms'[k]) = Granted(xperms[k])
             /\ HasRule(xperms'[k]) = HasRule(xperms[k])
  <2>1. xperms'[k] = Reread(xperms[k])
    BY <1>1
  <2> QED
    BY <1>2, <2>1, Reversed
<1>4. xperms' = [k \in Keys |-> xperms'[k]] /\ policyvers' \in Nat
  BY <1>1, <1>2
<1> QED
  BY <1>3, <1>4 DEF OneNodeOfEach, XpermTypeOK, GoodNodes

LEMMA KeepsGood == OneNodeOfEach /\ [XpermNext]_xpermVars => OneNodeOfEach'
<1> SUFFICES ASSUME OneNodeOfEach, [XpermNext]_xpermVars
             PROVE  OneNodeOfEach'
  OBVIOUS
<1>1. CASE \E s, t \in Types \cup {Any}, c \in Classes \cup {Any}, e \in Effects,
              r \in Ranges, reset \in BOOLEAN :
                AddXpermRule(s, t, c, r[1], r[2], reset, e)
  BY <1>1, SomeStatementStep
<1>2. CASE ReloadXperms
  BY <1>2, ReloadStep
<1>3. CASE UNCHANGED xpermVars
  BY <1>3 DEF xpermVars, OneNodeOfEach, XpermTypeOK
<1> QED
  BY <1>1, <1>2, <1>3 DEF XpermNext

\* Every key has one node of each kind at most, whatever statements are added:
\* add_xperm_rule_impl finds the node it has to change.
THEOREM NodesStayUnique == XpermSpec => []OneNodeOfEach
BY InitGood, KeepsGood, PTL DEF XpermSpec

\* Saving and loading turns the chains round and changes no ioctl rule.
THEOREM ReloadIsHarmless == XpermSpec => ReloadKeepsIoctls
<1>1. OneNodeOfEach /\ [XpermNext]_xpermVars =>
        [ReloadXperms => \A k \in Keys :
           /\ Granted(xperms'[k]) = Granted(xperms[k])
           /\ HasRule(xperms'[k]) = HasRule(xperms[k])]_xpermVars
  BY ReloadStep
<1> QED
  BY <1>1, NodesStayUnique, PTL DEF XpermSpec, ReloadKeepsIoctls

\* The nodes for netlink messages in the same chains are left alone.
THEOREM NetlinksUntouched == XpermSpec => NetlinkRulesStay
<1>1. OneNodeOfEach /\ [XpermNext]_xpermVars =>
        [\A k \in Keys :
           {xperms'[k][i] : i \in NetlinkNodes(xperms'[k])}
              = {xperms[k][i] : i \in NetlinkNodes(xperms[k])}]_xpermVars
  <2> SUFFICES ASSUME OneNodeOfEach, XpermNext
               PROVE  \A k \in Keys : Netlinks(xperms'[k]) = Netlinks(xperms[k])
    BY DEF Netlinks
  <2>1. CASE ReloadXperms
    BY <2>1, ReloadStep
  <2>2. CASE \E s, t \in Types \cup {Any}, c \in Classes \cup {Any}, e \in Effects,
                r \in Ranges, reset \in BOOLEAN :
                  AddXpermRule(s, t, c, r[1], r[2], reset, e)
    BY <2>2, SomeStatementStep DEF Changes
  <2> QED
    BY <2>1, <2>2 DEF XpermNext
<1> QED
  BY <1>1, NodesStayUnique, PTL DEF XpermSpec, NetlinkRulesStay

(***************************************************************************)
(* The nodes implement the sets of commands.                               *)
(***************************************************************************)
LEMMA SetsInit == XpermInit => Sets!Init
<1>1. /\ [k \in Keys |-> Granted(xperms[k])] \in [Keys -> SUBSET Codes]
      /\ {k \in Keys : HasRule(xperms[k])} \in SUBSET Keys
  BY DEF Granted
<1> QED
  BY <1>1 DEF Sets!Init, Sets!Keys, Sets!Codes, Keys, Codes

\* A step of IoctlSets, with names for its keys and for what it does to them.
KeysOf(S, T, C, e) ==
  {k \in Sets!Keys : /\ k.source_type \in S /\ k.target_type \in T
                     /\ k.target_class \in C /\ k.specified = e}
SetsMove(K, low, high) ==
  /\ Sets!Widen(K, low, high) \/ Sets!AllBut(K, low, high)
  /\ {k \in Keys : HasRule(xperms[k])}' = {k \in Keys : HasRule(xperms[k])} \cup K

LEMMA SetsNext ==
  ASSUME NEW S \in Sets!Fields, NEW T \in Sets!Fields, NEW C \in Sets!ClassFields,
         NEW e \in Effects, NEW low \in Sets!Codes, NEW high \in Sets!Codes,
         SetsMove(KeysOf(S, T, C, e), low, high)
  PROVE  Sets!Next
<1> SUFFICES
      \E S2, T2 \in Sets!Fields, C2 \in Sets!ClassFields, e2 \in Effects,
         low2, high2 \in Sets!Codes : SetsMove(KeysOf(S2, T2, C2, e2), low2, high2)
  BY DEF Sets!Next, SetsMove, KeysOf
<1> QED
  OBVIOUS

LEMMA SetsStatement ==
  ASSUME NEW s \in Types \cup {Any}, NEW t \in Types \cup {Any},
         NEW c \in Classes \cup {Any}, NEW e \in Effects, NEW r \in Ranges,
         NEW reset \in BOOLEAN, Changes(s, t, c, e, r, reset)
  PROVE  Sets!Next
<1> DEFINE S == IF s = Any THEN Attribs ELSE {s}
           T == IF t = Any THEN Attribs ELSE {t}
           C == IF c = Any THEN Classes ELSE {c}
           K == KeysOf(S, T, C, e)
<1>1. /\ r[1] \in Codes /\ r[2] \in Codes
      /\ \A k \in Keys :
           /\ k \notin Reach(s, t, c, e) => xperms'[k] = xperms[k]
           /\ k \in Reach(s, t, c, e) =>
                /\ HasRule(xperms'[k])
                /\ Granted(xperms'[k]) = Promised(xperms[k], r[1], r[2], reset)
  BY DEF Changes
<1>2. Sets!Keys = Keys /\ Sets!Codes = Codes
  BY DEF Sets!Keys, Keys, Sets!Codes, Codes
<1>3. /\ S \in Sets!Fields /\ T \in Sets!Fields /\ C \in Sets!ClassFields
  BY DEF Sets!Fields, Sets!ClassFields
<1>4. r[1] \in Sets!Codes /\ r[2] \in Sets!Codes
  BY <1>1, <1>2
<1>5. K \subseteq Keys /\ \A k \in Keys : k \in K <=> k \in Reach(s, t, c, e)
  BY <1>2 DEF Reach, Keys, KeysOf
<1> HIDE DEF S, T, C
<1>6. SUFFICES SetsMove(K, r[1], r[2])
  BY <1>3, <1>4, SetsNext
<1> HIDE DEF K
<1>7. {k \in Keys : HasRule(xperms[k])}' = {k \in Keys : HasRule(xperms[k])} \cup K
  BY <1>1, <1>5
<1>8. CASE reset
  <2>1. \A k \in Keys : Granted(xperms'[k]) = IF k \in K THEN Codes \ Sets!Round(r[1], r[2])
                                              ELSE Granted(xperms[k])
    BY <1>1, <1>5, <1>8 DEF Promised
  <2>2. Sets!AllBut(K, r[1], r[2])
    BY <1>2, <2>1 DEF Sets!AllBut
  <2> QED
    BY <1>7, <2>2 DEF SetsMove
<1>9. CASE ~ reset
  <2>1. \A k \in Keys : Granted(xperms'[k]) =
                          IF k \in K THEN Granted(xperms[k]) \cup Sets!Round(r[1], r[2])
                          ELSE Granted(xperms[k])
    BY <1>1, <1>5, <1>9 DEF Promised
  <2>2. Sets!Widen(K, r[1], r[2])
    BY <1>2, <2>1 DEF Sets!Widen
  <2> QED
    BY <1>7, <2>2 DEF SetsMove
<1> QED
  BY <1>8, <1>9

LEMMA SetsStep ==
  ASSUME OneNodeOfEach, [XpermNext]_xpermVars
  PROVE  [Sets!Next]_<<[k \in Keys |-> Granted(xperms[k])],
                       {k \in Keys : HasRule(xperms[k])}>>
<1>1. CASE \E s, t \in Types \cup {Any}, c \in Classes \cup {Any}, e \in Effects,
              r \in Ranges, reset \in BOOLEAN :
                AddXpermRule(s, t, c, r[1], r[2], reset, e)
  <2>1. PICK s \in Types \cup {Any}, t \in Types \cup {Any}, c \in Classes \cup {Any},
             e \in Effects, r \in Ranges, reset \in BOOLEAN : Changes(s, t, c, e, r, reset)
    BY <1>1, SomeStatementStep
  <2> QED
    BY <2>1, SetsStatement
<1>2. CASE ReloadXperms
  BY <1>2, ReloadStep
<1>3. CASE UNCHANGED xpermVars
  BY <1>3 DEF xpermVars
<1> QED
  BY <1>1, <1>2, <1>3 DEF XpermNext

\* The driver and function nodes are the sets of commands the statements
\* promise: for every width, every policy and every sequence of statements.
THEOREM IoctlSetsImplemented == XpermSpec => ImplementsIoctlSets
<1>1. XpermInit => Sets!Init
  BY SetsInit
<1>2. OneNodeOfEach /\ [XpermNext]_xpermVars =>
        [Sets!Next]_<<[k \in Keys |-> Granted(xperms[k])],
                      {k \in Keys : HasRule(xperms[k])}>>
  BY SetsStep
<1> QED
  BY <1>1, <1>2, NodesStayUnique, PTL DEF XpermSpec, ImplementsIoctlSets, Sets!Spec

(***************************************************************************)
(* The statements.                                                         *)
(***************************************************************************)
Calls == [low : Codes, high : Codes, reset : BOOLEAN]
Listing(set) == set.form \in {"braces", "range"}

\* The calls that are left are those for the items from here on.
Applied == Len(written.items) - Len(todo)
Remaining ==
  /\ Applied \in 0..Len(written.items)
  /\ \A i \in 1..Len(todo) : todo[i] = Xperm(written.items[Applied + i], written.negated)

\* What the calls so far have done to the rule.
Added ==
  /\ before \subseteq InForce
  /\ \A i \in 1..Applied : written.items[i][1]..written.items[i][2] \subseteq InForce
Forgotten ==
  Applied > 0 =>
    InForce = Codes \ Sets!Round(written.items[Applied][1], written.items[Applied][2])

StatementInv ==
  /\ OneNodeOfEach
  /\ written \in XpermSet \cup {None}
  /\ todo \in Seq(Calls)
  /\ Listing(written) =>
       /\ Remaining
       /\ Supported => IF written.negated THEN Forgotten ELSE Added

(***************************************************************************)
(* Ranges and sets.                                                        *)
(***************************************************************************)
LEMMA RangeInRound ==
  ASSUME NEW low \in Codes, NEW high \in Codes
  PROVE  low..high \subseteq Sets!Round(low, high)
<1> SUFFICES ASSUME NEW x \in low..high
             PROVE  x \in Sets!Round(low, high)
  OBVIOUS
<1>1. x \in Codes
  BY WidthAssumption DEF Codes
<1>2. CASE ioctl_driver(low) = ioctl_driver(high)
  BY <1>1, <1>2, RangeOfDriver, RoundHas
<1>3. CASE ioctl_driver(low) # ioctl_driver(high)
  <2>1. ASSUME NEW y \in Codes, NEW z \in Codes, y <= z
        PROVE  ioctl_driver(y) <= ioctl_driver(z)
    <3> DEFINE d == ioctl_driver(y)
               e == ioctl_driver(z)
    <3>1. /\ d \in Bytes /\ e \in Bytes /\ Width \in Nat
          /\ ioctl_func(y) \in Bytes /\ ioctl_func(z) \in Bytes
          /\ y = Width * d + ioctl_func(y) /\ z = Width * e + ioctl_func(z)
      BY Division, WidthAssumption
    <3> HIDE DEF d, e
    <3>2. CASE e < d
      <4>1. Width * e + Width <= Width * d
        BY <3>1, <3>2 DEF Bytes
      <4> QED
        BY <2>1, <3>1, <4>1 DEF Bytes
    <3> QED
      BY <3>1, <3>2 DEF Bytes, d, e
  <2>2. low <= x /\ x <= high
    BY DEF Codes
  <2>3. ioctl_driver(x) \in ioctl_driver(low)..ioctl_driver(high)
    <3>1. /\ ioctl_driver(x) \in Bytes /\ ioctl_driver(low) \in Bytes
          /\ ioctl_driver(high) \in Bytes
      BY <1>1, Division
    <3>2. ioctl_driver(low) <= ioctl_driver(x) /\ ioctl_driver(x) <= ioctl_driver(high)
      BY <1>1, <2>1, <2>2
    <3> QED
      BY <3>1, <3>2 DEF Bytes
  <2> QED
    BY <1>1, <1>3, <2>3, RoundHas
<1> QED
  BY <1>2, <1>3

LEMMA EverythingIsRange == Everything \in Codes \X Codes
<1>1. Width \in Nat /\ Width >= 1
  BY WidthAssumption
<1>2. Width * Width >= 1
  BY <1>1
<1> QED
  BY <1>1, <1>2 DEF Everything, Codes

\* The calls a set becomes.
LEMMA SetParts ==
  ASSUME NEW set \in XpermSet
  PROVE  /\ set.negated \in BOOLEAN
         /\ Len(set.items) \in Nat /\ DOMAIN set.items = 1..Len(set.items)
         /\ \A i \in 1..Len(set.items) : set.items[i] \in Codes \X Codes
         /\ Listing(set) => Len(set.items) > 0 /\ Xperms(set) = Items(set)
         /\ Xperms(set) \in Seq(Calls)
<1>1. set.negated \in BOOLEAN
  BY DEF XpermSet, Braced, Range1, Command, Star
<1> DEFINE n == Len(set.items)
<1>2. /\ n \in Nat /\ DOMAIN set.items = 1..n /\ (Listing(set) => n > 0)
      /\ \A i \in 1..n : set.items[i] \in Codes \X Codes
  <2>1. CASE set \in Braced
    <3>1. PICK m \in 1..MaxItems : set.items \in [1..m -> Ranges]
      BY <2>1 DEF Braced, ItemLists
    <3>2. m \in Nat /\ m > 0
      BY ItemsAssumption
    <3>3. n = m /\ DOMAIN set.items = 1..m /\ \A i \in 1..m : set.items[i] \in Ranges
      BY <3>1, <3>2
    <3> QED
      BY <3>2, <3>3, SetsAssumption
  <2>2. CASE set \in Range1
    <3>1. set.items \in [1..1 -> Ranges]
      BY <2>2 DEF Range1
    <3>2. n = 1 /\ DOMAIN set.items = 1..1 /\ \A i \in 1..1 : set.items[i] \in Ranges
      BY <3>1
    <3> QED
      BY <3>2, SetsAssumption
  <2>3. CASE set \in Command
    <3>1. PICK r \in Ranges : set.items = <<r>>
      BY <2>3 DEF Command
    <3>2. n = 1 /\ DOMAIN set.items = 1..1 /\ \A i \in 1..1 : set.items[i] \in Ranges
      BY <3>1
    <3> QED
      BY <3>2, SetsAssumption
  <2>4. CASE set \in Star
    <3>1. set.items = <<>> /\ set.form = "star"
      BY <2>4 DEF Star
    <3>2. n = 0 /\ DOMAIN set.items = 1..0
      BY <3>1
    <3>3. "star" # "braces" /\ "star" # "range"
      OBVIOUS
    <3> QED
      BY <3>1, <3>2, <3>3 DEF Listing
  <2> QED
    BY <2>1, <2>2, <2>3, <2>4 DEF XpermSet
<1> HIDE DEF n
<1>3. Items(set) \in Seq(Calls)
  <2>1. \A i \in 1..n : Xperm(set.items[i], set.negated) \in Calls
    BY <1>1, <1>2 DEF Xperm, Calls
  <2> QED
    BY <1>2, <2>1 DEF Items
<1>4. <<Xperm(Everything, set.negated)>> \in Seq(Calls)
  <2>1. Xperm(Everything, set.negated) \in Calls
    BY <1>1, EverythingIsRange DEF Xperm, Calls
  <2> QED
    BY <2>1
<1>5. Xperms(set) \in Seq(Calls)
  BY <1>3, <1>4 DEF Xperms
<1>6. Listing(set) => Xperms(set) = Items(set)
  BY DEF Listing, Xperms
<1> QED
  BY <1>1, <1>2, <1>5, <1>6 DEF n

(***************************************************************************)
(* The steps.                                                              *)
(***************************************************************************)
LEMMA InitStatementInv == StatementInit => StatementInv
<1> SUFFICES ASSUME StatementInit
             PROVE  StatementInv
  OBVIOUS
<1>1. OneNodeOfEach
  BY InitGood DEF StatementInit
<1>2. ~ Listing(None)
  BY DEF Listing, None
<1> QED
  BY <1>1, <1>2 DEF StatementInit, StatementInv

LEMMA BeginStep ==
  ASSUME StatementInv, NEW set \in XpermSet, Begin(set)
  PROVE  StatementInv'
<1>1. /\ todo' = Xperms(set) /\ written' = set /\ before' = InForce
      /\ xperms' = xperms /\ policyvers' = policyvers
  BY DEF Begin, xpermVars, InForce
<1>2. OneNodeOfEach'
  BY <1>1 DEF StatementInv, OneNodeOfEach, XpermTypeOK
<1>3. todo' \in Seq(Calls) /\ written' \in XpermSet
  BY <1>1, SetParts
<1>4. InForce' = InForce
  BY <1>1 DEF InForce
<1>5. ASSUME Listing(set)
      PROVE  Remaining' /\ Forgotten' /\ Added'
  <2>1. /\ Xperms(set) = Items(set) /\ Len(set.items) \in Nat
        /\ DOMAIN set.items = 1..Len(set.items)
    BY <1>5, SetParts
  <2>2. /\ Len(todo') = Len(set.items)
        /\ \A i \in 1..Len(set.items) : todo'[i] = Xperm(set.items[i], set.negated)
    BY <1>1, <2>1 DEF Items
  <2>3. Applied' = 0
    BY <1>1, <2>1, <2>2 DEF Applied
  <2>4. Remaining'
    BY <1>1, <2>1, <2>2, <2>3 DEF Remaining
  <2> QED
    BY <1>1, <1>4, <2>3, <2>4 DEF Forgotten, Added
<1> QED
  BY <1>1, <1>2, <1>3, <1>5 DEF StatementInv

\* One call: what it does to the rule.
LEMMA ApplyDoes ==
  ASSUME StatementInv, Apply
  PROVE  /\ OneNodeOfEach' /\ policyvers' = policyvers
         /\ todo' \in Seq(Calls) /\ Len(todo') = Len(todo) - 1 /\ Len(todo) \in Nat \ {0}
         /\ \A i \in 1..Len(todo') : todo'[i] = todo[i + 1]
         /\ written' = written /\ before' = before
         /\ todo[1] \in Calls
         /\ Supported =>
              InForce' = IF todo[1].reset
                         THEN Codes \ Sets!Round(todo[1].low, todo[1].high)
                         ELSE InForce \cup Sets!Round(todo[1].low, todo[1].high)
<1> DEFINE p == todo[1]
           r == <<p.low, p.high>>
<1>1. todo # <<>> /\ todo \in Seq(Calls) /\ todo' = Tail(todo)
  BY DEF Apply, StatementInv
<1>2. /\ Len(todo) \in Nat \ {0} /\ Head(todo) = p /\ p \in Calls
      /\ todo' \in Seq(Calls) /\ Len(todo') = Len(todo) - 1
      /\ \A i \in 1..Len(todo') : todo'[i] = todo[i + 1]
  BY <1>1
<1>3. written' = written /\ before' = before
  BY DEF Apply
<1>4. OneNodeOfEach
  BY DEF StatementInv
<1>5. r \in Codes \X Codes /\ r[1] = p.low /\ r[2] = p.high /\ p.reset \in BOOLEAN
  BY <1>2 DEF Calls
<1> HIDE DEF p, r
<1>6. CASE ~ Supported /\ UNCHANGED xpermVars
  <2>1. xperms' = xperms /\ policyvers' = policyvers
    BY <1>6 DEF xpermVars
  <2>2. OneNodeOfEach'
    BY <1>4, <2>1 DEF OneNodeOfEach, XpermTypeOK
  <2> QED
    BY <1>2, <1>3, <1>6, <2>1, <2>2 DEF p
<1>7. CASE AddXpermRule(Target[1], Target[2], Target[3], p.low, p.high, p.reset, Target[4])
  <2>1. AddXpermRule(Target[1], Target[2], Target[3], r[1], r[2], p.reset, Target[4])
    BY <1>5, <1>7
  <2>2. OneNodeOfEach' /\ Changes(Target[1], Target[2], Target[3], Target[4], r, p.reset)
    BY <1>4, <1>5, <2>1, StatementStep
  <2>3. policyvers' = policyvers
    BY <1>7 DEF AddXpermRule
  <2>4. Rule \in Keys /\ Rule \in Reach(Target[1], Target[2], Target[3], Target[4])
    BY TargetAssumption, SetsAssumption DEF Rule, Keys, Reach
  <2>5. InForce' = Promised(xperms[Rule], p.low, p.high, p.reset)
    BY <1>5, <2>2, <2>4 DEF Changes, InForce
  <2>6. InForce' = IF p.reset THEN Codes \ Sets!Round(p.low, p.high)
                   ELSE InForce \cup Sets!Round(p.low, p.high)
    BY <2>5 DEF Promised, InForce
  <2> QED
    BY <1>2, <1>3, <2>2, <2>3, <2>6 DEF p
<1>8. (~ Supported /\ UNCHANGED xpermVars)
      \/ AddXpermRule(Target[1], Target[2], Target[3], p.low, p.high, p.reset, Target[4])
  BY <1>2 DEF Apply
<1> QED
  BY <1>6, <1>7, <1>8

LEMMA ApplyStep ==
  ASSUME StatementInv, Apply
  PROVE  StatementInv'
<1>1. /\ OneNodeOfEach' /\ policyvers' = policyvers
      /\ todo' \in Seq(Calls) /\ Len(todo') = Len(todo) - 1 /\ Len(todo) \in Nat \ {0}
      /\ \A i \in 1..Len(todo') : todo'[i] = todo[i + 1]
      /\ written' = written /\ before' = before
      /\ todo[1] \in Calls
      /\ Supported =>
           InForce' = IF todo[1].reset
                      THEN Codes \ Sets!Round(todo[1].low, todo[1].high)
                      ELSE InForce \cup Sets!Round(todo[1].low, todo[1].high)
  BY ApplyDoes
<1>2. written \in XpermSet \cup {None}
  BY DEF StatementInv
<1>3. ASSUME Listing(written)
      PROVE  Remaining' /\ (Supported => IF written.negated THEN Forgotten' ELSE Added')
  <2>1. written \in XpermSet
    BY <1>2, <1>3 DEF Listing, None
  <2> DEFINE n    == Len(written.items)
             m    == Applied
             item == written.items[m + 1]
  <2>2. /\ n \in Nat /\ written.negated \in BOOLEAN
        /\ \A i \in 1..n : written.items[i] \in Codes \X Codes
    BY <2>1, SetParts
  <2>3. m \in 0..n /\ m = n - Len(todo) /\ m + 1 \in 1..n
    BY <1>1, <1>3, <2>2 DEF StatementInv, Remaining, Applied
  <2>4. Applied' = m + 1
    BY <1>1, <2>2 DEF Applied
  <2>5. todo[1] = Xperm(item, written.negated)
    BY <1>1, <1>3 DEF StatementInv, Remaining
  <2>6. todo[1].low = item[1] /\ todo[1].high = item[2] /\ todo[1].reset = written.negated
    BY <2>5 DEF Xperm
  <2>7. item[1] \in Codes /\ item[2] \in Codes
    BY <2>2, <2>3
  <2>8. Remaining'
    <3>1. ASSUME NEW i \in 1..Len(todo')
          PROVE  todo'[i] = Xperm(written.items[m + 1 + i], written.negated)
      <4> DEFINE j == Len(todo)
      <4>1. i \in 1..(j - 1) /\ j \in Nat /\ m \in Int
        BY <1>1, <2>2, <2>3
      <4> HIDE DEF j, m
      <4>2. i + 1 \in 1..j /\ m + (i + 1) = m + 1 + i
        BY <4>1
      <4> USE DEF j, m
      <4>3. todo[i + 1] = Xperm(written.items[m + (i + 1)], written.negated)
        BY <1>3, <4>2 DEF StatementInv, Remaining
      <4> QED
        BY <1>1, <4>2, <4>3
    <3> HIDE DEF m
    <3> QED
      BY <1>1, <2>2, <2>3, <2>4, <3>1 DEF Remaining
  <2> HIDE DEF n, m
  <2>9. ASSUME Supported, written.negated
        PROVE  Forgotten'
    <3>1. InForce' = Codes \ Sets!Round(item[1], item[2])
      BY <1>1, <2>6, <2>9
    <3> QED
      BY <1>1, <2>4, <3>1 DEF Forgotten
  <2>10. ASSUME Supported, ~ written.negated
         PROVE  Added'
    <3>1. InForce' = InForce \cup Sets!Round(item[1], item[2])
      BY <1>1, <2>6, <2>10
    <3>2. item[1]..item[2] \subseteq InForce'
      BY <2>7, <3>1, RangeInRound
    <3>3. Added
      BY <1>3, <2>10 DEF StatementInv
    <3>4. ASSUME NEW i \in 1..(m + 1)
          PROVE  written.items[i][1]..written.items[i][2] \subseteq InForce'
      <4>1. CASE i = m + 1
        BY <3>2, <4>1
      <4>2. CASE i # m + 1
        <5>1. i \in 1..Applied
          BY <2>2, <2>3, <4>2 DEF m
        <5> QED
          BY <3>1, <3>3, <5>1 DEF Added
      <4> QED
        BY <4>1, <4>2
    <3> QED
      BY <1>1, <2>4, <3>1, <3>3, <3>4 DEF Added
  <2> QED
    BY <2>8, <2>9, <2>10
<1> QED
  BY <1>1, <1>2, <1>3 DEF StatementInv, Supported

LEMMA StatementInvAlways == StatementSpec => []StatementInv
<1>1. StatementInv /\ [StatementNext]_sVars => StatementInv'
  <2>1. ASSUME StatementInv, UNCHANGED sVars
        PROVE  StatementInv'
    BY <2>1 DEF sVars, statementVars, xpermVars, StatementInv, OneNodeOfEach, XpermTypeOK,
                Remaining, Applied, Added, Forgotten, InForce, Supported
  <2> QED
    BY <2>1, BeginStep, ApplyStep DEF StatementNext
<1> QED
  BY <1>1, InitStatementInv, PTL DEF StatementSpec

\* allowxperm and its kin call the engine for each item: together the calls
\* grant what is listed and keep what was granted.
THEOREM PlainListsOnlyAdd == StatementSpec => []PlainListsAdd
<1>1. StatementInv => PlainListsAdd
  <2> SUFFICES ASSUME StatementInv, Done({"braces", "range"}), ~ written.negated
               PROVE  Listed(written) \cup before \subseteq InForce
    BY DEF PlainListsAdd
  <2>1. Listing(written) /\ todo = <<>> /\ Supported
    BY DEF Done, Listing
  <2>2. written \in XpermSet
    BY <2>1 DEF StatementInv, Listing, None
  <2>3. DOMAIN written.items = 1..Len(written.items) /\ Len(written.items) \in Nat
    BY <2>2, SetParts
  <2>4. Applied = Len(written.items)
    BY <2>1, <2>3 DEF Applied
  <2>5. Added
    BY <2>1 DEF StatementInv
  <2> QED
    BY <2>3, <2>4, <2>5 DEF Added, Listed
<1> QED
  BY <1>1, StatementInvAlways, PTL

\* The call for the last item of a complemented list resets what those before
\* it did: nothing else matters, neither the other items nor the policy.
THEOREM ComplementsForget == StatementSpec => []ComplementForgets
<1>1. StatementInv => ComplementForgets
  <2> DEFINE last == written.items[Len(written.items)]
  <2> SUFFICES ASSUME StatementInv, Done({"braces"}), written.negated
               PROVE  /\ InForce \cap (last[1]..last[2]) = {}
                      /\ InForce = Granted(Complement(<<>>, last[1], last[2]))
    BY DEF ComplementForgets
  <2>1. Listing(written) /\ todo = <<>> /\ Supported
    BY DEF Done, Listing
  <2>2. written \in XpermSet
    BY <2>1 DEF StatementInv, Listing, None
  <2>3. /\ Len(written.items) \in Nat /\ Len(written.items) > 0
        /\ last \in Codes \X Codes
    BY <2>1, <2>2, SetParts
  <2>4. Applied = Len(written.items)
    BY <2>1, <2>3 DEF Applied
  <2>5. Forgotten
    BY <2>1 DEF StatementInv
  <2>6. InForce = Codes \ Sets!Round(last[1], last[2])
    BY <2>3, <2>4, <2>5 DEF Forgotten
  <2>7. GoodNodes(<<>>)
    <3>1. <<>> \in Seq(Node) /\ DOMAIN <<>> = {}
      OBVIOUS
    <3> QED
      BY <3>1 DEF GoodNodes, OneOfEach, Drivers, Places, Functions
  <2> HIDE DEF last
  <2>8. last[1] \in Codes /\ last[2] \in Codes
    BY <2>3
  <2>9. Granted(Complement(<<>>, last[1], last[2])) = Codes \ Sets!Round(last[1], last[2])
    BY <2>7, <2>8, Complemented
  <2>10. last[1]..last[2] \subseteq Sets!Round(last[1], last[2])
    BY <2>8, RangeInRound
  <2> QED
    BY <2>6, <2>9, <2>10
<1> QED
  BY <1>1, StatementInvAlways, PTL
================================================================================
