-------------------------- MODULE FilenameTrans_proofs --------------------------
(***************************************************************************)
(* Proofs about FilenameTrans, for any keys, any types, chains of any      *)
(* length and any policy to start from.                                    *)
(***************************************************************************)
EXTENDS FilenameTrans, Lists_proofs

Chains == Seq(Datum)

(***************************************************************************)
(* The walk, and the default a source gets.                                *)
(***************************************************************************)
LEMMA FirstIs ==
  ASSUME NEW S \in SUBSET (Nat \ {0})
  PROVE  /\ S = {} => First(S) = 0
         /\ S # {} => First(S) \in S /\ \A x \in S : First(S) <= x
BY MinIs DEF First

LEMMA DatumHas ==
  ASSUME NEW node \in Datum
  PROVE  /\ node.otype \in Types /\ node.otype \in Nat /\ node.otype # None
         /\ node.stypes \in SUBSET Types /\ IsFiniteSet(node.stypes)
         /\ Cardinality(node.stypes) \in Nat
<1>1. node.otype \in Types /\ node.stypes \in SUBSET Types
  BY DEF Datum
<1>2. IsFiniteSet(node.stypes)
  BY <1>1, TypesAssumption, FS_Subset
<1> QED
  BY <1>1, <1>2, TypesAssumption, FS_CardinalityType DEF None

\* No node has the source or the default, or node at is the first that does.
Nowhere(chain, s, d) == \A i \in DOMAIN chain : s \notin chain[i].stypes /\ chain[i].otype # d
StopsAt(chain, s, d, at) ==
  /\ at \in 1..Len(chain)
  /\ s \in chain[at].stypes \/ chain[at].otype = d
  /\ \A i \in 1..(at - 1) : s \notin chain[i].stypes /\ chain[i].otype # d

LEMMA WalkIs ==
  ASSUME NEW chain \in Chains, NEW s, NEW d
  PROVE  \/ Walk(chain, s, d) = 0 /\ Nowhere(chain, s, d)
         \/ Walk(chain, s, d) # 0 /\ StopsAt(chain, s, d, Walk(chain, s, d))
<1> DEFINE S == {i \in DOMAIN chain : s \in chain[i].stypes \/ chain[i].otype = d}
           at == Walk(chain, s, d)
<1>1. S \in SUBSET (Nat \ {0}) /\ at = First(S) /\ DOMAIN chain = 1..Len(chain)
  BY DEF Walk, Chains
<1>2. CASE S = {}
  BY <1>1, <1>2, FirstIs DEF Nowhere
<1>3. CASE S # {}
  <2>1. at \in S /\ \A x \in S : at <= x
    BY <1>1, <1>3, FirstIs
  <2>2. ASSUME NEW i \in 1..(at - 1)
        PROVE  i \in DOMAIN chain /\ i \notin S
    <3>1. at \in 1..Len(chain) /\ i \in 1..Len(chain) /\ ~(at <= i)
      BY <1>1, <2>1
    <3> QED
      BY <1>1, <2>1, <3>1
  <2> QED
    BY <1>1, <2>1, <2>2 DEF StopsAt
<1> QED
  BY <1>2, <1>3

\* Node i is the first that has the source.
Holds(chain, s, i) == /\ i \in DOMAIN chain /\ s \in chain[i].stypes
                      /\ \A j \in 1..(i - 1) : s \notin chain[j].stypes
Absent(chain, s) == \A i \in DOMAIN chain : s \notin chain[i].stypes

LEMMA DefaultIs ==
  ASSUME NEW chain \in Chains, NEW s
  PROVE  /\ \A i : Holds(chain, s, i) => /\ DefaultIn(chain, s) = chain[i].otype
                                         /\ DefaultIn(chain, s) # None
         /\ Absent(chain, s) => DefaultIn(chain, s) = None
         /\ Absent(chain, s) \/ \E i : Holds(chain, s, i)
<1> DEFINE S == {i \in DOMAIN chain : s \in chain[i].stypes}
<1>1. S \in SUBSET (Nat \ {0}) /\ DOMAIN chain = 1..Len(chain)
  BY DEF Chains
<1>2. DefaultIn(chain, s) = IF First(S) = 0 THEN None ELSE chain[First(S)].otype
  BY DEF DefaultIn
<1>3. ASSUME NEW i, Holds(chain, s, i)
      PROVE  DefaultIn(chain, s) = chain[i].otype /\ chain[i].otype # None
  <2>1. i \in S /\ \A j \in S : i <= j
    BY <1>1, <1>3 DEF Holds
  <2>2. First(S) = i
    BY <1>1, <2>1, FirstIs
  <2>3. chain[i] \in Datum
    BY <2>1 DEF Chains
  <2> QED
    BY <1>1, <1>2, <2>1, <2>2, <2>3, DatumHas
<1>4. ASSUME Absent(chain, s)
      PROVE  DefaultIn(chain, s) = None
  <2>1. S = {}
    BY <1>4 DEF Absent
  <2> QED
    BY <1>1, <1>2, <2>1, FirstIs
<1>5. ASSUME ~Absent(chain, s)
      PROVE  Holds(chain, s, First(S))
  <2>1. S # {}
    BY <1>5 DEF Absent
  <2>2. First(S) \in S /\ \A x \in S : First(S) <= x
    BY <1>1, <2>1, FirstIs
  <2>3. ASSUME NEW j \in 1..(First(S) - 1)
        PROVE  j \in DOMAIN chain /\ j \notin S
    <3>1. First(S) \in 1..Len(chain) /\ j \in 1..Len(chain) /\ ~(First(S) <= j)
      BY <1>1, <2>2
    <3> QED
      BY <1>1, <2>2, <3>1
  <2> QED
    BY <2>2, <2>3 DEF Holds
<1> QED
  BY <1>3, <1>4, <1>5

(***************************************************************************)
(* The four things that happen to a chain: a node gets another default, a  *)
(* node gets a source, a node is appended, or nothing changes.             *)
(***************************************************************************)
IsUpdated(chain, at, d, c) ==
  /\ c \in Chains /\ Len(c) = Len(chain)
  /\ \A i \in DOMAIN chain : c[i].stypes = chain[i].stypes
  /\ c[at].otype = d
IsWidened(chain, at, s, c) ==
  /\ c \in Chains /\ Len(c) = Len(chain)
  /\ \A i \in DOMAIN chain : c[i].otype = chain[i].otype
  /\ \A i \in DOMAIN chain : i # at => c[i] = chain[i]
  /\ c[at].stypes = chain[at].stypes \cup {s}
IsAppended(chain, s, d, c) ==
  /\ c \in Chains /\ Len(c) = Len(chain) + 1
  /\ \A i \in DOMAIN chain : c[i] = chain[i]
  /\ c[Len(c)].otype = d /\ c[Len(c)].stypes = {s}

LEMMA Updated ==
  ASSUME NEW chain \in Chains, NEW s \in Types, NEW d \in Types, NEW at \in 1..Len(chain)
  PROVE  IsUpdated(chain, at, d, [chain EXCEPT ![at] = Update(@, s, d)])
<1> DEFINE c == [chain EXCEPT ![at] = Update(@, s, d)]
<1>1. DOMAIN chain = 1..Len(chain)
  BY DEF Chains
<1>2. \A i \in DOMAIN chain : chain[i] \in Datum
  BY DEF Chains
<1>3. Update(chain[at], s, d) = [otype |-> d, stypes |-> chain[at].stypes]
  BY <1>1, <1>2 DEF Update, Datum
<1>4. /\ c \in Chains /\ Len(c) = Len(chain) /\ DOMAIN c = DOMAIN chain
      /\ c[at] = [otype |-> d, stypes |-> chain[at].stypes]
      /\ \A i \in DOMAIN chain : i # at => c[i] = chain[i]
  BY <1>1, <1>2, <1>3 DEF Chains, Datum
<1> QED
  BY <1>1, <1>4 DEF IsUpdated

LEMMA WiderNode ==
  ASSUME NEW node \in Datum, NEW more \in SUBSET Types
  PROVE  [node EXCEPT !.stypes = @ \cup more]
            = [otype |-> node.otype, stypes |-> node.stypes \cup more]
<1>1. node = [otype |-> node.otype, stypes |-> node.stypes]
  BY DEF Datum
<1> DEFINE o == node.otype
           S == node.stypes
<1>2. node = [otype |-> o, stypes |-> S] /\ node.stypes = S
  BY <1>1
<1> HIDE DEF o, S
<1>3. [[otype |-> o, stypes |-> S] EXCEPT !.stypes = S \cup more]
         = [otype |-> o, stypes |-> S \cup more]
  OBVIOUS
<1> QED
  BY <1>2, <1>3 DEF o, S

LEMMA Widened ==
  ASSUME NEW chain \in Chains, NEW s \in Types, NEW at \in 1..Len(chain)
  PROVE  IsWidened(chain, at, s, [chain EXCEPT ![at].stypes = @ \cup {s}])
<1> DEFINE wider == [otype |-> chain[at].otype, stypes |-> chain[at].stypes \cup {s}]
           c == [chain EXCEPT ![at] = wider]
           n == Len(chain)
<1>1. /\ DOMAIN chain = 1..n /\ n \in Nat /\ chain \in [1..n -> Datum]
      /\ at \in DOMAIN chain /\ chain[at] \in Datum
  BY DEF Chains
<1>2. [chain[at] EXCEPT !.stypes = @ \cup {s}] = wider
  BY <1>1, WiderNode
<1>3. /\ wider \in Datum /\ wider.otype = chain[at].otype
      /\ wider.stypes = chain[at].stypes \cup {s}
  BY <1>1 DEF Datum
<1> HIDE DEF wider
<1>4. c \in [1..n -> Datum] /\ DOMAIN c = 1..n
  <2> HIDE DEF n
  <2> QED
    BY <1>1, <1>3
<1>5. c[at] = wider /\ \A i \in DOMAIN chain : i # at => c[i] = chain[i]
  BY <1>1
<1>6. c \in Chains /\ Len(c) = Len(chain)
  BY <1>1, <1>4 DEF Chains
<1> HIDE DEF c
<1>7. IsWidened(chain, at, s, c)
  BY <1>1, <1>3, <1>5, <1>6 DEF IsWidened
<1> QED
  BY <1>2, <1>7 DEF c

LEMMA Appended ==
  ASSUME NEW chain \in Chains, NEW s \in Types, NEW d \in Types
  PROVE  IsAppended(chain, s, d, Append(chain, Node(s, d)))
<1>1. Node(s, d) \in Datum /\ Node(s, d).otype = d /\ Node(s, d).stypes = {s}
  BY DEF Node, Datum
<1> QED
  BY <1>1 DEF Chains, IsAppended

\* No source of the first chain is missing from the second.
Grows(chain, c) == /\ Len(chain) <= Len(c)
                   /\ \A i \in DOMAIN chain : chain[i].stypes \subseteq c[i].stypes

LEMMA GrownHas ==
  ASSUME NEW chain \in Chains, NEW c \in Chains, Grows(chain, c),
         NEW s, ~Absent(chain, s)
  PROVE  ~Absent(c, s)
BY DEF Grows, Absent, Chains

LEMMA GrowsOn ==
  ASSUME NEW chain \in Chains, NEW c \in Chains, NEW e \in Chains,
         Grows(chain, c), Grows(c, e)
  PROVE  Grows(chain, e)
BY DEF Grows, Chains

\* Nodes with different defaults.
Distinct(chain) ==
  \A i, j \in DOMAIN chain : chain[i].otype = chain[j].otype => i = j
\* No node but the last has the default.
OnlyLast(chain, d) == \A i \in DOMAIN chain : chain[i].otype = d => i = Len(chain)
Defaults(chain) == {chain[i].otype : i \in DOMAIN chain}

LEMMA InsertedWhere ==
  ASSUME NEW chain \in Chains, NEW s \in Types, NEW d \in Types
  PROVE  \/ /\ Nowhere(chain, s, d)
            /\ IsAppended(chain, s, d, InsertEntry(chain, s, d))
         \/ /\ StopsAt(chain, s, d, Walk(chain, s, d))
            /\ IsWidened(chain, Walk(chain, s, d), s, InsertEntry(chain, s, d))
<1> DEFINE at == Walk(chain, s, d)
<1>1. CASE at = 0
  <2>1. Nowhere(chain, s, d)
    BY <1>1, WalkIs
  <2>2. InsertEntry(chain, s, d) = Append(chain, Node(s, d))
    BY <1>1 DEF InsertEntry
  <2> QED
    BY <2>1, <2>2, Appended
<1>2. CASE at # 0
  <2>1. StopsAt(chain, s, d, at)
    BY <1>2, WalkIs
  <2>2. InsertEntry(chain, s, d) = [chain EXCEPT ![at].stypes = @ \cup {s}]
    BY <1>2 DEF InsertEntry
  <2>3. at \in 1..Len(chain)
    BY <2>1 DEF StopsAt
  <2> HIDE DEF at
  <2>4. IsWidened(chain, at, s, [chain EXCEPT ![at].stypes = @ \cup {s}])
    BY <2>3, Widened
  <2> QED
    BY <2>1, <2>2, <2>4 DEF at
<1> QED
  BY <1>1, <1>2

LEMMA Inserted ==
  ASSUME NEW chain \in Chains, NEW s \in Types, NEW d \in Types,
         NEW c, c = InsertEntry(chain, s, d)
  PROVE  /\ c \in Chains /\ Grows(chain, c) /\ ~Absent(c, s)
         /\ Distinct(chain) => Distinct(c)
<1> DEFINE at == Walk(chain, s, d)
<1>1. c \in Chains
  BY InsertedWhere DEF IsAppended, IsWidened
<1>2. DOMAIN chain = 1..Len(chain) /\ DOMAIN c = 1..Len(c) /\ Len(chain) \in Nat
  BY <1>1 DEF Chains
<1>3. CASE Nowhere(chain, s, d) /\ IsAppended(chain, s, d, c)
  <2>1. Grows(chain, c) /\ ~Absent(c, s)
    BY <1>2, <1>3 DEF Grows, Absent, Nowhere, IsAppended
  <2>2. ASSUME Distinct(chain)
        PROVE  Distinct(c)
    BY <1>2, <1>3, <2>2 DEF Distinct, Nowhere, IsAppended
  <2> QED
    BY <1>1, <2>1, <2>2
<1>4. CASE StopsAt(chain, s, d, at) /\ IsWidened(chain, at, s, c)
  <2> HIDE DEF at
  <2>1. Grows(chain, c)
    BY <1>2, <1>4 DEF Grows, StopsAt, IsWidened
  <2>2. ~Absent(c, s)
    BY <1>2, <1>4 DEF Absent, StopsAt, IsWidened
  <2>3. Distinct(chain) => Distinct(c)
    BY <1>2, <1>4 DEF Distinct, StopsAt, IsWidened
  <2> QED
    BY <1>1, <2>1, <2>2, <2>3
<1> QED
  BY <1>3, <1>4, InsertedWhere

\* Where the default is in the last node at most, an entry is a default for its
\* source if the source has none, and changes nothing else.
LEMMA InsertedDefault ==
  ASSUME NEW chain \in Chains, NEW s \in Types, NEW d \in Types, OnlyLast(chain, d),
         NEW c, c = InsertEntry(chain, s, d)
  PROVE  /\ OnlyLast(c, d)
         /\ Defaults(c) \subseteq Defaults(chain) \cup {d}
         /\ \A r : DefaultIn(c, r) = IF r = s /\ DefaultIn(chain, r) = None
                                     THEN d ELSE DefaultIn(chain, r)
<1> DEFINE at == Walk(chain, s, d)
<1>1. c \in Chains
  BY InsertedWhere DEF IsAppended, IsWidened
<1>2. DOMAIN chain = 1..Len(chain) /\ DOMAIN c = 1..Len(c) /\ Len(chain) \in Nat
  BY <1>1 DEF Chains
<1>3. CASE Nowhere(chain, s, d) /\ IsAppended(chain, s, d, c)
  <2>1. OnlyLast(c, d)
    BY <1>2, <1>3 DEF OnlyLast, Nowhere, IsAppended
  <2>2. Defaults(c) \subseteq Defaults(chain) \cup {d}
    BY <1>2, <1>3 DEF Defaults, Nowhere, IsAppended
  <2>3. DefaultIn(chain, s) = None /\ DefaultIn(c, s) = d
    <3>1. Absent(chain, s)
      BY <1>3 DEF Absent, Nowhere, IsAppended
    <3>2. Holds(c, s, Len(c))
      BY <1>2, <1>3 DEF Holds, Nowhere, IsAppended
    <3> QED
      BY <1>1, <1>3, <3>1, <3>2, DefaultIs DEF Nowhere, IsAppended
  <2>4. ASSUME NEW r, r # s
        PROVE  DefaultIn(c, r) = DefaultIn(chain, r)
    <3>1. \A i : Holds(chain, r, i) => Holds(c, r, i) /\ c[i].otype = chain[i].otype
      BY <1>2, <1>3 DEF Holds, Nowhere, IsAppended
    <3>2. Absent(chain, r) => Absent(c, r)
      BY <1>2, <1>3, <2>4 DEF Absent, Nowhere, IsAppended
    <3> QED
      BY <1>1, <3>1, <3>2, DefaultIs
  <2> QED
    BY <2>1, <2>2, <2>3, <2>4
<1>4. CASE StopsAt(chain, s, d, at) /\ IsWidened(chain, at, s, c)
  <2> HIDE DEF at
  <2>1. OnlyLast(c, d)
    BY <1>2, <1>4 DEF OnlyLast, StopsAt, IsWidened
  <2>2. Defaults(c) \subseteq Defaults(chain) \cup {d}
    BY <1>2, <1>4 DEF Defaults, StopsAt, IsWidened
  <2>3. Holds(c, s, at)
    BY <1>2, <1>4 DEF Holds, StopsAt, IsWidened
  <2>4. ASSUME s \in chain[at].stypes
        PROVE  DefaultIn(c, s) = DefaultIn(chain, s) /\ DefaultIn(chain, s) # None
    <3>1. Holds(chain, s, at)
      BY <1>2, <1>4, <2>4 DEF Holds, StopsAt, IsWidened
    <3> QED
      BY <1>1, <1>2, <1>4, <2>3, <3>1, DefaultIs DEF StopsAt, IsWidened
  <2>5. ASSUME s \notin chain[at].stypes
        PROVE  DefaultIn(c, s) = d /\ DefaultIn(chain, s) = None
    <3>1. chain[at].otype = d /\ at = Len(chain)
      BY <1>2, <1>4, <2>5 DEF OnlyLast, StopsAt, IsWidened
    <3>2. Absent(chain, s)
      BY <1>2, <1>4, <2>5, <3>1 DEF Absent, StopsAt, IsWidened
    <3> QED
      BY <1>1, <1>2, <1>4, <2>3, <3>1, <3>2, DefaultIs DEF StopsAt, IsWidened
  <2>6. ASSUME NEW r, r # s
        PROVE  DefaultIn(c, r) = DefaultIn(chain, r)
    <3>1. \A i \in DOMAIN chain : r \in c[i].stypes <=> r \in chain[i].stypes
      BY <1>4, <2>6 DEF StopsAt, IsWidened
    <3>2. \A i : Holds(chain, r, i) => Holds(c, r, i) /\ c[i].otype = chain[i].otype
      BY <1>2, <1>4, <3>1 DEF Holds, StopsAt, IsWidened
    <3>3. Absent(chain, r) => Absent(c, r)
      BY <1>2, <1>4, <3>1 DEF Absent, StopsAt, IsWidened
    <3> QED
      BY <1>1, <3>2, <3>3, DefaultIs
  <2> QED
    BY <2>1, <2>2, <2>4, <2>5, <2>6
<1> QED
  BY <1>3, <1>4, InsertedWhere

(***************************************************************************)
(* The folds.  Reading a node, and reading a chain, hold what every entry, *)
(* and every node, keeps: Good relates what was read to the chain so far.  *)
(***************************************************************************)
ReadsOn(node, Good) ==
  \A T \in SUBSET node.stypes, x \in node.stypes, c \in Chains :
     x \in T /\ <<T \ {x}, c>> \in Good => <<T, InsertEntry(c, x, node.otype)>> \in Good

LEMMA ReadNodeInduction ==
  ASSUME NEW chain \in Chains, NEW node \in Datum, NEW Good,
         <<{}, chain>> \in Good, ReadsOn(node, Good)
  PROVE  ReadNode(chain, node) \in Chains /\ <<node.stypes, ReadNode(chain, node)>> \in Good
<1> DEFINE S == node.stypes
           Insert(c, x) == InsertEntry(c, x, node.otype)
           step == [p \in S \X Chains |-> Insert(p[2], p[1])]
           pick == [s \in SUBSET S |-> Max(s)]
           Eq(it) == it = [s \in SUBSET S |-> IF s = {} THEN chain
                                              ELSE Insert(it[s \ {Max(s)}], Max(s))]
           it == CHOOSE it : Eq(it)
<1>1. S \in SUBSET Types /\ IsFiniteSet(S) /\ node.otype \in Types /\ S \in SUBSET Nat
  BY DatumHas, TypesAssumption
<1>2. \A x \in S, c \in Chains : Insert(c, x) \in Chains
  BY <1>1, Inserted
<1>3. \A s \in SUBSET S : s # {} => Max(s) \in s
  <2> SUFFICES ASSUME NEW s \in SUBSET S, s # {}
               PROVE  Max(s) \in s
    OBVIOUS
  <2>1. s \in SUBSET Nat /\ IsFiniteSet(s)
    BY <1>1, FS_Subset
  <2> QED
    BY <2>1, MaxIs
<1>4. \E f : Eq(f)
  <2>1. step \in [S \X Chains -> Chains] /\ \A x \in S, c \in Chains : step[<<x, c>>] = Insert(c, x)
    BY <1>2
  <2>2. \A s \in SUBSET S : pick[s] = Max(s)
    OBVIOUS
  <2> HIDE DEF S, step, pick
  <2>3. PICK f : IsFold(f, S, Chains, chain, step, pick)
    BY <1>1, <1>3, <2>1, <2>2, FoldExists
  <2>4. ASSUME NEW s \in SUBSET S
        PROVE  f[s] = IF s = {} THEN chain ELSE Insert(f[s \ {Max(s)}], Max(s))
    <3>1. s # {} => Max(s) \in S /\ f[s \ {Max(s)}] \in Chains
      BY <1>3, <2>3 DEF IsFold
    <3> QED
      BY <2>1, <2>2, <2>3, <3>1 DEF IsFold
  <2>5. Eq(f)
    BY <2>3, <2>4 DEF IsFold
  <2> HIDE DEF Eq
  <2> QED
    BY <2>5
<1>5. Eq(it)
  <2> HIDE DEF Eq
  <2> QED
    BY <1>4
<1>6. ReadNode(chain, node) = it[S]
  BY DEF ReadNode, MapThenFoldSet
<1> HIDE DEF it
<1> DEFINE Kept == {T \in SUBSET S : it[T] \in Chains /\ <<T, it[T]>> \in Good}
<1>7. {} \in Kept
  BY <1>5
<1>8. \A T \in SUBSET S : T # {} /\ (\A x \in T : T \ {x} \in Kept) => T \in Kept
  <2> SUFFICES ASSUME NEW T \in SUBSET S, T # {}, \A x \in T : T \ {x} \in Kept
               PROVE  T \in Kept
    OBVIOUS
  <2> DEFINE x == Max(T)
  <2>1. x \in T /\ x \in S /\ T \ {x} \in Kept
    BY <1>3
  <2>2. it[T] = Insert(it[T \ {x}], x)
    BY <1>5
  <2> HIDE DEF x
  <2> QED
    BY <1>2, <2>1, <2>2 DEF ReadsOn
<1>9. S \in Kept
  <2> HIDE DEF Kept, S
  <2>1. SUBSET S \subseteq Kept
    BY <1>1, <1>7, <1>8, SmallerSets
  <2> QED
    BY <2>1
<1> QED
  BY <1>6, <1>9

ReadsThrough(nodes, Good) ==
  \A i \in 1..Len(nodes), c \in Chains :
     <<i - 1, c>> \in Good => <<i, ReadNode(c, nodes[i])>> \in Good

LEMMA ReadNodeChain ==
  ASSUME NEW chain \in Chains, NEW node \in Datum
  PROVE  ReadNode(chain, node) \in Chains
<1> DEFINE Good == (SUBSET node.stypes) \X Chains
<1>1. ReadsOn(node, Good)
  BY DatumHas, Inserted DEF ReadsOn
<1>2. <<{}, chain>> \in Good
  OBVIOUS
<1> HIDE DEF Good
<1> QED
  BY <1>1, <1>2, ReadNodeInduction

LEMMA ReadEntriesInduction ==
  ASSUME NEW nodes \in Chains, NEW Good, <<0, <<>> >> \in Good, ReadsThrough(nodes, Good)
  PROVE  /\ ReadEntries(nodes) \in Chains
         /\ <<Len(nodes), ReadEntries(nodes)>> \in Good
<1> DEFINE n == Len(nodes)
           step == [p \in (1..n) \X Chains |-> ReadNode(p[2], nodes[p[1]])]
           Eq(it) == it = [s \in SUBSET (1..n) |->
                             IF s = {} THEN <<>>
                             ELSE ReadNode(it[s \ {Max(s)}], nodes[Max(s)])]
           it == CHOOSE it : Eq(it)
<1>1. n \in Nat /\ DOMAIN nodes = 1..n /\ <<>> \in Chains /\ \A i \in 1..n : nodes[i] \in Datum
  BY DEF Chains
<1>2. /\ step \in [(1..n) \X Chains -> Chains]
      /\ \A i \in 1..n, c \in Chains : step[<<i, c>>] = ReadNode(c, nodes[i])
  BY <1>1, ReadNodeChain
<1>3. ReadEntries(nodes) = it[1..n]
  BY <1>1 DEF ReadEntries, FoldLeft, MapThenFoldSet
<1> HIDE DEF n, step
<1>4. \E f : Eq(f)
  <2>1. PICK f : IsFoldLeft(f, n, Chains, <<>>, step)
    BY <1>1, <1>2, FoldLeftExists
  <2>2. ASSUME NEW s \in SUBSET (1..n)
        PROVE  f[s] = IF s = {} THEN <<>> ELSE ReadNode(f[s \ {Max(s)}], nodes[Max(s)])
    <3>1. s # {} => Max(s) \in 1..n
      BY <1>1, MaxOf
    <3> QED
      BY <1>2, <2>1, <3>1 DEF IsFoldLeft
  <2>3. Eq(f)
    BY <2>1, <2>2 DEF IsFoldLeft
  <2> HIDE DEF Eq
  <2> QED
    BY <2>3
<1>5. Eq(it)
  <2> HIDE DEF Eq
  <2> QED
    BY <1>4
<1> HIDE DEF it
<1>6. PICK g : IsStepped(g, n, Chains, <<>>, step) /\ g[n] = it[1..n]
  <2>1. it[{}] = <<>>
    BY <1>5
  <2>2. \A s \in SUBSET (1..n) :
           s # {} /\ it[s \ {Max(s)}] \in Chains
              => it[s] = step[<<Max(s), it[s \ {Max(s)}]>>]
    BY <1>1, <1>2, <1>5, MaxOf
  <2>3. FoldsLeft(it, n, Chains, <<>>, step)
    BY <2>1, <2>2 DEF FoldsLeft
  <2> HIDE DEF Eq
  <2>4. Reached(it[1..n], n, Chains, <<>>, step)
    BY <1>1, <1>2, <2>3, FoldLeftSteps
  <2> QED
    BY <2>4 DEF Reached
<1> DEFINE Kept == {i \in 0..n : <<i, g[i]>> \in Good}
<1>7. 0 \in Kept
  BY <1>1, <1>6 DEF IsStepped
<1>8. \A i \in 1..n : i - 1 \in Kept => i \in Kept
  <2> SUFFICES ASSUME NEW i \in 1..n, <<i - 1, g[i - 1]>> \in Good
               PROVE  <<i, g[i]>> \in Good
    OBVIOUS
  <2>1. g[i - 1] \in Chains
    BY <1>1, <1>6 DEF IsStepped
  <2>2. g[i] = ReadNode(g[i - 1], nodes[i])
    BY <1>2, <1>6, <2>1 DEF IsStepped
  <2> QED
    BY <2>1, <2>2 DEF ReadsThrough, n
<1>9. 0..n \subseteq Kept
  <2> HIDE DEF Kept
  <2> QED
    BY <1>1, <1>7, <1>8, UpTo
<1>10. n \in 0..n /\ g[n] \in Chains
  BY <1>1, <1>6 DEF IsStepped
<1> QED
  BY <1>3, <1>6, <1>9, <1>10 DEF n

(***************************************************************************)
(* The number of entries, of a chain and of the table.                     *)
(***************************************************************************)
EntryStep(chain) ==
  [p \in (1..Len(chain)) \X Nat |-> p[2] + Cardinality(chain[p[1]].stypes)]

LEMMA EntriesSteps ==
  ASSUME NEW chain \in Chains
  PROVE  Reached(Entries(chain), Len(chain), Nat, 0, EntryStep(chain))
<1> DEFINE n == Len(chain)
           size(i) == Cardinality(chain[i].stypes)
           step == EntryStep(chain)
           Eq(it) == it = [s \in SUBSET (1..n) |->
                             IF s = {} THEN 0 ELSE it[s \ {Max(s)}] + size(Max(s))]
           it == CHOOSE it : Eq(it)
<1>1. n \in Nat /\ DOMAIN chain = 1..n /\ \A i \in 1..n : size(i) \in Nat
  BY DatumHas DEF Chains
<1>2. step \in [(1..n) \X Nat -> Nat] /\ \A i \in 1..n, m \in Nat : step[<<i, m>>] = m + size(i)
  BY <1>1 DEF EntryStep
<1>3. Entries(chain) = it[1..n]
  BY <1>1 DEF Entries, FoldLeft, MapThenFoldSet
<1> HIDE DEF n, step, size
<1>4. \E f : Eq(f)
  <2>1. PICK f : IsFoldLeft(f, n, Nat, 0, step)
    BY <1>1, <1>2, FoldLeftExists
  <2>2. ASSUME NEW s \in SUBSET (1..n)
        PROVE  f[s] = IF s = {} THEN 0 ELSE f[s \ {Max(s)}] + size(Max(s))
    <3>1. s # {} => Max(s) \in 1..n
      BY <1>1, MaxOf
    <3> QED
      BY <1>2, <2>1, <3>1 DEF IsFoldLeft
  <2>3. Eq(f)
    BY <2>1, <2>2 DEF IsFoldLeft
  <2> HIDE DEF Eq
  <2> QED
    BY <2>3
<1>5. Eq(it)
  <2> HIDE DEF Eq
  <2> QED
    BY <1>4
<1> HIDE DEF it
<1>6. FoldsLeft(it, n, Nat, 0, step)
  <2>1. it[{}] = 0
    BY <1>5
  <2>2. \A s \in SUBSET (1..n) :
           s # {} /\ it[s \ {Max(s)}] \in Nat
              => it[s] = step[<<Max(s), it[s \ {Max(s)}]>>]
    BY <1>1, <1>2, <1>5, MaxOf
  <2> QED
    BY <2>1, <2>2 DEF FoldsLeft
<1> HIDE DEF Eq
<1>7. Reached(it[1..n], n, Nat, 0, step)
  BY <1>1, <1>2, <1>6, FoldLeftSteps
<1> QED
  BY <1>3, <1>7 DEF n, step

\* The counts of the first i nodes.
Counts(g, chain) ==
  /\ g \in [0..Len(chain) -> Nat] /\ g[0] = 0 /\ g[Len(chain)] = Entries(chain)
  /\ \A i \in 1..Len(chain) : g[i] = g[i - 1] + Cardinality(chain[i].stypes)

LEMMA CountsExist ==
  ASSUME NEW chain \in Chains
  PROVE  Entries(chain) \in Nat /\ \E g : Counts(g, chain)
<1>1. PICK g : IsStepped(g, Len(chain), Nat, 0, EntryStep(chain)) /\ g[Len(chain)] = Entries(chain)
  BY EntriesSteps DEF Reached
<1>2. Len(chain) \in Nat
  BY DEF Chains
<1>3. \A i \in 1..Len(chain), m \in Nat :
         EntryStep(chain)[<<i, m>>] = m + Cardinality(chain[i].stypes)
  BY DEF EntryStep
<1>4. ASSUME NEW i \in 1..Len(chain)
      PROVE  g[i] = g[i - 1] + Cardinality(chain[i].stypes)
  <2>1. i - 1 \in 0..Len(chain)
    BY <1>2
  <2>2. g[i - 1] \in Nat
    BY <1>1, <2>1 DEF IsStepped
  <2> QED
    BY <1>1, <1>3, <2>2 DEF IsStepped
<1>5. Counts(g, chain)
  BY <1>1, <1>4 DEF IsStepped, Counts
<1> QED
  BY <1>2, <1>5 DEF Counts

\* Chains that differ in the size of one node.
LEMMA EntriesMove ==
  ASSUME NEW chain \in Chains, NEW c \in Chains, Len(c) = Len(chain),
         NEW k \in 1..Len(chain), NEW e \in Nat,
         \A i \in 1..Len(chain) :
            i # k => Cardinality(c[i].stypes) = Cardinality(chain[i].stypes),
         Cardinality(c[k].stypes) = Cardinality(chain[k].stypes) + e
  PROVE  Entries(c) = Entries(chain) + e
<1> DEFINE n == Len(chain)
<1>1. PICK g : Counts(g, chain)
  BY CountsExist
<1>2. PICK h : Counts(h, c)
  BY CountsExist
<1>3. n \in Nat /\ \A i \in 1..n : Cardinality(chain[i].stypes) \in Nat
  BY DatumHas DEF Chains
<1> DEFINE Good == {i \in 0..n : h[i] = g[i] + (IF i >= k THEN e ELSE 0)}
<1>4. 0 \in Good
  BY <1>1, <1>2, <1>3 DEF Counts
<1>5. ASSUME NEW i \in 1..n, i - 1 \in Good
      PROVE  i \in Good
  <2>0. i - 1 \in 0..n
    BY <1>3
  <2>1. g[i] = g[i - 1] + Cardinality(chain[i].stypes) /\ g[i - 1] \in Nat
    BY <1>1, <2>0 DEF Counts
  <2>2. h[i] = h[i - 1] + Cardinality(c[i].stypes)
    BY <1>2 DEF Counts
  <2>3. h[i - 1] = g[i - 1] + (IF i - 1 >= k THEN e ELSE 0)
    BY <1>5
  <2>4. CASE i = k
    BY <1>3, <2>1, <2>2, <2>3, <2>4
  <2>5. CASE i # k
    BY <1>3, <2>1, <2>2, <2>3, <2>5
  <2> QED
    BY <2>4, <2>5
<1>6. 0..n \subseteq Good
  <2> HIDE DEF Good
  <2> QED
    BY <1>3, <1>4, <1>5, UpTo
<1>7. n \in Good /\ n >= k
  BY <1>3, <1>6
<1> QED
  BY <1>1, <1>2, <1>7 DEF Counts

LEMMA EntriesAppended ==
  ASSUME NEW chain \in Chains, NEW s, NEW d, NEW c, IsAppended(chain, s, d, c)
  PROVE  Entries(c) = Entries(chain) + 1
<1> DEFINE n == Len(chain)
<1>0. c \in Chains /\ Len(c) = n + 1 /\ DOMAIN chain = 1..n
  BY DEF IsAppended, Chains
<1>1. PICK g : Counts(g, chain)
  BY CountsExist
<1>2. PICK h : Counts(h, c)
  BY <1>0, CountsExist
<1>3. n \in Nat /\ \A i \in 1..n : Cardinality(chain[i].stypes) \in Nat
  BY DatumHas DEF Chains
<1> DEFINE Good == {i \in 0..n : h[i] = g[i]}
<1>4. 0 \in Good
  BY <1>1, <1>2, <1>3 DEF Counts
<1>5. ASSUME NEW i \in 1..n, i - 1 \in Good
      PROVE  i \in Good
  <2>0. i - 1 \in 0..n
    BY <1>3
  <2>1. g[i] = g[i - 1] + Cardinality(chain[i].stypes) /\ g[i - 1] \in Nat
    BY <1>1, <2>0 DEF Counts
  <2>2. h[i] = h[i - 1] + Cardinality(c[i].stypes)
    BY <1>0, <1>2, <1>3 DEF Counts
  <2>3. c[i] = chain[i]
    BY <1>0 DEF IsAppended
  <2> QED
    BY <1>5, <2>1, <2>2, <2>3
<1>6. 0..n \subseteq Good
  <2> HIDE DEF Good
  <2> QED
    BY <1>3, <1>4, <1>5, UpTo
<1>7. h[n] = g[n] /\ g[n] = Entries(chain) /\ h[n + 1] = Entries(c)
  BY <1>0, <1>1, <1>2, <1>3, <1>6 DEF Counts
<1>8. h[n + 1] = h[n] + Cardinality(c[n + 1].stypes)
  <2>1. n + 1 \in 1..Len(c) /\ (n + 1) - 1 = n
    BY <1>0, <1>3
  <2> QED
    BY <1>2, <2>1 DEF Counts
<1>9. Cardinality(c[n + 1].stypes) = 1
  BY <1>0, FS_Singleton DEF IsAppended
<1> QED
  BY <1>7, <1>8, <1>9

Tables == [Keys -> Chains]
AnyOf == [S \in SUBSET Keys |-> CHOOSE k \in S : TRUE]
Sizes(trans) == [k \in Keys |-> Entries(trans[k])]

LEMMA EntriesOfIs ==
  ASSUME NEW trans \in Tables
  PROVE  /\ Picks(AnyOf, Keys) /\ Sizes(trans) \in [Keys -> Nat]
         /\ \E it : IsSum(it, Keys, Sizes(trans), AnyOf) /\ it[Keys] = EntriesOf(trans)
<1> DEFINE OneOf(S) == CHOOSE k \in S : TRUE
           Eq(it) == it = [S \in SUBSET Keys |->
                             IF S = {} THEN 0 ELSE Entries(trans[OneOf(S)]) + it[S \ {OneOf(S)}]]
           it == CHOOSE it : Eq(it)
<1>1. \A S \in SUBSET Keys : AnyOf[S] = OneOf(S) /\ (S # {} => OneOf(S) \in S)
  BY DEF AnyOf
<1>2. Picks(AnyOf, Keys)
  BY <1>1 DEF Picks
<1>3. Sizes(trans) \in [Keys -> Nat] /\ \A k \in Keys : Sizes(trans)[k] = Entries(trans[k])
  BY CountsExist DEF Sizes, Tables
<1>4. EntriesOf(trans) = it[Keys]
  BY DEF EntriesOf, MapThenSumSet, MapThenFoldSet
<1> HIDE DEF OneOf
<1>5. \E f : Eq(f)
  <2>1. PICK f : IsSum(f, Keys, Sizes(trans), AnyOf)
    BY <1>2, <1>3, KeysAssumption, SumExists
  <2>2. \A S \in SUBSET Keys :
          f[S] = IF S = {} THEN 0 ELSE Entries(trans[OneOf(S)]) + f[S \ {OneOf(S)}]
    BY <1>1, <1>3, <2>1 DEF IsSum
  <2>3. Eq(f)
    BY <2>1, <2>2 DEF IsSum
  <2> HIDE DEF Eq
  <2> QED
    BY <2>3
<1>6. Eq(it)
  <2> HIDE DEF Eq
  <2> QED
    BY <1>5
<1> HIDE DEF it
<1>7. IsSum(it, Keys, Sizes(trans), AnyOf)
  <2>1. ASSUME NEW S \in SUBSET Keys
        PROVE  it[S] = IF S = {} THEN 0 ELSE Sizes(trans)[AnyOf[S]] + it[S \ {AnyOf[S]}]
    <3>1. it[S] = IF S = {} THEN 0 ELSE Entries(trans[OneOf(S)]) + it[S \ {OneOf(S)}]
      BY <1>6
    <3>2. S # {} => AnyOf[S] \in Keys /\ AnyOf[S] = OneOf(S)
      BY <1>1
    <3> QED
      BY <1>3, <3>1, <3>2
  <2> DEFINE Good == {S \in SUBSET Keys : it[S] \in Nat}
  <2>2. {} \in Good
    BY <1>6
  <2>3. ASSUME NEW S \in SUBSET Keys, S # {}, \A x \in S : S \ {x} \in Good
        PROVE  S \in Good
    <3>1. AnyOf[S] \in S
      BY <1>2, <2>3 DEF Picks
    <3>2. it[S \ {AnyOf[S]}] \in Nat /\ Sizes(trans)[AnyOf[S]] \in Nat
      BY <1>3, <2>3, <3>1
    <3> QED
      BY <2>1, <2>3, <3>2
  <2>4. SUBSET Keys \subseteq Good
    <3> HIDE DEF Good
    <3> QED
      BY <2>2, <2>3, KeysAssumption, SmallerSets
  <2>5. it \in [SUBSET Keys -> Nat]
    BY <1>6, <2>4
  <2> QED
    BY <2>1, <2>5 DEF IsSum
<1> QED
  BY <1>2, <1>3, <1>4, <1>7

\* Changing one chain changes the number of entries by what that chain changes.
LEMMA EntriesOfChanges ==
  ASSUME NEW trans \in Tables, NEW k \in Keys, NEW c \in Chains, NEW e \in Nat,
         Entries(c) = Entries(trans[k]) + e
  PROVE  EntriesOf([trans EXCEPT ![k] = c]) = EntriesOf(trans) + e
<1> DEFINE other == [trans EXCEPT ![k] = c]
<1>1. other \in Tables /\ other[k] = c /\ \A x \in Keys \ {k} : other[x] = trans[x]
  BY DEF Tables
<1> HIDE DEF other
<1>2. PICK it : IsSum(it, Keys, Sizes(trans), AnyOf) /\ it[Keys] = EntriesOf(trans)
  BY EntriesOfIs
<1>3. PICK ju : IsSum(ju, Keys, Sizes(other), AnyOf) /\ ju[Keys] = EntriesOf(other)
  BY <1>1, EntriesOfIs
<1>4. /\ Picks(AnyOf, Keys)
      /\ Sizes(trans) \in [Keys -> Nat] /\ Sizes(other) \in [Keys -> Nat]
  BY <1>1, EntriesOfIs
<1>5. \A x \in Keys \ {k} : Sizes(trans)[x] = Sizes(other)[x]
  BY <1>1 DEF Sizes
<1>6. Sizes(trans)[k] = Entries(trans[k]) /\ Sizes(other)[k] = Entries(c)
  BY <1>1 DEF Sizes
<1>7. ju[Keys] + Sizes(trans)[k] = it[Keys] + Sizes(other)[k]
  BY <1>2, <1>3, <1>4, <1>5, KeysAssumption, SumChanges
<1>8. ju[Keys] \in Nat /\ it[Keys] \in Nat /\ Sizes(trans)[k] \in Nat
  BY <1>2, <1>3, <1>4 DEF IsSum
<1> QED
  BY <1>2, <1>3, <1>6, <1>7, <1>8 DEF other

LEMMA EntriesOfNat ==
  ASSUME NEW trans \in Tables
  PROVE  EntriesOf(trans) \in Nat
<1>1. PICK it : IsSum(it, Keys, Sizes(trans), AnyOf) /\ it[Keys] = EntriesOf(trans)
  BY EntriesOfIs
<1>2. it \in [SUBSET Keys -> Nat]
  BY <1>1 DEF IsSum
<1> QED
  BY <1>1, <1>2

(***************************************************************************)
(* What reading keeps.                                                     *)
(***************************************************************************)
LEMMA ReadNodeKeeps ==
  ASSUME NEW chain \in Chains, NEW node \in Datum
  PROVE  /\ Grows(chain, ReadNode(chain, node))
         /\ \A s \in node.stypes : ~Absent(ReadNode(chain, node), s)
         /\ Distinct(chain) => Distinct(ReadNode(chain, node))
<1> DEFINE Good == {p \in (SUBSET node.stypes) \X Chains :
                      /\ Grows(chain, p[2])
                      /\ \A s \in p[1] : ~Absent(p[2], s)
                      /\ Distinct(chain) => Distinct(p[2])}
<1>1. <<{}, chain>> \in Good
  BY DEF Grows, Chains
<1>2. ASSUME NEW T \in SUBSET node.stypes, NEW x \in node.stypes, NEW c \in Chains,
             x \in T, <<T \ {x}, c>> \in Good
      PROVE  <<T, InsertEntry(c, x, node.otype)>> \in Good
  <2> DEFINE e == InsertEntry(c, x, node.otype)
  <2>1. x \in Types /\ node.otype \in Types
    BY DatumHas
  <2>2. /\ e \in Chains /\ Grows(c, e) /\ ~Absent(e, x)
        /\ Distinct(c) => Distinct(e)
    BY <2>1, Inserted
  <2>3. /\ Grows(chain, c) /\ \A s \in T \ {x} : ~Absent(c, s)
        /\ Distinct(chain) => Distinct(c)
    BY <1>2
  <2> HIDE DEF e
  <2>4. \A s \in T : ~Absent(e, s)
    BY <2>2, <2>3, GrownHas
  <2>5. Grows(chain, e)
    BY <2>2, <2>3, GrowsOn
  <2>6. <<T, e>> \in Good
    BY <2>2, <2>3, <2>4, <2>5
  <2> QED
    BY <2>6 DEF e
<1>3. ReadsOn(node, Good)
  <2> HIDE DEF Good
  <2> QED
    BY <1>2 DEF ReadsOn
<1>4. <<node.stypes, ReadNode(chain, node)>> \in Good
  <2> HIDE DEF Good
  <2> QED
    BY <1>1, <1>3, ReadNodeInduction
<1> QED
  BY <1>4

\* A chain that was read has every source of the nodes, and no default twice.
LEMMA ReadEntriesKeeps ==
  ASSUME NEW nodes \in Chains
  PROVE  /\ ReadEntries(nodes) \in Chains /\ Distinct(ReadEntries(nodes))
         /\ \A s : ~Absent(nodes, s) => ~Absent(ReadEntries(nodes), s)
<1> DEFINE n == Len(nodes)
           Good == {p \in (0..n) \X Chains :
                      /\ Distinct(p[2])
                      /\ \A j \in 1..p[1] : \A s \in nodes[j].stypes : ~Absent(p[2], s)}
<1>1. n \in Nat /\ DOMAIN nodes = 1..n /\ <<>> \in Chains /\ \A i \in 1..n : nodes[i] \in Datum
  BY DEF Chains
<1>2. <<0, <<>> >> \in Good
  BY <1>1 DEF Distinct
<1>3. ASSUME NEW i \in 1..n, NEW c \in Chains, <<i - 1, c>> \in Good
      PROVE  <<i, ReadNode(c, nodes[i])>> \in Good
  <2> DEFINE e == ReadNode(c, nodes[i])
  <2>1. /\ e \in Chains /\ Grows(c, e)
        /\ Distinct(c) => Distinct(e)
        /\ \A s \in nodes[i].stypes : ~Absent(e, s)
    BY <1>1, ReadNodeChain, ReadNodeKeeps
  <2>2. Distinct(c) /\ \A j \in 1..(i - 1) : \A s \in nodes[j].stypes : ~Absent(c, s)
    BY <1>3
  <2> HIDE DEF e
  <2>3. \A j \in 1..i : \A s \in nodes[j].stypes : ~Absent(e, s)
    <3> SUFFICES ASSUME NEW j \in 1..i, NEW s \in nodes[j].stypes
                 PROVE  ~Absent(e, s)
      OBVIOUS
    <3>1. CASE j = i
      BY <2>1, <3>1
    <3>2. CASE j # i
      <4>1. j \in 1..(i - 1)
        BY <1>1, <3>2
      <4> QED
        BY <2>1, <2>2, <4>1, GrownHas
    <3> QED
      BY <3>1, <3>2
  <2>4. <<i, e>> \in Good
    BY <1>1, <2>1, <2>2, <2>3
  <2> QED
    BY <2>4 DEF e
<1>4. ReadsThrough(nodes, Good)
  <2> HIDE DEF Good
  <2> QED
    BY <1>3 DEF ReadsThrough
<1>5. ReadEntries(nodes) \in Chains /\ <<n, ReadEntries(nodes)>> \in Good
  <2> HIDE DEF Good
  <2> QED
    BY <1>2, <1>4, ReadEntriesInduction
<1>6. \A j \in 1..n : \A s \in nodes[j].stypes : ~Absent(ReadEntries(nodes), s)
  BY <1>5
<1> QED
  BY <1>1, <1>5, <1>6 DEF Absent

(***************************************************************************)
(* Reading a chain a second time.  The chain that was read has no default  *)
(* twice, so each of its nodes is read into a chain without its default:   *)
(* the node gives its default to the sources that have none so far.        *)
(***************************************************************************)
OrElse(chain, sources, d, r) ==
  IF DefaultIn(chain, r) # None THEN DefaultIn(chain, r)
  ELSE IF r \in sources THEN d ELSE None

LEMMA ReadNodeDefault ==
  ASSUME NEW chain \in Chains, NEW node \in Datum, node.otype \notin Defaults(chain)
  PROVE  /\ Defaults(ReadNode(chain, node)) \subseteq Defaults(chain) \cup {node.otype}
         /\ \A r : DefaultIn(ReadNode(chain, node), r)
                      = OrElse(chain, node.stypes, node.otype, r)
<1> DEFINE d == node.otype
           Good == {p \in (SUBSET node.stypes) \X Chains :
                      /\ OnlyLast(p[2], d)
                      /\ Defaults(p[2]) \subseteq Defaults(chain) \cup {d}
                      /\ \A r : DefaultIn(p[2], r) = OrElse(chain, p[1], d, r)}
<1>1. <<{}, chain>> \in Good
  BY DEF OnlyLast, Defaults, OrElse
<1>2. ASSUME NEW T \in SUBSET node.stypes, NEW x \in node.stypes, NEW c \in Chains,
             x \in T, <<T \ {x}, c>> \in Good
      PROVE  <<T, InsertEntry(c, x, d)>> \in Good
  <2> DEFINE e == InsertEntry(c, x, d)
  <2>1. x \in Types /\ d \in Types /\ d # None
    BY DatumHas
  <2>2. /\ OnlyLast(c, d) /\ Defaults(c) \subseteq Defaults(chain) \cup {d}
        /\ \A r : DefaultIn(c, r) = OrElse(chain, T \ {x}, d, r)
    BY <1>2
  <2>3. e \in Chains
    BY <2>1, Inserted
  <2>4. /\ OnlyLast(e, d) /\ Defaults(e) \subseteq Defaults(c) \cup {d}
        /\ \A r : DefaultIn(e, r) = IF r = x /\ DefaultIn(c, r) = None
                                    THEN d ELSE DefaultIn(c, r)
    BY <2>1, <2>2, InsertedDefault
  <2> HIDE DEF e, d
  <2>5. ASSUME NEW r
        PROVE  DefaultIn(e, r) = OrElse(chain, T, d, r)
    BY <1>2, <2>1, <2>2, <2>4 DEF OrElse
  <2>6. <<T, e>> \in Good
    BY <2>2, <2>3, <2>4, <2>5
  <2> QED
    BY <2>6 DEF e
<1>3. ReadsOn(node, Good)
  <2> HIDE DEF Good
  <2> QED
    BY <1>2 DEF ReadsOn
<1>4. <<node.stypes, ReadNode(chain, node)>> \in Good
  <2> HIDE DEF Good
  <2> QED
    BY <1>1, <1>3, ReadNodeInduction
<1> QED
  BY <1>4

LEMMA DefaultOfPrefix ==
  ASSUME NEW nodes \in Chains, NEW i \in 1..Len(nodes), NEW r
  PROVE  DefaultIn(SubSeq(nodes, 1, i), r)
           = OrElse(SubSeq(nodes, 1, i - 1), nodes[i].stypes, nodes[i].otype, r)
<1> DEFINE short == SubSeq(nodes, 1, i - 1)
           long == SubSeq(nodes, 1, i)
<1>1. /\ Len(nodes) \in Nat /\ DOMAIN nodes = 1..Len(nodes)
      /\ short \in Chains /\ DOMAIN short = 1..(i - 1)
      /\ long \in Chains /\ DOMAIN long = 1..i
      /\ \A j \in 1..(i - 1) : short[j] = nodes[j]
      /\ \A j \in 1..i : long[j] = nodes[j]
  BY DEF Chains
<1> HIDE DEF short, long
<1>2. \A j : Holds(short, r, j) => Holds(long, r, j) /\ long[j].otype = short[j].otype
  BY <1>1 DEF Holds
<1>3. CASE ~Absent(short, r)
  <2>1. PICK j : Holds(short, r, j)
    BY <1>1, <1>3, DefaultIs
  <2>2. Holds(long, r, j) /\ long[j].otype = short[j].otype
    BY <1>2, <2>1
  <2>3. DefaultIn(long, r) = DefaultIn(short, r) /\ DefaultIn(short, r) # None
    BY <1>1, <2>1, <2>2, DefaultIs
  <2> QED
    BY <2>3 DEF OrElse, short, long
<1>4. CASE Absent(short, r) /\ r \in nodes[i].stypes
  <2>1. Holds(long, r, i)
    BY <1>1, <1>4 DEF Holds, Absent
  <2>2. DefaultIn(short, r) = None /\ DefaultIn(long, r) = nodes[i].otype
    BY <1>1, <1>4, <2>1, DefaultIs
  <2> QED
    BY <1>4, <2>2 DEF OrElse, short, long
<1>5. CASE Absent(short, r) /\ r \notin nodes[i].stypes
  <2>1. Absent(long, r)
    BY <1>1, <1>5 DEF Absent
  <2>2. DefaultIn(short, r) = None /\ DefaultIn(long, r) = None
    BY <1>1, <1>5, <2>1, DefaultIs
  <2> QED
    BY <1>5, <2>2 DEF OrElse, short, long
<1> QED
  BY <1>3, <1>4, <1>5

LEMMA ReadAgain ==
  ASSUME NEW nodes \in Chains, Distinct(nodes)
  PROVE  \A r : DefaultIn(ReadEntries(nodes), r) = DefaultIn(nodes, r)
<1> DEFINE n == Len(nodes)
           Good == {p \in (0..n) \X Chains :
                      /\ Defaults(p[2]) \subseteq {nodes[j].otype : j \in 1..p[1]}
                      /\ \A r : DefaultIn(p[2], r) = DefaultIn(SubSeq(nodes, 1, p[1]), r)}
<1>1. n \in Nat /\ DOMAIN nodes = 1..n /\ <<>> \in Chains /\ \A i \in 1..n : nodes[i] \in Datum
  BY DEF Chains
<1>2. SubSeq(nodes, 1, 0) = <<>> /\ SubSeq(nodes, 1, n) = nodes
  BY <1>1 DEF Chains
<1>3. <<0, <<>> >> \in Good
  <2>1. Defaults(<<>>) = {}
    BY DEF Defaults
  <2>2. 0 \in 0..n
    BY <1>1
  <2>3. \A r : DefaultIn(<<>>, r) = DefaultIn(SubSeq(nodes, 1, 0), r)
    BY <1>2
  <2> QED
    BY <1>1, <2>1, <2>2, <2>3
<1>4. ASSUME NEW i \in 1..n, NEW c \in Chains, <<i - 1, c>> \in Good
      PROVE  <<i, ReadNode(c, nodes[i])>> \in Good
  <2> DEFINE e == ReadNode(c, nodes[i])
             d == nodes[i].otype
  <2>1. /\ Defaults(c) \subseteq {nodes[j].otype : j \in 1..(i - 1)}
        /\ \A r : DefaultIn(c, r) = DefaultIn(SubSeq(nodes, 1, i - 1), r)
    BY <1>4
  <2>2. d \notin Defaults(c)
    BY <1>1, <2>1 DEF Distinct
  <2>3. /\ e \in Chains /\ Defaults(e) \subseteq Defaults(c) \cup {d}
        /\ \A r : DefaultIn(e, r) = OrElse(c, nodes[i].stypes, d, r)
    BY <1>1, <2>2, ReadNodeChain, ReadNodeDefault
  <2> HIDE DEF e
  <2>4. Defaults(e) \subseteq {nodes[j].otype : j \in 1..i}
    BY <1>1, <2>1, <2>3
  <2>5. ASSUME NEW r
        PROVE  DefaultIn(e, r) = DefaultIn(SubSeq(nodes, 1, i), r)
    BY <2>1, <2>3, DefaultOfPrefix DEF OrElse
  <2>6. i \in 0..n
    BY <1>1
  <2>7. <<i, e>> \in Good
    BY <2>3, <2>4, <2>5, <2>6
  <2> QED
    BY <2>7 DEF e
<1>5. ReadsThrough(nodes, Good)
  <2> HIDE DEF Good
  <2> QED
    BY <1>4 DEF ReadsThrough
<1>6. <<n, ReadEntries(nodes)>> \in Good
  <2> HIDE DEF Good
  <2> QED
    BY <1>3, <1>5, ReadEntriesInduction
<1>7. \A r : DefaultIn(ReadEntries(nodes), r) = DefaultIn(SubSeq(nodes, 1, n), r)
  BY <1>6
<1> QED
  BY <1>2, <1>7

(***************************************************************************)
(* The inductive invariant: CountIsEntries itself, with the tables made of *)
(* chains.                                                                 *)
(***************************************************************************)
LEMMA InitHolds ==
  FtInit => CountIsEntries
<1> SUFFICES ASSUME NEW f \in Files, filename_trans = f.trans,
                    filename_trans_count = EntriesOf(f.trans),
                    policyvers = f.policyvers, undefined = FALSE
             PROVE  CountIsEntries
  BY DEF FtInit
<1>1. f.trans \in Tables /\ f.policyvers \in Nat
  BY FilesAssumption DEF Tables, Chains
<1> QED
  BY <1>1, EntriesOfNat DEF CountIsEntries, FtTypeOK, Tables, Chains

\* What a statement does to the chain of its key: a source that is there gets
\* the default with its node, one that is not gets an entry more.
IsAdded(chain, s, d, c) ==
  \/ \E at \in 1..Len(chain) :
        /\ IsUpdated(chain, at, d, c) /\ Holds(c, s, at)
  \/ IsAppended(chain, s, d, c) /\ Absent(chain, s)
  \/ \E at \in 1..Len(chain) :
        /\ IsWidened(chain, at, s, c) /\ chain[at].otype = d
        /\ s \notin chain[at].stypes /\ \A i \in 1..(at - 1) : s \notin chain[i].stypes

\* The step of the program, the freed node left aside.
LEMMA AddedStep ==
  ASSUME CountIsEntries, NEW k \in Keys, NEW s \in Types, NEW d \in Types,
         AddFilenameTrans(k, s, d), undefined' # TRUE
  PROVE  \E c : /\ IsAdded(filename_trans[k], s, d, c)
                /\ filename_trans' = [filename_trans EXCEPT ![k] = c]
                /\ Entries(c) = Entries(filename_trans[k])
                                  + (filename_trans_count' - filename_trans_count)
                /\ filename_trans_count' - filename_trans_count \in {0, 1}
                /\ filename_trans_count' \in Nat
<1> DEFINE chain == filename_trans[k]
           at    == Walk(chain, s, d)
           old   == at # 0 /\ s \in chain[at].stypes
<1>1. chain \in Chains /\ filename_trans_count \in Nat
  BY DEF CountIsEntries, FtTypeOK, Chains
<1>2. filename_trans_count' = filename_trans_count + (IF old THEN 0 ELSE 1)
  BY DEF AddFilenameTrans, CountUnless
<1>3. \/ /\ old
         /\ filename_trans' = [filename_trans EXCEPT ![k] = [chain EXCEPT ![at] = Update(@, s, d)]]
      \/ /\ at = 0
         /\ filename_trans' = [filename_trans EXCEPT ![k] = Append(chain, Node(s, d))]
      \/ /\ at # 0 /\ ~old
         /\ filename_trans' = [filename_trans EXCEPT ![k] =
                                 [chain EXCEPT ![at].stypes = @ \cup {s}]]
  <2>1. \/ old /\ filename_trans' = [filename_trans EXCEPT ![k] =
                                       [chain EXCEPT ![at] = Update(@, s, d)]]
        \/ at = 0 /\ filename_trans' = [filename_trans EXCEPT ![k] = Append(chain, Node(s, d))]
        \/ at > 1 /\ ~old /\ filename_trans' = [filename_trans EXCEPT ![k] =
                                                 [chain EXCEPT ![at].stypes = @ \cup {s}]]
        \/ undefined' = TRUE
    BY Zenon DEF AddFilenameTrans
  <2>2. at > 1 => at # 0
    OBVIOUS
  <2> HIDE DEF at, chain
  <2> QED
    BY <2>1, <2>2, Zenon
<1> HIDE DEF chain, at
<1>4. CASE /\ old
           /\ filename_trans' = [filename_trans EXCEPT ![k] = [chain EXCEPT ![at] = Update(@, s, d)]]
  <2> DEFINE c == [chain EXCEPT ![at] = Update(@, s, d)]
  <2>1. StopsAt(chain, s, d, at)
    BY <1>1, <1>4, WalkIs DEF at
  <2>2. at \in 1..Len(chain)
    BY <2>1 DEF StopsAt
  <2>3. IsUpdated(chain, at, d, c)
    BY <1>1, <2>2, Updated
  <2> HIDE DEF c
  <2>4. DOMAIN chain = 1..Len(chain) /\ DOMAIN c = 1..Len(chain)
    BY <1>1, <2>3 DEF Chains, IsUpdated
  <2>5. Holds(c, s, at)
    BY <1>4, <2>1, <2>2, <2>3, <2>4 DEF IsUpdated, StopsAt, Holds
  <2>6. Entries(c) = Entries(chain) + 0
    <3>1. \A i \in 1..Len(chain) : /\ c[i].stypes = chain[i].stypes
                                   /\ Cardinality(chain[i].stypes) \in Nat
      BY <1>1, <2>3, <2>4, DatumHas DEF IsUpdated, Chains
    <3>2. c \in Chains /\ Len(c) = Len(chain)
      BY <2>3 DEF IsUpdated
    <3> QED
      BY <1>1, <2>2, <3>1, <3>2, EntriesMove
  <2>7. filename_trans_count' - filename_trans_count = 0 /\ filename_trans_count' \in Nat
    BY <1>1, <1>2, <1>4
  <2>8. IsAdded(chain, s, d, c)
    BY <2>2, <2>3, <2>5 DEF IsAdded
  <2> QED
    BY <1>4, <2>6, <2>7, <2>8 DEF c, chain
<1>5. CASE /\ at = 0
           /\ filename_trans' = [filename_trans EXCEPT ![k] = Append(chain, Node(s, d))]
  <2> DEFINE c == Append(chain, Node(s, d))
  <2>1. Absent(chain, s)
    BY <1>1, <1>5, WalkIs DEF at, Nowhere, Absent
  <2>2. IsAppended(chain, s, d, c)
    BY <1>1, Appended
  <2> HIDE DEF c
  <2>3. Entries(c) = Entries(chain) + 1
    BY <1>1, <2>2, EntriesAppended
  <2>4. filename_trans_count' - filename_trans_count = 1 /\ filename_trans_count' \in Nat
    BY <1>1, <1>2, <1>5
  <2>5. IsAdded(chain, s, d, c)
    BY <2>1, <2>2 DEF IsAdded
  <2> QED
    BY <1>5, <2>3, <2>4, <2>5 DEF c, chain
<1>6. CASE /\ at # 0 /\ ~old
           /\ filename_trans' = [filename_trans EXCEPT ![k] =
                                   [chain EXCEPT ![at].stypes = @ \cup {s}]]
  <2> DEFINE c == [chain EXCEPT ![at].stypes = @ \cup {s}]
  <2>1. StopsAt(chain, s, d, at)
    BY <1>1, <1>6, WalkIs DEF at
  <2>2. /\ at \in 1..Len(chain) /\ chain[at].otype = d /\ s \notin chain[at].stypes
        /\ \A i \in 1..(at - 1) : s \notin chain[i].stypes
    BY <1>6, <2>1 DEF StopsAt
  <2>3. IsWidened(chain, at, s, c)
    BY <1>1, <2>2, Widened
  <2> HIDE DEF c
  <2>4. DOMAIN chain = 1..Len(chain) /\ \A i \in 1..Len(chain) : chain[i] \in Datum
    BY <1>1 DEF Chains
  <2>5. Cardinality(c[at].stypes) = Cardinality(chain[at].stypes) + 1
    <3>1. IsFiniteSet(chain[at].stypes)
      BY <2>2, <2>4, DatumHas
    <3>2. c[at].stypes = chain[at].stypes \cup {s}
      BY <2>3 DEF IsWidened
    <3> QED
      BY <2>2, <3>1, <3>2, FS_AddElement
  <2>6. Entries(c) = Entries(chain) + 1
    <3>1. \A i \in 1..Len(chain) :
             i # at => Cardinality(c[i].stypes) = Cardinality(chain[i].stypes)
      BY <2>3, <2>4 DEF IsWidened
    <3>2. c \in Chains /\ Len(c) = Len(chain)
      BY <2>3 DEF IsWidened
    <3> QED
      BY <1>1, <2>2, <2>5, <3>1, <3>2, EntriesMove
  <2>7. filename_trans_count' - filename_trans_count = 1 /\ filename_trans_count' \in Nat
    BY <1>1, <1>2, <1>6
  <2>8. IsAdded(chain, s, d, c)
    BY <2>2, <2>3 DEF IsAdded
  <2> QED
    BY <1>6, <2>6, <2>7, <2>8 DEF c, chain
<1> QED
  BY <1>3, <1>4, <1>5, <1>6

\* A chain that a statement wrote has the default, and every source it had.
LEMMA AddedChain ==
  ASSUME NEW chain \in Chains, NEW s \in Types, NEW d \in Types,
         NEW c, IsAdded(chain, s, d, c)
  PROVE  c \in Chains /\ Grows(chain, c) /\ DefaultIn(c, s) = d
<1>1. CASE \E at \in 1..Len(chain) : IsUpdated(chain, at, d, c) /\ Holds(c, s, at)
  <2>1. PICK at \in 1..Len(chain) : IsUpdated(chain, at, d, c) /\ Holds(c, s, at)
    BY <1>1
  <2>2. c \in Chains /\ Grows(chain, c) /\ c[at].otype = d
    BY <2>1 DEF IsUpdated, Grows, Chains
  <2> QED
    BY <2>1, <2>2, DefaultIs
<1>2. CASE IsAppended(chain, s, d, c) /\ Absent(chain, s)
  <2>1. DOMAIN chain = 1..Len(chain) /\ Len(chain) \in Nat /\ DOMAIN c = 1..Len(c)
    BY <1>2 DEF IsAppended, Chains
  <2>2. c \in Chains /\ Grows(chain, c) /\ c[Len(c)].otype = d
    BY <1>2, <2>1 DEF IsAppended, Grows
  <2>3. Holds(c, s, Len(c))
    BY <1>2, <2>1 DEF IsAppended, Absent, Holds
  <2> QED
    BY <2>2, <2>3, DefaultIs
<1>3. CASE \E at \in 1..Len(chain) :
             /\ IsWidened(chain, at, s, c) /\ chain[at].otype = d
             /\ s \notin chain[at].stypes /\ \A i \in 1..(at - 1) : s \notin chain[i].stypes
  <2>1. PICK at \in 1..Len(chain) :
             /\ IsWidened(chain, at, s, c) /\ chain[at].otype = d
             /\ \A i \in 1..(at - 1) : s \notin chain[i].stypes
    BY <1>3
  <2>2. DOMAIN chain = 1..Len(chain) /\ Len(chain) \in Nat /\ DOMAIN c = 1..Len(c)
    BY <2>1 DEF IsWidened, Chains
  <2>3. c \in Chains /\ c[at].otype = d /\ Grows(chain, c)
    BY <2>1, <2>2 DEF IsWidened, Grows
  <2>4. Holds(c, s, at)
    BY <2>1, <2>2 DEF IsWidened, Holds
  <2> QED
    BY <2>3, <2>4, DefaultIs
<1> QED
  BY <1>1, <1>2, <1>3 DEF IsAdded

LEMMA RereadChain ==
  ASSUME CountIsEntries, NEW k \in Keys
  PROVE  /\ Reread(filename_trans[k]) \in Chains
         /\ policyvers >= POLICYDB_VERSION_FILENAME_TRANS =>
              \A s : ~Absent(filename_trans[k], s) => ~Absent(Reread(filename_trans[k]), s)
<1>1. filename_trans[k] \in Chains /\ policyvers \in Nat
  BY DEF CountIsEntries, FtTypeOK, Chains
<1>2. CASE policyvers < POLICYDB_VERSION_FILENAME_TRANS
  BY <1>1, <1>2 DEF Reread, Chains, POLICYDB_VERSION_FILENAME_TRANS, POLICYDB_VERSION_COMP_FTRANS
<1>3. CASE policyvers >= POLICYDB_VERSION_COMP_FTRANS
  BY <1>1, <1>3 DEF Reread, POLICYDB_VERSION_FILENAME_TRANS, POLICYDB_VERSION_COMP_FTRANS
<1>4. CASE /\ ~(policyvers < POLICYDB_VERSION_FILENAME_TRANS)
           /\ ~(policyvers >= POLICYDB_VERSION_COMP_FTRANS)
  <2>1. Reread(filename_trans[k]) = ReadEntries(filename_trans[k])
    BY <1>4 DEF Reread
  <2> QED
    BY <1>1, <2>1, ReadEntriesKeeps
<1> QED
  BY <1>2, <1>3, <1>4

LEMMA StepHolds ==
  CountIsEntries /\ [FtNext]_ftVars => CountIsEntries'
<1> SUFFICES ASSUME CountIsEntries, [FtNext]_ftVars
             PROVE  CountIsEntries'
  OBVIOUS
<1> USE DEF CountIsEntries, FtTypeOK
<1>1. ASSUME NEW k \in Keys, NEW s \in Types, NEW d \in Types,
             AddFilenameTrans(k, s, d), undefined' # TRUE
      PROVE  CountIsEntries'
  <2>1. PICK c : /\ IsAdded(filename_trans[k], s, d, c)
                 /\ filename_trans' = [filename_trans EXCEPT ![k] = c]
                 /\ Entries(c) = Entries(filename_trans[k])
                                   + (filename_trans_count' - filename_trans_count)
                 /\ filename_trans_count' - filename_trans_count \in {0, 1}
                 /\ filename_trans_count' \in Nat
    BY <1>1, AddedStep
  <2>2. filename_trans \in Tables /\ filename_trans[k] \in Chains
    BY DEF Tables, Chains
  <2>3. c \in Chains
    BY <2>1, <2>2, AddedChain
  <2> DEFINE e == filename_trans_count' - filename_trans_count
  <2>4. e \in Nat
    BY <2>1
  <2>5. EntriesOf(filename_trans') = EntriesOf(filename_trans) + e
    <3> HIDE DEF e
    <3>1. Entries(c) = Entries(filename_trans[k]) + e
      BY <2>1 DEF e
    <3> QED
      BY <2>1, <2>2, <2>3, <2>4, <3>1, EntriesOfChanges
  <2>6. filename_trans' \in [Keys -> Seq(Datum)]
    BY <2>1, <2>2, <2>3 DEF Tables, Chains
  <2>7. filename_trans_count' = EntriesOf(filename_trans')
    BY <2>1, <2>5
  <2>8. policyvers' \in Nat /\ undefined' \in BOOLEAN
    BY <1>1 DEF AddFilenameTrans
  <2> QED
    BY <2>1, <2>6, <2>7, <2>8
<1>2. ASSUME NEW k \in Keys, NEW s \in Types, NEW d \in Types,
             AddFilenameTrans(k, s, d), undefined' = TRUE
      PROVE  CountIsEntries'
  <2>1. ~undefined /\ filename_trans_count' = filename_trans_count /\ policyvers' = policyvers
    BY <1>2 DEF AddFilenameTrans
  <2>2. filename_trans' = filename_trans
    BY <1>2, <2>1 DEF AddFilenameTrans
  <2> QED
    BY <1>2, <2>1, <2>2
<1>3. ASSUME Reload
      PROVE  CountIsEntries'
  <2>1. filename_trans' \in Tables
    BY <1>3, RereadChain DEF Reload, Tables
  <2>2. EntriesOf(filename_trans') \in Nat
    BY <2>1, EntriesOfNat
  <2> QED
    BY <1>3, <2>1, <2>2 DEF Reload, Tables, Chains
<1>4. CASE UNCHANGED ftVars
  BY <1>4 DEF ftVars
<1> QED
  BY <1>1, <1>2, <1>3, <1>4 DEF FtNext

\* CountIsEntries: filename_trans_count is the number of sources in the table,
\* through every statement, every save and every load, so the number that heads
\* the entries of an older policy's file is theirs.
THEOREM CountInvariant == FtSpec => []CountIsEntries
<1>1. FtInit => CountIsEntries
  BY InitHolds
<1>2. CountIsEntries /\ [FtNext]_ftVars => CountIsEntries'
  BY StepHolds
<1> QED
  BY <1>1, <1>2, PTL DEF FtSpec

\* AddedWins: after a statement that ended well an access decision finds its
\* default for its source, in chains with overlapping nodes too.
THEOREM AddedWinsAlways == FtSpec => AddedWins
<1>1. ASSUME CountIsEntries, NEW k \in Keys, NEW s \in Types, NEW d \in Types,
             AddFilenameTrans(k, s, d), ~undefined'
      PROVE  Default(k, s)' = d
  <2>1. filename_trans[k] \in Chains /\ DOMAIN filename_trans = Keys
    BY <1>1 DEF CountIsEntries, FtTypeOK, Chains
  <2>2. PICK c : /\ IsAdded(filename_trans[k], s, d, c)
                 /\ filename_trans' = [filename_trans EXCEPT ![k] = c]
    BY <1>1, AddedStep
  <2>3. filename_trans'[k] = c
    BY <2>1, <2>2
  <2> QED
    BY <2>1, <2>2, <2>3, AddedChain DEF Default
<1>2. CountIsEntries /\ [FtNext]_ftVars =>
        [\A k \in Keys, s, d \in Types :
            AddFilenameTrans(k, s, d) /\ ~undefined' => Default(k, s)' = d]_ftVars
  BY <1>1
<1> QED
  BY <1>2, CountInvariant, PTL DEF FtSpec, AddedWins

LEMMA DefaultThere ==
  ASSUME NEW chain \in Chains, NEW s
  PROVE  DefaultIn(chain, s) # None <=> ~Absent(chain, s)
BY DefaultIs

\* NothingLost: a source that has a transition keeps one, through statements
\* and through reloads of a policy whose version has filename transitions.
THEOREM NothingLostAlways == FtSpec => NothingLost
<1> DEFINE Kept(k, s) == Default(k, s) # None => Default(k, s)' # None
<1>1. ASSUME CountIsEntries, [FtNext]_ftVars,
             policyvers >= POLICYDB_VERSION_FILENAME_TRANS,
             NEW k \in Keys, NEW s \in Types
      PROVE  Kept(k, s)
  <2> DEFINE chain == filename_trans[k]
             later == filename_trans'[k]
  <2>0. CountIsEntries'
    BY <1>1, StepHolds
  <2>1. /\ chain \in Chains /\ later \in Chains /\ DOMAIN filename_trans = Keys
        /\ undefined \in BOOLEAN /\ undefined' \in BOOLEAN
    BY <1>1, <2>0 DEF CountIsEntries, FtTypeOK, Chains
  <2>2. SUFFICES ~Absent(chain, s) => ~Absent(later, s)
    BY <2>1, DefaultThere DEF Default
  <2>3. ASSUME NEW x \in Keys, NEW r \in Types, NEW d \in Types, AddFilenameTrans(x, r, d)
        PROVE  ~Absent(chain, s) => ~Absent(later, s)
    <3>1. CASE undefined'
      BY <2>1, <2>3, <3>1 DEF AddFilenameTrans
    <3>2. CASE ~undefined' /\ x # k
      <4>1. PICK c : filename_trans' = [filename_trans EXCEPT ![x] = c]
        BY <1>1, <2>3, <3>2, AddedStep
      <4> QED
        BY <2>1, <3>2, <4>1
    <3>3. CASE ~undefined' /\ x = k
      <4>1. PICK c : /\ IsAdded(chain, r, d, c)
                     /\ filename_trans' = [filename_trans EXCEPT ![k] = c]
        BY <1>1, <2>3, <3>3, AddedStep
      <4>2. later = c /\ Grows(chain, c)
        BY <2>1, <4>1, AddedChain
      <4> HIDE DEF chain, later
      <4> QED
        BY <2>1, <4>2, GrownHas
    <3> QED
      BY <3>1, <3>2, <3>3
  <2>4. ASSUME Reload
        PROVE  ~Absent(chain, s) => ~Absent(later, s)
    <3>1. later = Reread(chain)
      BY <2>4 DEF Reload
    <3> QED
      BY <1>1, <3>1, RereadChain
  <2>5. CASE UNCHANGED ftVars
    BY <2>5 DEF ftVars
  <2> QED
    BY <1>1, <2>3, <2>4, <2>5 DEF FtNext
<1>2. CountIsEntries /\ [FtNext]_ftVars =>
        [policyvers >= POLICYDB_VERSION_FILENAME_TRANS =>
           \A k \in Keys, s \in Types : Kept(k, s)]_ftVars
  BY <1>1
<1> QED
  BY <1>2, CountInvariant, PTL DEF FtSpec, NothingLost

\* ReloadSettles: what was loaded from an older policy's file has the same
\* defaults after it is saved and loaded again, whatever the first file held.
THEOREM ReloadSettlesAlways == FtSpec => []ReloadSettles
<1>1. CountIsEntries => ReloadSettles
  <2> SUFFICES ASSUME CountIsEntries, NEW k \in Keys, NEW s \in Types
               PROVE  DefaultIn(ReadEntries(ReadEntries(filename_trans[k])), s)
                        = DefaultIn(ReadEntries(filename_trans[k]), s)
    BY DEF ReloadSettles
  <2>1. filename_trans[k] \in Chains
    BY DEF CountIsEntries, FtTypeOK, Chains
  <2>2. /\ ReadEntries(filename_trans[k]) \in Chains
        /\ Distinct(ReadEntries(filename_trans[k]))
    BY <2>1, ReadEntriesKeeps
  <2> QED
    BY <2>2, ReadAgain
<1> QED
  BY <1>1, CountInvariant, PTL
================================================================================
