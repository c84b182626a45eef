------------------------------ MODULE Genfs_proofs ------------------------------
(***************************************************************************)
(* Proofs about Genfs: what reading makes of the lists, whatever their     *)
(* lengths, and that the label of a file depends on the set of entries of  *)
(* its file system only.                                                   *)
(***************************************************************************)
EXTENDS Genfs, Lists_proofs

FirstIn(S) == IF S = {} THEN 0 ELSE Min(S)

LEMMA FirstInIs ==
  ASSUME NEW n \in Nat, NEW S \in SUBSET (1..n)
  PROVE  \/ FirstIn(S) = 0 /\ S = {}
         \/ FirstIn(S) # 0 /\ FirstIn(S) \in S /\ \A i \in 1..(FirstIn(S) - 1) : i \notin S
<1>1. S \in SUBSET Nat /\ 0 \notin S
  OBVIOUS
<1>2. CASE S # {}
  <2>1. Min(S) \in S /\ \A x \in S : Min(S) <= x
    BY <1>1, <1>2, MinIs
  <2>2. Min(S) \in 1..n /\ Min(S) # 0
    BY <1>1, <2>1
  <2>3. \A i \in 1..(Min(S) - 1) : i \notin S
    BY <2>1, <2>2
  <2> QED
    BY <1>2, <2>1, <2>2, <2>3 DEF FirstIn
<1> QED
  BY <1>2 DEF FirstIn

(***************************************************************************)
(* Inserting into a list.                                                  *)
(***************************************************************************)
IsInserted(list, p, new, r) ==
  /\ Len(r) = Len(list) + 1 /\ p \in 1..Len(r) /\ r[p] = new
  /\ \A i \in 1..(p - 1) : r[i] = list[i]
  /\ \A i \in (p + 1)..Len(r) : r[i] = list[i - 1]
\* In front of the first position of a set, at the end if there is none.
IsPlaced(list, S, new, r) ==
  \E p : /\ IsInserted(list, p, new, r)
         /\ \A i \in 1..(p - 1) : i \notin S
         /\ p \in S \/ p = Len(list) + 1

LEMMA Placed ==
  ASSUME NEW A, NEW list \in Seq(A), NEW new \in A, NEW S \in SUBSET (1..Len(list)),
         NEW r, r = IF FirstIn(S) = 0 THEN Append(list, new)
                                      ELSE InsertAt(list, FirstIn(S), new)
  PROVE  r \in Seq(A) /\ IsPlaced(list, S, new, r)
<1>0. Len(list) \in Nat
  OBVIOUS
<1>1. CASE FirstIn(S) = 0
  <2>1. r \in Seq(A) /\ IsInserted(list, Len(list) + 1, new, r)
    BY <1>1 DEF IsInserted
  <2>2. S = {}
    BY <1>0, <1>1, FirstInIs
  <2> QED
    BY <2>1, <2>2 DEF IsPlaced
<1>2. CASE FirstIn(S) # 0
  <2> DEFINE p == FirstIn(S)
  <2>1. p \in S /\ p \in 1..Len(list) /\ \A i \in 1..(p - 1) : i \notin S
    BY <1>0, <1>2, FirstInIs
  <2> HIDE DEF p
  <2> DEFINE n == Len(list)
             a == SubSeq(list, 1, p - 1)
             b == SubSeq(list, p, n)
  <2>2. r = (a \o <<new>>) \o b
    BY <1>2 DEF InsertAt, p
  <2>3. /\ a \in Seq(A) /\ Len(a) = p - 1 /\ b \in Seq(A) /\ Len(b) = n - p + 1
        /\ n \in Nat
    BY <2>1
  <2>4. /\ \A i \in 1..(p - 1) : a[i] = list[i]
        /\ \A i \in 1..(n - p + 1) : b[i] = list[p + i - 1]
    BY <2>1
  <2> HIDE DEF a, b, n
  <2> DEFINE ab == a \o <<new>>
  <2>5. /\ ab \in Seq(A) /\ Len(ab) = p /\ ab[p] = new
        /\ \A i \in 1..(p - 1) : ab[i] = a[i]
    <3> DEFINE one == <<new>>
    <3>1. one \in Seq(A) /\ Len(one) = 1 /\ one[1] = new
      OBVIOUS
    <3>2. ab = a \o one
      OBVIOUS
    <3> HIDE DEF one, ab
    <3>3. /\ a \o one \in Seq(A) /\ Len(a \o one) = Len(a) + Len(one)
          /\ \A i \in 1..(Len(a) + Len(one)) :
                (a \o one)[i] = IF i <= Len(a) THEN a[i] ELSE one[i - Len(a)]
      BY <2>3, <3>1, ConcatProperties
    <3>4. /\ ab \in Seq(A) /\ Len(ab) = Len(a) + 1
          /\ \A i \in 1..(Len(a) + 1) :
                ab[i] = IF i <= Len(a) THEN a[i] ELSE one[i - Len(a)]
      BY <3>1, <3>2, <3>3
    <3> QED
      BY <2>1, <2>3, <3>1, <3>4
  <2> HIDE DEF ab
  <2>6. r = ab \o b
    BY <2>2 DEF ab
  <2>13. /\ r \in Seq(A) /\ Len(r) = Len(ab) + Len(b)
         /\ \A i \in 1..(Len(ab) + Len(b)) :
               r[i] = IF i <= Len(ab) THEN ab[i] ELSE b[i - Len(ab)]
    <3>1. /\ ab \o b \in Seq(A) /\ Len(ab \o b) = Len(ab) + Len(b)
          /\ \A i \in 1..(Len(ab) + Len(b)) :
                (ab \o b)[i] = IF i <= Len(ab) THEN ab[i] ELSE b[i - Len(ab)]
      BY <2>3, <2>5, ConcatProperties
    <3> QED
      BY <2>6, <3>1, Zenon
  <2>7. r \in Seq(A) /\ Len(r) = n + 1
    BY <2>1, <2>3, <2>5, <2>13
  <2>8. /\ \A i \in 1..p : r[i] = ab[i]
        /\ \A i \in (p + 1)..(n + 1) : r[i] = b[i - p]
    BY <2>1, <2>3, <2>5, <2>13
  <2>10. \A i \in 1..(p - 1) : r[i] = list[i]
    BY <2>1, <2>4, <2>5, <2>8 DEF n
  <2>11. ASSUME NEW i \in (p + 1)..Len(r)
         PROVE  r[i] = list[i - 1]
    <3>1. i - p \in 1..(n - p + 1) /\ p + (i - p) - 1 = i - 1 /\ i \in (p + 1)..(n + 1)
      BY <2>1, <2>3, <2>7 DEF n
    <3>2. r[i] = b[i - p]
      BY <2>8, <3>1
    <3>3. b[i - p] = list[p + (i - p) - 1]
      BY <2>4, <3>1
    <3> QED
      BY <3>1, <3>2, <3>3
  <2>12. r[p] = new /\ p \in 1..Len(r)
    BY <2>1, <2>3, <2>5, <2>7, <2>8 DEF n
  <2>9. IsInserted(list, p, new, r)
    BY <2>7, <2>10, <2>11, <2>12 DEF IsInserted, n
  <2> QED
    BY <2>1, <2>7, <2>9 DEF IsPlaced
<1> QED
  BY <1>1, <1>2

\* A position of the longer list is the new one or one of the list.
ComesFrom(list, p, new, r, i) ==
  \/ i = p /\ r[i] = new
  \/ i < p /\ i \in DOMAIN list /\ r[i] = list[i]
  \/ i > p /\ i - 1 \in DOMAIN list /\ r[i] = list[i - 1]

LEMMA InsertedFrom ==
  ASSUME NEW A, NEW list \in Seq(A), NEW new, NEW r \in Seq(A), NEW p,
         IsInserted(list, p, new, r)
  PROVE  /\ \A i \in DOMAIN r : ComesFrom(list, p, new, r, i)
         /\ ToSet(r) = ToSet(list) \cup {new}
<1>1. /\ DOMAIN list = 1..Len(list) /\ DOMAIN r = 1..Len(r) /\ Len(list) \in Nat
      /\ Len(r) = Len(list) + 1 /\ p \in 1..Len(r)
  BY DEF IsInserted
<1>2. \A i \in DOMAIN r : ComesFrom(list, p, new, r, i)
  BY <1>1 DEF IsInserted, ComesFrom
<1>3. ToSet(r) \subseteq ToSet(list) \cup {new}
  BY <1>2 DEF ToSet, ComesFrom
<1>4. ASSUME NEW i \in DOMAIN list
      PROVE  list[i] \in ToSet(r)
  <2>1. CASE i < p
    BY <1>1, <2>1 DEF IsInserted, ToSet
  <2>2. CASE i >= p
    <3>1. i + 1 \in (p + 1)..Len(r) /\ (i + 1) - 1 = i
      BY <1>1, <2>2
    <3>2. r[i + 1] = list[i] /\ i + 1 \in DOMAIN r
      BY <1>1, <3>1 DEF IsInserted
    <3> QED
      BY <3>2 DEF ToSet
  <2> QED
    BY <1>1, <2>1, <2>2
<1>5. new \in ToSet(r)
  BY <1>1 DEF IsInserted, ToSet
<1>6. ToSet(list) \subseteq ToSet(r)
  BY <1>4 DEF ToSet
<1> QED
  BY <1>2, <1>3, <1>5, <1>6

(***************************************************************************)
(* Reading the entries of a file system: the same entries, the longest     *)
(* names first.                                                            *)
(***************************************************************************)
Heads == Seq(Entry)
Unambiguous(head) == \A i, j \in DOMAIN head : SameEntry(head[i], head[j]) => i = j
LongestFirst(head) ==
  \A i, j \in DOMAIN head : i < j => Len(head[j].name) <= Len(head[i].name)

LEMMA EntryHas ==
  ASSUME NEW c \in Entry
  PROVE  /\ c.name \in Paths /\ Len(c.name) \in Nat
         /\ c.sclass \in Classes \cup {AnyClass} /\ c.context \in Contexts
<1>1. /\ c.name \in Paths /\ c.sclass \in Classes \cup {AnyClass}
      /\ c.context \in Contexts
  BY DEF Entry
<1>2. c.name \in Seq(ToSet(c.name))
  BY <1>1, PathsAssumption
<1> QED
  BY <1>1, <1>2, LenProperties

LEMMA ReadEntryIs ==
  ASSUME NEW head \in Heads, NEW new \in Entry
  PROVE  /\ ReadEntry(head, new) \in Heads
         /\ ToSet(ReadEntry(head, new)) = ToSet(head) \cup {new}
         /\ LongestFirst(head) => LongestFirst(ReadEntry(head, new))
         /\ Unambiguous(head) /\ (\A c \in ToSet(head) : ~SameEntry(c, new))
               => Unambiguous(ReadEntry(head, new))
<1> DEFINE r == ReadEntry(head, new)
           S == {i \in DOMAIN head : Len(new.name) > Len(head[i].name)}
<1>1. /\ DOMAIN head = 1..Len(head) /\ Len(head) \in Nat
      /\ \A i \in 1..Len(head) : head[i] \in Entry
  BY DEF Heads
<1>2. r = IF FirstIn(S) = 0 THEN Append(head, new) ELSE InsertAt(head, FirstIn(S), new)
  BY DEF ReadEntry, InsertBefore, First, FirstIn
<1>3. S \in SUBSET (1..Len(head))
  BY <1>1
<1> HIDE DEF r, S
<1>4. r \in Heads /\ IsPlaced(head, S, new, r)
  BY <1>2, <1>3, Placed DEF Heads
<1>5. PICK p : /\ IsInserted(head, p, new, r)
               /\ \A i \in 1..(p - 1) : i \notin S
               /\ p \in S \/ p = Len(head) + 1
  BY <1>4 DEF IsPlaced
<1>6. /\ \A i \in DOMAIN r : ComesFrom(head, p, new, r, i)
      /\ ToSet(r) = ToSet(head) \cup {new}
  BY <1>4, <1>5, InsertedFrom DEF Heads
<1>7. /\ DOMAIN r = 1..(Len(head) + 1) /\ p \in 1..(Len(head) + 1)
      /\ \A i \in DOMAIN r : i \in Nat
  BY <1>1, <1>4, <1>5 DEF IsInserted, Heads
<1>8. ASSUME LongestFirst(head)
      PROVE  LongestFirst(r)
  <2>1. \A i \in 1..Len(head) : i < p => Len(new.name) <= Len(head[i].name)
    <3> SUFFICES ASSUME NEW i \in 1..Len(head), i < p
                 PROVE  Len(new.name) <= Len(head[i].name)
      OBVIOUS
    <3>1. i \notin S
      BY <1>5, <1>7
    <3>2. Len(new.name) \in Nat /\ Len(head[i].name) \in Nat
      BY <1>1, EntryHas
    <3> QED
      BY <1>1, <3>1, <3>2 DEF S
  <2>2. \A i \in 1..Len(head) : i >= p => Len(head[i].name) <= Len(new.name)
    <3> SUFFICES ASSUME NEW i \in 1..Len(head), i >= p
                 PROVE  Len(head[i].name) <= Len(new.name)
      OBVIOUS
    <3>1. p \in DOMAIN head /\ Len(new.name) > Len(head[p].name)
      BY <1>1, <1>5, <1>7 DEF S
    <3>2. /\ Len(new.name) \in Nat /\ Len(head[i].name) \in Nat
          /\ Len(head[p].name) \in Nat
      BY <1>1, <3>1, EntryHas
    <3>3. i = p \/ Len(head[i].name) <= Len(head[p].name)
      BY <1>1, <1>8, <3>1 DEF LongestFirst
    <3> QED
      BY <3>1, <3>2, <3>3
  <2> SUFFICES ASSUME NEW i \in DOMAIN r, NEW j \in DOMAIN r, i < j
               PROVE  Len(r[j].name) <= Len(r[i].name)
    BY DEF LongestFirst
  <2>3. /\ \/ i = p /\ r[i] = new
           \/ i < p /\ i \in DOMAIN head /\ r[i] = head[i]
           \/ i > p /\ i - 1 \in DOMAIN head /\ r[i] = head[i - 1]
        /\ \/ j = p /\ r[j] = new
           \/ j < p /\ j \in DOMAIN head /\ r[j] = head[j]
           \/ j > p /\ j - 1 \in DOMAIN head /\ r[j] = head[j - 1]
    BY <1>6 DEF ComesFrom
  <2>4. \A a, b \in 1..Len(head) : a < b => Len(head[b].name) <= Len(head[a].name)
    BY <1>1, <1>8 DEF LongestFirst
  <2>5. i \in Nat /\ j \in Nat /\ p \in Nat
    BY <1>7
  <2>6. CASE i = p
    <3>1. j > p /\ j - 1 \in 1..Len(head) /\ j - 1 >= p /\ r[j] = head[j - 1] /\ r[i] = new
      BY <1>1, <2>3, <2>5, <2>6
    <3> QED
      BY <2>2, <3>1
  <2>7. CASE i < p
    <3>1. i \in 1..Len(head) /\ r[i] = head[i]
      BY <1>1, <2>3, <2>5, <2>7
    <3>2. CASE j = p
      BY <2>1, <2>3, <2>5, <2>7, <3>1, <3>2
    <3>3. CASE j < p
      BY <1>1, <2>3, <2>4, <2>5, <3>1, <3>3
    <3>4. CASE j > p
      BY <1>1, <2>3, <2>4, <2>5, <2>7, <3>1, <3>4
    <3> QED
      BY <2>5, <3>2, <3>3, <3>4
  <2>8. CASE i > p
    <3>1. /\ i - 1 \in 1..Len(head) /\ r[i] = head[i - 1]
          /\ j - 1 \in 1..Len(head) /\ r[j] = head[j - 1] /\ i - 1 < j - 1
      BY <1>1, <2>3, <2>5, <2>8
    <3> QED
      BY <2>4, <3>1
  <2> QED
    BY <2>5, <2>6, <2>7, <2>8
<1>9. ASSUME Unambiguous(head), \A c \in ToSet(head) : ~SameEntry(c, new)
      PROVE  Unambiguous(r)
  <2>1. \A i \in DOMAIN head : ~SameEntry(head[i], new) /\ ~SameEntry(new, head[i])
    BY <1>9 DEF ToSet, SameEntry
  <2> SUFFICES ASSUME NEW i \in DOMAIN r, NEW j \in DOMAIN r, SameEntry(r[i], r[j])
               PROVE  i = j
    BY DEF Unambiguous
  <2>2. /\ \/ i = p /\ r[i] = new
           \/ i < p /\ i \in DOMAIN head /\ r[i] = head[i]
           \/ i > p /\ i - 1 \in DOMAIN head /\ r[i] = head[i - 1]
        /\ \/ j = p /\ r[j] = new
           \/ j < p /\ j \in DOMAIN head /\ r[j] = head[j]
           \/ j > p /\ j - 1 \in DOMAIN head /\ r[j] = head[j - 1]
    BY <1>6 DEF ComesFrom
  <2>3. i \in Nat /\ j \in Nat /\ p \in Nat
    BY <1>7
  <2>4. \A a, b \in DOMAIN head : SameEntry(head[a], head[b]) => a = b
    BY <1>9 DEF Unambiguous
  <2> QED
    BY <2>1, <2>2, <2>3, <2>4
<1> QED
  BY <1>4, <1>6, <1>8, <1>9 DEF r

ReadHead(head) == FoldLeft(ReadEntry, <<>>, head)

LEMMA ReadHeadInduction ==
  ASSUME NEW head \in Heads, NEW Good, <<0, <<>> >> \in Good,
         \A i \in 1..Len(head), c \in Heads :
            <<i - 1, c>> \in Good => <<i, ReadEntry(c, head[i])>> \in Good
  PROVE  ReadHead(head) \in Heads /\ <<Len(head), ReadHead(head)>> \in Good
<1> DEFINE n == Len(head)
           step == [p \in (1..n) \X Heads |-> ReadEntry(p[2], head[p[1]])]
           Eq(it) == it = [s \in SUBSET (1..n) |->
                             IF s = {} THEN <<>>
                             ELSE ReadEntry(it[s \ {Max(s)}], head[Max(s)])]
           it == CHOOSE it : Eq(it)
<1>1. n \in Nat /\ DOMAIN head = 1..n /\ <<>> \in Heads /\ \A i \in 1..n : head[i] \in Entry
  BY DEF Heads
<1>2. /\ step \in [(1..n) \X Heads -> Heads]
      /\ \A i \in 1..n, c \in Heads : step[<<i, c>>] = ReadEntry(c, head[i])
  BY <1>1, ReadEntryIs
<1>3. ReadHead(head) = it[1..n]
  BY <1>1 DEF ReadHead, FoldLeft, MapThenFoldSet
<1> HIDE DEF n, step
<1>4. \E f : Eq(f)
  <2>1. PICK f : IsFoldLeft(f, n, Heads, <<>>, step)
    BY <1>1, <1>2, FoldLeftExists
  <2>2. ASSUME NEW s \in SUBSET (1..n)
        PROVE  f[s] = IF s = {} THEN <<>> ELSE ReadEntry(f[s \ {Max(s)}], head[Max(s)])
    <3>1. s # {} => Max(s) \in 1..n
      BY <1>1, MaxOf
    <3> QED
      BY <1>2, <2>1, <3>1 DEF IsFoldLeft
  <2>3. Eq(f)
    BY <2>1, <2>2 DEF IsFoldLeft
  <2> HIDE DEF Eq
  <2> QED
    BY <2>3
<1>5. Eq(it)
  <2> HIDE DEF Eq
  <2> QED
    BY <1>4
<1> HIDE DEF it
<1>6. PICK g : IsStepped(g, n, Heads, <<>>, step) /\ g[n] = it[1..n]
  <2>1. it[{}] = <<>>
    BY <1>5
  <2>2. \A s \in SUBSET (1..n) :
           s # {} /\ it[s \ {Max(s)}] \in Heads
              => it[s] = step[<<Max(s), it[s \ {Max(s)}]>>]
    BY <1>1, <1>2, <1>5, MaxOf
  <2>3. FoldsLeft(it, n, Heads, <<>>, step)
    BY <2>1, <2>2 DEF FoldsLeft
  <2> HIDE DEF Eq
  <2>4. Reached(it[1..n], n, Heads, <<>>, step)
    BY <1>1, <1>2, <2>3, FoldLeftSteps
  <2> QED
    BY <2>4 DEF Reached
<1> DEFINE Kept == {i \in 0..n : <<i, g[i]>> \in Good}
<1>7. 0 \in Kept
  BY <1>1, <1>6 DEF IsStepped
<1>8. \A i \in 1..n : i - 1 \in Kept => i \in Kept
  <2> SUFFICES ASSUME NEW i \in 1..n, <<i - 1, g[i - 1]>> \in Good
               PROVE  <<i, g[i]>> \in Good
    OBVIOUS
  <2>1. g[i - 1] \in Heads
    BY <1>1, <1>6 DEF IsStepped
  <2>2. g[i] = ReadEntry(g[i - 1], head[i])
    BY <1>2, <1>6, <2>1 DEF IsStepped
  <2> QED
    BY <2>1, <2>2 DEF n
<1>9. 0..n \subseteq Kept
  <2> HIDE DEF Kept
  <2> QED
    BY <1>1, <1>7, <1>8, UpTo
<1>10. n \in 0..n /\ g[n] \in Heads
  BY <1>1, <1>6 DEF IsStepped
<1> QED
  BY <1>3, <1>6, <1>9, <1>10 DEF n

LEMMA ReadHeadIs ==
  ASSUME NEW head \in Heads
  PROVE  /\ ReadHead(head) \in Heads /\ LongestFirst(ReadHead(head))
         /\ ToSet(ReadHead(head)) = ToSet(head)
         /\ Unambiguous(head) => Unambiguous(ReadHead(head))
<1> DEFINE n == Len(head)
           Good == {p \in (0..n) \X Heads :
                      /\ LongestFirst(p[2])
                      /\ ToSet(p[2]) = {head[j] : j \in 1..p[1]}
                      /\ Unambiguous(head) => Unambiguous(p[2])}
<1>1. n \in Nat /\ DOMAIN head = 1..n /\ <<>> \in Heads /\ \A i \in 1..n : head[i] \in Entry
  BY DEF Heads
<1>2. <<0, <<>> >> \in Good
  BY <1>1 DEF LongestFirst, Unambiguous, ToSet
<1>3. ASSUME NEW i \in 1..n, NEW c \in Heads, <<i - 1, c>> \in Good
      PROVE  <<i, ReadEntry(c, head[i])>> \in Good
  <2> DEFINE r == ReadEntry(c, head[i])
  <2>1. /\ LongestFirst(c) /\ ToSet(c) = {head[j] : j \in 1..(i - 1)}
        /\ Unambiguous(head) => Unambiguous(c)
    BY <1>3
  <2>2. /\ r \in Heads /\ ToSet(r) = ToSet(c) \cup {head[i]} /\ LongestFirst(r)
        /\ Unambiguous(c) /\ (\A e \in ToSet(c) : ~SameEntry(e, head[i])) => Unambiguous(r)
    BY <1>1, <2>1, ReadEntryIs
  <2> HIDE DEF r
  <2>3. ToSet(r) = {head[j] : j \in 1..i}
    BY <1>1, <2>1, <2>2
  <2>4. ASSUME Unambiguous(head)
        PROVE  Unambiguous(r)
    <3>1. \A e \in ToSet(c) : ~SameEntry(e, head[i])
      BY <1>1, <2>1, <2>4 DEF Unambiguous
    <3> QED
      BY <2>1, <2>2, <2>4, <3>1
  <2>5. <<i, r>> \in Good
    BY <1>1, <2>2, <2>3, <2>4
  <2> QED
    BY <2>5 DEF r
<1>4. ReadHead(head) \in Heads /\ <<n, ReadHead(head)>> \in Good
  <2> HIDE DEF Good
  <2> QED
    BY <1>2, <1>3, ReadHeadInduction
<1>5. ToSet(ReadHead(head)) = {head[j] : j \in 1..n}
  BY <1>4
<1> QED
  BY <1>1, <1>4, <1>5 DEF ToSet

(***************************************************************************)
(* Reading the file systems: the same ones, in the order of their types,   *)
(* the entries of each read.                                               *)
(***************************************************************************)
FsLists == Seq(Fs)
OneOfEach(list) == \A i, j \in DOMAIN list : list[i].fstype = list[j].fstype => i = j
InOrder(list) == \A i, j \in DOMAIN list : i < j => list[i].fstype <= list[j].fstype
SortedFs(g) == [fstype |-> g.fstype, head |-> ReadHead(g.head)]

LEMMA FsHas ==
  ASSUME NEW g \in Fs
  PROVE  g.fstype \in FsTypes /\ g.fstype \in Nat /\ g.head \in Heads
BY NumbersAssumption DEF Fs, Heads

LEMMA SortedFsIs ==
  ASSUME NEW g \in Fs
  PROVE  /\ [g EXCEPT !.head = ReadHead(@)] = SortedFs(g)
         /\ SortedFs(g) \in Fs /\ SortedFs(g).fstype = g.fstype
         /\ SortedFs(g).head = ReadHead(g.head)
<1>1. g.fstype \in FsTypes /\ g.head \in Heads /\ ReadHead(g.head) \in Heads
  BY FsHas, ReadHeadIs
<1> QED
  BY <1>1 DEF SortedFs, Fs, Heads

LEMMA ReadFsIs ==
  ASSUME NEW list \in FsLists, NEW new \in Fs
  PROVE  /\ ReadFs(list, new) \in FsLists
         /\ ToSet(ReadFs(list, new)) = ToSet(list) \cup {SortedFs(new)}
         /\ InOrder(list) => InOrder(ReadFs(list, new))
         /\ OneOfEach(list) /\ (\A g \in ToSet(list) : g.fstype # new.fstype)
               => OneOfEach(ReadFs(list, new))
<1> DEFINE r == ReadFs(list, new)
           s == SortedFs(new)
           S == {i \in DOMAIN list : new.fstype < list[i].fstype}
<1>1. /\ DOMAIN list = 1..Len(list) /\ Len(list) \in Nat
      /\ \A i \in 1..Len(list) : list[i] \in Fs
  BY DEF FsLists
<1>0. s \in Fs /\ s.fstype = new.fstype /\ s.fstype \in Nat
  BY SortedFsIs, FsHas
<1>2. r = IF FirstIn(S) = 0 THEN Append(list, s) ELSE InsertAt(list, FirstIn(S), s)
  <2>1. [new EXCEPT !.head = ReadHead(@)] = s
    BY SortedFsIs
  <2>2. r = IF FirstIn(S) = 0 THEN Append(list, [new EXCEPT !.head = ReadHead(@)])
            ELSE InsertAt(list, FirstIn(S), [new EXCEPT !.head = ReadHead(@)])
    BY DEF ReadFs, InsertBefore, First, FirstIn, ReadHead
  <2> HIDE DEF r, s, S
  <2> QED
    BY <2>1, <2>2
<1>3. S \in SUBSET (1..Len(list))
  BY <1>1
<1> HIDE DEF r, S, s
<1>4. r \in FsLists /\ IsPlaced(list, S, s, r)
  BY <1>0, <1>2, <1>3, Placed DEF FsLists
<1>5. PICK p : /\ IsInserted(list, p, s, r)
               /\ \A i \in 1..(p - 1) : i \notin S
               /\ p \in S \/ p = Len(list) + 1
  BY <1>4 DEF IsPlaced
<1>6. /\ \A i \in DOMAIN r : ComesFrom(list, p, s, r, i)
      /\ ToSet(r) = ToSet(list) \cup {s}
  BY <1>4, <1>5, InsertedFrom DEF FsLists
<1>7. /\ DOMAIN r = 1..(Len(list) + 1) /\ p \in 1..(Len(list) + 1)
      /\ \A i \in DOMAIN r : i \in Nat
  BY <1>1, <1>4, <1>5 DEF IsInserted, FsLists
<1>8. ASSUME InOrder(list)
      PROVE  InOrder(r)
  <2>1. \A i \in 1..Len(list) : i < p => list[i].fstype <= s.fstype
    <3> SUFFICES ASSUME NEW i \in 1..Len(list), i < p
                 PROVE  list[i].fstype <= s.fstype
      OBVIOUS
    <3>1. i \notin S
      BY <1>5, <1>7
    <3>2. s.fstype \in Nat /\ list[i].fstype \in Nat
      BY <1>0, <1>1, FsHas
    <3> QED
      BY <1>0, <1>1, <3>1, <3>2 DEF S
  <2>2. \A i \in 1..Len(list) : i >= p => s.fstype <= list[i].fstype
    <3> SUFFICES ASSUME NEW i \in 1..Len(list), i >= p
                 PROVE  s.fstype <= list[i].fstype
      OBVIOUS
    <3>1. p \in DOMAIN list /\ s.fstype < list[p].fstype
      BY <1>0, <1>1, <1>5, <1>7 DEF S
    <3>2. /\ s.fstype \in Nat /\ list[i].fstype \in Nat /\ list[p].fstype \in Nat
      BY <1>0, <1>1, <3>1, FsHas
    <3>3. i = p \/ list[p].fstype <= list[i].fstype
      BY <1>1, <1>8, <3>1 DEF InOrder
    <3> QED
      BY <3>1, <3>2, <3>3
  <2> SUFFICES ASSUME NEW i \in DOMAIN r, NEW j \in DOMAIN r, i < j
               PROVE  r[i].fstype <= r[j].fstype
    BY DEF InOrder
  <2>3. /\ \/ i = p /\ r[i] = s
           \/ i < p /\ i \in DOMAIN list /\ r[i] = list[i]
           \/ i > p /\ i - 1 \in DOMAIN list /\ r[i] = list[i - 1]
        /\ \/ j = p /\ r[j] = s
           \/ j < p /\ j \in DOMAIN list /\ r[j] = list[j]
           \/ j > p /\ j - 1 \in DOMAIN list /\ r[j] = list[j - 1]
    BY <1>6 DEF ComesFrom
  <2>4. \A a, b \in 1..Len(list) : a < b => list[a].fstype <= list[b].fstype
    BY <1>1, <1>8 DEF InOrder
  <2>5. i \in Nat /\ j \in Nat /\ p \in Nat
    BY <1>7
  <2>6. CASE i = p
    <3>1. j > p /\ j - 1 \in 1..Len(list) /\ j - 1 >= p /\ r[j] = list[j - 1] /\ r[i] = s
      BY <1>1, <2>3, <2>5, <2>6
    <3> QED
      BY <2>2, <3>1
  <2>7. CASE i < p
    <3>1. i \in 1..Len(list) /\ r[i] = list[i]
      BY <1>1, <2>3, <2>5, <2>7
    <3>2. CASE j = p
      BY <2>1, <2>3, <2>5, <2>7, <3>1, <3>2
    <3>3. CASE j < p
      BY <1>1, <2>3, <2>4, <2>5, <3>1, <3>3
    <3>4. CASE j > p
      BY <1>1, <2>3, <2>4, <2>5, <2>7, <3>1, <3>4
    <3> QED
      BY <2>5, <3>2, <3>3, <3>4
  <2>8. CASE i > p
    <3>1. /\ i - 1 \in 1..Len(list) /\ r[i] = list[i - 1]
          /\ j - 1 \in 1..Len(list) /\ r[j] = list[j - 1] /\ i - 1 < j - 1
      BY <1>1, <2>3, <2>5, <2>8
    <3> QED
      BY <2>4, <3>1
  <2> QED
    BY <2>5, <2>6, <2>7, <2>8
<1>9. ASSUME OneOfEach(list), \A g \in ToSet(list) : g.fstype # new.fstype
      PROVE  OneOfEach(r)
  <2>1. \A i \in DOMAIN list : list[i].fstype # s.fstype
    BY <1>0, <1>9 DEF ToSet
  <2> SUFFICES ASSUME NEW i \in DOMAIN r, NEW j \in DOMAIN r, r[i].fstype = r[j].fstype
               PROVE  i = j
    BY DEF OneOfEach
  <2>2. /\ \/ i = p /\ r[i] = s
           \/ i < p /\ i \in DOMAIN list /\ r[i] = list[i]
           \/ i > p /\ i - 1 \in DOMAIN list /\ r[i] = list[i - 1]
        /\ \/ j = p /\ r[j] = s
           \/ j < p /\ j \in DOMAIN list /\ r[j] = list[j]
           \/ j > p /\ j - 1 \in DOMAIN list /\ r[j] = list[j - 1]
    BY <1>6 DEF ComesFrom
  <2>3. i \in Nat /\ j \in Nat /\ p \in Nat
    BY <1>7
  <2>4. \A a, b \in DOMAIN list : list[a].fstype = list[b].fstype => a = b
    BY <1>9 DEF OneOfEach
  <2> QED
    BY <2>1, <2>2, <2>3, <2>4
<1> QED
  BY <1>4, <1>6, <1>8, <1>9 DEF r, s

LEMMA ReadInduction ==
  ASSUME NEW list \in FsLists, NEW Good, <<0, <<>> >> \in Good,
         \A i \in 1..Len(list), c \in FsLists :
            <<i - 1, c>> \in Good => <<i, ReadFs(c, list[i])>> \in Good
  PROVE  Read(list) \in FsLists /\ <<Len(list), Read(list)>> \in Good
<1> DEFINE n == Len(list)
           step == [p \in (1..n) \X FsLists |-> ReadFs(p[2], list[p[1]])]
           Eq(it) == it = [s \in SUBSET (1..n) |->
                             IF s = {} THEN <<>>
                             ELSE ReadFs(it[s \ {Max(s)}], list[Max(s)])]
           it == CHOOSE it : Eq(it)
<1>1. n \in Nat /\ DOMAIN list = 1..n /\ <<>> \in FsLists /\ \A i \in 1..n : list[i] \in Fs
  BY DEF FsLists
<1>2. /\ step \in [(1..n) \X FsLists -> FsLists]
      /\ \A i \in 1..n, c \in FsLists : step[<<i, c>>] = ReadFs(c, list[i])
  BY <1>1, ReadFsIs
<1>3. Read(list) = it[1..n]
  BY <1>1 DEF Read, FoldLeft, MapThenFoldSet
<1> HIDE DEF n, step
<1>4. \E f : Eq(f)
  <2>1. PICK f : IsFoldLeft(f, n, FsLists, <<>>, step)
    BY <1>1, <1>2, FoldLeftExists
  <2>2. ASSUME NEW s \in SUBSET (1..n)
        PROVE  f[s] = IF s = {} THEN <<>> ELSE ReadFs(f[s \ {Max(s)}], list[Max(s)])
    <3>1. s # {} => Max(s) \in 1..n
      BY <1>1, MaxOf
    <3> QED
      BY <1>2, <2>1, <3>1 DEF IsFoldLeft
  <2>3. Eq(f)
    BY <2>1, <2>2 DEF IsFoldLeft
  <2> HIDE DEF Eq
  <2> QED
    BY <2>3
<1>5. Eq(it)
  <2> HIDE DEF Eq
  <2> QED
    BY <1>4
<1> HIDE DEF it
<1>6. PICK g : IsStepped(g, n, FsLists, <<>>, step) /\ g[n] = it[1..n]
  <2>1. it[{}] = <<>>
    BY <1>5
  <2>2. \A s \in SUBSET (1..n) :
           s # {} /\ it[s \ {Max(s)}] \in FsLists
              => it[s] = step[<<Max(s), it[s \ {Max(s)}]>>]
    BY <1>1, <1>2, <1>5, MaxOf
  <2>3. FoldsLeft(it, n, FsLists, <<>>, step)
    BY <2>1, <2>2 DEF FoldsLeft
  <2> HIDE DEF Eq
  <2>4. Reached(it[1..n], n, FsLists, <<>>, step)
    BY <1>1, <1>2, <2>3, FoldLeftSteps
  <2> QED
    BY <2>4 DEF Reached
<1> DEFINE Kept == {i \in 0..n : <<i, g[i]>> \in Good}
<1>7. 0 \in Kept
  BY <1>1, <1>6 DEF IsStepped
<1>8. \A i \in 1..n : i - 1 \in Kept => i \in Kept
  <2> SUFFICES ASSUME NEW i \in 1..n, <<i - 1, g[i - 1]>> \in Good
               PROVE  <<i, g[i]>> \in Good
    OBVIOUS
  <2>1. g[i - 1] \in FsLists
    BY <1>1, <1>6 DEF IsStepped
  <2>2. g[i] = ReadFs(g[i - 1], list[i])
    BY <1>2, <1>6, <2>1 DEF IsStepped
  <2> QED
    BY <2>1, <2>2 DEF n
<1>9. 0..n \subseteq Kept
  <2> HIDE DEF Kept
  <2> QED
    BY <1>1, <1>7, <1>8, UpTo
<1>10. n \in 0..n /\ g[n] \in FsLists
  BY <1>1, <1>6 DEF IsStepped
<1> QED
  BY <1>3, <1>6, <1>9, <1>10 DEF n

LEMMA ReadableIs ==
  ASSUME NEW list \in FsLists
  PROVE  Readable(list) <=> /\ OneOfEach(list)
                            /\ \A g \in ToSet(list) : Unambiguous(g.head)
BY DEF Readable, OneOfEach, ToSet, Unambiguous

LEMMA ReadIs ==
  ASSUME NEW list \in FsLists, Readable(list)
  PROVE  /\ Read(list) \in FsLists /\ InOrder(Read(list)) /\ OneOfEach(Read(list))
         /\ ToSet(Read(list)) = {SortedFs(g) : g \in ToSet(list)}
<1> DEFINE n == Len(list)
           Good == {p \in (0..n) \X FsLists :
                      /\ InOrder(p[2]) /\ OneOfEach(p[2])
                      /\ ToSet(p[2]) = {SortedFs(list[j]) : j \in 1..p[1]}}
<1>1. n \in Nat /\ DOMAIN list = 1..n /\ <<>> \in FsLists /\ \A i \in 1..n : list[i] \in Fs
  BY DEF FsLists
<1>0. OneOfEach(list)
  BY ReadableIs
<1>2. <<0, <<>> >> \in Good
  BY <1>1 DEF InOrder, OneOfEach, ToSet
<1>3. ASSUME NEW i \in 1..n, NEW c \in FsLists, <<i - 1, c>> \in Good
      PROVE  <<i, ReadFs(c, list[i])>> \in Good
  <2> DEFINE r == ReadFs(c, list[i])
  <2>1. /\ InOrder(c) /\ OneOfEach(c)
        /\ ToSet(c) = {SortedFs(list[j]) : j \in 1..(i - 1)}
    BY <1>3
  <2>2. /\ r \in FsLists /\ ToSet(r) = ToSet(c) \cup {SortedFs(list[i])} /\ InOrder(r)
        /\ (\A g \in ToSet(c) : g.fstype # list[i].fstype) => OneOfEach(r)
    BY <1>1, <2>1, ReadFsIs
  <2> HIDE DEF r
  <2>3. ToSet(r) = {SortedFs(list[j]) : j \in 1..i}
    BY <1>1, <2>1, <2>2
  <2>4. \A g \in ToSet(c) : g.fstype # list[i].fstype
    <3> SUFFICES ASSUME NEW j \in 1..(i - 1)
                 PROVE  SortedFs(list[j]).fstype # list[i].fstype
      BY <2>1
    <3>1. j \in 1..n /\ j # i
      BY <1>1
    <3> QED
      BY <1>0, <1>1, <3>1, SortedFsIs DEF OneOfEach
  <2>5. <<i, r>> \in Good
    BY <1>1, <2>2, <2>3, <2>4
  <2> QED
    BY <2>5 DEF r
<1>4. Read(list) \in FsLists /\ <<n, Read(list)>> \in Good
  <2> HIDE DEF Good
  <2> QED
    BY <1>2, <1>3, ReadInduction
<1>5. ToSet(Read(list)) = {SortedFs(list[j]) : j \in 1..n}
  BY <1>4
<1>6. {SortedFs(list[j]) : j \in 1..n} = {SortedFs(g) : g \in ToSet(list)}
  BY <1>1 DEF ToSet
<1> QED
  BY <1>4, <1>5, <1>6

(***************************************************************************)
(* The label of a file.  Two entries that match a path and have names of   *)
(* one length are for one name, and then one entry: the label is that of   *)
(* the longest entry, and depends on the set of entries only.              *)
(***************************************************************************)
EntriesIn(list, fs) == UNION {ToSet(g.head) : g \in {h \in ToSet(list) : h.fstype = fs}}
Matching(E, path, class) == {c \in E : IsMatch(c, path, class)}
Longest(M, c) == c \in M /\ \A d \in M : Len(d.name) <= Len(c.name)

LEMMA EntriesForIs ==
  ASSUME NEW fs
  PROVE  EntriesFor(fs) = EntriesIn(genfs, fs)
BY DEF EntriesFor, EntriesIn, ToSet

\* The entries of a readable list are those of one file system.
LEMMA OneFs ==
  ASSUME NEW list \in FsLists, Readable(list), NEW k \in DOMAIN list
  PROVE  /\ EntriesIn(list, list[k].fstype) = ToSet(list[k].head)
         /\ Unambiguous(list[k].head) /\ list[k].head \in Heads /\ list[k] \in Fs
<1>1. OneOfEach(list) /\ \A g \in ToSet(list) : Unambiguous(g.head)
  BY ReadableIs
<1>2. {h \in ToSet(list) : h.fstype = list[k].fstype} = {list[k]}
  BY <1>1 DEF OneOfEach, ToSet
<1>3. list[k] \in ToSet(list) /\ list[k] \in Fs
  BY DEF ToSet, FsLists
<1> QED
  BY <1>1, <1>2, <1>3, FsHas DEF EntriesIn

LEMMA NoFs ==
  ASSUME NEW list, NEW fs, \A k \in DOMAIN list : list[k].fstype # fs
  PROVE  EntriesIn(list, fs) = {}
BY DEF EntriesIn, ToSet

LEMMA EntriesTyped ==
  ASSUME NEW list \in FsLists, NEW fs
  PROVE  EntriesIn(list, fs) \subseteq Entry
<1> SUFFICES ASSUME NEW k \in DOMAIN list, NEW j \in DOMAIN list[k].head
             PROVE  list[k].head[j] \in Entry
  BY DEF EntriesIn, ToSet
<1>1. list[k] \in Fs
  BY DEF FsLists
<1> QED
  BY <1>1, FsHas DEF Heads

LEMMA ReadReadable ==
  ASSUME NEW list \in FsLists, Readable(list)
  PROVE  /\ Read(list) \in FsLists /\ Readable(Read(list))
         /\ \A fs : EntriesIn(Read(list), fs) = EntriesIn(list, fs)
<1> DEFINE saved == Read(list)
<1>1. /\ saved \in FsLists /\ OneOfEach(saved)
      /\ ToSet(saved) = {SortedFs(g) : g \in ToSet(list)}
  BY ReadIs
<1>2. \A g \in ToSet(list) : g \in Fs /\ Unambiguous(g.head) /\ g.head \in Heads
  BY ReadableIs, FsHas DEF ToSet, FsLists
<1>3. \A g \in ToSet(list) : /\ SortedFs(g).fstype = g.fstype
                             /\ SortedFs(g).head = ReadHead(g.head)
                             /\ Unambiguous(ReadHead(g.head))
                             /\ ToSet(ReadHead(g.head)) = ToSet(g.head)
  BY <1>2, SortedFsIs, ReadHeadIs
<1> HIDE DEF saved
<1>4. \A g \in ToSet(saved) : Unambiguous(g.head)
  BY <1>1, <1>3
<1>5. Readable(saved)
  BY <1>1, <1>4, ReadableIs
<1>6. ASSUME NEW fs
      PROVE  EntriesIn(saved, fs) = EntriesIn(list, fs)
  <2>1. {h \in ToSet(saved) : h.fstype = fs}
          = {SortedFs(g) : g \in {h \in ToSet(list) : h.fstype = fs}}
    BY <1>1, <1>3
  <2>2. {ToSet(g.head) : g \in {h \in ToSet(saved) : h.fstype = fs}}
          = {ToSet(g.head) : g \in {h \in ToSet(list) : h.fstype = fs}}
    BY <1>3, <2>1
  <2> QED
    BY <2>2 DEF EntriesIn
<1> QED
  BY <1>1, <1>5, <1>6 DEF saved

\* The walk of a lookup: the file system, and the first entry that matches.
LEMMA LabelFound ==
  ASSUME NEW list \in FsLists, Readable(list), NEW fs \in FsTypes,
         NEW path \in Paths, NEW class \in Classes,
         NEW M, M = Matching(EntriesIn(list, fs), path, class)
  PROVE  /\ M = {} => Label(Read(list), fs, path, class) = None
         /\ M # {} => \E c : Longest(M, c) /\ Label(Read(list), fs, path, class) = c.context
<1> DEFINE saved == Read(list)
           S  == {i \in DOMAIN saved : fs <= saved[i].fstype}
           at == FirstIn(S)
           label == Label(saved, fs, path, class)
<1>1. /\ saved \in FsLists /\ Readable(saved) /\ InOrder(saved)
      /\ EntriesIn(saved, fs) = EntriesIn(list, fs)
      /\ ToSet(saved) = {SortedFs(g) : g \in ToSet(list)}
  BY ReadReadable, ReadIs
<1>2. /\ DOMAIN saved = 1..Len(saved) /\ Len(saved) \in Nat
      /\ \A i \in 1..Len(saved) : saved[i].fstype \in Nat
  BY <1>1, FsHas DEF FsLists
<1>3. S \in SUBSET (1..Len(saved)) /\ fs \in Nat
  BY <1>2, NumbersAssumption
<1>4. label = IF at = 0 \/ saved[at].fstype # fs THEN None
              ELSE LET i == FirstIn({j \in DOMAIN saved[at].head :
                                        IsMatch(saved[at].head[j], path, class)})
                   IN IF i = 0 THEN None ELSE saved[at].head[i].context
  BY DEF Label, First, FirstIn
<1> HIDE DEF saved, S, at, label
<1>5. \/ at = 0 /\ S = {}
      \/ at # 0 /\ at \in S /\ \A i \in 1..(at - 1) : i \notin S
  BY <1>2, <1>3, FirstInIs DEF at
<1>6. CASE at = 0 \/ saved[at].fstype # fs
  <2>1. ASSUME NEW k \in DOMAIN saved, saved[k].fstype = fs
        PROVE  FALSE
    <3>1. k \in S
      BY <1>3, <2>1 DEF S
    <3>2. at \in S /\ at \in 1..Len(saved) /\ saved[at].fstype # fs /\ fs <= saved[at].fstype
      BY <1>2, <1>3, <1>5, <1>6, <3>1 DEF S
    <3>3. k # at /\ ~(k \in 1..(at - 1)) /\ k \in 1..Len(saved)
      BY <1>2, <1>5, <2>1, <3>1, <3>2
    <3>4. at < k
      BY <3>2, <3>3
    <3>5. saved[at].fstype <= saved[k].fstype
      BY <1>1, <1>2, <3>2, <3>4 DEF InOrder
    <3> QED
      BY <1>2, <1>3, <2>1, <3>2, <3>3, <3>5
  <2>2. M = {}
    BY <1>1, <2>1, NoFs DEF Matching
  <2> QED
    BY <1>4, <1>6, <2>2 DEF label, saved
<1>7. CASE at # 0 /\ saved[at].fstype = fs
  <2> DEFINE head == saved[at].head
             T == {j \in DOMAIN head : IsMatch(head[j], path, class)}
             i == FirstIn(T)
  <2>1. at \in DOMAIN saved
    BY <1>2, <1>3, <1>5, <1>7
  <2>2. EntriesIn(saved, fs) = ToSet(head) /\ head \in Heads
    BY <1>1, <1>7, <2>1, OneFs
  <2>3. LongestFirst(head)
    <3>1. saved[at] \in ToSet(saved)
      BY <2>1 DEF ToSet
    <3>2. PICK k \in DOMAIN list : saved[at] = SortedFs(list[k])
      BY <1>1, <3>1 DEF ToSet
    <3>3. list[k] \in Fs
      BY DEF FsLists
    <3> QED
      BY <3>2, <3>3, FsHas, SortedFsIs, ReadHeadIs
  <2>4. label = IF i = 0 THEN None ELSE head[i].context
    BY <1>4, <1>7
  <2>5. M = {head[j] : j \in T}
    BY <1>1, <2>2 DEF Matching, ToSet
  <2> HIDE DEF head
  <2>6. /\ DOMAIN head = 1..Len(head) /\ Len(head) \in Nat
        /\ \A j \in 1..Len(head) : head[j] \in Entry
    BY <2>2 DEF Heads
  <2>7. T \in SUBSET (1..Len(head))
    BY <2>6
  <2> HIDE DEF T, i
  <2>8. \/ i = 0 /\ T = {}
        \/ i # 0 /\ i \in T /\ \A j \in 1..(i - 1) : j \notin T
    BY <2>6, <2>7, FirstInIs DEF i
  <2>9. CASE i = 0
    <3>1. M = {}
      BY <2>5, <2>8, <2>9
    <3> QED
      BY <2>4, <2>9, <3>1 DEF label, saved
  <2>10. CASE i # 0
    <3>1. ASSUME NEW j \in T
          PROVE  Len(head[j].name) <= Len(head[i].name)
      <4>1. i \in 1..Len(head) /\ j \in 1..Len(head) /\ ~(j \in 1..(i - 1))
        BY <2>7, <2>8, <2>10
      <4>2. j = i \/ i < j
        BY <4>1
      <4>3. Len(head[i].name) \in Nat
        BY <2>6, <4>1, EntryHas
      <4> QED
        BY <2>3, <2>6, <4>1, <4>2, <4>3 DEF LongestFirst
    <3>2. Longest(M, head[i])
      BY <2>5, <2>8, <2>10, <3>1 DEF Longest
    <3>3. label = head[i].context
      BY <2>4, <2>10
    <3>4. M # {}
      BY <3>2 DEF Longest
    <3> QED
      BY <3>2, <3>3, <3>4 DEF label, saved
  <2> QED
    BY <2>9, <2>10
<1> QED
  BY <1>6, <1>7

LEMMA SamePrefix ==
  ASSUME NEW p \in Paths, NEW q \in Paths, NEW path \in Paths,
         IsPrefix(p, path), IsPrefix(q, path), Len(p) = Len(q)
  PROVE  p = q
<1>1. p \in Seq(ToSet(p)) /\ q \in Seq(ToSet(q))
  BY PathsAssumption
<1>2. SubSeq(p, 1, Len(p)) = p /\ SubSeq(q, 1, Len(q)) = q
  BY <1>1, SubSeqFull
<1> QED
  BY <1>2 DEF IsPrefix

\* The longest entry is one.
LEMMA LongestIsOne ==
  ASSUME NEW list \in FsLists, Readable(list), NEW fs, NEW path \in Paths, NEW class,
         NEW M, M = Matching(EntriesIn(list, fs), path, class),
         NEW c, NEW d, Longest(M, c), Longest(M, d)
  PROVE  c = d
<1>1. c \in EntriesIn(list, fs) /\ d \in EntriesIn(list, fs)
  BY DEF Longest, Matching
<1>2. PICK k \in DOMAIN list : list[k].fstype = fs
  BY <1>1, NoFs
<1>3. /\ c \in ToSet(list[k].head) /\ d \in ToSet(list[k].head)
      /\ Unambiguous(list[k].head)
  BY <1>1, <1>2, OneFs
<1>4. c \in Entry /\ d \in Entry
  BY <1>1, EntriesTyped
<1>5. Len(c.name) = Len(d.name)
  BY <1>4, EntryHas DEF Longest
<1>6. IsMatch(c, path, class) /\ IsMatch(d, path, class)
  BY DEF Longest, Matching
<1>7. c.name = d.name
  BY <1>4, <1>5, <1>6, EntryHas, SamePrefix DEF IsMatch
<1>8. SameEntry(c, d)
  BY <1>6, <1>7 DEF SameEntry, IsMatch
<1> QED
  BY <1>3, <1>8 DEF ToSet, Unambiguous

LEMMA LabelIs ==
  ASSUME NEW list \in FsLists, Readable(list), NEW fs \in FsTypes,
         NEW path \in Paths, NEW class \in Classes,
         NEW c, Longest(Matching(EntriesIn(list, fs), path, class), c)
  PROVE  Label(Read(list), fs, path, class) = c.context
<1> DEFINE M == Matching(EntriesIn(list, fs), path, class)
<1>1. M # {}
  BY DEF Longest
<1>2. PICK d : Longest(M, d) /\ Label(Read(list), fs, path, class) = d.context
  <2> HIDE DEF M
  <2>1. M = Matching(EntriesIn(list, fs), path, class)
    BY DEF M
  <2> QED
    BY <1>1, <2>1, LabelFound
<1> QED
  BY <1>2, LongestIsOne

\* Two lists with the same entries for the path have the same label for it.
LEMMA SameLabel ==
  ASSUME NEW list \in FsLists, Readable(list), NEW other \in FsLists, Readable(other),
         NEW fs \in FsTypes, NEW path \in Paths, NEW class \in Classes,
         Matching(EntriesIn(list, fs), path, class)
           = Matching(EntriesIn(other, fs), path, class)
  PROVE  Label(Read(list), fs, path, class) = Label(Read(other), fs, path, class)
<1> DEFINE M == Matching(EntriesIn(list, fs), path, class)
<1>0. /\ M = Matching(EntriesIn(list, fs), path, class)
      /\ M = Matching(EntriesIn(other, fs), path, class)
  OBVIOUS
<1> HIDE DEF M
<1>1. CASE M = {}
  <2>1. Label(Read(list), fs, path, class) = None
    BY <1>0, <1>1, LabelFound
  <2>2. Label(Read(other), fs, path, class) = None
    BY <1>0, <1>1, LabelFound
  <2> QED
    BY <2>1, <2>2
<1>2. CASE M # {}
  <2>1. PICK c : Longest(M, c) /\ Label(Read(list), fs, path, class) = c.context
    BY <1>0, <1>2, LabelFound
  <2>2. Label(Read(other), fs, path, class) = c.context
    BY <1>0, <2>1, LabelIs
  <2> QED
    BY <2>1, <2>2
<1> QED
  BY <1>1, <1>2

(***************************************************************************)
(* A genfscon statement: the entry of the name gets the context, or an     *)
(* entry is put in front, and all the other entries stay as they are.      *)
(***************************************************************************)
IsRelabelled(E, name, ctx, R) ==
  /\ \A c : c.name # name => (c \in E <=> c \in R)
  /\ \E c \in R : /\ c.name = name /\ c.context = ctx
                  /\ \/ c.sclass = AnyClass
                     \/ \E d \in E : d.name = name /\ d.sclass = c.sclass

LEMMA Prepended ==
  ASSUME NEW A, NEW list \in Seq(A), NEW new \in A
  PROVE  /\ <<new>> \o list \in Seq(A)
         /\ IsInserted(list, 1, new, <<new>> \o list)
         /\ ToSet(<<new>> \o list) = ToSet(list) \cup {new}
<1> DEFINE one == <<new>>
           r   == one \o list
<1>1. one \in Seq(A) /\ Len(one) = 1 /\ one[1] = new /\ Len(list) \in Nat
  OBVIOUS
<1> HIDE DEF one
<1>2. /\ r \in Seq(A) /\ Len(r) = Len(one) + Len(list)
      /\ \A i \in 1..(Len(one) + Len(list)) :
            r[i] = IF i <= Len(one) THEN one[i] ELSE list[i - Len(one)]
  BY <1>1, ConcatProperties
<1> HIDE DEF r
<1>3. IsInserted(list, 1, new, r)
  BY <1>1, <1>2 DEF IsInserted
<1>4. ToSet(r) = ToSet(list) \cup {new}
  <2>1. DOMAIN r = 1..(Len(list) + 1) /\ DOMAIN list = 1..Len(list) /\ r[1] = new
    BY <1>1, <1>2
  <2>2. ASSUME NEW i \in DOMAIN r, i # 1
        PROVE  i - 1 \in DOMAIN list /\ r[i] = list[i - 1]
    BY <1>1, <1>2, <2>1, <2>2
  <2>3. ASSUME NEW i \in DOMAIN list
        PROVE  i + 1 \in DOMAIN r /\ r[i + 1] = list[i]
    <3>1. i + 1 \in DOMAIN r /\ i + 1 # 1 /\ (i + 1) - 1 = i
      BY <1>1, <2>1
    <3> QED
      BY <2>2, <3>1
  <2>4. 1 \in DOMAIN r
    BY <1>1, <2>1
  <2> QED
    BY <2>1, <2>2, <2>3, <2>4 DEF ToSet
<1> QED
  BY <1>2, <1>3, <1>4 DEF r, one

NewEntry(path, ctx) == [name |-> path, sclass |-> AnyClass, context |-> ctx]
SetContext(c, ctx) == [name |-> c.name, sclass |-> c.sclass, context |-> ctx]

LEMMA ContextSet ==
  ASSUME NEW c \in Entry, NEW ctx \in Contexts
  PROVE  /\ [c EXCEPT !.context = ctx] = SetContext(c, ctx)
         /\ SetContext(c, ctx) \in Entry
         /\ SetContext(c, ctx).name = c.name /\ SetContext(c, ctx).sclass = c.sclass
         /\ SetContext(c, ctx).context = ctx
<1>1. c = [name |-> c.name, sclass |-> c.sclass, context |-> c.context]
  BY DEF Entry
<1> DEFINE n == c.name
           s == c.sclass
           x == c.context
<1>2. c = [name |-> n, sclass |-> s, context |-> x]
  BY <1>1
<1> HIDE DEF n, s, x
<1>3. [[name |-> n, sclass |-> s, context |-> x] EXCEPT !.context = ctx]
         = [name |-> n, sclass |-> s, context |-> ctx]
  OBVIOUS
<1>4. [c EXCEPT !.context = ctx] = SetContext(c, ctx)
  BY <1>2, <1>3 DEF n, s, SetContext
<1> QED
  BY <1>4 DEF Entry, SetContext

\* Replacing the entry at a position keeps the others.
LEMMA EntryReplaced ==
  ASSUME NEW head \in Heads, NEW at \in DOMAIN head, NEW ctx \in Contexts
  PROVE  LET r == [head EXCEPT ![at].context = ctx]
         IN /\ r \in Heads /\ DOMAIN r = DOMAIN head
            /\ r[at] = SetContext(head[at], ctx)
            /\ \A i \in DOMAIN head : i # at => r[i] = head[i]
<1> DEFINE new == SetContext(head[at], ctx)
           n == Len(head)
           r == [head EXCEPT ![at] = new]
<1>1. head \in [1..n -> Entry] /\ n \in Nat /\ DOMAIN head = 1..n /\ head[at] \in Entry
  BY DEF Heads
<1>2. [head[at] EXCEPT !.context = ctx] = new /\ new \in Entry
  BY <1>1, ContextSet
<1>3. [head EXCEPT ![at].context = ctx] = r
  BY <1>2
<1> HIDE DEF new, n
<1>4. r \in [1..n -> Entry] /\ DOMAIN r = 1..n
  BY <1>1, <1>2
<1>5. r[at] = new /\ \A i \in DOMAIN head : i # at => r[i] = head[i]
  BY <1>1
<1>6. r \in Heads
  BY <1>1, <1>4 DEF Heads
<1> QED
  BY <1>1, <1>3, <1>4, <1>5, <1>6 DEF new

LEMMA WithEntryIs ==
  ASSUME NEW head \in Heads, Unambiguous(head), NEW path \in Paths, NEW ctx \in Contexts
  PROVE  /\ WithEntry(head, path, ctx) \in Heads
         /\ Unambiguous(WithEntry(head, path, ctx))
         /\ IsRelabelled(ToSet(head), path, ctx, ToSet(WithEntry(head, path, ctx)))
<1> DEFINE S  == {i \in DOMAIN head : head[i].name = path}
           at == FirstIn(S)
           new == NewEntry(path, ctx)
           r == WithEntry(head, path, ctx)
<1>1. /\ DOMAIN head = 1..Len(head) /\ Len(head) \in Nat
      /\ \A i \in DOMAIN head : head[i] \in Entry
  BY DEF Heads
<1>2. r = IF at = 0 THEN <<new>> \o head ELSE [head EXCEPT ![at].context = ctx]
  BY DEF WithEntry, EntryAt, First, FirstIn, NewEntry
<1>3. \/ at = 0 /\ S = {}
      \/ at # 0 /\ at \in S
  <2>1. S \in SUBSET (1..Len(head))
    BY <1>1
  <2> HIDE DEF S
  <2> QED
    BY <1>1, <2>1, FirstInIs
<1> HIDE DEF r, at
<1>4. CASE at = 0
  <2>1. new \in Entry /\ new.name = path /\ new.context = ctx /\ new.sclass = AnyClass
    BY DEF Entry, NewEntry
  <2> HIDE DEF new
  <2>2. r \in Heads /\ IsInserted(head, 1, new, r) /\ ToSet(r) = ToSet(head) \cup {new}
    BY <1>2, <1>4, <2>1, Prepended DEF Heads
  <2>3. \A i \in DOMAIN r : ComesFrom(head, 1, new, r, i)
    BY <2>2, InsertedFrom DEF Heads
  <2>4. \A i \in DOMAIN head : head[i].name # path
    BY <1>3, <1>4 DEF S
  <2>5. Unambiguous(r)
    <3> SUFFICES ASSUME NEW i \in DOMAIN r, NEW j \in DOMAIN r, SameEntry(r[i], r[j])
                 PROVE  i = j
      BY DEF Unambiguous
    <3>1. /\ \/ i = 1 /\ r[i] = new
             \/ i - 1 \in DOMAIN head /\ r[i] = head[i - 1]
          /\ \/ j = 1 /\ r[j] = new
             \/ j - 1 \in DOMAIN head /\ r[j] = head[j - 1]
          /\ i \in Int /\ j \in Int
      <4>1. DOMAIN r = 1..Len(r) /\ Len(r) \in Nat
        BY <2>2 DEF Heads
      <4> QED
        BY <2>3, <4>1 DEF ComesFrom
    <3>2. r[i].name = r[j].name
      BY DEF SameEntry
    <3>3. \A a, b \in DOMAIN head : SameEntry(head[a], head[b]) => a = b
      BY DEF Unambiguous
    <3> QED
      BY <2>1, <2>4, <3>1, <3>2, <3>3
  <2>6. IsRelabelled(ToSet(head), path, ctx, ToSet(r))
    BY <2>1, <2>2 DEF IsRelabelled
  <2> QED
    BY <2>2, <2>5, <2>6 DEF r
<1>5. CASE at # 0
  <2> DEFINE c == SetContext(head[at], ctx)
  <2>1. at \in DOMAIN head /\ head[at].name = path /\ head[at] \in Entry
    BY <1>1, <1>3, <1>5
  <2>2. /\ r \in Heads /\ DOMAIN r = DOMAIN head /\ r[at] = c
        /\ \A i \in DOMAIN head : i # at => r[i] = head[i]
    BY <1>2, <1>5, <2>1, EntryReplaced
  <2>3. c.name = path /\ c.sclass = head[at].sclass /\ c.context = ctx
    BY <2>1, ContextSet
  <2> HIDE DEF c, S
  <2>4. \A i \in DOMAIN head : r[i].name = head[i].name /\ r[i].sclass = head[i].sclass
    BY <2>1, <2>2, <2>3
  <2>5. Unambiguous(r)
    BY <2>2, <2>4 DEF Unambiguous, SameEntry
  <2>6. ASSUME NEW d, d.name # path
        PROVE  d \in ToSet(head) <=> d \in ToSet(r)
    BY <2>1, <2>2, <2>3, <2>6 DEF ToSet
  <2>7. r[at] \in ToSet(r) /\ head[at] \in ToSet(head)
    BY <2>1, <2>2 DEF ToSet
  <2>8. IsRelabelled(ToSet(head), path, ctx, ToSet(r))
    BY <2>1, <2>2, <2>3, <2>6, <2>7 DEF IsRelabelled
  <2> QED
    BY <2>2, <2>5, <2>8 DEF r
<1> QED
  BY <1>4, <1>5

WithHead(g, head) == [fstype |-> g.fstype, head |-> head]

LEMMA HeadSet ==
  ASSUME NEW g \in Fs, NEW head
  PROVE  [g EXCEPT !.head = head] = WithHead(g, head)
<1> DEFINE f == g.fstype
           h == g.head
<1>1. g = [fstype |-> f, head |-> h]
  BY DEF Fs
<1> HIDE DEF f, h
<1>2. [[fstype |-> f, head |-> h] EXCEPT !.head = head] = [fstype |-> f, head |-> head]
  OBVIOUS
<1> QED
  BY <1>1, <1>2 DEF f, WithHead

LEMMA FsReplaced ==
  ASSUME NEW list \in FsLists, NEW at \in DOMAIN list, NEW head \in Heads
  PROVE  LET r == [list EXCEPT ![at].head = head]
         IN /\ r \in FsLists /\ DOMAIN r = DOMAIN list
            /\ r[at] = WithHead(list[at], head)
            /\ \A i \in DOMAIN list : i # at => r[i] = list[i]
<1> DEFINE new == WithHead(list[at], head)
           n == Len(list)
           r == [list EXCEPT ![at] = new]
<1>1. list \in [1..n -> Fs] /\ n \in Nat /\ DOMAIN list = 1..n /\ list[at] \in Fs
  BY DEF FsLists
<1>2. [list[at] EXCEPT !.head = head] = new /\ new \in Fs
  BY <1>1, HeadSet DEF Fs, WithHead, Heads
<1>3. [list EXCEPT ![at].head = head] = r
  BY <1>2
<1> HIDE DEF new, n
<1>4. r \in [1..n -> Fs] /\ DOMAIN r = 1..n
  BY <1>1, <1>2
<1>5. r[at] = new /\ \A i \in DOMAIN list : i # at => r[i] = list[i]
  BY <1>1
<1>6. r \in FsLists
  BY <1>1, <1>4 DEF FsLists
<1> QED
  BY <1>1, <1>3, <1>4, <1>5, <1>6 DEF new

\* What a statement does to the list of the file systems.
IsAdded(list, fs, path, ctx, r) ==
  /\ r \in FsLists /\ Readable(r)
  /\ \A other : other # fs => EntriesIn(r, other) = EntriesIn(list, other)
  /\ IsRelabelled(EntriesIn(list, fs), path, ctx, EntriesIn(r, fs))

LEMMA Adds ==
  ASSUME genfs \in FsLists, Readable(genfs), NEW fs \in FsTypes,
         NEW path \in Paths, NEW ctx \in Contexts, AddGenfscon(fs, path, ctx)
  PROVE  IsAdded(genfs, fs, path, ctx, genfs')
<1> DEFINE S  == {i \in DOMAIN genfs : genfs[i].fstype = fs}
           at == FirstIn(S)
           first == [fstype |-> fs, head |-> WithEntry(<<>>, path, ctx)]
           r  == genfs'
<1>1. /\ DOMAIN genfs = 1..Len(genfs) /\ Len(genfs) \in Nat
      /\ \A i \in DOMAIN genfs : genfs[i] \in Fs
  BY DEF FsLists
<1>2. r = IF at = 0 THEN <<first>> \o genfs
          ELSE [genfs EXCEPT ![at].head = WithEntry(@, path, ctx)]
  BY DEF AddGenfscon, FsAt, First, FirstIn
<1>3. \/ at = 0 /\ S = {}
      \/ at # 0 /\ at \in S
  <2>1. S \in SUBSET (1..Len(genfs))
    BY <1>1
  <2> HIDE DEF S
  <2> QED
    BY <1>1, <2>1, FirstInIs
<1>4. OneOfEach(genfs) /\ \A g \in ToSet(genfs) : Unambiguous(g.head)
  BY ReadableIs
<1> HIDE DEF r, at
<1>5. CASE at = 0
  <2> DEFINE head == WithEntry(<<>>, path, ctx)
  <2>1. <<>> \in Heads /\ Unambiguous(<<>>) /\ ToSet(<<>>) = {}
    BY DEF Heads, Unambiguous, ToSet
  <2>2. /\ head \in Heads /\ Unambiguous(head)
        /\ IsRelabelled({}, path, ctx, ToSet(head))
    BY <2>1, WithEntryIs
  <2> HIDE DEF head
  <2>3. first \in Fs /\ first.fstype = fs /\ first.head = head
    BY <2>2 DEF Fs, Heads, head
  <2> HIDE DEF first
  <2>4. r \in FsLists /\ IsInserted(genfs, 1, first, r) /\ ToSet(r) = ToSet(genfs) \cup {first}
    BY <1>2, <1>5, <2>3, Prepended DEF FsLists
  <2>5. \A i \in DOMAIN r : ComesFrom(genfs, 1, first, r, i)
    BY <2>4, InsertedFrom DEF FsLists
  <2>6. \A i \in DOMAIN genfs : genfs[i].fstype # fs
    BY <1>3, <1>5 DEF S
  <2>7. OneOfEach(r)
    <3> SUFFICES ASSUME NEW i \in DOMAIN r, NEW j \in DOMAIN r, r[i].fstype = r[j].fstype
                 PROVE  i = j
      BY DEF OneOfEach
    <3>1. /\ \/ i = 1 /\ r[i] = first
             \/ i - 1 \in DOMAIN genfs /\ r[i] = genfs[i - 1]
          /\ \/ j = 1 /\ r[j] = first
             \/ j - 1 \in DOMAIN genfs /\ r[j] = genfs[j - 1]
          /\ i \in Int /\ j \in Int
      <4>1. DOMAIN r = 1..Len(r) /\ Len(r) \in Nat
        BY <2>4 DEF FsLists
      <4> QED
        BY <2>5, <4>1 DEF ComesFrom
    <3>2. \A a, b \in DOMAIN genfs : genfs[a].fstype = genfs[b].fstype => a = b
      BY <1>4 DEF OneOfEach
    <3> QED
      BY <2>3, <2>6, <3>1, <3>2
  <2>8. Readable(r)
    BY <1>4, <2>2, <2>3, <2>4, <2>7, ReadableIs
  <2>9. /\ \A g \in ToSet(genfs) : g.fstype # fs
        /\ EntriesIn(genfs, fs) = {}
    BY <2>6, NoFs DEF ToSet
  <2>10. EntriesIn(r, fs) = ToSet(head)
    <3>1. {h \in ToSet(r) : h.fstype = fs} = {first}
      BY <2>3, <2>4, <2>9
    <3> QED
      BY <2>3, <3>1 DEF EntriesIn
  <2>11. ASSUME NEW other, other # fs
         PROVE  EntriesIn(r, other) = EntriesIn(genfs, other)
    <3>1. {h \in ToSet(r) : h.fstype = other} = {h \in ToSet(genfs) : h.fstype = other}
      BY <2>3, <2>4, <2>11
    <3> QED
      BY <3>1 DEF EntriesIn
  <2> QED
    BY <2>2, <2>4, <2>8, <2>9, <2>10, <2>11 DEF IsAdded, r
<1>6. CASE at # 0
  <2> DEFINE old  == genfs[at].head
             head == WithEntry(old, path, ctx)
             g    == WithHead(genfs[at], head)
  <2>1. at \in DOMAIN genfs /\ genfs[at].fstype = fs /\ genfs[at] \in Fs
    BY <1>1, <1>3, <1>6
  <2>2. EntriesIn(genfs, fs) = ToSet(old) /\ Unambiguous(old) /\ old \in Heads
    BY <2>1, OneFs
  <2> HIDE DEF old
  <2>3. /\ head \in Heads /\ Unambiguous(head)
        /\ IsRelabelled(ToSet(old), path, ctx, ToSet(head))
    BY <2>2, WithEntryIs
  <2>4. r = [genfs EXCEPT ![at].head = head]
    BY <1>2, <1>6 DEF old
  <2> HIDE DEF head
  <2>5. /\ r \in FsLists /\ DOMAIN r = DOMAIN genfs /\ r[at] = g
        /\ \A i \in DOMAIN genfs : i # at => r[i] = genfs[i]
    BY <2>1, <2>3, <2>4, FsReplaced
  <2>6. g.fstype = fs /\ g.head = head
    BY <2>1 DEF WithHead
  <2> HIDE DEF g, S
  <2>7. OneOfEach(r)
    <3>1. \A i \in DOMAIN genfs : r[i].fstype = genfs[i].fstype
      BY <2>1, <2>5, <2>6
    <3> QED
      BY <1>4, <2>5, <3>1 DEF OneOfEach
  <2>8. \A h \in ToSet(r) : Unambiguous(h.head)
    BY <1>4, <2>3, <2>5, <2>6 DEF ToSet
  <2>9. Readable(r)
    BY <2>5, <2>7, <2>8, ReadableIs
  <2>10. EntriesIn(r, fs) = ToSet(head)
    BY <2>1, <2>5, <2>6, <2>9, OneFs
  <2>11. ASSUME NEW other, other # fs
         PROVE  EntriesIn(r, other) = EntriesIn(genfs, other)
    <3>1. {h \in ToSet(r) : h.fstype = other} = {h \in ToSet(genfs) : h.fstype = other}
      BY <2>1, <2>5, <2>6, <2>11 DEF ToSet
    <3> QED
      BY <3>1 DEF EntriesIn
  <2> QED
    BY <2>2, <2>3, <2>5, <2>9, <2>10, <2>11 DEF IsAdded, r
<1> QED
  BY <1>5, <1>6

(***************************************************************************)
(* The theorems.                                                           *)
(***************************************************************************)

\* The file that is saved can be loaded, whatever the statements before it:
\* SavedGenfsLoads is its own inductive invariant.
THEOREM SavedGenfsLoadsAlways == GenfsSpec => []SavedGenfsLoads
<1>1. GenfsInit => SavedGenfsLoads
  <2> SUFFICES ASSUME NEW f \in Files, genfs = Read(f)
               PROVE  SavedGenfsLoads
    BY DEF GenfsInit
  <2>1. f \in FsLists /\ Readable(f)
    BY FilesAssumption DEF FsLists
  <2> QED
    BY <2>1, ReadReadable DEF SavedGenfsLoads, GenfsTypeOK, FsLists
<1>2. SavedGenfsLoads /\ [GenfsNext]_genfs => SavedGenfsLoads'
  <2> SUFFICES ASSUME SavedGenfsLoads, [GenfsNext]_genfs
               PROVE  SavedGenfsLoads'
    OBVIOUS
  <2>1. genfs \in FsLists /\ Readable(genfs)
    BY DEF SavedGenfsLoads, GenfsTypeOK, FsLists
  <2>2. ASSUME NEW fs \in FsTypes, NEW path \in Paths, NEW ctx \in Contexts,
               AddGenfscon(fs, path, ctx)
        PROVE  SavedGenfsLoads'
    BY <2>1, <2>2, Adds DEF IsAdded, SavedGenfsLoads, GenfsTypeOK, FsLists
  <2>3. CASE ReloadGenfs
    BY <2>1, <2>3, ReadReadable DEF ReloadGenfs, SavedGenfsLoads, GenfsTypeOK, FsLists
  <2>4. CASE UNCHANGED genfs
    BY <2>4 DEF SavedGenfsLoads, GenfsTypeOK
  <2> QED
    BY <2>2, <2>3, <2>4 DEF GenfsNext
<1> QED
  BY <1>1, <1>2, PTL DEF GenfsSpec

\* The longest name that covers a path decides its label after the next load,
\* in whatever order the statements came.
THEOREM LongestNameWinsAlways == GenfsSpec => []LongestNameWins
<1>1. SavedGenfsLoads => LongestNameWins
  <2> SUFFICES ASSUME SavedGenfsLoads, NEW fs \in FsTypes, NEW path \in Paths,
                      NEW class \in Classes
               PROVE  LET matching == {c \in EntriesFor(fs) : IsMatch(c, path, class)}
                          label    == Label(Read(genfs), fs, path, class)
                      IN IF matching = {} THEN label = None
                         ELSE \E c \in matching :
                                 /\ label = c.context
                                 /\ \A d \in matching : Len(d.name) <= Len(c.name)
    BY DEF LongestNameWins
  <2> DEFINE M == {c \in EntriesFor(fs) : IsMatch(c, path, class)}
  <2>1. genfs \in FsLists /\ Readable(genfs)
    BY DEF SavedGenfsLoads, GenfsTypeOK, FsLists
  <2>2. M = Matching(EntriesIn(genfs, fs), path, class)
    BY EntriesForIs DEF Matching
  <2> HIDE DEF M
  <2>3. /\ M = {} => Label(Read(genfs), fs, path, class) = None
        /\ M # {} => \E c : /\ Longest(M, c)
                           /\ Label(Read(genfs), fs, path, class) = c.context
    BY <2>1, <2>2, LabelFound
  <2> QED
    BY <2>3 DEF Longest, M
<1> QED
  BY <1>1, SavedGenfsLoadsAlways, PTL

\* A statement gives its context to the files its path decides, and changes
\* the label of no other file.
THEOREM StatementRelabelsAlways == GenfsSpec => StatementRelabels
<1> DEFINE Labels ==
             \A fs \in FsTypes, name \in Paths, ctx \in Contexts :
               AddGenfscon(fs, name, ctx) =>
                 LET saved   == Read(genfs')
                     entries == EntriesFor(fs)
                 IN (\A c \in entries : c.name = name => c.sclass = AnyClass) =>
                      \A path \in Paths, class \in Classes :
                         /\ IsPrefix(name, path)
                         /\ \A c \in entries :
                              IsMatch(c, path, class) => Len(c.name) <= Len(name)
                         => Label(saved, fs, path, class) = ctx
           Others ==
             \A fs \in FsTypes, name \in Paths, ctx \in Contexts :
               AddGenfscon(fs, name, ctx) =>
                 LET old == Read(genfs)
                     new == Read(genfs')
                 IN \A other \in FsTypes, path \in Paths, class \in Classes :
                      other # fs \/ ~IsPrefix(name, path) =>
                        Label(new, other, path, class) = Label(old, other, path, class)
<1>1. SavedGenfsLoads => Labels
  <2> SUFFICES ASSUME SavedGenfsLoads, NEW fs \in FsTypes, NEW name \in Paths,
                      NEW ctx \in Contexts, AddGenfscon(fs, name, ctx),
                      \A c \in EntriesFor(fs) : c.name = name => c.sclass = AnyClass,
                      NEW path \in Paths, NEW class \in Classes, IsPrefix(name, path),
                      \A c \in EntriesFor(fs) :
                         IsMatch(c, path, class) => Len(c.name) <= Len(name)
               PROVE  Label(Read(genfs'), fs, path, class) = ctx
    OBVIOUS
  <2> DEFINE E == EntriesIn(genfs, fs)
             R == EntriesIn(genfs', fs)
  <2>1. genfs \in FsLists /\ Readable(genfs)
    BY DEF SavedGenfsLoads, GenfsTypeOK, FsLists
  <2>2. genfs' \in FsLists /\ Readable(genfs') /\ IsRelabelled(E, name, ctx, R)
    BY <2>1, Adds DEF IsAdded
  <2>3. EntriesFor(fs) = E
    BY EntriesForIs
  <2> HIDE DEF E, R
  <2>4. PICK c \in R : c.name = name /\ c.context = ctx /\ c.sclass = AnyClass
    BY <2>2, <2>3 DEF IsRelabelled
  <2>5. c \in Matching(R, path, class)
    BY <2>4 DEF Matching, IsMatch
  <2>6. name \in Seq(ToSet(name)) /\ Len(name) \in Nat
    BY PathsAssumption, LenProperties
  <2>7. ASSUME NEW d \in Matching(R, path, class)
        PROVE  Len(d.name) <= Len(c.name)
    <3>1. CASE d.name = name
      BY <2>4, <2>6, <3>1
    <3>2. CASE d.name # name
      <4>1. d \in E /\ IsMatch(d, path, class)
        BY <2>2, <2>7, <3>2 DEF IsRelabelled, Matching
      <4> QED
        BY <2>3, <2>4, <4>1
    <3> QED
      BY <3>1, <3>2
  <2>8. Longest(Matching(R, path, class), c)
    BY <2>5, <2>7 DEF Longest
  <2> QED
    BY <2>2, <2>4, <2>8, LabelIs DEF R
<1>2. SavedGenfsLoads => Others
  <2> SUFFICES ASSUME SavedGenfsLoads, NEW fs \in FsTypes, NEW name \in Paths,
                      NEW ctx \in Contexts, AddGenfscon(fs, name, ctx),
                      NEW other \in FsTypes, NEW path \in Paths, NEW class \in Classes,
                      other # fs \/ ~IsPrefix(name, path)
               PROVE  Label(Read(genfs'), other, path, class)
                        = Label(Read(genfs), other, path, class)
    OBVIOUS
  <2>1. genfs \in FsLists /\ Readable(genfs)
    BY DEF SavedGenfsLoads, GenfsTypeOK, FsLists
  <2>2. /\ genfs' \in FsLists /\ Readable(genfs')
        /\ other # fs => EntriesIn(genfs', other) = EntriesIn(genfs, other)
        /\ IsRelabelled(EntriesIn(genfs, fs), name, ctx, EntriesIn(genfs', fs))
    BY <2>1, Adds DEF IsAdded
  <2>3. Matching(EntriesIn(genfs', other), path, class)
          = Matching(EntriesIn(genfs, other), path, class)
    <3>1. CASE other # fs
      BY <2>2, <3>1
    <3>2. CASE other = fs
      BY <2>2, <3>2 DEF IsRelabelled, Matching, IsMatch
    <3> QED
      BY <3>1, <3>2
  <2> QED
    BY <2>1, <2>2, <2>3, SameLabel
<1>3. SavedGenfsLoads => [Labels]_genfs /\ [Others]_genfs
  BY <1>1, <1>2
<1>4. [][Labels]_genfs /\ [][Others]_genfs => StatementRelabels
  BY DEF StatementRelabels, StatementLabels, OthersKeepTheirLabel
<1> HIDE DEF Labels, Others
<1> QED
  BY <1>3, <1>4, SavedGenfsLoadsAlways, PTL
================================================================================
