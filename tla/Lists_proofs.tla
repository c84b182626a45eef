------------------------------ MODULE Lists_proofs ------------------------------
(***************************************************************************)
(* Facts about numbers, finite sets and folds that the proofs of several   *)
(* components need.  Induction is stated without a predicate for a         *)
(* parameter: what fails for some number fails for a least one, and a set  *)
(* that is closed under the step has every number and every finite set.    *)
(***************************************************************************)
EXTENDS Integers, SequencesExt, FiniteSetTheorems, SequenceTheorems, TLAPS,
        WellFoundedInduction

\* Of some natural numbers one is the least.
LEMMA LeastNumber ==
  ASSUME NEW T, T \subseteq Nat, T # {}
  PROVE  \E n \in T : \A m \in T : n <= m
<1>1. PICK n \in T : \A m \in T : ~ (<<m, n>> \in OpToRel(<, Nat))
  BY NatLessThanWellFounded, WFMin, Zenon
<1>2. \A m \in T : ~ (m < n)
  BY <1>1 DEF OpToRel
<1> QED
  BY <1>2

\* A set with 0 and the successor of each of its numbers has all up to n.
LEMMA UpTo ==
  ASSUME NEW n \in Nat, NEW Good, 0 \in Good,
         \A i \in 1..n : i - 1 \in Good => i \in Good
  PROVE  0..n \subseteq Good
<1> DEFINE Wrong == (0..n) \ Good
<1> SUFFICES ASSUME Wrong # {}
             PROVE  FALSE
  OBVIOUS
<1>0. Wrong \subseteq Nat
  OBVIOUS
<1>1. PICK i \in Wrong : \A m \in Wrong : i <= m
  <2> HIDE DEF Wrong
  <2> QED
    BY <1>0, LeastNumber
<1>2. i \in 1..n /\ i - 1 \in 0..n /\ i - 1 \notin Wrong
  BY <1>1
<1> QED
  BY <1>2

\* A set with the empty set and every set of which it has those smaller by one
\* element has all subsets of a finite set.
LEMMA SmallerSets ==
  ASSUME NEW S, IsFiniteSet(S), NEW Good, {} \in Good,
         \A s \in SUBSET S : s # {} /\ (\A x \in s : s \ {x} \in Good) => s \in Good
  PROVE  SUBSET S \subseteq Good
<1> DEFINE Size(s) == Cardinality(s)
           Wrong   == (SUBSET S) \ Good
           Sizes   == {Size(s) : s \in Wrong}
<1>1. \A s \in SUBSET S : IsFiniteSet(s) /\ Size(s) \in Nat
  BY FS_Subset, FS_CardinalityType
<1> SUFFICES ASSUME Wrong # {}
             PROVE  FALSE
  OBVIOUS
<1>2. Sizes # {} /\ Sizes \subseteq Nat
  BY <1>1
<1>3. PICK n \in Sizes : \A m \in Sizes : n <= m
  BY <1>2, LeastNumber
<1>4. PICK s \in Wrong : n = Size(s)
  BY <1>3
<1>5. PICK x \in s : s \ {x} \in Wrong
  BY <1>4
<1>6. Size(s \ {x}) = Size(s) - 1
  BY <1>1, <1>4, <1>5, FS_RemoveElement
<1>7. Size(s \ {x}) \in Sizes /\ Size(s) \in Nat
  BY <1>1, <1>5
<1> HIDE DEF Size, Sizes
<1> QED
  BY <1>3, <1>4, <1>6, <1>7

(***************************************************************************)
(* A fold over a finite set is well defined: MapThenFoldSet has a value,   *)
(* and its steps stay in the set its operator maps into itself.            *)
(***************************************************************************)
IsFold(it, S, A, base, step, pick) ==
  /\ it \in [SUBSET S -> A]
  /\ \A s \in SUBSET S :
        it[s] = IF s = {} THEN base ELSE step[<<pick[s], it[s \ {pick[s]}]>>]

LEMMA FoldExists ==
  ASSUME NEW S, IsFiniteSet(S), NEW A, NEW base \in A,
         NEW step \in [S \X A -> A],
         NEW pick, \A s \in SUBSET S : s # {} => pick[s] \in s
  PROVE  \E it : IsFold(it, S, A, base, step, pick)
<1> DEFINE Small(m) == {s \in SUBSET S : Cardinality(s) <= m}
           Value(it, s) == IF s = {} THEN base ELSE step[<<pick[s], it[s \ {pick[s]}]>>]
           Folds(it, m) == /\ it \in [Small(m) -> A]
                           /\ \A s \in Small(m) : it[s] = Value(it, s)
           Good == {m \in Nat : \E it : Folds(it, m)}
           n    == Cardinality(S)
<1>1. \A s \in SUBSET S : IsFiniteSet(s) /\ Cardinality(s) \in Nat /\ Cardinality(s) <= n
  BY FS_Subset, FS_CardinalityType
<1>2. n \in Nat
  BY FS_CardinalityType
<1>3. ASSUME NEW m \in Nat, NEW s \in Small(m), s # {}
      PROVE  pick[s] \in S /\ m > 0 /\ s \ {pick[s]} \in Small(m - 1)
  <2>1. Cardinality(s \ {pick[s]}) = Cardinality(s) - 1 /\ Cardinality(s) \in Nat
    BY <1>1, <1>3, FS_RemoveElement
  <2>2. Cardinality(s) # 0
    BY <1>1, <1>3, FS_EmptySet
  <2> QED
    BY <1>3, <2>1, <2>2
<1>4. 0 \in Good
  <2> DEFINE it == [s \in Small(0) |-> base]
  <2>1. ASSUME NEW s \in Small(0), s # {}
        PROVE  FALSE
    <3>1. 0 \in Nat
      OBVIOUS
    <3>2. 0 > 0
      BY <1>3, <2>1, <3>1
    <3> QED
      BY <3>2
  <2>2. Folds(it, 0)
    BY <2>1
  <2> QED
    BY <2>2
<1>5. ASSUME NEW m \in 1..n, m - 1 \in Good
      PROVE  m \in Good
  <2>1. PICK it : Folds(it, m - 1)
    BY <1>5
  <2> DEFINE longer == [s \in Small(m) |-> Value(it, s)]
  <2>2. \A s \in Small(m) : longer[s] = Value(it, s) /\ Value(it, s) \in A
    BY <1>3, <2>1
  <2>3. \A s \in Small(m - 1) : s \in Small(m) /\ longer[s] = it[s]
    BY <2>1, <1>1
  <2>4. longer \in [Small(m) -> A]
    BY <2>2
  <2> HIDE DEF longer
  <2>5. ASSUME NEW s \in Small(m)
        PROVE  longer[s] = Value(longer, s)
    <3>1. CASE s = {}
      BY <2>2, <3>1
    <3>2. CASE s # {}
      <4>1. longer[s \ {pick[s]}] = it[s \ {pick[s]}]
        BY <1>3, <2>3, <3>2
      <4> QED
        BY <2>2, <4>1
    <3> QED
      BY <3>1, <3>2
  <2>6. Folds(longer, m)
    BY <2>4, <2>5
  <2> HIDE DEF Folds
  <2> QED
    BY <2>6
<1>6. n \in Good
  <2> HIDE DEF Good
  <2> QED
    BY <1>2, <1>4, <1>5, UpTo
<1>7. PICK it : Folds(it, n)
  BY <1>6
<1>8. Small(n) = SUBSET S
  BY <1>1
<1>9. it \in [SUBSET S -> A] /\ \A s \in SUBSET S : it[s] = Value(it, s)
  BY <1>7, <1>8
<1> QED
  BY <1>9 DEF IsFold

\* Of finitely many numbers one is the greatest, and Max is that one.
LEMMA MaxIs ==
  ASSUME NEW S \in SUBSET Nat, IsFiniteSet(S), S # {}
  PROVE  Max(S) \in S /\ \A x \in S : x <= Max(S)
<1>1. PICK n \in Nat : \A x \in S : x <= n
  <2> DEFINE Good == {s \in SUBSET S : \E n \in Nat : \A x \in s : x <= n}
  <2>1. {} \in Good
    OBVIOUS
  <2>2. ASSUME NEW s \in SUBSET S, NEW y \in s, s \ {y} \in Good
        PROVE  s \in Good
    <3>1. PICK n \in Nat : \A x \in s \ {y} : x <= n
      BY <2>2
    <3>2. \A x \in s : x <= n + y
      BY <3>1
    <3>3. n + y \in Nat
      OBVIOUS
    <3> QED
      BY <3>2, <3>3
  <2>3. SUBSET S \subseteq Good
    <3> HIDE DEF Good
    <3>1. \A s \in SUBSET S : s # {} /\ (\A x \in s : s \ {x} \in Good) => s \in Good
      BY <2>2
    <3> QED
      BY <2>1, <3>1, SmallerSets
  <2> QED
    BY <2>3
<1> DEFINE Gaps == {n - x : x \in S}
<1>2. Gaps # {}
  OBVIOUS
<1>3. Gaps \subseteq Nat
  BY <1>1
<1>5. PICK g \in Gaps : \A h \in Gaps : g <= h
  <2> HIDE DEF Gaps
  <2> QED
    BY <1>2, <1>3, LeastNumber
<1>4. PICK y \in S : g = n - y
  BY <1>5
<1>6. \A x \in S : y >= x
  BY <1>5, <1>4
<1> QED
  BY <1>6 DEF Max

LEMMA MinIs ==
  ASSUME NEW S \in SUBSET Nat, S # {}
  PROVE  Min(S) \in S /\ \A x \in S : Min(S) <= x
BY LeastNumber DEF Min

(***************************************************************************)
(* FoldLeft goes through a sequence from its first position to its last:   *)
(* its MapThenFoldSet takes the greatest position off, so that the value   *)
(* for the positions up to i is the i-th step.                             *)
(***************************************************************************)
LEMMA Positions ==
  ASSUME NEW n \in Nat
  PROVE  /\ \A i \in 0..n : 1..i \in SUBSET (1..n)
         /\ 1..0 = {}
         /\ \A i \in 1..n : /\ 1..i # {} /\ Max(1..i) = i
                           /\ (1..i) \ {i} = 1..(i - 1)
<1>1. ASSUME NEW i \in 1..n
      PROVE  Max(1..i) = i
  <2>1. 1..i \in SUBSET Nat /\ IsFiniteSet(1..i) /\ i \in 1..i
    BY FS_Interval
  <2>2. Max(1..i) \in 1..i /\ \A x \in 1..i : x <= Max(1..i)
    BY <2>1, MaxIs
  <2> QED
    BY <2>1, <2>2
<1>2. \A i \in 0..n : 1..i \in SUBSET (1..n)
  OBVIOUS
<1>3. 1..0 = {}
  OBVIOUS
<1>4. \A i \in 1..n : i \in 1..i /\ (1..i) \ {i} = 1..(i - 1)
  OBVIOUS
<1> QED
  BY <1>1, <1>2, <1>3, <1>4

LEMMA MaxOf ==
  ASSUME NEW n \in Nat, NEW s \in SUBSET (1..n), s # {}
  PROVE  Max(s) \in s /\ Max(s) \in 1..n
<1>1. IsFiniteSet(1..n)
  BY FS_Interval
<1>2. IsFiniteSet(s)
  BY <1>1, FS_Subset
<1>3. s \in SUBSET Nat
  OBVIOUS
<1> QED
  BY <1>2, <1>3, MaxIs

IsFoldLeft(it, n, A, base, step) ==
  /\ it \in [SUBSET (1..n) -> A]
  /\ \A s \in SUBSET (1..n) :
        it[s] = IF s = {} THEN base ELSE step[<<Max(s), it[s \ {Max(s)}]>>]
\* The values of g are those of the fold for longer and longer parts.
IsStepped(g, n, A, base, step) ==
  /\ g \in [0..n -> A] /\ g[0] = base
  /\ \A i \in 1..n : g[i] = step[<<i, g[i - 1]>>]
Reached(v, n, A, base, step) == \E g : IsStepped(g, n, A, base, step) /\ g[n] = v
\* What is known of the fold before its values are known to be in A.
FoldsLeft(it, n, A, base, step) ==
  /\ it[{}] = base
  /\ \A s \in SUBSET (1..n) :
        s # {} /\ it[s \ {Max(s)}] \in A
          => it[s] = step[<<Max(s), it[s \ {Max(s)}]>>]

LEMMA FoldLeftExists ==
  ASSUME NEW n \in Nat, NEW A, NEW base \in A, NEW step \in [(1..n) \X A -> A]
  PROVE  \E it : IsFoldLeft(it, n, A, base, step)
<1> DEFINE pick == [s \in SUBSET (1..n) |-> Max(s)]
<1>1. IsFiniteSet(1..n)
  BY FS_Interval
<1>2. ASSUME NEW s \in SUBSET (1..n), s # {}
      PROVE  pick[s] \in s
  BY <1>2, MaxOf
<1> HIDE DEF pick
<1>3. PICK it : IsFold(it, 1..n, A, base, step, pick)
  <2> DEFINE S == 1..n
  <2>1. IsFiniteSet(S) /\ step \in [S \X A -> A]
    BY <1>1
  <2>2. \A s \in SUBSET S : s # {} => pick[s] \in s
    BY <1>2
  <2> HIDE DEF S
  <2>3. \E it : IsFold(it, S, A, base, step, pick)
    BY <2>1, <2>2, FoldExists
  <2> QED
    BY <2>3 DEF S
<1>4. \A s \in SUBSET (1..n) : pick[s] = Max(s)
  BY DEF pick
<1>5. \A s \in SUBSET (1..n) :
         it[s] = IF s = {} THEN base ELSE step[<<Max(s), it[s \ {Max(s)}]>>]
  BY <1>3, <1>4 DEF IsFold
<1> QED
  BY <1>3, <1>5 DEF IsFold, IsFoldLeft

LEMMA FoldLeftSteps ==
  ASSUME NEW n \in Nat, NEW A, NEW base \in A, NEW step \in [(1..n) \X A -> A],
         NEW it, FoldsLeft(it, n, A, base, step)
  PROVE  Reached(it[1..n], n, A, base, step)
<1> DEFINE Good == {i \in 0..n : it[1..i] \in A}
           g    == [i \in 0..n |-> it[1..i]]
<1>1. ASSUME NEW i \in 1..n, it[1..(i - 1)] \in A
      PROVE  it[1..i] = step[<<i, it[1..(i - 1)]>>]
  <2>1. 1..i \in SUBSET (1..n) /\ 1..i # {}
    OBVIOUS
  <2>2. Max(1..i) = i /\ (1..i) \ {i} = 1..(i - 1)
    BY Positions
  <2> DEFINE s == 1..i
  <2>3. s \in SUBSET (1..n) /\ s # {} /\ it[s \ {Max(s)}] \in A
    BY <1>1, <2>1, <2>2
  <2> HIDE DEF s
  <2>4. it[s] = step[<<Max(s), it[s \ {Max(s)}]>>]
    BY <2>3 DEF FoldsLeft
  <2> QED
    BY <2>2, <2>4 DEF s
<1>2. 0 \in Good
  BY Positions DEF FoldsLeft
<1>3. ASSUME NEW i \in 1..n, i - 1 \in Good
      PROVE  i \in Good
  <2>1. <<i, it[1..(i - 1)]>> \in (1..n) \X A
    BY <1>3
  <2> QED
    BY <1>1, <1>3, <2>1
<1>4. 0..n \subseteq Good
  <2> HIDE DEF Good
  <2> QED
    BY <1>2, <1>3, UpTo
<1>5. g \in [0..n -> A]
  BY <1>4
<1>6. g[0] = base /\ g[n] = it[1..n]
  BY Positions DEF FoldsLeft
<1>7. \A i \in 1..n : g[i] = step[<<i, g[i - 1]>>]
  BY <1>1, <1>4
<1>8. IsStepped(g, n, A, base, step)
  BY <1>5, <1>6, <1>7 DEF IsStepped
<1> QED
  BY <1>6, <1>8 DEF Reached

\* Steps from a set into itself can be taken.
LEMMA SteppedExists ==
  ASSUME NEW n \in Nat, NEW A, NEW base \in A, NEW step \in [(1..n) \X A -> A]
  PROVE  \E g : IsStepped(g, n, A, base, step)
<1>1. PICK it : IsFoldLeft(it, n, A, base, step)
  BY FoldLeftExists
<1>2. FoldsLeft(it, n, A, base, step)
  BY <1>1 DEF IsFoldLeft, FoldsLeft
<1>3. Reached(it[1..n], n, A, base, step)
  BY <1>2, FoldLeftSteps
<1> QED
  BY <1>3 DEF Reached

(***************************************************************************)
(* Lists after one another: what comes out has the elements of all of      *)
(* them.                                                                   *)
(***************************************************************************)
LEMMA Concatenated ==
  ASSUME NEW A, NEW a \in Seq(A), NEW b \in Seq(A)
  PROVE  a \o b \in Seq(A) /\ ToSet(a \o b) = ToSet(a) \cup ToSet(b)
<1>1. /\ a \o b \in Seq(A) /\ Len(a \o b) = Len(a) + Len(b)
      /\ \A i \in 1..(Len(a) + Len(b)) :
            (a \o b)[i] = IF i <= Len(a) THEN a[i] ELSE b[i - Len(a)]
  BY ConcatProperties
<1>2. Len(a) \in Nat /\ Len(b) \in Nat
  OBVIOUS
<1>3. /\ ToSet(a) = {a[i] : i \in 1..Len(a)} /\ ToSet(b) = {b[i] : i \in 1..Len(b)}
      /\ ToSet(a \o b) = {(a \o b)[i] : i \in 1..(Len(a) + Len(b))}
  BY <1>1 DEF ToSet
<1>4. ASSUME NEW i \in 1..(Len(a) + Len(b))
      PROVE  (a \o b)[i] \in ToSet(a) \cup ToSet(b)
  <2>1. CASE i <= Len(a)
    BY <1>1, <1>2, <1>3, <2>1
  <2>2. CASE i > Len(a)
    <3>1. i - Len(a) \in 1..Len(b) /\ (a \o b)[i] = b[i - Len(a)]
      BY <1>1, <1>2, <2>2
    <3> QED
      BY <1>3, <3>1
  <2> QED
    BY <1>2, <2>1, <2>2
<1>5. ASSUME NEW i \in 1..Len(a)
      PROVE  a[i] \in ToSet(a \o b)
  <2>1. i \in 1..(Len(a) + Len(b)) /\ (a \o b)[i] = a[i]
    BY <1>1, <1>2
  <2> QED
    BY <1>3, <2>1
<1>6. ASSUME NEW i \in 1..Len(b)
      PROVE  b[i] \in ToSet(a \o b)
  <2> DEFINE j == i + Len(a)
  <2>1. j \in 1..(Len(a) + Len(b)) /\ ~(j <= Len(a)) /\ j - Len(a) = i
    BY <1>2
  <2>2. (a \o b)[j] = b[j - Len(a)]
    BY <1>1, <2>1
  <2> HIDE DEF j
  <2> QED
    BY <1>3, <2>1, <2>2
<1>7. ToSet(a \o b) \subseteq ToSet(a) \cup ToSet(b)
  BY <1>3, <1>4
<1>8. ToSet(a) \subseteq ToSet(a \o b) /\ ToSet(b) \subseteq ToSet(a \o b)
  BY <1>3, <1>5, <1>6
<1> QED
  BY <1>1, <1>7, <1>8

Flattens(f, seqs) ==
  /\ f[1] = seqs[1] /\ FlattenSeq(seqs) = f[Len(seqs)]
  /\ \A i \in 2..Len(seqs) : f[i] = f[i - 1] \o seqs[i]

LEMMA FlattenSteps ==
  ASSUME NEW A, NEW seqs \in Seq(Seq(A)), Len(seqs) # 0
  PROVE  \E f : Flattens(f, seqs)
<1> DEFINE n == Len(seqs)
           step == [p \in (1..n) \X Seq(A) |-> p[2] \o seqs[p[1]]]
           Eq(f) == f = [i \in 1..n |-> IF i = 1 THEN seqs[i] ELSE f[i - 1] \o seqs[i]]
           f == CHOOSE f : Eq(f)
<1>1. n \in Nat /\ \A i \in 1..n : seqs[i] \in Seq(A)
  OBVIOUS
<1>2. /\ step \in [(1..n) \X Seq(A) -> Seq(A)]
      /\ \A i \in 1..n, a \in Seq(A) : step[<<i, a>>] = a \o seqs[i]
  BY <1>1, ConcatProperties
<1>3. n # 0
  OBVIOUS
<1>4. FlattenSeq(seqs) = f[n]
  BY <1>3 DEF FlattenSeq
<1> HIDE DEF n, step
<1>5. PICK g : IsStepped(g, n, Seq(A), <<>>, step)
  <2>1. <<>> \in Seq(A)
    OBVIOUS
  <2> QED
    BY <1>1, <1>2, <2>1, SteppedExists
<1>6. /\ g \in [0..n -> Seq(A)] /\ g[0] = <<>>
      /\ \A i \in 1..n : g[i] = g[i - 1] \o seqs[i]
  <2>1. /\ g \in [0..n -> Seq(A)] /\ g[0] = <<>>
        /\ \A i \in 1..n : g[i] = step[<<i, g[i - 1]>>]
    BY <1>5 DEF IsStepped
  <2>2. \A i \in 1..n : g[i - 1] \in Seq(A)
    <3>1. \A i \in 1..n : i - 1 \in 0..n
      BY <1>1
    <3> QED
      BY <2>1, <3>1
  <2> QED
    BY <1>2, <2>1, <2>2
<1>7. g[1] = seqs[1]
  <2>1. 1 \in 1..n /\ 1 - 1 = 0
    BY <1>1, <1>3
  <2>2. g[1] = <<>> \o seqs[1] /\ seqs[1] \in Seq(A)
    BY <1>1, <1>6, <2>1
  <2> QED
    BY <2>2, ConcatEmptySeq
<1>8. \E h : Eq(h)
  <2> DEFINE h == [i \in 1..n |-> g[i]]
  <2>1. ASSUME NEW i \in 1..n
        PROVE  h[i] = IF i = 1 THEN seqs[i] ELSE h[i - 1] \o seqs[i]
    <3>1. i # 1 => i - 1 \in 1..n
      BY <1>1
    <3> QED
      BY <1>6, <1>7, <3>1
  <2>2. h = [i \in 1..n |-> h[i]]
    OBVIOUS
  <2>3. Eq(h)
    BY <2>1
  <2> HIDE DEF Eq
  <2> QED
    BY <2>3
<1>9. Eq(f)
  <2> HIDE DEF Eq
  <2> QED
    BY <1>8
<1> HIDE DEF f
<1>10. f[1] = seqs[1] /\ \A i \in 2..n : f[i] = f[i - 1] \o seqs[i]
  <2>1. \A i \in 1..n : f[i] = IF i = 1 THEN seqs[i] ELSE f[i - 1] \o seqs[i]
    BY <1>9
  <2>2. 1 \in 1..n /\ \A i \in 2..n : i \in 1..n /\ i # 1
    BY <1>1, <1>3
  <2> QED
    BY <2>1, <2>2
<1>11. Flattens(f, seqs)
  BY <1>4, <1>10 DEF n, Flattens
<1> QED
  BY <1>11

LEMMA FlattenIs ==
  ASSUME NEW A, NEW seqs \in Seq(Seq(A))
  PROVE  /\ FlattenSeq(seqs) \in Seq(A)
         /\ ToSet(FlattenSeq(seqs)) = UNION {ToSet(seqs[i]) : i \in 1..Len(seqs)}
<1> DEFINE n == Len(seqs)
<1>1. n \in Nat /\ \A i \in 1..n : seqs[i] \in Seq(A)
  OBVIOUS
<1>3. CASE n = 0
  <2>0. seqs = <<>>
    BY <1>3, EmptySeq
  <2>1. FlattenSeq(seqs) = seqs
    BY <1>3 DEF FlattenSeq
  <2>2. UNION {ToSet(seqs[i]) : i \in 1..n} = {} /\ ToSet(<<>>) = {}
    BY <1>3 DEF ToSet
  <2>3. <<>> \in Seq(A) /\ FlattenSeq(seqs) = <<>>
    BY <2>0, <2>1
  <2> QED
    BY <2>2, <2>3
<1>4. CASE n # 0
  <2>1. PICK f : /\ f[1] = seqs[1] /\ FlattenSeq(seqs) = f[n]
                 /\ \A i \in 2..n : f[i] = f[i - 1] \o seqs[i]
    <3>1. PICK f : Flattens(f, seqs)
      BY <1>4, FlattenSteps
    <3> QED
      BY <3>1 DEF Flattens
  <2> HIDE DEF n
  <2> DEFINE Upto(i) == UNION {ToSet(seqs[j]) : j \in 1..i}
             Good == {i \in 0..n : i # 0 => f[i] \in Seq(A) /\ ToSet(f[i]) = Upto(i)}
  <2>8. 0 \in Good
    BY <1>1
  <2>9. ASSUME NEW i \in 1..n, i - 1 \in Good
        PROVE  i \in Good
    <3>1. CASE i = 1
      <4>1. Upto(i) = ToSet(seqs[1])
        BY <3>1
      <4> QED
        BY <1>1, <2>1, <3>1, <4>1
    <3>2. CASE i # 1
      <4>1. i \in 2..n /\ i - 1 # 0
        BY <1>1, <3>2
      <4>2. f[i] = f[i - 1] \o seqs[i] /\ f[i - 1] \in Seq(A) /\ seqs[i] \in Seq(A)
        BY <1>1, <2>1, <2>9, <4>1
      <4>3. f[i] \in Seq(A) /\ ToSet(f[i]) = Upto(i - 1) \cup ToSet(seqs[i])
        BY <2>9, <4>1, <4>2, Concatenated
      <4>4. 1..i = (1..(i - 1)) \cup {i}
        BY <1>1
      <4>5. Upto(i) = Upto(i - 1) \cup ToSet(seqs[i])
        BY <4>4
      <4> QED
        BY <4>3, <4>5
    <3> QED
      BY <3>1, <3>2
  <2>10. 0..n \subseteq Good
    <3> HIDE DEF Good
    <3> QED
      BY <1>1, <2>8, <2>9, UpTo
  <2>11. f[n] \in Seq(A) /\ ToSet(f[n]) = Upto(n)
    <3>1. n \in Good
      <4>1. n \in 0..n
        BY <1>1
      <4> HIDE DEF Good
      <4> QED
        BY <2>10, <4>1
    <3> HIDE DEF Upto
    <3> QED
      BY <1>4, <3>1
  <2> QED
    BY <2>1, <2>11 DEF n
<1> QED
  BY <1>3, <1>4

\* A list between two more elements.
LEMMA Enclosed ==
  ASSUME NEW S, NEW o \in S, NEW c \in S, NEW words \in Seq(S), NEW all,
         all = <<o>> \o words \o <<c>>
  PROVE  /\ all \in Seq(S) /\ Len(all) = Len(words) + 2
         /\ all[1] = o /\ all[Len(words) + 2] = c
         /\ \A i \in 1..Len(words) : all[i + 1] = words[i]
<1> DEFINE n == Len(words)
           open == <<o>>
           close == <<c>>
           front == open \o words
           whole == front \o close
<1>1. /\ open \in Seq(S) /\ Len(open) = 1 /\ open[1] = o
      /\ close \in Seq(S) /\ Len(close) = 1 /\ close[1] = c
      /\ n \in Nat
  OBVIOUS
<1> HIDE DEF open, close
<1>2. /\ front \in Seq(S) /\ Len(front) = 1 + n
      /\ \A i \in 1..(1 + n) : front[i] = IF i <= 1 THEN open[i] ELSE words[i - 1]
  <2>1. /\ front \in Seq(S) /\ Len(front) = Len(open) + Len(words)
        /\ \A i \in 1..(Len(open) + Len(words)) :
              front[i] = IF i <= Len(open) THEN open[i] ELSE words[i - Len(open)]
    BY <1>1, ConcatProperties
  <2> QED
    BY <1>1, <2>1
<1> HIDE DEF front
<1>3. /\ whole \in Seq(S) /\ Len(whole) = 1 + n + 1
      /\ \A i \in 1..(1 + n + 1) :
            whole[i] = IF i <= 1 + n THEN front[i] ELSE close[i - (1 + n)]
  <2>1. /\ whole \in Seq(S) /\ Len(whole) = Len(front) + Len(close)
        /\ \A i \in 1..(Len(front) + Len(close)) :
              whole[i] = IF i <= Len(front) THEN front[i] ELSE close[i - Len(front)]
    BY <1>1, <1>2, ConcatProperties
  <2> HIDE DEF whole, n
  <2> QED
    BY <1>1, <1>2, <2>1
<1> HIDE DEF whole, n
<1>4. whole[1] = o
  <2>1. 1 \in 1..(1 + n) /\ 1 \in 1..(1 + n + 1) /\ 1 <= 1 + n
    BY <1>1
  <2> QED
    BY <1>1, <1>2, <1>3, <2>1
<1>5. whole[n + 2] = c
  <2>1. n + 2 \in 1..(1 + n + 1) /\ ~(n + 2 <= 1 + n) /\ (n + 2) - (1 + n) = 1
    BY <1>1
  <2> QED
    BY <1>1, <1>3, <2>1
<1>6. ASSUME NEW i \in 1..n
      PROVE  whole[i + 1] = words[i]
  <2>1. /\ i + 1 \in 1..(1 + n) /\ i + 1 \in 1..(1 + n + 1) /\ i + 1 <= 1 + n
        /\ ~(i + 1 <= 1) /\ (i + 1) - 1 = i
    BY <1>1
  <2> QED
    BY <1>2, <1>3, <2>1
<1>7. Len(whole) = n + 2
  BY <1>1, <1>3
<1>8. all = whole
  BY DEF whole, front, open, close
<1> QED
  BY <1>3, <1>4, <1>5, <1>6, <1>7, <1>8 DEF n

(***************************************************************************)
(* Sums over a finite set, as MapThenSumSet forms them: pick[s] is the     *)
(* element of s that is added next.                                        *)
(***************************************************************************)
Picks(pick, S) == \A s \in SUBSET S : s # {} => pick[s] \in s
IsSum(it, S, f, pick) ==
  /\ it \in [SUBSET S -> Nat]
  /\ \A s \in SUBSET S : it[s] = IF s = {} THEN 0 ELSE f[pick[s]] + it[s \ {pick[s]}]

LEMMA SumExists ==
  ASSUME NEW S, IsFiniteSet(S), NEW f \in [S -> Nat], NEW pick, Picks(pick, S)
  PROVE  \E it : IsSum(it, S, f, pick)
<1> DEFINE step == [p \in S \X Nat |-> f[p[1]] + p[2]]
<1>1. step \in [S \X Nat -> Nat]
  OBVIOUS
<1>2. \A x \in S, m \in Nat : step[<<x, m>>] = f[x] + m
  OBVIOUS
<1> HIDE DEF step
<1>3. PICK it : IsFold(it, S, Nat, 0, step, pick)
  BY <1>1, FoldExists DEF Picks
<1>4. \A s \in SUBSET S : s # {} => /\ pick[s] \in S
                                   /\ it[s \ {pick[s]}] \in Nat
  BY <1>3 DEF IsFold, Picks
<1>5. IsSum(it, S, f, pick)
  BY <1>2, <1>3, <1>4 DEF IsFold, IsSum
<1> QED
  BY <1>5

\* Two sums of values that differ in one place differ by what differs there.
LEMMA SumChanges ==
  ASSUME NEW S, IsFiniteSet(S), NEW f \in [S -> Nat], NEW h \in [S -> Nat],
         NEW pick, Picks(pick, S), NEW k \in S, \A x \in S \ {k} : f[x] = h[x],
         NEW it, IsSum(it, S, f, pick), NEW ju, IsSum(ju, S, h, pick)
  PROVE  ju[S] + f[k] = it[S] + h[k]
<1> DEFINE Good == {s \in SUBSET S : IF k \in s THEN ju[s] + f[k] = it[s] + h[k]
                                              ELSE ju[s] = it[s]}
<1>1. {} \in Good
  BY DEF IsSum
<1>2. ASSUME NEW s \in SUBSET S, s # {}, \A x \in s : s \ {x} \in Good
      PROVE  s \in Good
  <2> DEFINE x == pick[s]
             r == s \ {x}
  <2>1. x \in s /\ r \in Good
    BY <1>2 DEF Picks
  <2>2. /\ it[s] = f[x] + it[r] /\ ju[s] = h[x] + ju[r]
        /\ it[r] \in Nat /\ ju[r] \in Nat
    BY <1>2 DEF IsSum
  <2>3. f[x] \in Nat /\ h[x] \in Nat /\ f[k] \in Nat /\ h[k] \in Nat
    BY <2>1
  <2>4. CASE x = k
    <3>1. k \notin r /\ k \in s /\ ju[r] = it[r]
      BY <2>1, <2>4
    <3> QED
      BY <2>2, <2>3, <2>4, <3>1
  <2>5. CASE x # k /\ k \in s
    <3>1. k \in r /\ ju[r] + f[k] = it[r] + h[k] /\ f[x] = h[x]
      BY <2>1, <2>5
    <3> HIDE DEF x, r
    <3> QED
      BY <2>2, <2>3, <2>5, <3>1
  <2>6. CASE k \notin s
    <3>1. k \notin r /\ ju[r] = it[r] /\ f[x] = h[x]
      BY <2>1, <2>6
    <3> HIDE DEF x, r
    <3> QED
      BY <2>2, <2>3, <2>6, <3>1
  <2> QED
    BY <2>1, <2>4, <2>5, <2>6
<1>3. SUBSET S \subseteq Good
  <2> HIDE DEF Good
  <2> QED
    BY <1>1, <1>2, SmallerSets
<1> QED
  BY <1>3
================================================================================
