--------------------------- MODULE Statements_proofs ---------------------------
(***************************************************************************)
(* Proofs about Statements: a rule statement, however it is written, is    *)
(* read as the lists it stands for, and its calls change the vectors of    *)
(* the product of these lists, in whatever order they are made.  And a     *)
(* policy whose printed rules are read as a rule file decides as before:   *)
(* whatever is printed of it makes calls that it has obeyed already.       *)
(***************************************************************************)
EXTENDS Statements, Lists_proofs

(***************************************************************************)
(* The words of a rule.                                                    *)
(***************************************************************************)
IsWritten(list) == /\ list \in Seq(ToSet(list))
                   /\ ToSet(list) \cap (Actions \cup Marks) \subseteq {"*"}
IsRule(r) == /\ r.op \in AvActions
             /\ IsWritten(r.s) /\ IsWritten(r.t) /\ IsWritten(r.c) /\ IsWritten(r.p)
WordsFor(names) == {W(x) : x \in names \cup {"{", "}"}}

LEMMA WordIs ==
  ASSUME NEW x
  PROVE  /\ W(x).s = x
         /\ IsId(W(x)) <=> x \notin Actions \cup Marks
         /\ \A y : W(y) = W(x) <=> y = x
<1>1. W(x).s = x /\ W(x).n = <<>>
  BY DEF W
<1>2. ~IsHex(W(x))
  BY <1>1 DEF IsHex
<1>3. ASSUME NEW y, W(y) = W(x)
      PROVE  y = x
  BY <1>3 DEF W
<1> QED
  BY <1>1, <1>2, <1>3 DEF IsId

LEMMA MarksDiffer ==
  /\ \A m \in {"{", "}", "*", ""} : m \in Marks
  /\ W("{") # W("*") /\ W("}") # W("*") /\ W("") # W("*")
  /\ W("") # W("{") /\ W("}") # W("{")
BY WordIs DEF Marks

\* A name in a list of a rule.
LEMMA NameIs ==
  ASSUME NEW list, IsWritten(list), NEW x \in ToSet(list)
  PROVE  /\ IsIdOrStar(W(x)) /\ W(x) # W("{")
         /\ W(x) = W("*") <=> x = "*"
         /\ x # "*" => IsId(W(x)) /\ x # MatchAll
<1>1. "{" \in Marks /\ "" \in Marks /\ "{" # "*" /\ "" # "*"
  BY DEF Marks
<1>2. x # "*" => x \notin Actions \cup Marks
  BY DEF IsWritten
<1>3. x # "{"
  BY <1>1, <1>2
<1>4. W(x) # W("{") /\ (W(x) = W("*") <=> x = "*")
  BY <1>3, WordIs
<1>5. x # "*" => IsId(W(x)) /\ x # MatchAll
  BY <1>1, <1>2, WordIs DEF MatchAll
<1> QED
  BY <1>4, <1>5 DEF IsIdOrStar

LEMMA ListIs ==
  ASSUME NEW list, IsWritten(list)
  PROVE  /\ Len(list) \in Nat /\ DOMAIN list = 1..Len(list)
         /\ \A i \in 1..Len(list) : list[i] \in ToSet(list)
         /\ \A x \in ToSet(list) : \E i \in 1..Len(list) : list[i] = x
         /\ list # <<>> => Len(list) # 0
         /\ list = [i \in 1..Len(list) |-> list[i]]
<1> DEFINE S == ToSet(list)
<1>0. list \in Seq(S)
  BY DEF IsWritten
<1>1. ToSet(list) = {list[i] : i \in DOMAIN list}
  BY DEF ToSet
<1> HIDE DEF S
<1>2. Len(list) \in Nat /\ DOMAIN list = 1..Len(list) /\ list \in [1..Len(list) -> S]
  BY <1>0, LenProperties
<1>3. list # <<>> => Len(list) # 0
  BY <1>0, EmptySeq
<1> QED
  BY <1>1, <1>2, <1>3

LEMMA GroupIs ==
  ASSUME NEW list, IsWritten(list), list # <<>>
  PROVE  /\ Group(list) \in Seq(WordsFor(ToSet(list)))
         /\ Len(list) = 1 => Len(Group(list)) = 1 /\ Group(list)[1] = W(list[1])
         /\ Len(list) # 1 =>
              /\ Len(Group(list)) = Len(list) + 2
              /\ Group(list)[1] = W("{") /\ Group(list)[Len(list) + 2] = W("}")
              /\ \A i \in 1..Len(list) : Group(list)[i + 1] = W(list[i])
<1> DEFINE S == WordsFor(ToSet(list))
           n == Len(list)
           words == Words(list)
           o == W("{")
           c == W("}")
<1>1. n \in Nat /\ n # 0 /\ DOMAIN list = 1..n
  BY ListIs
<1>2. o \in S /\ c \in S /\ \A i \in 1..n : W(list[i]) \in S
  BY ListIs DEF WordsFor
<1>3. words = [i \in 1..n |-> W(list[i])]
  BY <1>1 DEF Words
<1>4. Group(list) = IF n = 1 THEN words ELSE <<o>> \o words \o <<c>>
  BY DEF Group, Braced
<1> HIDE DEF S, n, words, o, c
<1>5. words \in Seq(S) /\ Len(words) = n /\ \A i \in 1..n : words[i] = W(list[i])
  <2>1. words \in [1..n -> S]
    BY <1>2, <1>3
  <2>2. words \in Seq(S)
    BY <1>1, <2>1
  <2>3. DOMAIN words = 1..Len(words) /\ DOMAIN words = 1..n /\ Len(words) \in Nat
    BY <1>3, <2>2, LenProperties
  <2>4. n \in DOMAIN words /\ (Len(words) # 0 => Len(words) \in DOMAIN words)
    <3>1. n \in 1..n
      BY <1>1
    <3>2. Len(words) # 0 => Len(words) \in 1..Len(words)
      BY <2>3
    <3> QED
      BY <2>3, <3>1, <3>2
  <2>5. Len(words) = n
    <3> DEFINE l == Len(words)
    <3>1. l \in Nat /\ n \in 1..l /\ (l # 0 => l \in 1..n)
      BY <2>3, <2>4
    <3> HIDE DEF l
    <3>2. l = n
      BY <1>1, <3>1
    <3> QED
      BY <3>2 DEF l
  <2> QED
    BY <1>3, <2>2, <2>5
<1>7. CASE n = 1
  <2>1. Group(list) = words
    BY <1>4, <1>7
  <2>2. Len(words) = 1 /\ words[1] = W(list[1])
    BY <1>5, <1>7
  <2> QED
    BY <1>5, <1>7, <2>1, <2>2 DEF n, S
<1>8. CASE n # 1
  <2> DEFINE all == <<o>> \o words \o <<c>>
  <2>1. /\ all \in Seq(S) /\ Len(all) = Len(words) + 2
        /\ all[1] = o /\ all[Len(words) + 2] = c
        /\ \A i \in 1..Len(words) : all[i + 1] = words[i]
    BY <1>2, <1>5, Enclosed
  <2>2. Group(list) = all
    BY <1>4, <1>8
  <2> HIDE DEF all
  <2> QED
    BY <1>5, <1>8, <2>1, <2>2 DEF n, S, o, c
<1> QED
  BY <1>7, <1>8

(***************************************************************************)
(* parse_sterm, where the words of a list stand.                           *)
(***************************************************************************)
StandsAt(text, at, part) ==
  \A i \in 1..Len(part) : at + i - 1 \in DOMAIN text /\ text[at + i - 1] = part[i]
Meant(list) == IF "*" \in ToSet(list) THEN <<>> ELSE list

LEMMA ParseGroup ==
  ASSUME NEW text, NEW n \in Nat, DOMAIN text = 1..n, NEW at \in 1..n,
         NEW list, IsWritten(list), list # <<>>, StandsAt(text, at, Group(list))
  PROVE  ParseSterm(text, at) = Got(Meant(list), at + Len(Group(list)))
<1> DEFINE m == Len(list)
<1>1. m \in Nat /\ m # 0 /\ DOMAIN list = 1..m
  BY ListIs
<1>2. CASE m = 1
  <2>1. list[1] \in ToSet(list) /\ \A x \in ToSet(list) : x = list[1]
    BY <1>1, <1>2, ListIs
  <2>2. Len(Group(list)) = 1 /\ Group(list)[1] = W(list[1])
    BY <1>2, GroupIs
  <2>3. at + 1 - 1 = at /\ 1 \in 1..1
    OBVIOUS
  <2>4. at \in DOMAIN text /\ text[at] = W(list[1])
    BY <2>2, <2>3 DEF StandsAt
  <2>5. WordAt(text, at) = W(list[1])
    BY <2>4 DEF WordAt
  <2>6. CASE list[1] = "*"
    <3>1. ParseSterm(text, at) = Got(<<>>, at + 1)
      BY <2>5, <2>6, MarksDiffer DEF ParseSterm
    <3> QED
      BY <2>1, <2>2, <2>6, <3>1 DEF Meant
  <2>7. CASE list[1] # "*"
    <3>1. /\ IsId(W(list[1])) /\ W(list[1]) # W("{") /\ W(list[1]) # W("*")
          /\ W(list[1]).s = list[1]
      BY <2>1, <2>7, NameIs, WordIs
    <3>2. ParseSterm(text, at) = ParseId(text, at)
      BY <2>5, <3>1 DEF ParseSterm
    <3>3. ParseId(text, at) = Got(<<list[1]>>, at + 1)
      BY <2>4, <2>5, <3>1 DEF ParseId
    <3>4. list = <<list[1]>>
      <4>1. list = [i \in 1..m |-> list[i]]
        BY ListIs
      <4> HIDE DEF m
      <4>2. list = [i \in 1..1 |-> list[i]]
        BY <1>2, <4>1
      <4> QED
        BY <4>2
    <3>5. Meant(list) = list
      BY <2>1, <2>7 DEF Meant
    <3> QED
      BY <2>2, <3>2, <3>3, <3>4, <3>5
  <2> QED
    BY <2>6, <2>7
<1>3. CASE m # 1
  <2> DEFINE close == at + m + 1
             ends == {j \in DOMAIN text : j > at /\ ~IsIdOrStar(text[j])}
             inner == Between(text, at, close)
  <2>1. /\ Len(Group(list)) = m + 2
        /\ Group(list)[1] = W("{") /\ Group(list)[m + 2] = W("}")
        /\ \A i \in 1..m : Group(list)[i + 1] = W(list[i])
    BY <1>3, GroupIs
  <2>2. \A i \in 1..(m + 2) : at + i - 1 \in DOMAIN text /\ text[at + i - 1] = Group(list)[i]
    BY <2>1 DEF StandsAt
  <2>3. at \in DOMAIN text /\ text[at] = W("{")
    <3>1. 1 \in 1..(m + 2) /\ at + 1 - 1 = at
      BY <1>1
    <3> QED
      BY <2>1, <2>2, <3>1
  <2>4. close \in DOMAIN text /\ text[close] = W("}")
    <3>1. m + 2 \in 1..(m + 2) /\ at + (m + 2) - 1 = close
      BY <1>1
    <3> QED
      BY <2>1, <2>2, <3>1
  <2>5. ASSUME NEW i \in 1..m
        PROVE  at + i \in DOMAIN text /\ text[at + i] = W(list[i])
    <3>1. i + 1 \in 1..(m + 2) /\ at + (i + 1) - 1 = at + i
      BY <1>1
    <3> QED
      BY <2>1, <2>2, <3>1
  <2>6. ASSUME NEW i \in 1..m
        PROVE  IsIdOrStar(text[at + i])
    BY <2>5, NameIs, ListIs
  <2>7. close \in ends
    <3>1. ~IsIdOrStar(W("}"))
      BY MarksDiffer, WordIs DEF IsIdOrStar
    <3>2. close > at
      BY <1>1
    <3> QED
      BY <2>4, <3>1, <3>2
  <2>8. \A j \in ends : close <= j
    <3> SUFFICES ASSUME NEW j \in ends, j < close
                 PROVE  FALSE
      BY <1>1
    <3>1. j - at \in 1..m /\ at + (j - at) = j
      BY <1>1
    <3>2. IsIdOrStar(text[j])
      BY <2>6, <3>1
    <3> QED
      BY <3>2
  <2>9. ends \subseteq Nat
    OBVIOUS
  <2>10. Closing(text, at, IsIdOrStar) = close
    <3>1. close = CHOOSE i \in ends : \A k \in ends : i <= k
      <4>1. \A i \in ends : (\A k \in ends : i <= k) => i = close
        <5> HIDE DEF ends, close
        <5> SUFFICES ASSUME NEW i \in ends, \A k \in ends : i <= k
                     PROVE  i = close
          OBVIOUS
        <5>1. i <= close /\ close <= i /\ i \in Nat /\ close \in Nat
          BY <2>7, <2>8, <2>9
        <5> QED
          BY <5>1
      <4> HIDE DEF ends, close
      <4> QED
        BY <2>7, <2>8, <4>1
    <3>2. WordAt(text, close) = W("}")
      BY <2>4 DEF WordAt
    <3>3. Closing(text, at, IsIdOrStar) =
            LET j == IF ends = {} THEN 0 ELSE CHOOSE i \in ends : \A k \in ends : i <= k
            IN IF WordAt(text, j) = W("}") THEN j ELSE 0
      BY DEF Closing
    <3>4. ends # {}
      BY <2>7
    <3> HIDE DEF ends, close
    <3> QED
      BY <3>1, <3>2, <3>3, <3>4
  <2>11. close # 0 /\ close \in Nat
    BY <1>1
  <2>12. WordAt(text, at) = W("{")
    BY <2>3 DEF WordAt
  <2>13. ParseSterm(text, at) = Got(StarNames(inner), close + 1)
    <3> HIDE DEF close, inner
    <3>1. Closing(text, at, IsIdOrStar) # 0
      BY <2>10, <2>11
    <3>2. ParseSterm(text, at) =
            Got(StarNames(Between(text, at, Closing(text, at, IsIdOrStar))),
                Closing(text, at, IsIdOrStar) + 1)
      BY <2>12, <3>1, MarksDiffer DEF ParseSterm
    <3> QED
      BY <2>10, <3>2 DEF inner
  <2>14. inner = [i \in 1..m |-> W(list[i])]
    <3>1. inner = [i \in 1..((close - 1) - (at + 1) + 1) |-> text[(at + 1) + i - 1]]
      BY DEF Between
    <3>2. (close - 1) - (at + 1) + 1 = m
      BY <1>1
    <3>3. \A i \in 1..m : (at + 1) + i - 1 = at + i
      BY <1>1
    <3> QED
      BY <2>5, <3>1, <3>2, <3>3
  <2>15. StarNames(inner) = Meant(list)
    <3> HIDE DEF inner
    <3>1. DOMAIN inner = 1..m /\ \A i \in 1..m : inner[i] = W(list[i])
      BY <2>14
    <3>2. (\E i \in DOMAIN inner : inner[i] = W("*")) <=> "*" \in ToSet(list)
      <4>1. \A i \in 1..m : list[i] \in ToSet(list) /\ (W(list[i]) = W("*") <=> list[i] = "*")
        BY ListIs, NameIs
      <4>2. "*" \in ToSet(list) <=> \E i \in 1..m : list[i] = "*"
        BY <4>1, ListIs
      <4> QED
        BY <3>1, <4>1, <4>2
    <3>3. NamesOf(inner) = list
      <4>1. \A i \in 1..m : inner[i].s = list[i]
        BY <3>1, WordIs
      <4>2. NamesOf(inner) = [i \in 1..m |-> list[i]]
        BY <3>1, <4>1 DEF NamesOf
      <4> QED
        BY <4>2, ListIs
    <3> QED
      BY <3>2, <3>3 DEF StarNames, Meant
  <2>16. close + 1 = at + Len(Group(list))
    <3>1. Len(Group(list)) = m + 2
      BY <2>1
    <3> HIDE DEF m
    <3> QED
      BY <1>1, <3>1
  <2> HIDE DEF close, inner
  <2> QED
    BY <2>13, <2>15, <2>16
<1> QED
  BY <1>2, <1>3
(***************************************************************************)
(* The words of a whole rule, and what ParseArguments makes of them.       *)
(***************************************************************************)
LEMMA StandsLast ==
  ASSUME NEW S, NEW a \in Seq(S), NEW b \in Seq(S)
  PROVE  StandsAt(a \o b, Len(a) + 1, b)
<1> DEFINE all == a \o b
           m == Len(a)
           n == Len(b)
<1>1. /\ all \in Seq(S) /\ Len(all) = m + n
      /\ \A i \in 1..(m + n) : all[i] = IF i <= m THEN a[i] ELSE b[i - m]
  BY ConcatProperties
<1>2. m \in Nat /\ n \in Nat
  OBVIOUS
<1> HIDE DEF all, m
<1>3. DOMAIN all = 1..(m + n)
  BY <1>1
<1> HIDE DEF n
<1>4. ASSUME NEW i \in 1..n
      PROVE  (m + 1) + i - 1 \in DOMAIN all /\ all[(m + 1) + i - 1] = b[i]
  <2> DEFINE j == (m + 1) + i - 1
  <2>1. j \in 1..(m + n) /\ ~(j <= m) /\ j - m = i
    BY <1>2
  <2> HIDE DEF j
  <2>2. j \in DOMAIN all /\ all[j] = b[i]
    BY <1>1, <1>3, <2>1
  <2> QED
    BY <2>2 DEF j
<1> QED
  BY <1>4 DEF StandsAt, all, m, n

LEMMA StandsStill ==
  ASSUME NEW S, NEW a \in Seq(S), NEW b \in Seq(S), NEW at, NEW part,
         StandsAt(a, at, part)
  PROVE  StandsAt(a \o b, at, part)
<1> DEFINE all == a \o b
           m == Len(a)
           n == Len(b)
<1>1. /\ all \in Seq(S) /\ Len(all) = m + n
      /\ \A i \in 1..(m + n) : all[i] = IF i <= m THEN a[i] ELSE b[i - m]
  BY ConcatProperties
<1>2. m \in Nat /\ n \in Nat /\ DOMAIN a = 1..m
  OBVIOUS
<1> HIDE DEF all, m, n
<1>3. DOMAIN all = 1..(m + n)
  BY <1>1
<1>4. ASSUME NEW j \in DOMAIN a
      PROVE  j \in DOMAIN all /\ all[j] = a[j]
  <2>1. j \in 1..(m + n) /\ j <= m
    BY <1>2
  <2> QED
    BY <1>1, <1>3, <2>1
<1> QED
  BY <1>4 DEF StandsAt, all

WordsOf(r) == WordsFor({r.op} \cup ToSet(r.s) \cup ToSet(r.t) \cup ToSet(r.c) \cup ToSet(r.p))
HasLists(r) == r.s # <<>> /\ r.t # <<>> /\ r.c # <<>> /\ r.p # <<>>

LEMMA GroupOf ==
  ASSUME NEW list, IsWritten(list), list # <<>>, NEW names, ToSet(list) \subseteq names
  PROVE  Group(list) \in Seq(WordsFor(names)) /\ Len(Group(list)) \in Nat \ {0}
<1>1. Group(list) \in Seq(WordsFor(ToSet(list)))
  BY GroupIs
<1>2. WordsFor(ToSet(list)) \subseteq WordsFor(names)
  BY DEF WordsFor
<1>3. Group(list) \in Seq(WordsFor(names))
  BY <1>1, <1>2, SeqMonotonic
<1>4. Len(list) \in Nat
  BY ListIs
<1>5. Len(Group(list)) = 1 \/ Len(Group(list)) = Len(list) + 2
  BY GroupIs
<1> QED
  BY <1>3, <1>4, <1>5

Ends(a, b, c, d, text) ==
  /\ StandsAt(text, 2, a) /\ StandsAt(text, 2 + Len(a), b)
  /\ StandsAt(text, 2 + Len(a) + Len(b), c)
  /\ StandsAt(text, 2 + Len(a) + Len(b) + Len(c), d)
  /\ Len(text) = 1 + Len(a) + Len(b) + Len(c) + Len(d)

IsJoined(text, x, a, b, c, d) == text = <<x>> \o a \o b \o c \o d

LEMMA FourParts ==
  ASSUME NEW S, NEW x \in S, NEW a \in Seq(S), NEW b \in Seq(S), NEW c \in Seq(S),
         NEW d \in Seq(S), NEW text, IsJoined(text, x, a, b, c, d)
  PROVE  text \in Seq(S) /\ text[1] = x /\ Ends(a, b, c, d, text)
<1> DEFINE o == <<x>>
           p == o \o a
           q == p \o b
           r == q \o c
           t == r \o d
<1>1. o \in Seq(S) /\ Len(o) = 1 /\ o[1] = x /\ 1 \in DOMAIN o
  OBVIOUS
<1>2. /\ Len(a) \in Nat /\ Len(b) \in Nat /\ Len(c) \in Nat /\ Len(d) \in Nat
  OBVIOUS
<1>0. StandsAt(o, 1, o)
  <2>1. \A i \in 1..1 : 1 + i - 1 = 1 /\ i = 1
    OBVIOUS
  <2> HIDE DEF o
  <2> QED
    BY <1>1, <2>1 DEF StandsAt
<1> HIDE DEF o
<1>3. p \in Seq(S) /\ Len(p) = Len(o) + Len(a) /\ StandsAt(p, Len(o) + 1, a) /\ StandsAt(p, 1, o)
  BY <1>0, <1>1, ConcatProperties, StandsLast, StandsStill
<1> HIDE DEF p
<1>4. /\ q \in Seq(S) /\ Len(q) = Len(p) + Len(b) /\ StandsAt(q, Len(p) + 1, b)
      /\ StandsAt(q, Len(o) + 1, a) /\ StandsAt(q, 1, o)
  BY <1>3, ConcatProperties, StandsLast, StandsStill
<1> HIDE DEF q
<1>5. /\ r \in Seq(S) /\ Len(r) = Len(q) + Len(c) /\ StandsAt(r, Len(q) + 1, c)
      /\ StandsAt(r, Len(p) + 1, b) /\ StandsAt(r, Len(o) + 1, a) /\ StandsAt(r, 1, o)
  BY <1>4, ConcatProperties, StandsLast, StandsStill
<1> HIDE DEF r
<1>6. /\ t \in Seq(S) /\ Len(t) = Len(r) + Len(d) /\ StandsAt(t, Len(r) + 1, d)
      /\ StandsAt(t, Len(q) + 1, c) /\ StandsAt(t, Len(p) + 1, b)
      /\ StandsAt(t, Len(o) + 1, a) /\ StandsAt(t, 1, o)
  BY <1>5, ConcatProperties, StandsLast, StandsStill
<1> HIDE DEF t
<1>7. /\ Len(o) + 1 = 2 /\ Len(p) + 1 = 2 + Len(a) /\ Len(q) + 1 = 2 + Len(a) + Len(b)
      /\ Len(r) + 1 = 2 + Len(a) + Len(b) + Len(c)
      /\ Len(t) = 1 + Len(a) + Len(b) + Len(c) + Len(d)
  BY <1>1, <1>2, <1>3, <1>4, <1>5, <1>6
<1>8. t[1] = x
  <2>1. 1 \in 1..Len(o) /\ 1 + 1 - 1 = 1
    BY <1>1
  <2>2. t[1] = o[1]
    BY <1>6, <2>1 DEF StandsAt
  <2> QED
    BY <1>1, <2>2
<1>9. text = t
  BY DEF IsJoined, t, r, q, p, o
<1> QED
  BY <1>6, <1>7, <1>8, <1>9 DEF Ends
LEMMA NextIs ==
  ASSUME NEW text, NEW n \in Nat, DOMAIN text = 1..n, NEW at \in Nat, NEW args,
         NEW list, IsWritten(list), list # <<>>, StandsAt(text, at, Group(list))
  PROVE  NextArgument(text, Parsed(at, args), "sterm")
           = Parsed(at + Len(Group(list)), Append(args, Meant(list)))
<1> DEFINE sofar == Parsed(at, args)
           got == Got(Meant(list), at + Len(Group(list)))
<1>1. at \in 1..n
  <2>1. Len(Group(list)) \in Nat \ {0}
    <3>1. ToSet(list) \subseteq ToSet(list)
      OBVIOUS
    <3> QED
      BY <3>1, GroupOf
  <2>2. 1 \in 1..Len(Group(list)) /\ at + 1 - 1 = at
    BY <2>1
  <2> QED
    BY <2>2 DEF StandsAt
<1>2. ParseArgument(text, at, "sterm") = got
  BY <1>1, ParseGroup DEF ParseArgument
<1>3. sofar.next = at /\ sofar.ok /\ sofar.args = args
  BY DEF Parsed
<1>4. got.ok /\ got.next = at + Len(Group(list)) /\ got.names = Meant(list)
  BY DEF Got
<1> HIDE DEF sofar, got
<1>5. NextArgument(text, sofar, "sterm") =
        Parsed(got.next, Append(sofar.args, got.names))
  BY <1>2, <1>3, <1>4 DEF NextArgument
<1> QED
  BY <1>3, <1>4, <1>5 DEF sofar

Stopped(next, args) == [ok |-> FALSE, next |-> next, args |-> args]
LEMMA Unset ==
  ASSUME NEW v, NEW m, NEW args
  PROVE  [[ok |-> v, next |-> m, args |-> args] EXCEPT !.ok = FALSE]
           = [ok |-> FALSE, next |-> m, args |-> args]
<1> DEFINE no == FALSE
<1>1. no = FALSE
  OBVIOUS
<1> HIDE DEF no
<1>2. [[ok |-> v, next |-> m, args |-> args] EXCEPT !.ok = no]
        = [ok |-> no, next |-> m, args |-> args]
  OBVIOUS
<1> QED
  BY <1>1, <1>2, Zenon

LEMMA NextAtEnd ==
  ASSUME NEW text, NEW n \in Nat, DOMAIN text = 1..n, NEW args
  PROVE  /\ NextArgument(text, Parsed(n + 1, args), "sterm") = Stopped(n + 1, args)
         /\ NextArgument(text, Stopped(n + 1, args), "sterm") = Stopped(n + 1, args)
<1>1. WordAt(text, n + 1) = W("")
  <2>1. n + 1 \notin 1..n
    OBVIOUS
  <2> QED
    BY <2>1 DEF WordAt
<1>2. ~IsId(W(""))
  BY WordIs, MarksDiffer
<1>3. ParseSterm(text, n + 1) = Failed
  BY <1>1, <1>2, MarksDiffer DEF ParseSterm, ParseId
<1>4. ParseArgument(text, n + 1, "sterm") = Failed
  BY <1>3 DEF ParseArgument
<1>5. ~Failed.ok
  BY DEF Failed
<1> DEFINE m == n + 1
<1>0. m = n + 1
  OBVIOUS
<1> HIDE DEF m
<1>6. /\ Parsed(m, args).next = m
      /\ [Parsed(m, args) EXCEPT !.ok = FALSE] = Stopped(m, args)
  <2> DEFINE yes == TRUE
             c == [ok |-> yes, next |-> m, args |-> args]
  <2> HIDE DEF yes
  <2>1. [c EXCEPT !.ok = FALSE] = [ok |-> FALSE, next |-> m, args |-> args]
    BY Unset
  <2>2. c.next = m
    OBVIOUS
  <2> HIDE DEF c
  <2>3. Parsed(m, args) = c
    BY DEF Parsed, c, yes
  <2> QED
    BY <2>1, <2>2, <2>3 DEF Stopped
<1>7. /\ ~Stopped(m, args).ok
      /\ [Stopped(m, args) EXCEPT !.ok = FALSE] = Stopped(m, args)
  <2> DEFINE c == [ok |-> FALSE, next |-> m, args |-> args]
  <2>1. [c EXCEPT !.ok = FALSE] = c
    BY Unset, Zenon
  <2>2. ~c.ok
    OBVIOUS
  <2> HIDE DEF c
  <2>3. Stopped(m, args) = c
    BY DEF Stopped, c
  <2> QED
    BY <2>1, <2>2, <2>3
<1>8. NextArgument(text, Parsed(n + 1, args), "sterm") = Stopped(n + 1, args)
  BY <1>0, <1>4, <1>5, <1>6 DEF NextArgument
<1>9. NextArgument(text, Stopped(n + 1, args), "sterm") = Stopped(n + 1, args)
  BY <1>0, <1>7 DEF NextArgument
<1> QED
  BY <1>8, <1>9

\* Four arguments of one kind: the states of the parser are a, b, c, d and e, and
\* f is the one a further argument would leave.
LEMMA FourArguments ==
  ASSUME NEW text, NEW a, NEW b, NEW c, NEW d, NEW e, NEW f,
         a = Parsed(2, <<>>), text[1].s \in AvActions,
         NextArgument(text, a, "sterm") = b, NextArgument(text, b, "sterm") = c,
         NextArgument(text, c, "sterm") = d, NextArgument(text, d, "sterm") = e,
         NextArgument(text, e, "sterm") = f, NextArgument(text, f, "sterm") = f
  PROVE  ParseArguments(text) = e
<1> DEFINE A == {a, b, c, d, e, f}
           n == 4
           kinds == <<"sterm", "sterm", "sterm", "sterm">>
           step == [p \in (1..n) \X A |-> NextArgument(text, p[2], "sterm")]
           Eq(it) == it = [s \in SUBSET (1..n) |->
                             IF s = {} THEN a
                             ELSE NextArgument(text, it[s \ {Max(s)}], kinds[Max(s)])]
           it == CHOOSE it : Eq(it)
<1>1. /\ n \in Nat /\ a \in A /\ DOMAIN kinds = 1..n /\ n = 4
      /\ \A i \in 1..n : kinds[i] = "sterm"
  OBVIOUS
<1>2. Arguments(text[1].s) = kinds
  BY DEF Arguments, AvActions, XpermActions, TypeActions
<1>3. /\ step \in [(1..n) \X A -> A]
      /\ \A i \in 1..n, x \in A : step[<<i, x>>] = NextArgument(text, x, "sterm")
  <2>1. \A x \in A : NextArgument(text, x, "sterm") \in A
    OBVIOUS
  <2> HIDE DEF A
  <2> QED
    BY <2>1
<1> HIDE DEF kinds
<1>4. ParseArguments(text) = it[1..n]
  BY <1>1, <1>2 DEF ParseArguments, FoldLeft, MapThenFoldSet
<1> HIDE DEF n, step
<1>5. \A s \in SUBSET (1..n) : s # {} => Max(s) \in 1..n /\ kinds[Max(s)] = "sterm"
  BY <1>1, MaxOf
<1>6. \E g : Eq(g)
  <2> HIDE DEF A
  <2>1. PICK g : IsFoldLeft(g, n, A, a, step)
    BY <1>1, <1>3, FoldLeftExists
  <2>2. ASSUME NEW s \in SUBSET (1..n)
        PROVE  g[s] = IF s = {} THEN a
                      ELSE NextArgument(text, g[s \ {Max(s)}], kinds[Max(s)])
    <3>1. CASE s = {}
      BY <2>1, <3>1 DEF IsFoldLeft
    <3>2. CASE s # {}
      <4>1. Max(s) \in 1..n /\ kinds[Max(s)] = "sterm"
        BY <1>5, <3>2
      <4>2. s \ {Max(s)} \in SUBSET (1..n)
        OBVIOUS
      <4>3. g[s \ {Max(s)}] \in A /\ g[s] = step[<<Max(s), g[s \ {Max(s)}]>>]
        BY <2>1, <3>2, <4>2 DEF IsFoldLeft
      <4>4. g[s] = NextArgument(text, g[s \ {Max(s)}], "sterm")
        BY <1>3, <4>1, <4>3
      <4> QED
        BY <3>2, <4>1, <4>4
    <3> QED
      BY <3>1, <3>2
  <2>3. Eq(g)
    BY <2>1, <2>2 DEF IsFoldLeft
  <2> HIDE DEF Eq
  <2> QED
    BY <2>3
<1>7. Eq(it)
  <2> HIDE DEF Eq
  <2> QED
    BY <1>6
<1> HIDE DEF it
<1>8. PICK g : IsStepped(g, n, A, a, step) /\ g[n] = it[1..n]
  <2> HIDE DEF A
  <2>1. it[{}] = a
    BY <1>7
  <2>2. \A s \in SUBSET (1..n) :
           s # {} /\ it[s \ {Max(s)}] \in A => it[s] = step[<<Max(s), it[s \ {Max(s)}]>>]
    <3> SUFFICES ASSUME NEW s \in SUBSET (1..n), s # {}, it[s \ {Max(s)}] \in A
                 PROVE  it[s] = step[<<Max(s), it[s \ {Max(s)}]>>]
      OBVIOUS
    <3>1. Max(s) \in 1..n /\ kinds[Max(s)] = "sterm"
      BY <1>5
    <3>2. it[s] = NextArgument(text, it[s \ {Max(s)}], "sterm")
      BY <1>7, <3>1
    <3> QED
      BY <1>3, <3>1, <3>2
  <2>3. FoldsLeft(it, n, A, a, step)
    BY <2>1, <2>2 DEF FoldsLeft
  <2> HIDE DEF Eq
  <2>4. Reached(it[1..n], n, A, a, step)
    BY <1>1, <1>3, <2>3, FoldLeftSteps
  <2> QED
    BY <2>4 DEF Reached
<1>9. ASSUME NEW i \in 1..n, g[i - 1] \in A
      PROVE  g[i] = NextArgument(text, g[i - 1], "sterm")
  <2> HIDE DEF A
  <2> QED
    BY <1>3, <1>8, <1>9 DEF IsStepped
<1>10. g[0] = a
  BY <1>8 DEF IsStepped
<1>11. /\ 1 \in 1..n /\ 2 \in 1..n /\ 3 \in 1..n /\ 4 \in 1..n
       /\ 1 - 1 = 0 /\ 2 - 1 = 1 /\ 3 - 1 = 2 /\ 4 - 1 = 3
  BY <1>1
<1>12. g[1] = b
  BY <1>9, <1>10, <1>11
<1>13. g[2] = c
  BY <1>9, <1>11, <1>12
<1>14. g[3] = d
  BY <1>9, <1>11, <1>13
<1>15. g[4] = e
  BY <1>9, <1>11, <1>14
<1> QED
  BY <1>1, <1>4, <1>8, <1>15

LEMMA Appended ==
  ASSUME NEW w, NEW x, NEW y, NEW z
  PROVE  Append(Append(Append(Append(<<>>, w), x), y), z) = <<w, x, y, z>>
<1> DEFINE S == {w, x, y, z}
<1>1. Append(<<>>, w) = <<w>>
  OBVIOUS
<1>2. Append(<<w>>, x) = <<w, x>>
  <2>1. <<w>> \in Seq(S) /\ x \in S /\ <<w, x>> \in Seq(S) /\ Len(<<w, x>>) = 2
    OBVIOUS
  <2>2. /\ Append(<<w>>, x) \in Seq(S) /\ Len(Append(<<w>>, x)) = 2
        /\ \A i \in 1..2 : Append(<<w>>, x)[i] = <<w, x>>[i]
    BY <2>1, AppendProperties
  <2> HIDE DEF S
  <2> QED
    BY <2>1, <2>2, SeqEqual
<1>3. Append(<<w, x>>, y) = <<w, x, y>>
  <2>1. <<w, x>> \in Seq(S) /\ y \in S /\ <<w, x, y>> \in Seq(S) /\ Len(<<w, x, y>>) = 3
    OBVIOUS
  <2>2. /\ Append(<<w, x>>, y) \in Seq(S) /\ Len(Append(<<w, x>>, y)) = 3
        /\ \A i \in 1..3 : Append(<<w, x>>, y)[i] = <<w, x, y>>[i]
    BY <2>1, AppendProperties
  <2> HIDE DEF S
  <2> QED
    BY <2>1, <2>2, SeqEqual
<1>4. Append(<<w, x, y>>, z) = <<w, x, y, z>>
  <2>1. /\ <<w, x, y>> \in Seq(S) /\ z \in S
        /\ <<w, x, y, z>> \in Seq(S) /\ Len(<<w, x, y, z>>) = 4
    OBVIOUS
  <2>2. /\ Append(<<w, x, y>>, z) \in Seq(S) /\ Len(Append(<<w, x, y>>, z)) = 4
        /\ \A i \in 1..4 : Append(<<w, x, y>>, z)[i] = <<w, x, y, z>>[i]
    BY <2>1, AppendProperties
  <2> HIDE DEF S
  <2> QED
    BY <2>1, <2>2, SeqEqual
<1> QED
  BY <1>1, <1>2, <1>3, <1>4

Args(r) == <<Meant(r.s), Meant(r.t), Meant(r.c), Meant(r.p)>>

\* A rule is understood, whatever its lists are: each is read as the names in it,
\* or as the empty list if there is a * among them.
LEMMA RuleParses ==
  ASSUME NEW r, IsRule(r), HasLists(r)
  PROVE  /\ ~Refused(RuleText(r)) /\ RuleText(r)[1].s = r.op
         /\ ParseArguments(RuleText(r)).args = Args(r)
<1> DEFINE S == WordsOf(r)
           x == W(r.op)
           a == Group(r.s)
           b == Group(r.t)
           c == Group(r.c)
           d == Group(r.p)
           text == RuleText(r)
           n == Len(text)
<1>1. /\ IsWritten(r.s) /\ IsWritten(r.t) /\ IsWritten(r.c) /\ IsWritten(r.p)
      /\ r.s # <<>> /\ r.t # <<>> /\ r.c # <<>> /\ r.p # <<>>
      /\ r.op \in AvActions
  BY DEF IsRule, HasLists
<1>2. /\ x \in S /\ a \in Seq(S) /\ b \in Seq(S) /\ c \in Seq(S) /\ d \in Seq(S)
      /\ Len(a) \in Nat /\ Len(b) \in Nat /\ Len(c) \in Nat /\ Len(d) \in Nat
  <2>1. x \in S
    BY DEF WordsOf, WordsFor
  <2> DEFINE names == {r.op} \cup ToSet(r.s) \cup ToSet(r.t) \cup ToSet(r.c) \cup ToSet(r.p)
  <2>2. /\ ToSet(r.s) \subseteq names /\ ToSet(r.t) \subseteq names
        /\ ToSet(r.c) \subseteq names /\ ToSet(r.p) \subseteq names
    OBVIOUS
  <2>3. S = WordsFor(names)
    BY DEF WordsOf
  <2> HIDE DEF names, S
  <2>4. a \in Seq(S) /\ Len(a) \in Nat
    BY <1>1, <2>2, <2>3, GroupOf
  <2>5. b \in Seq(S) /\ Len(b) \in Nat
    BY <1>1, <2>2, <2>3, GroupOf
  <2>6. c \in Seq(S) /\ Len(c) \in Nat
    BY <1>1, <2>2, <2>3, GroupOf
  <2>7. d \in Seq(S) /\ Len(d) \in Nat
    BY <1>1, <2>2, <2>3, GroupOf
  <2> QED
    BY <2>1, <2>4, <2>5, <2>6, <2>7
<1>3. IsJoined(text, x, a, b, c, d)
  BY DEF RuleText, IsJoined
<1>4. x.s = r.op
  BY WordIs
<1> HIDE DEF S, x, text
<1>5. text \in Seq(S) /\ text[1] = x /\ Ends(a, b, c, d, text)
  <2> HIDE DEF a, b, c, d
  <2> QED
    BY <1>2, <1>3, FourParts
<1>6. n \in Nat /\ DOMAIN text = 1..n
  BY <1>5, LenProperties
<1>7. n + 1 = 2 + Len(a) + Len(b) + Len(c) + Len(d)
  <2> HIDE DEF a, b, c, d
  <2> QED
    BY <1>2, <1>5 DEF Ends
<1> HIDE DEF n
<1> DEFINE i2 == 2 + Len(a)
           i3 == i2 + Len(b)
           i4 == i3 + Len(c)
           i5 == i4 + Len(d)
           A1 == <<>>
           A2 == Append(A1, Meant(r.s))
           A3 == Append(A2, Meant(r.t))
           A4 == Append(A3, Meant(r.c))
           A5 == Append(A4, Meant(r.p))
<1>8. i2 \in Nat /\ i3 \in Nat /\ i4 \in Nat /\ i5 = n + 1
  <2> HIDE DEF a, b, c, d
  <2> QED
    BY <1>2, <1>7
<1>9. /\ StandsAt(text, 2, Group(r.s)) /\ StandsAt(text, i2, Group(r.t))
      /\ StandsAt(text, i3, Group(r.c)) /\ StandsAt(text, i4, Group(r.p))
  BY <1>5 DEF Ends
<1>10. NextArgument(text, Parsed(2, A1), "sterm") = Parsed(i2, A2)
  <2> HIDE DEF A1
  <2> QED
    BY <1>1, <1>6, <1>9, NextIs
<1>11. NextArgument(text, Parsed(i2, A2), "sterm") = Parsed(i3, A3)
  <2> HIDE DEF A2, i2
  <2> QED
    BY <1>1, <1>6, <1>8, <1>9, NextIs
<1>12. NextArgument(text, Parsed(i3, A3), "sterm") = Parsed(i4, A4)
  <2> HIDE DEF A3, i3
  <2> QED
    BY <1>1, <1>6, <1>8, <1>9, NextIs
<1>13. NextArgument(text, Parsed(i4, A4), "sterm") = Parsed(i5, A5)
  <2> HIDE DEF A4, i4
  <2> QED
    BY <1>1, <1>6, <1>8, <1>9, NextIs
<1> HIDE DEF i2, i3, i4, i5, A2, A3, A4, A5
<1>14. /\ NextArgument(text, Parsed(i5, A5), "sterm") = Stopped(i5, A5)
       /\ NextArgument(text, Stopped(i5, A5), "sterm") = Stopped(i5, A5)
  BY <1>6, <1>8, NextAtEnd
<1>15. ParseArguments(text) = Parsed(i5, A5)
  <2> DEFINE s1 == Parsed(2, A1)
             s2 == Parsed(i2, A2)
             s3 == Parsed(i3, A3)
             s4 == Parsed(i4, A4)
             s5 == Parsed(i5, A5)
             s6 == Stopped(i5, A5)
  <2>1. s1 = Parsed(2, <<>>) /\ text[1].s \in AvActions
    BY <1>1, <1>4, <1>5
  <2>2. /\ NextArgument(text, s1, "sterm") = s2 /\ NextArgument(text, s2, "sterm") = s3
        /\ NextArgument(text, s3, "sterm") = s4 /\ NextArgument(text, s4, "sterm") = s5
        /\ NextArgument(text, s5, "sterm") = s6 /\ NextArgument(text, s6, "sterm") = s6
    BY <1>10, <1>11, <1>12, <1>13, <1>14
  <2> HIDE DEF s1, s2, s3, s4, s5, s6
  <2>3. ParseArguments(text) = s5
    BY <2>1, <2>2, FourArguments
  <2> QED
    BY <2>3 DEF s5
<1>16. A5 = Args(r)
  BY Appended DEF A5, A4, A3, A2, Args
<1>17. Parsed(i5, A5).ok /\ Parsed(i5, A5).next = i5 /\ Parsed(i5, A5).args = A5
  BY DEF Parsed
<1>18. text # <<>> /\ text[1].s \in Actions
  <2>1. text[1].s \in Actions
    BY <1>1, <1>4, <1>5 DEF Actions
  <2>2. Len(text) # 0
    <3> HIDE DEF a, b, c, d
    <3> QED
      BY <1>2, <1>5 DEF Ends
  <2>3. text # <<>>
    BY <2>2, EmptySeq
  <2> QED
    BY <2>1, <2>3
<1>19. ~Refused(text)
  BY <1>8, <1>15, <1>17, <1>18 DEF Refused, n
<1> QED
  BY <1>4, <1>5, <1>15, <1>16, <1>17, <1>19 DEF text
(***************************************************************************)
(* The product of lists, and the calls of a rule.                          *)
(***************************************************************************)
\* Each of some tuples with each of some elements at its end.
Longer(tuples, set) == {Append(t, x) : t \in tuples, x \in set}

LEMMA LongerIs ==
  ASSUME NEW T, NEW U, NEW u
  PROVE  u \in Longer(T, U) <=> \E t \in T, x \in U : u = Append(t, x)
BY DEF Longer

LEMMA LongerHas ==
  ASSUME NEW T, NEW U, NEW t \in T, NEW x \in U
  PROVE  Append(t, x) \in Longer(T, U)
BY LongerIs

LEMMA ExtendedIs ==
  ASSUME NEW D, NEW tuples \in Seq(Seq(D)), NEW list \in Seq(D)
  PROVE  /\ Extended(tuples, list) \in Seq(Seq(D))
         /\ ToSet(Extended(tuples, list)) = Longer(ToSet(tuples), ToSet(list))
<1> DEFINE A == Seq(D)
           m == Len(tuples)
           n == Len(list)
           Row(i) == [j \in 1..n |-> Append(tuples[i], list[j])]
           seqs == [i \in 1..m |-> Row(i)]
<1>1. /\ m \in Nat /\ DOMAIN tuples = 1..m /\ \A i \in 1..m : tuples[i] \in Seq(D)
      /\ n \in Nat /\ DOMAIN list = 1..n /\ \A j \in 1..n : list[j] \in D
  OBVIOUS
<1>2. Extended(tuples, list) = FlattenSeq(seqs)
  BY <1>1 DEF Extended
<1>3. ASSUME NEW i \in 1..m
      PROVE  Row(i) \in Seq(A) /\ ToSet(Row(i)) = {Append(tuples[i], list[j]) : j \in 1..n}
  <2>1. \A j \in 1..n : Append(tuples[i], list[j]) \in A
    BY <1>1, AppendProperties
  <2>2. Row(i) \in Seq(A)
    <3> HIDE DEF A
    <3>1. Row(i) \in [1..n -> A]
      BY <2>1
    <3> HIDE DEF n
    <3> QED
      BY <1>1, <3>1
  <2> QED
    BY <2>2 DEF ToSet
<1>4. seqs \in Seq(Seq(A)) /\ Len(seqs) = m
  <2> HIDE DEF A, Row
  <2>1. seqs \in [1..m -> Seq(A)]
    BY <1>3
  <2> HIDE DEF m
  <2> QED
    BY <1>1, <2>1
<1> HIDE DEF A, seqs
<1>5. /\ FlattenSeq(seqs) \in Seq(A)
      /\ ToSet(FlattenSeq(seqs)) = UNION {ToSet(seqs[i]) : i \in 1..m}
  BY <1>4, FlattenIs
<1>6. \A i \in 1..m : ToSet(seqs[i]) = {Append(tuples[i], list[j]) : j \in 1..n}
  BY <1>3 DEF seqs
<1>7. ToSet(tuples) = {tuples[i] : i \in 1..m} /\ ToSet(list) = {list[j] : j \in 1..n}
  BY <1>1 DEF ToSet
<1> DEFINE all == UNION {ToSet(seqs[i]) : i \in 1..m}
<1>8. ASSUME NEW u \in all
      PROVE  u \in Longer(ToSet(tuples), ToSet(list))
  <2>1. PICK i \in 1..m : u \in ToSet(seqs[i])
    OBVIOUS
  <2>2. PICK j \in 1..n : u = Append(tuples[i], list[j])
    BY <1>6, <2>1
  <2>3. tuples[i] \in ToSet(tuples) /\ list[j] \in ToSet(list)
    BY <1>7
  <2> QED
    BY <2>2, <2>3, LongerIs
<1>9. ASSUME NEW u \in Longer(ToSet(tuples), ToSet(list))
      PROVE  u \in all
  <2>1. PICK t \in ToSet(tuples), x \in ToSet(list) : u = Append(t, x)
    BY LongerIs
  <2>2. PICK i \in 1..m : t = tuples[i]
    BY <1>7
  <2>3. PICK j \in 1..n : x = list[j]
    BY <1>7
  <2>4. u \in ToSet(seqs[i])
    BY <1>6, <2>1, <2>2, <2>3
  <2> QED
    BY <2>4
<1>10. all = Longer(ToSet(tuples), ToSet(list))
  <2> HIDE DEF all
  <2> QED
    BY <1>8, <1>9
<1>11. ToSet(FlattenSeq(seqs)) = Longer(ToSet(tuples), ToSet(list))
  BY <1>5, <1>10
<1> QED
  BY <1>2, <1>5, <1>11 DEF A

IsProductStep(g, n, lists, D) ==
  /\ g \in [0..n -> Seq(Seq(D))] /\ g[0] = <<<<>>>>
  /\ \A i \in 1..n : g[i] = Extended(g[i - 1], lists[i])

LEMMA ProductSteps ==
  ASSUME NEW D, NEW n \in Nat, NEW lists, DOMAIN lists = 1..n,
         \A i \in 1..n : lists[i] \in Seq(D)
  PROVE  \E g : IsProductStep(g, n, lists, D) /\ Product(lists) = g[n]
<1> DEFINE A == Seq(Seq(D))
           base == <<<<>>>>
           step == [p \in (1..n) \X A |-> Extended(p[2], lists[p[1]])]
           Eq(it) == it = [s \in SUBSET (1..n) |->
                             IF s = {} THEN base
                             ELSE Extended(it[s \ {Max(s)}], lists[Max(s)])]
           it == CHOOSE it : Eq(it)
<1>1. base \in A
  <2>1. <<>> \in Seq(D)
    OBVIOUS
  <2> QED
    BY <2>1
<1>2. Product(lists) = it[1..n]
  BY DEF Product, FoldLeft, MapThenFoldSet
<1> HIDE DEF base
<1>3. /\ step \in [(1..n) \X A -> A]
      /\ \A i \in 1..n, x \in A : step[<<i, x>>] = Extended(x, lists[i])
  <2>1. \A x \in A, i \in 1..n : Extended(x, lists[i]) \in A
    BY ExtendedIs
  <2> HIDE DEF A
  <2> QED
    BY <2>1
<1> HIDE DEF step, A
<1>4. \A s \in SUBSET (1..n) : s # {} => Max(s) \in 1..n
  BY MaxOf
<1>5. \E g : Eq(g)
  <2>1. PICK g : IsFoldLeft(g, n, A, base, step)
    BY <1>1, <1>3, FoldLeftExists
  <2>2. ASSUME NEW s \in SUBSET (1..n)
        PROVE  g[s] = IF s = {} THEN base
                      ELSE Extended(g[s \ {Max(s)}], lists[Max(s)])
    <3>1. CASE s = {}
      BY <2>1, <3>1 DEF IsFoldLeft
    <3>2. CASE s # {}
      <4>1. Max(s) \in 1..n
        BY <1>4, <3>2
      <4>2. s \ {Max(s)} \in SUBSET (1..n)
        OBVIOUS
      <4>3. g[s \ {Max(s)}] \in A /\ g[s] = step[<<Max(s), g[s \ {Max(s)}]>>]
        BY <2>1, <3>2, <4>2 DEF IsFoldLeft
      <4> QED
        BY <1>3, <3>2, <4>1, <4>3
    <3> QED
      BY <3>1, <3>2
  <2>3. Eq(g)
    BY <2>1, <2>2 DEF IsFoldLeft
  <2> HIDE DEF Eq
  <2> QED
    BY <2>3
<1>6. Eq(it)
  <2> HIDE DEF Eq
  <2> QED
    BY <1>5
<1> HIDE DEF it
<1>7. PICK g : IsStepped(g, n, A, base, step) /\ g[n] = it[1..n]
  <2>1. it[{}] = base
    BY <1>6
  <2>2. \A s \in SUBSET (1..n) :
           s # {} /\ it[s \ {Max(s)}] \in A => it[s] = step[<<Max(s), it[s \ {Max(s)}]>>]
    <3> SUFFICES ASSUME NEW s \in SUBSET (1..n), s # {}, it[s \ {Max(s)}] \in A
                 PROVE  it[s] = step[<<Max(s), it[s \ {Max(s)}]>>]
      OBVIOUS
    <3>1. Max(s) \in 1..n
      BY <1>4
    <3>2. it[s] = Extended(it[s \ {Max(s)}], lists[Max(s)])
      BY <1>6, <3>1
    <3> QED
      BY <1>3, <3>1, <3>2
  <2>3. FoldsLeft(it, n, A, base, step)
    BY <2>1, <2>2 DEF FoldsLeft
  <2> HIDE DEF Eq
  <2>4. Reached(it[1..n], n, A, base, step)
    BY <1>1, <1>3, <2>3, FoldLeftSteps
  <2> QED
    BY <2>4 DEF Reached
<1>8. /\ g \in [0..n -> A] /\ g[0] = base
      /\ \A i \in 1..n : g[i] = step[<<i, g[i - 1]>>]
  BY <1>7 DEF IsStepped
<1>9. ASSUME NEW i \in 1..n
      PROVE  g[i] = Extended(g[i - 1], lists[i])
  <2>1. g[i - 1] \in A
    BY <1>8
  <2> QED
    BY <1>3, <1>8, <2>1
<1>10. IsProductStep(g, n, lists, D)
  BY <1>8, <1>9 DEF IsProductStep, A, base
<1> QED
  BY <1>2, <1>7, <1>10

LEMMA FourLists ==
  ASSUME NEW D, NEW a \in Seq(D), NEW b \in Seq(D), NEW c \in Seq(D), NEW d \in Seq(D)
  PROVE  /\ Product(<<a, b, c, d>>) \in Seq(Seq(D))
         /\ ToSet(Product(<<a, b, c, d>>)) = ToSet(a) \X ToSet(b) \X ToSet(c) \X ToSet(d)
<1> DEFINE lists == <<a, b, c, d>>
           n == 4
           SA == ToSet(a)
           SB == ToSet(b)
           SC == ToSet(c)
           SD == ToSet(d)
<1>1. /\ n \in Nat /\ DOMAIN lists = 1..n /\ n = 4
      /\ lists[1] = a /\ lists[2] = b /\ lists[3] = c /\ lists[4] = d
      /\ \A i \in 1..n : lists[i] \in Seq(D)
  OBVIOUS
<1> HIDE DEF lists, n
<1>2. PICK g : IsProductStep(g, n, lists, D) /\ Product(lists) = g[n]
  BY <1>1, ProductSteps
<1>3. /\ \A i \in 0..n : g[i] \in Seq(Seq(D))
      /\ g[0] = <<<<>>>> /\ \A i \in 1..n : g[i] = Extended(g[i - 1], lists[i])
  BY <1>2 DEF IsProductStep
<1>4. /\ 0 \in 0..n /\ 1 \in 0..n /\ 2 \in 0..n /\ 3 \in 0..n /\ 4 \in 0..n
      /\ 1 \in 1..n /\ 2 \in 1..n /\ 3 \in 1..n /\ 4 \in 1..n
      /\ 1 - 1 = 0 /\ 2 - 1 = 1 /\ 3 - 1 = 2 /\ 4 - 1 = 3
  BY <1>1
<1>5. /\ g[0] \in Seq(Seq(D)) /\ g[1] \in Seq(Seq(D)) /\ g[2] \in Seq(Seq(D))
      /\ g[3] \in Seq(Seq(D)) /\ g[4] \in Seq(Seq(D))
      /\ g[1] = Extended(g[0], a) /\ g[2] = Extended(g[1], b)
      /\ g[3] = Extended(g[2], c) /\ g[4] = Extended(g[3], d)
  BY <1>1, <1>3, <1>4
<1>6. ToSet(g[0]) = {<<>>}
  BY <1>3 DEF ToSet
<1>7. /\ ToSet(g[1]) = Longer(ToSet(g[0]), SA)
      /\ ToSet(g[2]) = Longer(ToSet(g[1]), SB)
      /\ ToSet(g[3]) = Longer(ToSet(g[2]), SC)
      /\ ToSet(g[4]) = Longer(ToSet(g[3]), SD)
  <2>1. ToSet(g[1]) = Longer(ToSet(g[0]), SA)
    BY <1>5, ExtendedIs
  <2>2. ToSet(g[2]) = Longer(ToSet(g[1]), SB)
    BY <1>5, ExtendedIs
  <2>3. ToSet(g[3]) = Longer(ToSet(g[2]), SC)
    BY <1>5, ExtendedIs
  <2>4. ToSet(g[4]) = Longer(ToSet(g[3]), SD)
    BY <1>5, ExtendedIs
  <2> QED
    BY <2>1, <2>2, <2>3, <2>4
<1> HIDE DEF SA, SB, SC, SD
<1>8. ASSUME NEW t \in ToSet(g[4])
      PROVE  t \in SA \X SB \X SC \X SD
  <2>1. PICK t3 \in ToSet(g[3]), z \in SD : t = Append(t3, z)
    BY <1>7, LongerIs
  <2>2. PICK t2 \in ToSet(g[2]), y \in SC : t3 = Append(t2, y)
    BY <1>7, LongerIs
  <2>3. PICK t1 \in ToSet(g[1]), x \in SB : t2 = Append(t1, x)
    BY <1>7, LongerIs
  <2>4. PICK w \in SA : t1 = Append(<<>>, w)
    <3>1. PICK t0 \in ToSet(g[0]), w \in SA : t1 = Append(t0, w)
      BY <1>7, LongerIs
    <3>2. t0 = <<>>
      BY <1>6
    <3> QED
      BY <3>1, <3>2
  <2>5. t = Append(Append(Append(Append(<<>>, w), x), y), z)
    BY <2>1, <2>2, <2>3, <2>4
  <2>6. t = <<w, x, y, z>>
    BY <2>5, Appended
  <2> QED
    BY <2>6
<1>9. ASSUME NEW w \in SA, NEW x \in SB, NEW y \in SC, NEW z \in SD
      PROVE  <<w, x, y, z>> \in ToSet(g[4])
  <2> DEFINE t1 == Append(<<>>, w)
             t2 == Append(t1, x)
             t3 == Append(t2, y)
             t4 == Append(t3, z)
  <2>1. t4 = <<w, x, y, z>>
    BY Appended
  <2>2. t1 \in ToSet(g[1])
    <3>1. <<>> \in ToSet(g[0])
      BY <1>6
    <3> QED
      BY <1>7, <3>1, LongerHas
  <2> HIDE DEF t1
  <2>3. t2 \in ToSet(g[2])
    BY <1>7, <2>2, LongerHas
  <2> HIDE DEF t2
  <2>4. t3 \in ToSet(g[3])
    BY <1>7, <2>3, LongerHas
  <2> HIDE DEF t3
  <2>5. t4 \in ToSet(g[4])
    BY <1>7, <2>4, LongerHas
  <2> HIDE DEF t4
  <2> QED
    BY <2>1, <2>5
<1>10. ToSet(g[4]) = SA \X SB \X SC \X SD
  BY <1>8, <1>9
<1>11. Product(lists) \in Seq(Seq(D)) /\ ToSet(Product(lists)) = SA \X SB \X SC \X SD
  BY <1>1, <1>2, <1>5, <1>10
<1> QED
  BY <1>11 DEF lists, SA, SB, SC, SD
\* What a list of a rule stands for.
Wilds(list) == IF "*" \in ToSet(list) THEN {MatchAll} ELSE ToSet(list)
RuleTuples(r) == Wilds(r.s) \X Wilds(r.t) \X Wilds(r.c) \X Wilds(r.p)
RuleCalls(r) == {Call(r.op, n) : n \in RuleTuples(r)}

LEMMA WildIs ==
  ASSUME NEW list, IsWritten(list), list # <<>>
  PROVE  /\ expand_wildcard(Meant(list)) \in Seq(Wilds(list))
         /\ ToSet(expand_wildcard(Meant(list))) = Wilds(list)
<1>1. CASE "*" \in ToSet(list)
  <2> DEFINE all == <<MatchAll>>
  <2>1. expand_wildcard(Meant(list)) = all
    BY <1>1 DEF expand_wildcard, Meant
  <2>2. all \in Seq({MatchAll}) /\ ToSet(all) = {MatchAll}
    BY DEF ToSet
  <2> HIDE DEF all
  <2> QED
    BY <1>1, <2>1, <2>2 DEF Wilds
<1>2. CASE "*" \notin ToSet(list)
  <2>1. expand_wildcard(Meant(list)) = list
    BY <1>2 DEF expand_wildcard, Meant
  <2> QED
    BY <1>2, <2>1 DEF Wilds, IsWritten
<1> QED
  BY <1>1, <1>2

\* The calls of a rule are one for each tuple, in some order.
LEMMA CallsAre ==
  ASSUME NEW r, IsRule(r), HasLists(r)
  PROVE  /\ Calls(RuleText(r)) \in Seq(RuleCalls(r))
         /\ ToSet(Calls(RuleText(r))) = RuleCalls(r)
<1> DEFINE a == expand_wildcard(Meant(r.s))
           b == expand_wildcard(Meant(r.t))
           c == expand_wildcard(Meant(r.c))
           d == expand_wildcard(Meant(r.p))
           wild == <<a, b, c, d>>
           D == Wilds(r.s) \cup Wilds(r.t) \cup Wilds(r.c) \cup Wilds(r.p)
           tuples == Product(wild)
           m == Len(tuples)
           args == Args(r)
<1>1. /\ IsWritten(r.s) /\ IsWritten(r.t) /\ IsWritten(r.c) /\ IsWritten(r.p)
      /\ r.s # <<>> /\ r.t # <<>> /\ r.c # <<>> /\ r.p # <<>>
      /\ r.op \in AvActions
  BY DEF IsRule, HasLists
<1>2. /\ a \in Seq(Wilds(r.s)) /\ ToSet(a) = Wilds(r.s)
      /\ b \in Seq(Wilds(r.t)) /\ ToSet(b) = Wilds(r.t)
      /\ c \in Seq(Wilds(r.c)) /\ ToSet(c) = Wilds(r.c)
      /\ d \in Seq(Wilds(r.p)) /\ ToSet(d) = Wilds(r.p)
  BY <1>1, WildIs
<1>3. [i \in DOMAIN args |-> expand_wildcard(args[i])] = wild
  BY DEF Args
<1> HIDE DEF a, b, c, d
<1>4. a \in Seq(D) /\ b \in Seq(D) /\ c \in Seq(D) /\ d \in Seq(D)
  <2>1. /\ Wilds(r.s) \subseteq D /\ Wilds(r.t) \subseteq D
        /\ Wilds(r.c) \subseteq D /\ Wilds(r.p) \subseteq D
    OBVIOUS
  <2> HIDE DEF D
  <2> QED
    BY <1>2, <2>1, SeqMonotonic
<1>5. tuples \in Seq(Seq(D)) /\ ToSet(tuples) = RuleTuples(r)
  <2> HIDE DEF D
  <2>1. /\ Product(<<a, b, c, d>>) \in Seq(Seq(D))
        /\ ToSet(Product(<<a, b, c, d>>)) = ToSet(a) \X ToSet(b) \X ToSet(c) \X ToSet(d)
    BY <1>4, FourLists
  <2> QED
    BY <1>2, <2>1 DEF RuleTuples
<1> HIDE DEF wild
<1>6. Calls(RuleText(r)) = CallsOf(r.op, wild)
  <2> HIDE DEF args
  <2>1. RuleText(r)[1].s = r.op /\ ParseArguments(RuleText(r)).args = args
    BY <1>1, RuleParses DEF args
  <2> QED
    BY <1>1, <1>3, <2>1 DEF Calls, AvActions, XpermActions
<1> HIDE DEF tuples, m
<1>7. m \in Nat /\ DOMAIN tuples = 1..m
  BY <1>5, LenProperties DEF m
<1>8. Calls(RuleText(r)) = [i \in 1..m |-> Call(r.op, tuples[i])]
  BY <1>6, <1>7 DEF CallsOf, tuples
<1>9. ToSet(tuples) = {tuples[i] : i \in 1..m}
  BY <1>7 DEF ToSet
<1>10. \A i \in 1..m : Call(r.op, tuples[i]) \in RuleCalls(r)
  BY <1>5, <1>9 DEF RuleCalls
<1>11. \A c1 \in RuleCalls(r) : \E i \in 1..m : c1 = Call(r.op, tuples[i])
  BY <1>5, <1>9 DEF RuleCalls
<1> DEFINE S == RuleCalls(r)
           calls == [i \in 1..m |-> Call(r.op, tuples[i])]
<1> HIDE DEF S
<1>12. calls \in Seq(S)
  <2>1. calls \in [1..m -> S]
    BY <1>10 DEF S
  <2> HIDE DEF calls
  <2> QED
    BY <1>7, <2>1
<1>13. ToSet(calls) = S
  <2>1. ToSet(calls) = {calls[i] : i \in 1..m}
    BY DEF ToSet
  <2>2. \A i \in 1..m : calls[i] = Call(r.op, tuples[i])
    OBVIOUS
  <2> HIDE DEF calls
  <2> QED
    BY <1>10, <1>11, <2>1, <2>2 DEF S
<1> QED
  BY <1>8, <1>12, <1>13 DEF S
(***************************************************************************)
(* What a call does to the policy.                                         *)
(***************************************************************************)
WithAv(p, f) == [p EXCEPT !.av = f]
IsPolicy(p) == {"av", "flavor"} \subseteq DOMAIN p

LEMMA WithAvIs ==
  ASSUME NEW p, IsPolicy(p), NEW f, NEW g
  PROVE  /\ DOMAIN WithAv(p, f) = DOMAIN p /\ IsPolicy(WithAv(p, f))
         /\ WithAv(p, f).av = f /\ WithAv(p, f).flavor = p.flavor
         /\ WithAv(WithAv(p, f), g) = WithAv(p, g)
<1>1. "av" # "flavor"
  OBVIOUS
<1> QED
  BY <1>1 DEF WithAv, IsPolicy

LEMMA PolicyHas ==
  ASSUME NEW p, PolicyOK(p)
  PROVE  IsPolicy(p)
BY DEF PolicyOK, IsPolicy

Changed(op, vector, bits) == IF InvertOf(op) THEN vector \ bits ELSE vector \cup bits
\* The bits a call sets or clears in the vector of a key.
Named(d) == IF d = MatchAll THEN Bits ELSE {d}
Hit(p, op, n, k) ==
  IF Resolved(p, op, n) /\ k = <<n[1], n[2], n[3], EffectOf(op)>> THEN Named(n[4]) ELSE {}
Hits(p, op, done, k) == UNION {Hit(p, op, n, k) : n \in done}

LEMMA RuleIs ==
  ASSUME NEW p, IsPolicy(p), NEW op, NEW a, NEW b, NEW c, NEW d,
         a # MatchAll, b # MatchAll, c # MatchAll, NEW k
  PROVE  /\ Vector(AddRule(p, op, <<a, b, c, d>>), k) =
              IF k = <<a, b, c, EffectOf(op)>> THEN Changed(op, Vector(p, k), Named(d))
                                               ELSE Vector(p, k)
         /\ \E f : AddRule(p, op, <<a, b, c, d>>) = WithAv(p, f)
<1> DEFINE n == <<a, b, c, d>>
           e == EffectOf(op)
           key == <<a, b, c, e>>
           reach == {key}
           new(j) == Changed(op, Vector(p, j), Named(d))
           nodes == (DOMAIN p.av \ reach) \cup {j \in reach : new(j) # NoRule(e)}
           f == [j \in nodes |-> IF j \in reach THEN new(j) ELSE p.av[j]]
<1>1. n[1] = a /\ n[2] = b /\ n[3] = c /\ n[4] = d
  OBVIOUS
<1>2. \A all : Keys(p, n, e, all) = reach
  <2> HIDE DEF n
  <2>1. \A all : Keys(p, n, e, all) = {a} \X {b} \X {c} \X {e}
    BY <1>1 DEF Keys, MatchedTypes, MatchedClasses
  <2> HIDE DEF e
  <2>2. {a} \X {b} \X {c} \X {e} = {<<a, b, c, e>>}
    OBVIOUS
  <2> QED
    BY <2>1, <2>2
<1>3. AddRule(p, op, n) = WithAv(p, f)
  <2> HIDE DEF n, reach, e
  <2>1. AddRule(p, op, n) =
          LET new1(j) == IF InvertOf(op) THEN Vector(p, j) \ Named(d)
                         ELSE Vector(p, j) \cup Named(d)
              nodes1 == (DOMAIN p.av \ reach) \cup {j \in reach : new1(j) # NoRule(e)}
          IN [p EXCEPT !.av = [j \in nodes1 |-> IF j \in reach THEN new1(j) ELSE p.av[j]]]
    BY <1>1, <1>2 DEF AddRule, Named, e
  <2> QED
    BY <2>1 DEF WithAv, Changed
<1> HIDE DEF n
<1>4. WithAv(p, f).av = f
  BY WithAvIs
<1> DEFINE q == WithAv(p, f)
<1>5. Vector(q, k) = IF k \in nodes THEN f[k] ELSE NoRule(k[4])
  <2> HIDE DEF f, q
  <2>1. DOMAIN f = nodes
    BY DEF f
  <2> HIDE DEF nodes
  <2> QED
    BY <1>4, <2>1 DEF Vector, Given, q
<1>6. CASE k = key
  <2>1. k[4] = e
    BY <1>6
  <2> HIDE DEF new, e, key
  <2>2. CASE new(k) # NoRule(e)
    <3>1. k \in nodes /\ f[k] = new(k)
      BY <1>6, <2>2
    <3> QED
      BY <1>3, <1>5, <1>6, <3>1 DEF new, key, e, n
  <2>3. CASE new(k) = NoRule(e)
    <3>1. k \notin nodes
      BY <1>6, <2>3
    <3> QED
      BY <1>3, <1>5, <1>6, <2>1, <2>3, <3>1 DEF new, key, e, n
  <2> QED
    BY <2>2, <2>3, <1>3 DEF n
<1>7. CASE k # key
  <2> HIDE DEF new, key
  <2>1. k \in nodes <=> k \in DOMAIN p.av
    BY <1>7
  <2>2. k \in nodes => f[k] = p.av[k]
    BY <1>7
  <2> HIDE DEF nodes, f, reach
  <2>3. Vector(q, k) = Vector(p, k)
    BY <1>5, <2>1, <2>2 DEF Vector, Given
  <2> QED
    BY <1>3, <1>7, <2>3 DEF key, n
<1> QED
  BY <1>6, <1>7
LEMMA NoChange ==
  ASSUME NEW op, NEW v
  PROVE  Changed(op, v, {}) = v
BY DEF Changed

LEMMA TwoChanges ==
  ASSUME NEW op, NEW v, NEW a, NEW b
  PROVE  Changed(op, Changed(op, v, a), b) = Changed(op, v, a \cup b)
BY DEF Changed

LEMMA SameHit ==
  ASSUME NEW p, NEW q, p.flavor = q.flavor, NEW op \in AvActions, NEW n, NEW k
  PROVE  Hit(p, op, n, k) = Hit(q, op, n, k)
<1>1. Resolved(p, op, n) <=> Resolved(q, op, n)
  BY DEF Resolved, Known
<1> QED
  BY <1>1 DEF Hit

SameButAv(p, q) == WithAv(p, <<>>) = WithAv(q, <<>>)

LEMMA CallIs ==
  ASSUME NEW p, IsPolicy(p), NEW op \in AvActions, NEW a, NEW b, NEW c, NEW d,
         a # MatchAll, b # MatchAll, c # MatchAll, NEW q,
         q = Execute(p, Call(op, <<a, b, c, d>>))
  PROVE  /\ IsPolicy(q) /\ q.flavor = p.flavor /\ SameButAv(q, p)
         /\ \A k : Vector(q, k) = Changed(op, Vector(p, k), Hit(p, op, <<a, b, c, d>>, k))
<1> DEFINE n == <<a, b, c, d>>
           call == Call(op, n)
<1>1. call.op = op /\ call.names = n
  BY DEF Call
<1> HIDE DEF call
<1>2. n[1] = a /\ n[2] = b /\ n[3] = c /\ n[4] = d
  OBVIOUS
<1>3. CASE ~Resolved(p, op, n)
  <2> HIDE DEF n
  <2>1. q = p
    BY <1>1, <1>3 DEF Execute, call, n
  <2>2. \A k : Hit(p, op, n, k) = {}
    BY <1>3 DEF Hit
  <2>3. \A k : Vector(q, k) = Changed(op, Vector(p, k), Hit(p, op, n, k))
    BY <2>1, <2>2, NoChange
  <2> QED
    BY <2>1, <2>3 DEF n, SameButAv
<1>4. CASE Resolved(p, op, n)
  <2>1. q = AddRule(p, op, n)
    <3> HIDE DEF n
    <3>1. /\ op \notin XpermActions /\ op \notin TypeActions
          /\ op \notin {"name", "genfscon", "typeattribute", "type", "attribute"}
      BY DEF AvActions, XpermActions, TypeActions
    <3> QED
      BY <1>1, <1>4, <3>1 DEF Execute, call, n
  <2>2. PICK f : q = WithAv(p, f)
    BY <2>1, RuleIs
  <2>3. IsPolicy(q) /\ q.flavor = p.flavor /\ SameButAv(q, p)
    BY <2>2, WithAvIs DEF SameButAv
  <2>4. ASSUME NEW k
        PROVE  Vector(q, k) = Changed(op, Vector(p, k), Hit(p, op, n, k))
    <3>1. Vector(q, k) = IF k = <<a, b, c, EffectOf(op)>>
                         THEN Changed(op, Vector(p, k), Named(d)) ELSE Vector(p, k)
      BY <2>1, RuleIs
    <3>2. Hit(p, op, n, k) = IF k = <<a, b, c, EffectOf(op)>> THEN Named(d) ELSE {}
      <4> HIDE DEF n
      <4> QED
        BY <1>2, <1>4 DEF Hit
    <3> QED
      BY <3>1, <3>2, NoChange
  <2> QED
    BY <2>3, <2>4
<1> QED
  BY <1>3, <1>4

(***************************************************************************)
(* The invariant: between two calls of a rule, the policy has the changes  *)
(* of the calls made so far, of the policy the rule was begun with.        *)
(***************************************************************************)
RuleBegun == lines = <<RuleText(rule)>> /\ todo = <<>> /\ pol = before
Promised(done, k) ==
  Changed(rule.op, Vector(before, k), Hits(before, rule.op, done, k))
RuleUnderway ==
  /\ lines = <<>> /\ todo \in Seq(RuleCalls(rule))
  /\ SameButAv(pol, before)
  /\ \E done \in SUBSET RuleTuples(rule) :
        /\ RuleCalls(rule) = {Call(rule.op, n) : n \in done} \cup ToSet(todo)
        /\ \A k \in AvKeysOf(before) : Vector(pol, k) = Promised(done, k)
IInv ==
  /\ IsPolicy(pol)
  /\ rule = NoStatement \/ IsRule(rule)
  /\ replay = "none" /\ IsExact(rule) =>
       IsPolicy(before) /\ (RuleBegun \/ RuleUnderway)

LEMMA ExactIs ==
  ASSUME NEW r, r = NoStatement \/ IsRule(r), IsExact(r)
  PROVE  /\ IsRule(r) /\ HasLists(r)
         /\ Wilds(r.s) = ToSet(r.s) /\ Wilds(r.t) = ToSet(r.t) /\ Wilds(r.c) = ToSet(r.c)
         /\ MatchAll \notin ToSet(r.s) /\ MatchAll \notin ToSet(r.t)
         /\ MatchAll \notin ToSet(r.c)
<1>1. /\ r # NoStatement
      /\ r.s # <<>> /\ "*" \notin ToSet(r.s) /\ r.t # <<>> /\ "*" \notin ToSet(r.t)
      /\ r.c # <<>> /\ "*" \notin ToSet(r.c) /\ r.p # <<>>
  BY DEF IsExact
<1>2. IsRule(r) /\ IsWritten(r.s) /\ IsWritten(r.t) /\ IsWritten(r.c)
  BY <1>1 DEF IsRule
<1>3. MatchAll # "*"
  BY DEF MatchAll
<1>4. MatchAll \notin ToSet(r.s) /\ MatchAll \notin ToSet(r.t) /\ MatchAll \notin ToSet(r.c)
  BY <1>2, <1>3, NameIs
<1> QED
  BY <1>1, <1>2, <1>4 DEF HasLists, Wilds

\* No operation takes a part of the policy away.
LEMMA ExecuteKeeps ==
  ASSUME NEW p, NEW call
  PROVE  DOMAIN Execute(p, call) = DOMAIN p
<1> DEFINE op == call.op
           n == call.names
<1>1. DOMAIN AddRule(p, op, n) = DOMAIN p
  BY DEF AddRule
<1>2. DOMAIN AddXpermRule(p, op, n, call.xperm) = DOMAIN p
  BY DEF AddXpermRule
<1>3. DOMAIN AddTypeRule(p, op, n) = DOMAIN p
  BY DEF AddTypeRule
<1>4. DOMAIN AddType(p, op, n) = DOMAIN p
  BY DEF AddType
<1>5. DOMAIN AddTypeAttribute(p, n) = DOMAIN p
  BY DEF AddTypeAttribute
<1>6. DOMAIN SetTypeState(p, op, n) = DOMAIN p
  BY DEF SetTypeState
<1>7. DOMAIN AddFilenameTrans(p, n) = DOMAIN p
  BY DEF AddFilenameTrans
<1>8. DOMAIN AddGenfscon(p, n) = DOMAIN p
  BY DEF AddGenfscon
<1> HIDE DEF op, n
<1> QED
  BY <1>1, <1>2, <1>3, <1>4, <1>5, <1>6, <1>7, <1>8
     DEF Execute, op, n, AvActions, XpermActions, TypeActions

LEMMA FirstAndRest ==
  ASSUME NEW S, NEW list \in Seq(S), list # <<>>
  PROVE  /\ Head(list) \in S /\ Tail(list) \in Seq(S)
         /\ ToSet(list) = {Head(list)} \cup ToSet(Tail(list))
<1> DEFINE n == Len(list)
           rest == Tail(list)
<1>1. /\ n \in Nat /\ n # 0 /\ DOMAIN list = 1..n
      /\ Head(list) = list[1] /\ Head(list) \in S /\ rest \in Seq(S) /\ Len(rest) = n - 1
      /\ \A i \in 1..(n - 1) : rest[i] = list[i + 1]
  BY EmptySeq, HeadTailProperties
<1>2. DOMAIN rest = 1..(n - 1)
  BY <1>1
<1> HIDE DEF n, rest
<1>3. ToSet(list) = {list[i] : i \in 1..n} /\ ToSet(rest) = {rest[i] : i \in 1..(n - 1)}
  BY <1>1, <1>2 DEF ToSet
<1>4. ASSUME NEW x \in ToSet(list)
      PROVE  x \in {Head(list)} \cup ToSet(rest)
  <2>1. PICK i \in 1..n : x = list[i]
    BY <1>3
  <2>2. CASE i = 1
    BY <1>1, <2>1, <2>2
  <2>3. CASE i # 1
    <3>1. i - 1 \in 1..(n - 1) /\ (i - 1) + 1 = i
      BY <1>1, <2>3
    <3>2. rest[i - 1] = x
      BY <1>1, <2>1, <3>1
    <3> QED
      BY <1>3, <3>1, <3>2
  <2> QED
    BY <2>2, <2>3
<1>5. Head(list) \in ToSet(list)
  <2>1. 1 \in 1..n
    BY <1>1
  <2> QED
    BY <1>1, <1>3, <2>1
<1>6. ASSUME NEW x \in ToSet(rest)
      PROVE  x \in ToSet(list)
  <2>1. PICK i \in 1..(n - 1) : x = rest[i]
    BY <1>3
  <2>2. i + 1 \in 1..n /\ x = list[i + 1]
    BY <1>1, <2>1
  <2> QED
    BY <1>3, <2>2
<1> QED
  BY <1>1, <1>4, <1>5, <1>6 DEF rest

LEMMA ReadLineKeepsInv ==
  ASSUME IInv, ReadLine
  PROVE  IInv'
<1>1. /\ lines # <<>> /\ lines' = Tail(lines)
      /\ todo' = IF Refused(Head(lines)) THEN <<>> ELSE Calls(Head(lines))
      /\ pol' = pol /\ rule' = rule /\ before' = before /\ replay' = replay
  BY DEF ReadLine
<1>2. CASE replay = "none" /\ IsExact(rule)
  <2>1. IsPolicy(before) /\ RuleBegun
    BY <1>1, <1>2 DEF IInv, RuleUnderway
  <2>2. IsRule(rule) /\ HasLists(rule)
    BY <1>2, ExactIs DEF IInv
  <2> DEFINE text == RuleText(rule)
  <2>3. lines = <<text>>
    BY <2>1 DEF RuleBegun
  <2> HIDE DEF text
  <2>4. Head(lines) = text /\ Tail(lines) = <<>>
    BY <2>3
  <2>5. lines' = <<>> /\ todo' = Calls(text)
    BY <1>1, <2>2, <2>4, RuleParses DEF text
  <2>6. todo' \in Seq(RuleCalls(rule)) /\ ToSet(todo') = RuleCalls(rule)
    BY <2>2, <2>5, CallsAre DEF text
  <2>7. \A k : Vector(pol, k) = Promised({}, k)
    <3>1. pol = before
      BY <2>1 DEF RuleBegun
    <3>2. \A k : Hits(before, rule.op, {}, k) = {}
      BY DEF Hits
    <3> QED
      BY <3>1, <3>2, NoChange DEF Promised
  <2>8. RuleUnderway'
    <3>1. SameButAv(pol, before)
      BY <2>1 DEF RuleBegun, SameButAv
    <3>2. RuleCalls(rule) = {Call(rule.op, n) : n \in {}} \cup ToSet(todo')
      BY <2>6
    <3>3. \A k \in AvKeysOf(before) : Vector(pol', k) = Promised({}, k)'
      BY <1>1, <2>7 DEF Promised
    <3>4. {} \in SUBSET RuleTuples(rule)
      OBVIOUS
    <3> QED
      BY <1>1, <2>5, <2>6, <3>1, <3>2, <3>3, <3>4 DEF RuleUnderway
  <2> QED
    BY <1>1, <2>1, <2>8 DEF IInv
<1>3. CASE ~(replay = "none" /\ IsExact(rule))
  BY <1>1, <1>3 DEF IInv
<1> QED
  BY <1>2, <1>3

LEMMA ApplyKeepsInv ==
  ASSUME IInv, Apply
  PROVE  IInv'
<1>1. /\ todo # <<>> /\ todo' = Tail(todo) /\ pol' = Execute(pol, Head(todo))
      /\ lines' = lines /\ rule' = rule /\ before' = before /\ replay' = replay
  BY DEF Apply
<1>2. IsPolicy(pol')
  BY <1>1, ExecuteKeeps DEF IInv, IsPolicy
<1>3. CASE replay = "none" /\ IsExact(rule)
  <2>1. IsPolicy(before) /\ IsPolicy(pol) /\ RuleUnderway
    BY <1>1, <1>3 DEF IInv, RuleBegun
  <2>2. /\ IsRule(rule) /\ rule.op \in AvActions
        /\ Wilds(rule.s) = ToSet(rule.s) /\ Wilds(rule.t) = ToSet(rule.t)
        /\ Wilds(rule.c) = ToSet(rule.c) /\ MatchAll \notin ToSet(rule.s)
        /\ MatchAll \notin ToSet(rule.t) /\ MatchAll \notin ToSet(rule.c)
    BY <1>3, ExactIs DEF IInv, IsRule
  <2> DEFINE S == RuleCalls(rule)
             op == rule.op
  <2>3. PICK done \in SUBSET RuleTuples(rule) :
           /\ S = {Call(op, n) : n \in done} \cup ToSet(todo)
           /\ \A k \in AvKeysOf(before) : Vector(pol, k) = Promised(done, k)
    BY <2>1 DEF RuleUnderway
  <2>4. lines = <<>> /\ todo \in Seq(S) /\ SameButAv(pol, before)
    BY <2>1 DEF RuleUnderway
  <2> HIDE DEF S
  <2>5. /\ Head(todo) \in S /\ Tail(todo) \in Seq(S)
        /\ ToSet(todo) = {Head(todo)} \cup ToSet(Tail(todo))
    BY <1>1, <2>4, FirstAndRest
  <2>6. PICK n \in RuleTuples(rule) : Head(todo) = Call(op, n)
    BY <2>5 DEF S, RuleCalls
  <2>7. PICK a, b, c, d : /\ n = <<a, b, c, d>>
                          /\ a # MatchAll /\ b # MatchAll /\ c # MatchAll
    BY <2>2, <2>6 DEF RuleTuples
  <2>8. /\ SameButAv(pol', pol) /\ pol'.flavor = pol.flavor
        /\ \A k : Vector(pol', k) = Changed(op, Vector(pol, k), Hit(pol, op, n, k))
    BY <1>1, <2>1, <2>2, <2>6, <2>7, CallIs
  <2>9. pol.flavor = before.flavor
    BY <2>1, <2>4, WithAvIs DEF SameButAv
  <2> DEFINE more == done \cup {n}
  <2>10. ASSUME NEW k \in AvKeysOf(before)
         PROVE  Vector(pol', k) = Promised(more, k)
    <3> DEFINE h == Hits(before, op, done, k)
               g == Hit(before, op, n, k)
    <3>1. Vector(pol, k) = Changed(op, Vector(before, k), h)
      BY <2>3 DEF Promised
    <3>2. Hit(pol, op, n, k) = g
      BY <2>2, <2>9, SameHit
    <3>3. Hits(before, op, more, k) = h \cup g
      BY DEF Hits
    <3> HIDE DEF h, g, more, op
    <3>4. Vector(pol', k) = Changed(op, Changed(op, Vector(before, k), h), g)
      BY <2>8, <3>1, <3>2
    <3> QED
      BY <3>3, <3>4, TwoChanges DEF Promised, op
  <2>11. S = {Call(op, m) : m \in more} \cup ToSet(todo')
    <3>1. {Call(op, m) : m \in more} = {Call(op, m) : m \in done} \cup {Call(op, n)}
      OBVIOUS
    <3> QED
      BY <1>1, <2>3, <2>5, <2>6, <3>1
  <2>12. more \in SUBSET RuleTuples(rule)
    OBVIOUS
  <2>13. SameButAv(pol', before)
    BY <2>4, <2>8 DEF SameButAv
  <2>14. RuleUnderway'
    <3> HIDE DEF more
    <3>1. \A k \in AvKeysOf(before) : Vector(pol', k) = Promised(more, k)'
      BY <1>1, <2>10 DEF Promised
    <3> QED
      BY <1>1, <2>4, <2>5, <2>11, <2>12, <2>13, <3>1 DEF RuleUnderway, S
  <2> QED
    BY <1>1, <1>2, <2>1, <2>14 DEF IInv
<1>4. CASE ~(replay = "none" /\ IsExact(rule))
  BY <1>1, <1>2, <1>4 DEF IInv
<1> QED
  BY <1>3, <1>4

LEMMA NextKeepsInv ==
  ASSUME IInv, [Next]_vars
  PROVE  IInv'
<1>1. ASSUME NEW r \in Rules, Begin(RuleText(r), r)
      PROVE  IInv'
  <2>1. /\ todo = <<>> /\ todo' = todo /\ lines' = <<RuleText(r)>> /\ rule' = r
        /\ before' = pol /\ pol' = pol
    BY <1>1 DEF Begin, Idle
  <2>2. IsRule(r)
    BY RulesAssumption DEF IsRule, IsWritten
  <2>3. RuleBegun'
    BY <2>1 DEF RuleBegun
  <2> QED
    BY <2>1, <2>2, <2>3 DEF IInv
<1>2. ASSUME NEW text \in Texts, Begin(text, NoStatement)
      PROVE  IInv'
  <2>1. rule' = NoStatement /\ pol' = pol
    BY <1>2 DEF Begin
  <2> QED
    BY <2>1 DEF IInv, IsExact
<1>3. CASE ReadLine
  BY <1>3, ReadLineKeepsInv
<1>4. CASE Apply
  BY <1>4, ApplyKeepsInv
<1>5. ASSUME NEW onto \in {"same", "bare"}, Dump(onto)
      PROVE  IInv'
  <2>1. rule' = NoStatement /\ pol' = IF onto = "same" THEN pol ELSE Bare
    BY <1>5 DEF Dump
  <2>2. IsPolicy(Bare)
    BY PoliciesAssumption, PolicyHas
  <2> QED
    BY <2>1, <2>2 DEF IInv, IsExact
<1>6. CASE UNCHANGED vars
  BY <1>6 DEF vars, IInv, RuleBegun, RuleUnderway, Promised
<1> QED
  BY <1>1, <1>2, <1>3, <1>4, <1>5, <1>6 DEF Next

LEMMA InitInv == Init => IInv
<1> SUFFICES ASSUME Init PROVE IInv
  OBVIOUS
<1>1. pol \in Policies /\ rule = NoStatement
  BY DEF Init
<1>2. IsPolicy(pol)
  BY <1>1, PoliciesAssumption, PolicyHas
<1> QED
  BY <1>1, <1>2 DEF IInv, IsExact

LEMMA InvAlways == Spec => []IInv
BY InitInv, NextKeepsInv, PTL DEF Spec
--------------------------------------------------------------------------------
(***************************************************************************)
(* When all calls are made, the changes are those of the statement.        *)
(***************************************************************************)
LEMMA AllHits ==
  ASSUME NEW p, NEW r, IsRule(r), IsExact(r), NEW k \in AvKeysOf(p)
  PROVE  LET names == DOMAIN p.flavor
             cells == (ToSet(r.s) \cap names) \X (ToSet(r.t) \cap names)
                        \X (ToSet(r.c) \cap Classes) \X {EffectOf(r.op)}
             bits  == IF "*" \in ToSet(r.p) THEN Bits ELSE ToSet(r.p) \cap Perms[k[3]]
         IN Hits(p, r.op, RuleTuples(r), k) = IF k \in cells THEN bits ELSE {}
<1> DEFINE names == DOMAIN p.flavor
           e == EffectOf(r.op)
           cells == (ToSet(r.s) \cap names) \X (ToSet(r.t) \cap names)
                      \X (ToSet(r.c) \cap Classes) \X {e}
           bits == IF "*" \in ToSet(r.p) THEN Bits ELSE ToSet(r.p) \cap Perms[k[3]]
           hits == Hits(p, r.op, RuleTuples(r), k)
<1>1. /\ r.op \in AvActions /\ IsWritten(r.p)
      /\ RuleTuples(r) = ToSet(r.s) \X ToSet(r.t) \X ToSet(r.c) \X Wilds(r.p)
      /\ MatchAll \notin ToSet(r.s) /\ MatchAll \notin ToSet(r.t) /\ MatchAll \notin ToSet(r.c)
  BY ExactIs DEF IsRule, RuleTuples
<1>2. PICK k1 \in names, k2 \in names, k3 \in Classes, k4 \in AvEffects :
           k = <<k1, k2, k3, k4>>
  BY DEF AvKeysOf, KeysIn
<1>3. k[3] = k3
  BY <1>2
<1>4. k \in cells <=> k1 \in ToSet(r.s) /\ k2 \in ToSet(r.t) /\ k3 \in ToSet(r.c) /\ k4 = e
  BY <1>2
<1> HIDE DEF e, names
<1>5. ASSUME NEW x \in ToSet(r.s), NEW y \in ToSet(r.t), NEW z \in ToSet(r.c), NEW d
      PROVE  Hit(p, r.op, <<x, y, z, d>>, k) =
               IF x = k1 /\ y = k2 /\ z = k3 /\ k4 = e /\ (d = MatchAll \/ d \in Perms[k3])
               THEN Named(d) ELSE {}
  <2> DEFINE n == <<x, y, z, d>>
  <2>1. n[1] = x /\ n[2] = y /\ n[3] = z /\ n[4] = d
    OBVIOUS
  <2>2. k = <<x, y, z, e>> <=> x = k1 /\ y = k2 /\ z = k3 /\ k4 = e
    BY <1>2
  <2>3. x # MatchAll /\ y # MatchAll /\ z # MatchAll
    BY <1>1
  <2> HIDE DEF n
  <2>4. ASSUME x = k1, y = k2, z = k3
        PROVE  Resolved(p, r.op, n) <=> d = MatchAll \/ d \in Perms[k3]
    <3>1. Known(p, {n[1], n[2]} \ {MatchAll})
      BY <1>2, <2>1, <2>3, <2>4 DEF Known, names
    <3> QED
      <4>1. Resolved(p, r.op, n) <=>
              /\ Known(p, {n[1], n[2]} \ {MatchAll})
              /\ n[3] \in Classes \cup {MatchAll}
              /\ n[4] = MatchAll \/ (n[3] # MatchAll /\ n[4] \in Perms[n[3]])
        <5> DEFINE op == r.op
        <5>1. op \in AvActions
          BY <1>1
        <5>2. /\ op \notin XpermActions /\ op \notin TypeActions \cup {"name"}
              /\ op \notin {"permissive", "enforce"}
              /\ op # "genfscon" /\ op # "typeattribute"
          BY <5>1 DEF AvActions, XpermActions, TypeActions
        <5> HIDE DEF op
        <5>3. Resolved(p, op, n) <=>
                /\ Known(p, {n[1], n[2]} \ {MatchAll})
                /\ n[3] \in Classes \cup {MatchAll}
                /\ n[4] = MatchAll \/ (n[3] # MatchAll /\ n[4] \in Perms[n[3]])
          BY <5>1, <5>2 DEF Resolved
        <5> QED
          BY <5>3 DEF op
      <4>2. n[3] = k3 /\ k3 # MatchAll /\ n[4] = d
        BY <2>1, <2>3, <2>4
      <4> QED
        BY <3>1, <4>1, <4>2
  <2>5. Hit(p, r.op, n, k) =
          IF Resolved(p, r.op, n) /\ k = <<x, y, z, e>> THEN Named(d) ELSE {}
    BY <2>1 DEF Hit, e
  <2> QED
    BY <2>2, <2>4, <2>5 DEF n
<1>6. hits = UNION {Hit(p, r.op, n, k) : n \in RuleTuples(r)}
  BY DEF Hits
<1>7. CASE k \notin cells
  <2>1. ASSUME NEW n \in RuleTuples(r)
        PROVE  Hit(p, r.op, n, k) = {}
    <3>1. PICK x \in ToSet(r.s), y \in ToSet(r.t), z \in ToSet(r.c), d \in Wilds(r.p) :
             n = <<x, y, z, d>>
      BY <1>1
    <3>2. ~(x = k1 /\ y = k2 /\ z = k3 /\ k4 = e)
      BY <1>4, <1>7
    <3> QED
      BY <1>5, <3>1, <3>2
  <2>2. hits = {}
    BY <1>6, <2>1
  <2> QED
    BY <1>7, <2>2 DEF e, names
<1>8. CASE k \in cells
  <2>1. k1 \in ToSet(r.s) /\ k2 \in ToSet(r.t) /\ k3 \in ToSet(r.c) /\ k4 = e
    BY <1>4, <1>8
  <2>2. ASSUME NEW b, b \in hits
        PROVE  \E d \in Wilds(r.p) : (d = MatchAll \/ d \in Perms[k3]) /\ b \in Named(d)
    <3>1. PICK n \in RuleTuples(r) : b \in Hit(p, r.op, n, k)
      BY <1>6, <2>2
    <3>2. PICK x \in ToSet(r.s), y \in ToSet(r.t), z \in ToSet(r.c), d \in Wilds(r.p) :
             n = <<x, y, z, d>>
      BY <1>1
    <3> QED
      BY <1>5, <3>1, <3>2
  <2>3. ASSUME NEW d \in Wilds(r.p), d = MatchAll \/ d \in Perms[k3], NEW b \in Named(d)
        PROVE  b \in hits
    <3> DEFINE n == <<k1, k2, k3, d>>
    <3>1. n \in RuleTuples(r)
      BY <1>1, <2>1
    <3>2. Hit(p, r.op, n, k) = Named(d)
      BY <1>5, <2>1, <2>3
    <3> HIDE DEF n
    <3> QED
      BY <1>6, <2>3, <3>1, <3>2
  <2> HIDE DEF hits
  <2>4. CASE "*" \in ToSet(r.p)
    <3>1. Wilds(r.p) = {MatchAll} /\ Named(MatchAll) = Bits
      BY <2>4 DEF Wilds, Named
    <3>2. hits = Bits
      BY <2>2, <2>3, <3>1
    <3> QED
      BY <1>8, <2>4, <3>2 DEF hits, e, names
  <2>5. CASE "*" \notin ToSet(r.p)
    <3>1. Wilds(r.p) = ToSet(r.p)
      BY <2>5 DEF Wilds
    <3>2. \A d \in ToSet(r.p) : d # MatchAll /\ Named(d) = {d}
      BY <1>1, <2>5, NameIs DEF Named
    <3>3. hits = ToSet(r.p) \cap Perms[k3]
      BY <2>2, <2>3, <3>1, <3>2
    <3> QED
      BY <1>3, <1>8, <2>5, <3>3 DEF hits, e, names
  <2> QED
    BY <2>4, <2>5
<1> QED
  BY <1>7, <1>8

\* A rule statement with lists, however they are written and whatever they name,
\* changes what it says and nothing else: for every policy, every order of its
\* calls and every statement before it.
THEOREM RuleIsProductAlways == Spec => []RuleIsProduct
<1>1. ASSUME IInv PROVE RuleIsProduct
  <2> SUFFICES ASSUME Idle, replay = "none", IsExact(rule)
               PROVE  RuleIsProduct
    BY DEF RuleIsProduct
  <2>1. RuleUnderway /\ todo = <<>>
    <3>1. lines = <<>> /\ todo = <<>>
      BY DEF Idle
    <3>2. <<RuleText(rule)>> # <<>>
      OBVIOUS
    <3> QED
      BY <1>1, <3>1, <3>2 DEF IInv, RuleBegun
  <2>2. IsRule(rule)
    BY <1>1, ExactIs DEF IInv
  <2>3. PICK done \in SUBSET RuleTuples(rule) :
           /\ RuleCalls(rule) = {Call(rule.op, n) : n \in done} \cup ToSet(todo)
           /\ \A k \in AvKeysOf(before) : Vector(pol, k) = Promised(done, k)
    BY <2>1 DEF RuleUnderway
  <2>4. done = RuleTuples(rule)
    <3>1. ToSet(todo) = {}
      BY <2>1 DEF ToSet
    <3>2. ASSUME NEW n \in RuleTuples(rule)
          PROVE  n \in done
      <4>1. PICK m \in done : Call(rule.op, n) = Call(rule.op, m)
        BY <2>3, <3>1 DEF RuleCalls
      <4>2. m = n
        BY <4>1 DEF Call
      <4> QED
        BY <4>2
    <3> QED
      BY <3>2
  <2> DEFINE names == DOMAIN before.flavor
             cells == (ToSet(rule.s) \cap names) \X (ToSet(rule.t) \cap names)
                        \X (ToSet(rule.c) \cap Classes) \X {EffectOf(rule.op)}
             bits(k) == IF "*" \in ToSet(rule.p) THEN Bits
                        ELSE ToSet(rule.p) \cap Perms[k[3]]
  <2>5. ASSUME NEW k \in AvKeysOf(before)
        PROVE  Vector(pol, k) = IF k \in cells THEN Changed(rule.op, Vector(before, k), bits(k))
                                ELSE Vector(before, k)
    <3>1. Hits(before, rule.op, RuleTuples(rule), k) = IF k \in cells THEN bits(k) ELSE {}
      BY <2>2, AllHits
    <3>2. Vector(pol, k) =
            Changed(rule.op, Vector(before, k), Hits(before, rule.op, RuleTuples(rule), k))
      BY <2>3, <2>4 DEF Promised
    <3> HIDE DEF cells, bits
    <3> QED
      BY <3>1, <3>2, NoChange
  <2>6. [pol EXCEPT !.av = <<>>] = [before EXCEPT !.av = <<>>]
    BY <2>1 DEF RuleUnderway, SameButAv, WithAv
  <2> QED
    BY <2>5, <2>6 DEF RuleIsProduct, Changed
<1> QED
  BY <1>1, InvAlways, PTL
--------------------------------------------------------------------------------
(***************************************************************************)
(* The nodes of an extended permission key, by the facts about XpermRules. *)
(***************************************************************************)
XP == INSTANCE XpermStatements_proofs
       WITH xperms <- <<>>, policyvers <- 0, Types <- {0}, Attribs <- {0}, Classes <- {0},
            Effects <- {0}, Ranges <- {}, Files <- {}, Any <- 1, Target <- <<0, 0, 0, 0>>,
            MaxItems <- 0, todo <- <<>>, written <- 0, before <- 0

GoodNodes(nodes) == nodes \in Seq(X!Node) /\ X!OneOfEach(nodes)
DriverOf(x) == x \div Width
\* The commands a range stands for.
RangeOf(low, high) ==
  IF DriverOf(low) = DriverOf(high) THEN low..high
  ELSE {x \in X!Codes : DriverOf(x) \in DriverOf(low)..DriverOf(high)}

\* The operators of the two instances are the same.
LEMMA SameSets ==
  /\ X!Codes = XP!Codes /\ X!Bytes = XP!Bytes /\ X!Node = XP!Node
  /\ \A nodes : /\ X!Drivers(nodes) = XP!Drivers(nodes)
                /\ X!Granted(nodes) = XP!Granted(nodes)
                /\ GoodNodes(nodes) <=> XP!GoodNodes(nodes)
<1>1. X!Codes = XP!Codes /\ X!Bytes = XP!Bytes
  BY DEF X!Codes, XP!Codes, X!Bytes, XP!Bytes
<1>2. X!Node = XP!Node
  BY <1>1 DEF X!Node, XP!Node, X!FUNCTION, XP!FUNCTION, X!DRIVER, XP!DRIVER, X!NLMSG, XP!NLMSG
<1>3. \A n : X!IsDriver(n) <=> XP!IsDriver(n)
  BY DEF X!IsDriver, XP!IsDriver, X!DRIVER, XP!DRIVER
<1>4. \A n, d : X!IsFunction(n, d) <=> XP!IsFunction(n, d)
  BY DEF X!IsFunction, XP!IsFunction, X!FUNCTION, XP!FUNCTION
<1>5. \A nodes : X!Drivers(nodes) = XP!Drivers(nodes)
  BY <1>3 DEF X!Drivers, XP!Drivers, X!Places, XP!Places
<1>6. \A nodes, d : X!Functions(nodes, d) = XP!Functions(nodes, d)
  BY <1>4 DEF X!Functions, XP!Functions
<1>7. ASSUME NEW nodes
      PROVE  X!OneOfEach(nodes) <=> XP!OneOfEach(nodes)
  BY <1>1, <1>5, <1>6 DEF X!OneOfEach, XP!OneOfEach
<1>8. ASSUME NEW nodes
      PROVE  X!Granted(nodes) = XP!Granted(nodes)
  BY <1>1, <1>3, <1>4 DEF X!Granted, XP!Granted, X!ioctl_driver, XP!ioctl_driver,
     X!ioctl_func, XP!ioctl_func
<1>9. ASSUME NEW nodes
      PROVE  GoodNodes(nodes) <=> XP!GoodNodes(nodes)
  BY <1>2, <1>7 DEF GoodNodes, XP!GoodNodes
<1> QED
  BY <1>1, <1>2, <1>5, <1>8, <1>9

\* The X of Statements and the XP of these proofs are the same operators.
LEMMA SameStores ==
  ASSUME NEW nodes, NEW perms
  PROVE  /\ X!SetDrivers(nodes, perms) = XP!SetDrivers(nodes, perms)
         /\ \A d : X!SetFunctions(nodes, d, perms) = XP!SetFunctions(nodes, d, perms)
         /\ \A at : X!Stored(nodes, at) = XP!Stored(nodes, at)
         /\ X!Drivers(nodes) = XP!Drivers(nodes)
         /\ \A d : X!Functions(nodes, d) = XP!Functions(nodes, d)
         /\ X!WithoutFunctions(nodes) = XP!WithoutFunctions(nodes)
<1>1. \A at : X!Stored(nodes, at) = XP!Stored(nodes, at)
  BY DEF X!Stored, XP!Stored
<1>2. X!Drivers(nodes) = XP!Drivers(nodes)
  BY DEF X!Drivers, XP!Drivers, X!Places, XP!Places, X!IsDriver, XP!IsDriver, X!DRIVER, XP!DRIVER
<1>3. \A d : X!Functions(nodes, d) = XP!Functions(nodes, d)
  BY DEF X!Functions, XP!Functions, X!IsFunction, XP!IsFunction, X!FUNCTION, XP!FUNCTION
<1>4. \A at, node : X!Store(nodes, at, node) = XP!Store(nodes, at, node)
  BY DEF X!Store, XP!Store
<1>5. \A s, d, q : X!NewNode(s, d, q) = XP!NewNode(s, d, q)
  BY DEF X!NewNode, XP!NewNode
<1>6. X!SetDrivers(nodes, perms) = XP!SetDrivers(nodes, perms)
  BY <1>2, <1>4, <1>5 DEF X!SetDrivers, XP!SetDrivers, X!DRIVER, XP!DRIVER
<1>7. \A d : X!SetFunctions(nodes, d, perms) = XP!SetFunctions(nodes, d, perms)
  BY <1>3, <1>4, <1>5 DEF X!SetFunctions, XP!SetFunctions, X!FUNCTION, XP!FUNCTION
<1>8. X!WithoutFunctions(nodes) = XP!WithoutFunctions(nodes)
  BY DEF X!WithoutFunctions, XP!WithoutFunctions, X!FUNCTION, XP!FUNCTION
<1> QED
  BY <1>1, <1>2, <1>3, <1>6, <1>7, <1>8

LEMMA SameExtend ==
  ASSUME NEW nodes, NEW low, NEW high
  PROVE  X!Extend(nodes, low, high) = XP!Extend(nodes, low, high)
BY SameStores DEF X!Extend, XP!Extend, X!ioctl_driver, XP!ioctl_driver, X!ioctl_func, XP!ioctl_func

LEMMA SameComplement ==
  ASSUME NEW nodes, NEW low, NEW high
  PROVE  X!Complement(nodes, low, high) = XP!Complement(nodes, low, high)
BY SameStores, SameSets DEF X!Complement, XP!Complement, X!ioctl_driver, XP!ioctl_driver,
   X!ioctl_func, XP!ioctl_func, X!Bytes, XP!Bytes

\* A plain range widens what the nodes of a key grant by what it stands for, and a
\* complemented one leaves good nodes too.
LEMMA NodesExtended ==
  ASSUME NEW nodes, GoodNodes(nodes), NEW low \in X!Codes, NEW high \in X!Codes
  PROVE  /\ GoodNodes(X!Extend(nodes, low, high))
         /\ X!Granted(X!Extend(nodes, low, high)) = X!Granted(nodes) \cup RangeOf(low, high)
<1> DEFINE r == XP!Extend(nodes, low, high)
<1>1. XP!GoodNodes(nodes) /\ low \in XP!Codes /\ high \in XP!Codes
  BY SameSets
<1>2. /\ XP!GoodNodes(r)
      /\ XP!Granted(r) = XP!Granted(nodes) \cup XP!Sets!Round(low, high)
  BY <1>1, XP!Extended, WidthAssumption
<1>3. XP!Sets!Round(low, high) = RangeOf(low, high)
  BY DEF XP!Sets!Round, RangeOf, DriverOf, XP!Sets!DriverOf, XP!Sets!Codes, X!Codes
<1>4. X!Extend(nodes, low, high) = r
  BY SameExtend
<1> HIDE DEF r
<1> QED
  BY <1>2, <1>3, <1>4, SameSets

\* A complement leaves one node of each kind, as an addition does.
LEMMA NodesComplemented ==
  ASSUME NEW nodes, GoodNodes(nodes), NEW low \in X!Codes, NEW high \in X!Codes
  PROVE  GoodNodes(X!Complement(nodes, low, high))
<1> DEFINE r == XP!Complement(nodes, low, high)
<1>1. XP!GoodNodes(nodes) /\ low \in XP!Codes /\ high \in XP!Codes
  BY SameSets
<1>2. XP!GoodNodes(r)
  BY <1>1, XP!Complemented, WidthAssumption
<1>4. X!Complement(nodes, low, high) = r
  BY SameComplement
<1> HIDE DEF r
<1> QED
  BY <1>2, <1>4, SameSets
--------------------------------------------------------------------------------
(***************************************************************************)
(* Lists: a set in any order, lines after one another, a braced list.      *)
(***************************************************************************)
IsList(list) == list \in Seq(ToSet(list))

LEMMA IsListIs ==
  ASSUME NEW S, NEW list \in Seq(S)
  PROVE  /\ IsList(list) /\ Len(list) \in Nat /\ DOMAIN list = 1..Len(list)
         /\ ToSet(list) \subseteq S
         /\ \A i \in 1..Len(list) : list[i] \in ToSet(list)
         /\ \A x \in ToSet(list) : \E i \in 1..Len(list) : list[i] = x
<1> DEFINE n == Len(list)
           T == ToSet(list)
<1>1. n \in Nat /\ DOMAIN list = 1..n /\ \A i \in 1..n : list[i] \in S
  OBVIOUS
<1>2. list = [i \in 1..n |-> list[i]]
  OBVIOUS
<1> HIDE DEF n
<1>3. T = {list[i] : i \in 1..n}
  BY <1>1 DEF ToSet
<1>4. list \in [1..n -> T]
  BY <1>2, <1>3
<1>5. T \subseteq S
  BY <1>1, <1>3
<1> HIDE DEF T
<1>6. list \in Seq(T)
  BY <1>1, <1>4
<1>7. \A i \in 1..n : list[i] \in T
  BY <1>3 DEF T
<1>8. \A x \in T : \E i \in 1..n : list[i] = x
  BY <1>3 DEF T
<1> QED
  BY <1>1, <1>5, <1>6, <1>7, <1>8 DEF T, n, IsList

LEMMA ListHas ==
  ASSUME NEW list, IsList(list)
  PROVE  /\ Len(list) \in Nat /\ DOMAIN list = 1..Len(list)
         /\ \A i \in 1..Len(list) : list[i] \in ToSet(list)
         /\ \A x \in ToSet(list) : \E i \in 1..Len(list) : list[i] = x
BY IsListIs DEF IsList

\* Whatever the order, the list has the elements of the set.
LEMMA AnyOrderIs ==
  ASSUME NEW S, IsFiniteSet(S)
  PROVE  InAnyOrder(S) \in Seq(S) /\ ToSet(InAnyOrder(S)) = S
<1> DEFINE A == Seq(S)
           OneOf(T) == CHOOSE x \in T : TRUE
           step == [p \in S \X A |-> Append(p[2], p[1])]
           pick == [T \in SUBSET S |-> OneOf(T)]
           Eq(it) == it = [T \in SUBSET S |->
                             IF T = {} THEN <<>> ELSE Append(it[T \ {OneOf(T)}], OneOf(T))]
           it == CHOOSE it : Eq(it)
           none == <<>>
<1>1. InAnyOrder(S) = it[S]
  BY DEF InAnyOrder, FoldSet, MapThenFoldSet
<1>2. \A T \in SUBSET S : pick[T] = OneOf(T) /\ (T # {} => OneOf(T) \in T)
  OBVIOUS
<1> HIDE DEF OneOf, pick
<1>3. /\ step \in [S \X A -> A] /\ \A x \in S, a \in A : step[<<x, a>>] = Append(a, x)
      /\ none \in A
  <2>1. \A x \in S, a \in A : Append(a, x) \in A
    OBVIOUS
  <2>2. none \in A
    OBVIOUS
  <2> HIDE DEF A
  <2> QED
    BY <2>1, <2>2
<1> HIDE DEF step, A
<1>4. \E f : Eq(f)
  <2> HIDE DEF none
  <2>1. PICK f : IsFold(f, S, A, none, step, pick)
    BY <1>2, <1>3, FoldExists
  <2>2. ASSUME NEW T \in SUBSET S
        PROVE  f[T] = IF T = {} THEN none ELSE Append(f[T \ {OneOf(T)}], OneOf(T))
    <3>1. f \in [SUBSET S -> A] /\ f[T] = IF T = {} THEN none ELSE step[<<pick[T], f[T \ {pick[T]}]>>]
      BY <2>1 DEF IsFold
    <3>2. T # {} => OneOf(T) \in S /\ f[T \ {OneOf(T)}] \in A
      BY <1>2, <3>1
    <3> QED
      BY <1>2, <1>3, <3>1, <3>2
  <2>3. f \in [SUBSET S -> A]
    BY <2>1 DEF IsFold
  <2>4. f = [T \in SUBSET S |-> f[T]]
    BY <2>3
  <2>5. Eq(f)
    BY <2>2, <2>4 DEF none
  <2> HIDE DEF Eq
  <2> QED
    BY <2>5
<1>5. Eq(it)
  <2> HIDE DEF Eq
  <2> QED
    BY <1>4
<1> HIDE DEF it
<1> DEFINE Good == {T \in SUBSET S : it[T] \in Seq(S) /\ ToSet(it[T]) = T}
<1>6. {} \in Good
  <2>1. it[{}] = <<>>
    BY <1>5
  <2>2. <<>> \in Seq(S) /\ ToSet(<<>>) = {}
    BY DEF ToSet
  <2> QED
    BY <2>1, <2>2
<1>7. ASSUME NEW T \in SUBSET S, T # {}, \A x \in T : T \ {x} \in Good
      PROVE  T \in Good
  <2> DEFINE x == OneOf(T)
             a == it[T \ {x}]
             one == <<x>>
  <2>1. x \in T /\ x \in S /\ a \in Seq(S) /\ ToSet(a) = T \ {x}
    BY <1>2, <1>7
  <2>2. it[T] = Append(a, x)
    BY <1>5, <1>7
  <2> HIDE DEF a, x
  <2>3. one \in Seq(S) /\ ToSet(one) = {x}
    BY <2>1 DEF ToSet
  <2>4. Append(a, x) = a \o one
    BY <2>1, AppendIsConcat
  <2> HIDE DEF one
  <2>5. a \o one \in Seq(S) /\ ToSet(a \o one) = ToSet(a) \cup ToSet(one)
    BY <2>1, <2>3, Concatenated
  <2>6. ToSet(a \o one) = T
    BY <2>1, <2>3, <2>5
  <2> QED
    BY <2>2, <2>4, <2>5, <2>6
<1>8. S \in Good
  <2> HIDE DEF Good
  <2>1. SUBSET S \subseteq Good
    BY <1>6, <1>7, SmallerSets
  <2> QED
    BY <2>1
<1> QED
  BY <1>1, <1>8

\* The lines of a set of texts are those of its members.
LEMMA LinesAre ==
  ASSUME NEW S, IsFiniteSet(S), \A part \in S : IsList(part)
  PROVE  /\ IsList(Lines(S))
         /\ \A text \in ToSet(Lines(S)) : \E part \in S : text \in ToSet(part)
<1> DEFINE G == UNION {ToSet(part) : part \in S}
           order == InAnyOrder(S)
           n == Len(order)
<1>1. order \in Seq(S) /\ ToSet(order) = S
  BY AnyOrderIs
<1>2. S \subseteq Seq(G)
  <2>1. ASSUME NEW part \in S
        PROVE  part \in Seq(G)
    <3>1. part \in Seq(ToSet(part))
      BY DEF IsList
    <3>2. ToSet(part) \subseteq G
      OBVIOUS
    <3> HIDE DEF G
    <3> QED
      BY <3>1, <3>2, SeqMonotonic
  <2> QED
    BY <2>1
<1> HIDE DEF order
<1>3. order \in Seq(Seq(G))
  <2> HIDE DEF G
  <2> QED
    BY <1>1, <1>2, SeqMonotonic
<1>4. /\ FlattenSeq(order) \in Seq(G)
      /\ ToSet(FlattenSeq(order)) = UNION {ToSet(order[i]) : i \in 1..n}
  <2> HIDE DEF G
  <2> QED
    BY <1>3, FlattenIs
<1>5. \A i \in 1..n : order[i] \in S
  BY <1>1, IsListIs
<1>6. Lines(S) = FlattenSeq(order)
  BY DEF Lines, order
<1>7. IsList(Lines(S))
  BY <1>4, <1>6, IsListIs
<1>8. ASSUME NEW text \in ToSet(Lines(S))
      PROVE  \E part \in S : text \in ToSet(part)
  <2>1. PICK i \in 1..n : text \in ToSet(order[i])
    BY <1>4, <1>6
  <2> QED
    BY <1>5, <2>1
<1> QED
  BY <1>7, <1>8

\* One list after another.
LEMMA JoinedIs ==
  ASSUME NEW a, IsList(a), NEW b, IsList(b)
  PROVE  IsList(a \o b) /\ ToSet(a \o b) = ToSet(a) \cup ToSet(b)
<1> DEFINE A == ToSet(a) \cup ToSet(b)
<1>1. a \in Seq(A)
  <2>1. ToSet(a) \subseteq A
    OBVIOUS
  <2> HIDE DEF A
  <2> QED
    BY <2>1, SeqMonotonic DEF IsList
<1>2. b \in Seq(A)
  <2>1. ToSet(b) \subseteq A
    OBVIOUS
  <2> HIDE DEF A
  <2> QED
    BY <2>1, SeqMonotonic DEF IsList
<1>3. a \o b \in Seq(A) /\ ToSet(a \o b) = ToSet(a) \cup ToSet(b)
  <2> HIDE DEF A
  <2> QED
    BY <1>1, <1>2, Concatenated
<1> HIDE DEF A
<1> QED
  BY <1>3, IsListIs

\* A line, or none.
LEMMA LineIfIs ==
  ASSUME NEW condition, NEW text
  PROVE  /\ IsList(LineIf(condition, text))
         /\ \A t \in ToSet(LineIf(condition, text)) : condition /\ t = text
<1>1. CASE condition
  <2> DEFINE one == <<text>>
  <2>1. one \in Seq({text}) /\ ToSet(one) = {text}
    BY DEF ToSet
  <2>2. LineIf(condition, text) = one
    BY <1>1 DEF LineIf
  <2> HIDE DEF one
  <2> QED
    BY <1>1, <2>1, <2>2 DEF IsList
<1>2. CASE ~condition
  <2> DEFINE none == <<>>
  <2>1. none \in Seq({}) /\ ToSet(none) = {}
    BY DEF ToSet
  <2>2. LineIf(condition, text) = none
    BY <1>2 DEF LineIf
  <2> HIDE DEF none
  <2> QED
    BY <2>1, <2>2 DEF IsList
<1> QED
  BY <1>1, <1>2

LEMMA OneIs ==
  ASSUME NEW x
  PROVE  IsList(<<x>>) /\ ToSet(<<x>>) = {x}
<1>1. <<x>> \in Seq({x}) /\ ToSet(<<x>>) = {x}
  BY DEF ToSet
<1> QED
  BY <1>1 DEF IsList

\* A line that ends with a list in braces.
EndsBraced(text, head, words) == text = head \o Braced(words)

HasBraces(S) == {W("{"), W("}")} \subseteq S

\* A list starts here.
Opens(text, at) == text[at] = W("{")

\* Where the braces and the words between them are.
LEMMA BracedText ==
  ASSUME NEW S, NEW head \in Seq(S), NEW words \in Seq(S), HasBraces(S),
         NEW text, EndsBraced(text, head, words)
  PROVE  /\ text \in Seq(S) /\ Len(text) = Len(head) + Len(words) + 2
         /\ \A i \in 1..Len(head) : text[i] = head[i]
         /\ Opens(text, Len(head) + 1)
         /\ Between(text, Len(head) + 1, Len(text)) = words
<1> DEFINE m == Len(head)
           n == Len(words)
           o == W("{")
           c == W("}")
           all == <<o>> \o words \o <<c>>
<1>1. Braced(words) = all
  BY DEF Braced
<1> HIDE DEF o, c
<1>2. /\ all \in Seq(S) /\ Len(all) = n + 2 /\ all[1] = o
      /\ \A i \in 1..n : all[i + 1] = words[i]
  <2>1. o \in S /\ c \in S
    BY DEF o, c, HasBraces
  <2> QED
    BY <2>1, Enclosed
<1> HIDE DEF all
<1>3. /\ text \in Seq(S) /\ Len(text) = m + (n + 2)
      /\ \A i \in 1..(m + (n + 2)) : text[i] = IF i <= m THEN head[i] ELSE all[i - m]
  <2>1. text = head \o all
    BY <1>1 DEF EndsBraced
  <2> DEFINE t == head \o all
  <2>2. /\ t \in Seq(S) /\ Len(t) = Len(head) + Len(all)
        /\ \A i \in 1..(Len(head) + Len(all)) :
              t[i] = IF i <= Len(head) THEN head[i] ELSE all[i - Len(head)]
    BY <1>2, ConcatProperties
  <2> HIDE DEF t, n
  <2> QED
    BY <1>2, <2>1, <2>2 DEF t
<1>4. m \in Nat /\ n \in Nat /\ words = [i \in 1..n |-> words[i]]
  OBVIOUS
<1>5. \A i \in 1..m : text[i] = head[i]
  <2> HIDE DEF m, n
  <2>1. \A i \in 1..m : i \in 1..(m + (n + 2)) /\ i <= m
    BY <1>4
  <2> QED
    BY <1>3, <2>1
<1>6. text[m + 1] = o
  <2> HIDE DEF m, n
  <2>1. m + 1 \in 1..(m + (n + 2)) /\ ~(m + 1 <= m) /\ (m + 1) - m = 1
    BY <1>4
  <2> QED
    BY <1>2, <1>3, <2>1
<1>7. ASSUME NEW i \in 1..n
      PROVE  text[(m + 1) + 1 + i - 1] = words[i]
  <2> HIDE DEF m, n
  <2> DEFINE j == (m + 1) + 1 + i - 1
  <2>1. j \in 1..(m + (n + 2)) /\ ~(j <= m) /\ j - m = i + 1
    BY <1>4
  <2> HIDE DEF j
  <2>2. text[j] = words[i]
    BY <1>2, <1>3, <2>1
  <2> QED
    BY <2>2 DEF j
<1>8. Between(text, m + 1, Len(text)) = words
  <2> DEFINE l == Len(text)
  <2>1. l = m + n + 2
    <3> HIDE DEF m, n
    <3> QED
      BY <1>3, <1>4
  <2> HIDE DEF m, n, l
  <2>2. Between(text, m + 1, l) =
          [i \in 1..((l - 1) - ((m + 1) + 1) + 1) |-> text[((m + 1) + 1) + i - 1]]
    BY <1>4, <2>1 DEF Between
  <2>3. (l - 1) - ((m + 1) + 1) + 1 = n
    BY <1>4, <2>1
  <2>4. Between(text, m + 1, l) = [i \in 1..n |-> words[i]]
    BY <1>7, <2>2, <2>3
  <2> QED
    BY <1>4, <2>4 DEF l
<1>9. Len(text) = m + n + 2
  <2> HIDE DEF m, n
  <2> QED
    BY <1>3, <1>4
<1> QED
  BY <1>3, <1>5, <1>6, <1>8, <1>9 DEF o, Opens
--------------------------------------------------------------------------------
(***************************************************************************)
(* The arguments of any statement, one after another.                      *)
(***************************************************************************)
Kinds == {"id", "name", "term", "terms", "sterm", "ioctl", "xperms"}

\* Every action has a list of kinds.
LEMMA ArgumentsAre ==
  ASSUME NEW action \in Actions
  PROVE  IsList(Arguments(action)) /\ ToSet(Arguments(action)) \subseteq Kinds
<1> DEFINE a4 == <<"sterm", "sterm", "sterm", "sterm">>
           a5 == <<"sterm", "sterm", "sterm", "ioctl", "xperms">>
           a1 == <<"sterm">>
           a2 == <<"term", "term">>
           b2 == <<"id", "terms">>
           b1 == <<"id">>
           b4 == <<"id", "id", "id", "id">>
           b5 == <<"id", "id", "id", "id", "name">>
           b3 == <<"id", "id", "id">>
<1>1. a4 \in Seq(Kinds)
  BY DEF Kinds
<1>2. a5 \in Seq(Kinds)
  BY DEF Kinds
<1>3. a1 \in Seq(Kinds)
  BY DEF Kinds
<1>4. a2 \in Seq(Kinds)
  BY DEF Kinds
<1>5. b2 \in Seq(Kinds)
  BY DEF Kinds
<1>6. b1 \in Seq(Kinds)
  BY DEF Kinds
<1>7. b4 \in Seq(Kinds)
  BY DEF Kinds
<1>8. b5 \in Seq(Kinds)
  BY DEF Kinds
<1>9. b3 \in Seq(Kinds)
  BY DEF Kinds
<1>10. \/ Arguments(action) = a4 \/ Arguments(action) = a5 \/ Arguments(action) = a1
       \/ Arguments(action) = a2 \/ Arguments(action) = b2 \/ Arguments(action) = b1
       \/ Arguments(action) = b4 \/ Arguments(action) = b5 \/ Arguments(action) = b3
  BY DEF Arguments, Actions, AvActions, XpermActions, TypeActions
<1> HIDE DEF a4, a5, a1, a2, b2, b1, b4, b5, b3
<1>11. Arguments(action) \in Seq(Kinds)
  BY <1>1, <1>2, <1>3, <1>4, <1>5, <1>6, <1>7, <1>8, <1>9, <1>10
<1> QED
  BY <1>11, IsListIs

LEMMA LeastEnd ==
  ASSUME NEW ends, ends \subseteq Nat
  PROVE  (IF ends = {} THEN 0 ELSE CHOOSE i \in ends : \A k \in ends : i <= k) \in Nat
BY LeastNumber

\* A closing brace is at a place, or there is none.
LEMMA ClosesAt ==
  ASSUME NEW text, IsList(text), NEW at
  PROVE  /\ Closing(text, at, IsId) \in Nat
         /\ Closing(text, at, IsIdOrStar) \in Nat
         /\ Closing(text, at, IsXpermItem) \in Nat
<1>1. DOMAIN text \subseteq Nat
  BY ListHas
<1>2. Closing(text, at, IsId) \in Nat
  <2> DEFINE ends == {j \in DOMAIN text : j > at /\ ~IsId(text[j])}
             j == IF ends = {} THEN 0 ELSE CHOOSE i \in ends : \A k \in ends : i <= k
  <2>1. ends \subseteq Nat
    BY <1>1
  <2>2. Closing(text, at, IsId) = j \/ Closing(text, at, IsId) = 0
    BY DEF Closing
  <2> HIDE DEF ends
  <2>3. j \in Nat
    BY <2>1, LeastEnd
  <2> HIDE DEF j
  <2> QED
    BY <2>2, <2>3
<1>3. Closing(text, at, IsIdOrStar) \in Nat
  <2> DEFINE ends == {j \in DOMAIN text : j > at /\ ~IsIdOrStar(text[j])}
             j == IF ends = {} THEN 0 ELSE CHOOSE i \in ends : \A k \in ends : i <= k
  <2>1. ends \subseteq Nat
    BY <1>1
  <2>2. Closing(text, at, IsIdOrStar) = j \/ Closing(text, at, IsIdOrStar) = 0
    BY DEF Closing
  <2> HIDE DEF ends
  <2>3. j \in Nat
    BY <2>1, LeastEnd
  <2> HIDE DEF j
  <2> QED
    BY <2>2, <2>3
<1>4. Closing(text, at, IsXpermItem) \in Nat
  <2> DEFINE ends == {j \in DOMAIN text : j > at /\ ~IsXpermItem(text[j])}
             j == IF ends = {} THEN 0 ELSE CHOOSE i \in ends : \A k \in ends : i <= k
  <2>1. ends \subseteq Nat
    BY <1>1
  <2>2. Closing(text, at, IsXpermItem) = j \/ Closing(text, at, IsXpermItem) = 0
    BY DEF Closing
  <2> HIDE DEF ends
  <2>3. j \in Nat
    BY <2>1, LeastEnd
  <2> HIDE DEF j
  <2> QED
    BY <2>2, <2>3
<1> QED
  BY <1>2, <1>3, <1>4

LEMMA GotIs ==
  ASSUME NEW names, NEW next
  PROVE  /\ Got(names, next).ok /\ Got(names, next).next = next
         /\ Got(names, next).names = names
         /\ ~Failed.ok /\ Failed.next = 0
BY DEF Got, Failed

IsResult(got) == got.ok \in BOOLEAN /\ got.next \in Nat

LEMMA ResultIs ==
  ASSUME NEW names, NEW next \in Nat
  PROVE  IsResult(Got(names, next)) /\ IsResult(Failed)
<1>1. Got(names, next).ok \in BOOLEAN /\ Failed.ok \in BOOLEAN
  BY Zenon DEF Got, Failed
<1>2. Got(names, next).next \in Nat
  BY GotIs
<1>3. Failed.next \in Nat
  BY GotIs
<1> QED
  BY <1>1, <1>2, <1>3 DEF IsResult

LEMMA NumbersDiffer ==
  /\ \A x : ~IsHex(W(x)) /\ ~IsSpan(W(x))
  /\ \A w : ~(IsHex(w) /\ IsSpan(w))
<1>1. \A x : W(x).n = <<>>
  BY DEF W
<1>2. Len(<<>>) = 0
  OBVIOUS
<1> QED
  BY <1>1, <1>2 DEF IsHex, IsSpan

\* Each parse_ function returns names and a place, or fails.
LEMMA ParsesTo ==
  ASSUME NEW text, IsList(text), NEW at \in Nat, NEW kind \in Kinds
  PROVE  IsResult(ParseArgument(text, at, kind))
<1> DEFINE r == ParseArgument(text, at, kind)
<1>0. at + 1 \in Nat
  OBVIOUS
<1>1. IsResult(ParseId(text, at))
  <2> DEFINE names == <<text[at].s>>
  <2>1. ParseId(text, at) = Got(names, at + 1) \/ ParseId(text, at) = Failed
    BY DEF ParseId
  <2> HIDE DEF names
  <2> QED
    BY <1>0, <2>1, ResultIs
<1>2. IsResult(ParseTerm(text, at))
  <2> DEFINE end == Closing(text, at, IsId)
             names == NamesOf(Between(text, at, end))
  <2>1. \/ ParseTerm(text, at) = Got(names, end + 1) \/ ParseTerm(text, at) = Failed
        \/ ParseTerm(text, at) = ParseId(text, at)
    BY DEF ParseTerm
  <2>2. end \in Nat
    BY ClosesAt
  <2> HIDE DEF names, end
  <2>3. end + 1 \in Nat
    BY <2>2
  <2> QED
    BY <1>1, <2>1, <2>3, ResultIs
<1>3. IsResult(ParseSterm(text, at))
  <2> DEFINE end == Closing(text, at, IsIdOrStar)
             names == StarNames(Between(text, at, end))
             none == <<>>
  <2>1. \/ ParseSterm(text, at) = Got(names, end + 1) \/ ParseSterm(text, at) = Failed
        \/ ParseSterm(text, at) = ParseId(text, at) \/ ParseSterm(text, at) = Got(none, at + 1)
    <3> HIDE DEF names
    <3> QED
      BY MarksDiffer DEF ParseSterm, names
  <2>2. end \in Nat
    BY ClosesAt
  <2> HIDE DEF names, end, none
  <2>3. end + 1 \in Nat
    BY <2>2
  <2> QED
    BY <1>0, <1>1, <2>1, <2>3, ResultIs
<1>4. IsResult(ParseXperms(text, at))
  <2> DEFINE reset == WordAt(text, at) = W("~")
             pos   == IF reset THEN at + 1 ELSE at
             w     == WordAt(text, pos)
             end   == Closing(text, pos, IsXpermItem)
             items == Between(text, pos, end)
             a == Items(items, reset)
             b == Everything(reset)
             c == IF w.n = <<0>> THEN Everything(reset) ELSE <<Xperm(w.n[1], w.n[1], reset)>>
             d == <<Xperm(w.n[1], w.n[2], reset)>>
  <2>0. ParseXperms(text, at) =
          CASE w = W("{") /\ end # 0 /\ ItemsWellFormed(items) -> Got(a, end + 1)
            [] w = W("*") /\ ~reset -> Got(b, pos + 1)
            [] IsHex(w) /\ ~reset -> Got(c, pos + 1)
            [] IsSpan(w) /\ ~reset -> Got(d, pos + 1)
            [] OTHER -> Failed
    BY DEF ParseXperms
  <2>1. \/ ParseXperms(text, at) = Got(a, end + 1) \/ ParseXperms(text, at) = Got(b, pos + 1)
        \/ ParseXperms(text, at) = Got(c, pos + 1) \/ ParseXperms(text, at) = Got(d, pos + 1)
        \/ ParseXperms(text, at) = Failed
    <3> HIDE DEF a, b, c, d, end, pos, w, items, reset
    <3> QED
      BY <2>0, NumbersDiffer, MarksDiffer
  <2>2. end \in Nat
    BY ClosesAt
  <2>3. pos \in Nat
    OBVIOUS
  <2> HIDE DEF a, b, c, d, end, pos
  <2>4. end + 1 \in Nat /\ pos + 1 \in Nat
    BY <2>2, <2>3
  <2> QED
    BY <2>1, <2>4, ResultIs
<1> DEFINE none == <<>>
<1>5. \/ r = ParseId(text, at) \/ r = ParseTerm(text, at) \/ r = ParseSterm(text, at)
      \/ r = ParseXperms(text, at) \/ r = Got(none, at) \/ r = Got(none, at + 1) \/ r = Failed
  BY DEF ParseArgument, Kinds, IfAny
<1> HIDE DEF none, r
<1>6. IsResult(r)
  BY <1>0, <1>1, <1>2, <1>3, <1>4, <1>5, ResultIs
<1> QED
  BY <1>6 DEF r

\* The states of the parser, and what one argument makes of one.
NamesRead(text) == {ParseArgument(text, p[1], p[2]).names : p \in Nat \X Kinds}
States(text) == [ok : BOOLEAN, next : Nat, args : Seq(NamesRead(text))]
\* What the state after an argument says of the one before it.
Follows(text, sofar, kind, after) ==
  LET got == ParseArgument(text, sofar.next, kind)
  IN after.ok => /\ sofar.ok /\ got.ok /\ after.next = got.next
                 /\ after.args = Append(sofar.args, got.names)

\* What ParseArguments folds over the kinds.
LEMMA StateIs ==
  ASSUME NEW text, NEW v \in BOOLEAN, NEW next \in Nat, NEW args \in Seq(NamesRead(text))
  PROVE  [ok |-> v, next |-> next, args |-> args] \in States(text)
BY DEF States

LEMMA StateHas ==
  ASSUME NEW text, NEW s \in States(text)
  PROVE  /\ s.ok \in BOOLEAN /\ s.next \in Nat /\ s.args \in Seq(NamesRead(text))
         /\ [s EXCEPT !.ok = FALSE] = Stopped(s.next, s.args)
<1>1. s.ok \in BOOLEAN /\ s.next \in Nat /\ s.args \in Seq(NamesRead(text))
  BY DEF States
<1>2. s = [ok |-> s.ok, next |-> s.next, args |-> s.args]
  BY DEF States
<1>3. [s EXCEPT !.ok = FALSE] = Stopped(s.next, s.args)
  <2> DEFINE v == s.ok
             m == s.next
             a == s.args
             c == [ok |-> v, next |-> m, args |-> a]
  <2>1. s = c
    BY <1>2
  <2> HIDE DEF v, m, a
  <2>3. [c EXCEPT !.ok = FALSE] = [ok |-> FALSE, next |-> m, args |-> a]
    BY Unset
  <2> HIDE DEF c
  <2>2. [s EXCEPT !.ok = FALSE] = [ok |-> FALSE, next |-> m, args |-> a]
    BY <2>1, <2>3, Zenon
  <2> QED
    BY <2>2 DEF Stopped, m, a
<1> QED
  BY <1>1, <1>3

\* One argument more.
LEMMA NextState ==
  ASSUME NEW text, IsList(text), NEW s \in States(text), NEW kind \in Kinds
  PROVE  /\ NextArgument(text, s, kind) \in States(text)
         /\ Follows(text, s, kind, NextArgument(text, s, kind))
<1> DEFINE got == ParseArgument(text, s.next, kind)
           after == NextArgument(text, s, kind)
<1>1. /\ s.ok \in BOOLEAN /\ s.next \in Nat /\ s.args \in Seq(NamesRead(text))
      /\ [s EXCEPT !.ok = FALSE] = Stopped(s.next, s.args)
  BY StateHas
<1>2. got.ok \in BOOLEAN /\ got.next \in Nat
  BY <1>1, ParsesTo DEF IsResult
<1>3. got.names \in NamesRead(text)
  <2>1. <<s.next, kind>> \in Nat \X Kinds
    BY <1>1
  <2>2. <<s.next, kind>>[1] = s.next /\ <<s.next, kind>>[2] = kind
    OBVIOUS
  <2> DEFINE p == <<s.next, kind>>
  <2> HIDE DEF p
  <2>3. p \in Nat \X Kinds /\ got.names = ParseArgument(text, p[1], p[2]).names
    BY <2>1, <2>2 DEF p
  <2> HIDE DEF got
  <2> QED
    BY <2>3 DEF NamesRead
<1>4. after = IF ~s.ok \/ ~got.ok THEN Stopped(s.next, s.args)
              ELSE Parsed(got.next, Append(s.args, got.names))
  BY <1>1 DEF NextArgument
<1> HIDE DEF got, after
<1>5. CASE ~s.ok \/ ~got.ok
  <2>1. after = Stopped(s.next, s.args)
    BY <1>4, <1>5
  <2>2. Stopped(s.next, s.args) \in States(text)
    BY <1>1 DEF Stopped, States
  <2>3. ~Stopped(s.next, s.args).ok
    BY DEF Stopped
  <2> QED
    BY <2>1, <2>2, <2>3 DEF Follows, after
<1>6. CASE s.ok /\ got.ok
  <2> DEFINE more == Append(s.args, got.names)
  <2>1. after = Parsed(got.next, more)
    BY <1>4, <1>6
  <2>2. more \in Seq(NamesRead(text))
    BY <1>1, <1>3, AppendProperties
  <2> HIDE DEF more
  <2>3. Parsed(got.next, more) \in States(text)
    BY <1>2, <2>2 DEF Parsed, States
  <2>4. Parsed(got.next, more).next = got.next /\ Parsed(got.next, more).args = more
    BY DEF Parsed
  <2>5. after.next = got.next /\ after.args = more
    BY <2>1, <2>4
  <2> QED
    BY <1>6, <2>1, <2>3, <2>5 DEF Follows, after, got, more
<1> QED
  BY <1>1, <1>2, <1>5, <1>6

ArgumentSteps(text, kinds, g) ==
  /\ g[0] = Parsed(2, <<>>) /\ g[Len(kinds)] = ParseArguments(text)
  /\ \A i \in 0..Len(kinds) : g[i] \in States(text)
  /\ \A i \in 1..Len(kinds) : Follows(text, g[i - 1], kinds[i], g[i])

\* The fold is a sequence of such steps.
LEMMA ArgumentsStep ==
  ASSUME NEW text, IsList(text), text[1].s \in Actions
  PROVE  \E g : ArgumentSteps(text, Arguments(text[1].s), g)
<1> DEFINE kinds == Arguments(text[1].s)
           n == Len(kinds)
           A == States(text)
           a == Parsed(2, <<>>)
           step == [p \in (1..n) \X A |-> NextArgument(text, p[2], kinds[p[1]])]
           Eq(it) == it = [s \in SUBSET (1..n) |->
                             IF s = {} THEN a
                             ELSE NextArgument(text, it[s \ {Max(s)}], kinds[Max(s)])]
           it == CHOOSE it : Eq(it)
<1>1. n \in Nat /\ DOMAIN kinds = 1..n /\ \A i \in 1..n : kinds[i] \in Kinds
  <2> HIDE DEF kinds
  <2>1. IsList(kinds) /\ ToSet(kinds) \subseteq Kinds
    BY ArgumentsAre DEF kinds
  <2> QED
    BY <2>1, ListHas
<1>2. ParseArguments(text) = it[1..n]
  <2>1. DOMAIN kinds = 1..n
    BY <1>1
  <2> QED
    BY <2>1 DEF ParseArguments, FoldLeft, MapThenFoldSet
<1> HIDE DEF kinds
<1>3. /\ step \in [(1..n) \X A -> A]
      /\ \A i \in 1..n, x \in A : step[<<i, x>>] = NextArgument(text, x, kinds[i])
  <2>1. \A x \in A, i \in 1..n : NextArgument(text, x, kinds[i]) \in A
    BY <1>1, NextState
  <2> HIDE DEF A
  <2> QED
    BY <2>1
<1> HIDE DEF n, step
<1>0. a \in A
  <2> DEFINE none == <<>>
             yes == TRUE
  <2>1. none \in Seq(NamesRead(text)) /\ yes \in BOOLEAN /\ 2 \in Nat
    OBVIOUS
  <2>2. a = [ok |-> yes, next |-> 2, args |-> none]
    BY DEF Parsed
  <2> HIDE DEF none, yes, a
  <2> QED
    BY <2>1, <2>2, StateIs
<1> HIDE DEF a, A
<1>4. \A s \in SUBSET (1..n) : s # {} => Max(s) \in 1..n
  BY <1>1, MaxOf
<1>5. \E g : Eq(g)
  <2>1. PICK g : IsFoldLeft(g, n, A, a, step)
    BY <1>0, <1>1, <1>3, FoldLeftExists
  <2>2. ASSUME NEW s \in SUBSET (1..n)
        PROVE  g[s] = IF s = {} THEN a
                      ELSE NextArgument(text, g[s \ {Max(s)}], kinds[Max(s)])
    <3>1. CASE s = {}
      BY <2>1, <3>1 DEF IsFoldLeft
    <3>2. CASE s # {}
      <4>1. Max(s) \in 1..n
        BY <1>4, <3>2
      <4>2. s \ {Max(s)} \in SUBSET (1..n)
        OBVIOUS
      <4>3. g[s \ {Max(s)}] \in A /\ g[s] = step[<<Max(s), g[s \ {Max(s)}]>>]
        BY <2>1, <3>2, <4>2 DEF IsFoldLeft
      <4> QED
        BY <1>3, <3>2, <4>1, <4>3
    <3> QED
      BY <3>1, <3>2
  <2>3. Eq(g)
    BY <2>1, <2>2 DEF IsFoldLeft
  <2> HIDE DEF Eq
  <2> QED
    BY <2>3
<1>6. Eq(it)
  <2> HIDE DEF Eq
  <2> QED
    BY <1>5
<1> HIDE DEF it
<1>7. PICK g : IsStepped(g, n, A, a, step) /\ g[n] = it[1..n]
  <2>1. it[{}] = a
    BY <1>6
  <2>2. \A s \in SUBSET (1..n) :
           s # {} /\ it[s \ {Max(s)}] \in A => it[s] = step[<<Max(s), it[s \ {Max(s)}]>>]
    <3> SUFFICES ASSUME NEW s \in SUBSET (1..n), s # {}, it[s \ {Max(s)}] \in A
                 PROVE  it[s] = step[<<Max(s), it[s \ {Max(s)}]>>]
      OBVIOUS
    <3>1. Max(s) \in 1..n
      BY <1>4
    <3>2. it[s] = NextArgument(text, it[s \ {Max(s)}], kinds[Max(s)])
      BY <1>6, <3>1
    <3> QED
      BY <1>3, <3>1, <3>2
  <2>3. FoldsLeft(it, n, A, a, step)
    BY <2>1, <2>2 DEF FoldsLeft
  <2> HIDE DEF Eq
  <2>4. Reached(it[1..n], n, A, a, step)
    BY <1>0, <1>1, <1>3, <2>3, FoldLeftSteps
  <2> QED
    BY <2>4 DEF Reached
<1>8. /\ g \in [0..n -> A] /\ g[0] = a
      /\ \A i \in 1..n : g[i] = step[<<i, g[i - 1]>>]
  BY <1>7 DEF IsStepped
<1>9. ASSUME NEW i \in 1..n
      PROVE  Follows(text, g[i - 1], kinds[i], g[i])
  <2>1. g[i - 1] \in A
    BY <1>1, <1>8
  <2>2. g[i] = NextArgument(text, g[i - 1], kinds[i])
    BY <1>3, <1>8, <2>1
  <2> QED
    BY <1>1, <2>1, <2>2, NextState DEF A
<1>10. \A i \in 0..n : g[i] \in A
  BY <1>8
<1>11. ArgumentSteps(text, kinds, g)
  BY <1>2, <1>7, <1>8, <1>9, <1>10 DEF ArgumentSteps, n, a, A
<1> QED
  BY <1>11 DEF kinds

\* The arguments of a statement that is not refused: where each stands, and what
\* it is read as.
ReadAs(text, kinds, at, args) ==
  /\ DOMAIN args = 1..Len(kinds) /\ at[1] = 2 /\ at[Len(kinds) + 1] = Len(text) + 1
  /\ \A i \in 1..Len(kinds) :
       LET got == ParseArgument(text, at[i], kinds[i])
       IN at[i] \in Nat /\ got.ok /\ args[i] = got.names /\ at[i + 1] = got.next

\* If nothing was refused, each argument was read where the last one ended.
LEMMA UnrefusedIs ==
  ASSUME NEW text, IsList(text), ~Refused(text)
  PROVE  /\ text[1].s \in Actions
         /\ IsList(ParseArguments(text).args)
         /\ \E at : ReadAs(text, Arguments(text[1].s), at, ParseArguments(text).args)
<1> DEFINE kinds == Arguments(text[1].s)
           n == Len(kinds)
           args == ParseArguments(text).args
<1>1. /\ text[1].s \in Actions /\ ParseArguments(text).ok
      /\ ParseArguments(text).next = Len(text) + 1
  BY DEF Refused
<1>2. PICK g : ArgumentSteps(text, kinds, g)
  BY <1>1, ArgumentsStep
<1>3. n \in Nat
  <2> HIDE DEF kinds
  <2>1. IsList(kinds)
    BY <1>1, ArgumentsAre DEF kinds
  <2> QED
    BY <2>1, ListHas
<1> HIDE DEF kinds, n
<1>4. /\ g[0] = Parsed(2, <<>>) /\ g[n] = ParseArguments(text)
      /\ \A i \in 0..n : g[i] \in States(text)
      /\ \A i \in 1..n : Follows(text, g[i - 1], kinds[i], g[i])
  BY <1>2 DEF ArgumentSteps, n
<1> DEFINE Step(j) == LET got == ParseArgument(text, g[j - 1].next, kinds[j])
                      IN got.ok /\ g[j].next = got.next
           Good == {i \in 0..n : g[i].ok =>
                      /\ Len(g[i].args) = i
                      /\ \A j \in 1..i :
                           Step(j) /\ g[i].args[j]
                                        = ParseArgument(text, g[j - 1].next, kinds[j]).names}
<1>5. 0 \in Good
  <2>1. g[0].args = <<>>
    BY <1>4 DEF Parsed
  <2>2. Len(g[0].args) = 0 /\ 1..0 = {} /\ 0 \in 0..n
    BY <1>3, <2>1
  <2> HIDE DEF Step
  <2> QED
    BY <2>2
<1>6. ASSUME NEW i \in 1..n, i - 1 \in Good
      PROVE  i \in Good
  <2> DEFINE p == g[i - 1]
             q == g[i]
             got == ParseArgument(text, p.next, kinds[i])
  <2>1. Follows(text, p, kinds[i], q) /\ p \in States(text)
    BY <1>3, <1>4
  <2>2. ASSUME q.ok
        PROVE  /\ Len(q.args) = i
               /\ \A j \in 1..i : Step(j) /\ q.args[j]
                                    = ParseArgument(text, g[j - 1].next, kinds[j]).names
    <3>1. p.ok /\ got.ok /\ q.next = got.next /\ q.args = Append(p.args, got.names)
      BY <2>1, <2>2 DEF Follows
    <3>2. /\ Len(p.args) = i - 1
          /\ \A j \in 1..(i - 1) : Step(j) /\ p.args[j]
                                     = ParseArgument(text, g[j - 1].next, kinds[j]).names
      BY <1>6, <3>1
    <3>3. Step(i)
      BY <3>1
    <3>4. p.args \in Seq(NamesRead(text)) /\ got.names \in NamesRead(text)
      <4>1. p.next \in Nat /\ p.args \in Seq(NamesRead(text)) /\ kinds[i] \in Kinds
        <5>1. kinds[i] \in Kinds
          <6>1. IsList(kinds) /\ ToSet(kinds) \subseteq Kinds
            BY <1>1, ArgumentsAre DEF kinds
          <6> QED
            BY <6>1, ListHas DEF n
        <5> HIDE DEF p
        <5> QED
          BY <2>1, <5>1, StateHas
      <4> DEFINE c == <<p.next, kinds[i]>>
      <4>2. c \in Nat \X Kinds /\ c[1] = p.next /\ c[2] = kinds[i]
        BY <4>1
      <4> HIDE DEF c
      <4>3. got.names = ParseArgument(text, c[1], c[2]).names
        BY <4>2
      <4> HIDE DEF got
      <4> QED
        BY <4>1, <4>2, <4>3 DEF NamesRead
    <3> HIDE DEF got, Step
    <3>5. /\ Len(Append(p.args, got.names)) = (i - 1) + 1
          /\ \A j \in 1..(i - 1) : Append(p.args, got.names)[j] = p.args[j]
          /\ Append(p.args, got.names)[(i - 1) + 1] = got.names
      <4> DEFINE l == p.args
      <4> HIDE DEF l
      <4>1. l \in Seq(NamesRead(text)) /\ Len(l) = i - 1
        BY <3>2, <3>4 DEF l
      <4>2. /\ Len(Append(l, got.names)) = (i - 1) + 1
            /\ \A j \in 1..(i - 1) : Append(l, got.names)[j] = l[j]
            /\ Append(l, got.names)[(i - 1) + 1] = got.names
        BY <3>4, <4>1, AppendProperties
      <4> QED
        BY <4>2 DEF l
    <3>6. (i - 1) + 1 = i /\ \A j \in 1..i : j = i \/ j \in 1..(i - 1)
      BY <1>3
    <3>7. Len(q.args) = i /\ q.args[i] = got.names
      BY <3>1, <3>5, <3>6
    <3>8. \A j \in 1..(i - 1) : q.args[j] = p.args[j]
      BY <3>1, <3>5
    <3>9. got.names = ParseArgument(text, g[i - 1].next, kinds[i]).names
      BY DEF got
    <3> HIDE DEF p, q
    <3> QED
      BY <3>2, <3>3, <3>6, <3>7, <3>8, <3>9
  <2> HIDE DEF Step
  <2> QED
    BY <1>3, <2>2
<1>7. n \in Good
  <2> HIDE DEF Good
  <2>1. 0..n \subseteq Good
    BY <1>3, <1>5, <1>6, UpTo
  <2> QED
    BY <1>3, <2>1
<1>8. /\ Len(args) = n
      /\ \A j \in 1..n : Step(j) /\ args[j]
                           = ParseArgument(text, g[j - 1].next, kinds[j]).names
  <2> HIDE DEF Step
  <2> QED
    BY <1>1, <1>4, <1>7
<1>9. args \in Seq(NamesRead(text))
  <2>1. ParseArguments(text) \in States(text)
    BY <1>3, <1>4
  <2> QED
    BY <2>1, StateHas
<1> DEFINE at == [i \in 1..(n + 1) |-> g[i - 1].next]
<1> HIDE DEF args
<1>10. IsList(args) /\ DOMAIN args = 1..n
  BY <1>8, <1>9, IsListIs
<1>11. at[1] = 2 /\ at[n + 1] = Len(text) + 1
  <2>1. 1 \in 1..(n + 1) /\ n + 1 \in 1..(n + 1) /\ 1 - 1 = 0 /\ (n + 1) - 1 = n
    BY <1>3
  <2>2. g[0].next = 2
    BY <1>4 DEF Parsed
  <2> QED
    BY <1>1, <1>4, <2>1, <2>2
<1>12. ASSUME NEW i \in 1..n
       PROVE  /\ at[i] \in Nat /\ ParseArgument(text, at[i], kinds[i]).ok
              /\ args[i] = ParseArgument(text, at[i], kinds[i]).names
              /\ at[i + 1] = ParseArgument(text, at[i], kinds[i]).next
  <2>1. /\ i \in 1..(n + 1) /\ i + 1 \in 1..(n + 1) /\ (i + 1) - 1 = i /\ i - 1 \in 0..n
    BY <1>3
  <2>2. at[i] = g[i - 1].next /\ at[i + 1] = g[i].next
    BY <2>1
  <2>3. g[i - 1].next \in Nat
    BY <1>4, <2>1, StateHas
  <2> HIDE DEF at
  <2> QED
    BY <1>8, <2>2, <2>3
<1> HIDE DEF at
<1>13. ReadAs(text, kinds, at, args)
  BY <1>10, <1>11, <1>12 DEF ReadAs, n
<1> QED
  BY <1>1, <1>10, <1>13 DEF kinds, args
--------------------------------------------------------------------------------
(***************************************************************************)
(* The calls of any statement.                                             *)
(***************************************************************************)
LEMMA IndexedIs ==
  ASSUME NEW n \in Nat, NEW f, f = [i \in 1..n |-> f[i]]
  PROVE  /\ IsList(f) /\ DOMAIN f = 1..n /\ Len(f) = n
         /\ \A c \in ToSet(f) : \E i \in 1..n : c = f[i]
<1> DEFINE S == {f[i] : i \in 1..n}
<1>1. f \in [1..n -> S]
  OBVIOUS
<1>2. f \in Seq(S) /\ DOMAIN f = 1..n /\ Len(f) = n
  <2> HIDE DEF S
  <2> QED
    BY <1>1
<1>3. IsList(f) /\ \A c \in ToSet(f) : \E i \in 1..Len(f) : f[i] = c
  BY <1>2, IsListIs
<1> QED
  BY <1>2, <1>3

\* A tuple has one element of each list, in their order.
TuplesOf(n, lists) ==
  {t \in Seq(UNION {ToSet(lists[i]) : i \in 1..n}) :
     Len(t) = n /\ \A i \in 1..n : t[i] \in ToSet(lists[i])}

\* A tuple of the product has one element of each list.
LEMMA ProductMembers ==
  ASSUME NEW n \in Nat, NEW lists, DOMAIN lists = 1..n, \A i \in 1..n : IsList(lists[i])
  PROVE  IsList(Product(lists)) /\ ToSet(Product(lists)) \subseteq TuplesOf(n, lists)
<1> DEFINE D == UNION {ToSet(lists[i]) : i \in 1..n}
<1>1. \A i \in 1..n : lists[i] \in Seq(D) /\ ToSet(lists[i]) \subseteq D
  <2> SUFFICES ASSUME NEW i \in 1..n
               PROVE  lists[i] \in Seq(D) /\ ToSet(lists[i]) \subseteq D
    OBVIOUS
  <2>1. ToSet(lists[i]) \subseteq D /\ lists[i] \in Seq(ToSet(lists[i]))
    BY DEF IsList
  <2> HIDE DEF D
  <2> QED
    BY <2>1, SeqMonotonic
<1> HIDE DEF D
<1>2. PICK g : IsProductStep(g, n, lists, D) /\ Product(lists) = g[n]
  BY <1>1, ProductSteps
<1>3. /\ \A i \in 0..n : g[i] \in Seq(Seq(D))
      /\ g[0] = <<<<>>>> /\ \A i \in 1..n : g[i] = Extended(g[i - 1], lists[i])
  BY <1>2 DEF IsProductStep
<1> DEFINE Fits(m, t) == /\ t \in Seq(D) /\ Len(t) = m
                         /\ \A i \in 1..m : t[i] \in ToSet(lists[i])
           Good == {m \in 0..n : \A t \in ToSet(g[m]) : Fits(m, t)}
<1>4. 0 \in Good
  <2>1. ToSet(g[0]) = {<<>>}
    BY <1>3 DEF ToSet
  <2>2. Fits(0, <<>>)
    OBVIOUS
  <2> HIDE DEF Fits
  <2> QED
    BY <2>1, <2>2
<1>5. ASSUME NEW m \in 1..n, m - 1 \in Good
      PROVE  m \in Good
  <2>1. m - 1 \in 0..n /\ m \in 0..n /\ m \in Nat
    OBVIOUS
  <2>2. ASSUME NEW t \in ToSet(g[m])
        PROVE  Fits(m, t)
    <3>1. ToSet(g[m]) = Longer(ToSet(g[m - 1]), ToSet(lists[m]))
      BY <1>1, <1>3, <2>1, ExtendedIs
    <3>2. PICK u \in ToSet(g[m - 1]), x \in ToSet(lists[m]) : t = Append(u, x)
      BY <3>1, LongerIs
    <3>3. Fits(m - 1, u)
      BY <1>5
    <3>4. /\ u \in Seq(D) /\ x \in D /\ Len(u) = m - 1
          /\ \A i \in 1..(m - 1) : u[i] \in ToSet(lists[i])
      BY <1>1, <3>3
    <3>5. /\ Append(u, x) \in Seq(D) /\ Len(Append(u, x)) = Len(u) + 1
          /\ \A i \in 1..Len(u) : Append(u, x)[i] = u[i]
          /\ Append(u, x)[Len(u) + 1] = x
      BY <3>4, AppendProperties
    <3>6. (m - 1) + 1 = m /\ \A i \in 1..m : i = m \/ i \in 1..(m - 1)
      BY <2>1
    <3> QED
      BY <3>2, <3>4, <3>5, <3>6
  <2> HIDE DEF Fits
  <2> QED
    BY <2>1, <2>2
<1>6. n \in Good
  <2> HIDE DEF Good
  <2>1. 0..n \subseteq Good
    BY <1>4, <1>5, UpTo
  <2> QED
    BY <2>1
<1>7. IsList(Product(lists))
  BY <1>2, <1>3, IsListIs
<1>8. \A t \in ToSet(Product(lists)) : t \in TuplesOf(n, lists)
  BY <1>2, <1>6 DEF TuplesOf, D
<1> QED
  BY <1>7, <1>8

\* One call for each of them.
LEMMA CallsOfAre ==
  ASSUME NEW n \in Nat, NEW lists, DOMAIN lists = 1..n, \A i \in 1..n : IsList(lists[i]),
         NEW op
  PROVE  /\ IsList(CallsOf(op, lists))
         /\ \A call \in ToSet(CallsOf(op, lists)) :
              \E t \in TuplesOf(n, lists) : call = Call(op, t)
<1> DEFINE tuples == Product(lists)
           calls == CallsOf(op, lists)
           m == Len(tuples)
<1>1. IsList(tuples) /\ \A t \in ToSet(tuples) : t \in TuplesOf(n, lists)
  BY ProductMembers
<1>2. calls = [i \in DOMAIN tuples |-> Call(op, tuples[i])]
  BY DEF CallsOf
<1> HIDE DEF tuples, calls
<1>3. /\ m \in Nat /\ DOMAIN tuples = 1..m /\ \A i \in 1..m : tuples[i] \in ToSet(tuples)
  BY <1>1, ListHas
<1>4. \A i \in 1..m : calls[i] = Call(op, tuples[i])
  BY <1>2, <1>3
<1>5. calls = [i \in 1..m |-> calls[i]]
  BY <1>2, <1>3
<1>6. IsList(calls) /\ \A c \in ToSet(calls) : \E i \in 1..m : c = calls[i]
  BY <1>3, <1>5, IndexedIs
<1> QED
  BY <1>1, <1>3, <1>4, <1>6 DEF calls

\* The tuples of three, four and five.
LEMMA TupleIs ==
  ASSUME NEW S, NEW t \in Seq(S)
  PROVE  /\ Len(t) = 1 => t = <<t[1]>>
         /\ Len(t) = 2 => t = <<t[1], t[2]>>
         /\ Len(t) = 3 => t = <<t[1], t[2], t[3]>>
         /\ Len(t) = 4 => t = <<t[1], t[2], t[3], t[4]>>
         /\ Len(t) = 5 => t = <<t[1], t[2], t[3], t[4], t[5]>>
<1>1. Len(t) = 1 => t = <<t[1]>>
  OBVIOUS
<1>2. Len(t) = 2 => t = <<t[1], t[2]>>
  OBVIOUS
<1>3. Len(t) = 3 => t = <<t[1], t[2], t[3]>>
  OBVIOUS
<1>4. Len(t) = 4 => t = <<t[1], t[2], t[3], t[4]>>
  OBVIOUS
<1>5. Len(t) = 5 => t = <<t[1], t[2], t[3], t[4], t[5]>>
  OBVIOUS
<1> QED
  BY <1>1, <1>2, <1>3, <1>4, <1>5
--------------------------------------------------------------------------------
(***************************************************************************)
(* What an argument is read as.                                            *)
(***************************************************************************)
\* Words of a text that are numbers are numbers of a command.
IsText(text) == IsList(text) /\ \A w \in ToSet(text) : w.n \in Seq(X!Codes)

\* The nearest end is one, and none is nearer.
LEMMA Nearest ==
  ASSUME NEW ends, ends \subseteq Nat, ends # {}, NEW j,
         j = CHOOSE i \in ends : \A k \in ends : i <= k
  PROVE  j \in ends /\ \A k \in ends : j <= k
BY LeastNumber

\* A list ends at the first word that is no item.
ClosesXperm(text, at, end) ==
  /\ end \in 1..Len(text) /\ at < end
  /\ \A j \in 1..Len(text) : (at < j /\ j < end) => IsXpermItem(text[j])

\* A list ends behind its opening brace, and has only items in it.
LEMMA ClosesIn ==
  ASSUME NEW text, IsList(text), NEW at \in Nat
  PROVE  /\ Closing(text, at, IsId) # 0 =>
              Closing(text, at, IsId) \in 1..Len(text) /\ at < Closing(text, at, IsId)
         /\ Closing(text, at, IsIdOrStar) # 0 =>
              /\ Closing(text, at, IsIdOrStar) \in 1..Len(text)
              /\ at < Closing(text, at, IsIdOrStar)
         /\ Closing(text, at, IsXpermItem) # 0 =>
              ClosesXperm(text, at, Closing(text, at, IsXpermItem))
<1> DEFINE n == Len(text)
<1>1. DOMAIN text = 1..n /\ n \in Nat
  BY ListHas
<1> HIDE DEF n
<1>2. ASSUME Closing(text, at, IsId) # 0
      PROVE  Closing(text, at, IsId) \in 1..n /\ at < Closing(text, at, IsId)
  <2> DEFINE ends == {j \in 1..n : j > at /\ ~IsId(text[j])}
             j == CHOOSE i \in ends : \A k \in ends : i <= k
  <2>1. ends # {} /\ Closing(text, at, IsId) = j
    BY <1>1, <1>2 DEF Closing
  <2>2. ends \subseteq Nat
    OBVIOUS
  <2> HIDE DEF ends
  <2>3. j \in ends
    BY <2>1, <2>2, Nearest
  <2> HIDE DEF j
  <2>4. j \in 1..n /\ j > at
    BY <2>3 DEF ends
  <2> QED
    BY <1>1, <2>1, <2>4
<1>3. ASSUME Closing(text, at, IsIdOrStar) # 0
      PROVE  Closing(text, at, IsIdOrStar) \in 1..n /\ at < Closing(text, at, IsIdOrStar)
  <2> DEFINE ends == {j \in 1..n : j > at /\ ~IsIdOrStar(text[j])}
             j == CHOOSE i \in ends : \A k \in ends : i <= k
  <2>1. ends # {} /\ Closing(text, at, IsIdOrStar) = j
    BY <1>1, <1>3 DEF Closing
  <2>2. ends \subseteq Nat
    OBVIOUS
  <2> HIDE DEF ends
  <2>3. j \in ends
    BY <2>1, <2>2, Nearest
  <2> HIDE DEF j
  <2>4. j \in 1..n /\ j > at
    BY <2>3 DEF ends
  <2> QED
    BY <1>1, <2>1, <2>4
<1>4. ASSUME Closing(text, at, IsXpermItem) # 0
      PROVE  ClosesXperm(text, at, Closing(text, at, IsXpermItem))
  <2> DEFINE ends == {j \in 1..n : j > at /\ ~IsXpermItem(text[j])}
             j == CHOOSE i \in ends : \A k \in ends : i <= k
  <2>1. ends # {} /\ Closing(text, at, IsXpermItem) = j
    BY <1>1, <1>4 DEF Closing
  <2>2. ends \subseteq Nat
    OBVIOUS
  <2> HIDE DEF ends
  <2>3. j \in ends /\ \A k \in ends : j <= k
    BY <2>1, <2>2, Nearest
  <2> HIDE DEF j
  <2>4. j \in 1..n /\ at < j
    BY <2>3 DEF ends
  <2>5. ASSUME NEW k \in 1..n, at < k, k < j
        PROVE  IsXpermItem(text[k])
    <3>1. k \notin ends
      BY <2>3, <2>4, <2>5
    <3> QED
      BY <2>5, <3>1 DEF ends
  <2> QED
    BY <2>1, <2>4, <2>5 DEF ClosesXperm, n
<1> QED
  BY <1>2, <1>3, <1>4 DEF n

\* The words between two places.
LEMMA BetweenIs ==
  ASSUME NEW text, IsList(text), NEW at \in Nat, NEW end \in 1..Len(text), at < end
  PROVE  /\ IsList(Between(text, at, end)) /\ Len(Between(text, at, end)) = end - at - 1
         /\ DOMAIN Between(text, at, end) = 1..(end - at - 1)
         /\ \A i \in 1..(end - at - 1) : /\ Between(text, at, end)[i] = text[at + i]
                                        /\ at + i \in 1..Len(text)
                                        /\ at < at + i /\ at + i < end
<1> DEFINE b == Between(text, at, end)
           m == end - at - 1
<1>1. Len(text) \in Nat /\ DOMAIN text = 1..Len(text)
  BY ListHas
<1>2. m \in Nat /\ (end - 1) - (at + 1) + 1 = m
  BY <1>1
<1>3. b = [i \in 1..((end - 1) - (at + 1) + 1) |-> text[(at + 1) + i - 1]]
  BY <1>1, <1>2 DEF Between
<1>4. \A i \in 1..m : /\ (at + 1) + i - 1 = at + i /\ at + i \in 1..Len(text)
                      /\ at < at + i /\ at + i < end
  BY <1>1
<1> HIDE DEF b, m
<1>5. b = [i \in 1..m |-> text[at + i]]
  BY <1>2, <1>3, <1>4
<1>6. \A i \in 1..m : b[i] = text[at + i]
  BY <1>5
<1>7. b = [i \in 1..m |-> b[i]]
  BY <1>5, <1>6
<1>8. IsList(b) /\ Len(b) = m /\ DOMAIN b = 1..m
  BY <1>2, <1>7, IndexedIs
<1> QED
  BY <1>4, <1>6, <1>8 DEF b, m

\* Names are lists.
LEMMA NamesAre ==
  ASSUME NEW words, IsList(words)
  PROVE  IsList(NamesOf(words)) /\ IsList(StarNames(words))
<1> DEFINE n == Len(words)
           names == NamesOf(words)
           none == <<>>
<1>1. n \in Nat /\ DOMAIN words = 1..n
  BY ListHas
<1> HIDE DEF n
<1>2. names = [i \in 1..n |-> words[i].s]
  BY <1>1 DEF NamesOf
<1> HIDE DEF names
<1>3. names = [i \in 1..n |-> names[i]]
  BY <1>2
<1>4. IsList(names)
  BY <1>1, <1>3, IndexedIs
<1>5. IsList(none)
  <2>1. none \in Seq({})
    OBVIOUS
  <2> HIDE DEF none
  <2> QED
    BY <2>1, IsListIs
<1>6. StarNames(words) = none \/ StarNames(words) = names
  BY DEF StarNames, names
<1> HIDE DEF none
<1> QED
  BY <1>4, <1>5, <1>6 DEF names

\* An item for each word that starts one.
LEMMA ItemsAre ==
  ASSUME NEW words, IsList(words), NEW reset
  PROVE  /\ IsList(Items(words, reset))
         /\ \A x \in ToSet(Items(words, reset)) :
              \E i \in ItemStarts(words) : x = ItemAt(words, i, reset)
<1> DEFINE n == Len(words)
           part == [i \in DOMAIN words |->
                      LineIf(i \in ItemStarts(words), ItemAt(words, i, reset))]
           D == {ItemAt(words, i, reset) : i \in ItemStarts(words)}
<1>1. n \in Nat /\ DOMAIN words = 1..n
  BY ListHas
<1>2. Items(words, reset) = FlattenSeq(part)
  BY DEF Items
<1> HIDE DEF n
<1>3. \A i \in 1..n : part[i] = LineIf(i \in ItemStarts(words), ItemAt(words, i, reset))
  BY <1>1
<1>4. part = [i \in 1..n |-> part[i]]
  BY <1>1
<1> HIDE DEF part
<1>5. ASSUME NEW i \in 1..n
      PROVE  part[i] \in Seq(D)
  <2>1. CASE i \in ItemStarts(words)
    <3> DEFINE x == ItemAt(words, i, reset)
    <3>1. x \in D
      BY <2>1
    <3>2. part[i] = <<x>>
      BY <1>3, <2>1 DEF LineIf
    <3> HIDE DEF D, x
    <3> QED
      BY <3>1, <3>2
  <2>2. CASE i \notin ItemStarts(words)
    <3>1. part[i] = <<>>
      BY <1>3, <2>2 DEF LineIf
    <3> HIDE DEF D
    <3> QED
      BY <3>1
  <2> QED
    BY <2>1, <2>2
<1> HIDE DEF D
<1>6. part \in Seq(Seq(D))
  <2> DEFINE A == Seq(D)
  <2> HIDE DEF A
  <2>1. part \in [1..n -> A]
    BY <1>4, <1>5 DEF A
  <2>2. part \in Seq(A)
    BY <1>1, <2>1
  <2> QED
    BY <2>2 DEF A
<1>7. FlattenSeq(part) \in Seq(D)
  BY <1>6, FlattenIs
<1>8. IsList(Items(words, reset)) /\ ToSet(Items(words, reset)) \subseteq D
  BY <1>2, <1>7, IsListIs
<1> QED
  BY <1>8 DEF D

\* Commands an extended permission rule is about.
Spans == {x \in [low : X!Codes, high : X!Codes, reset : BOOLEAN] :
            x = Xperm(x.low, x.high, x.reset)}

LEMMA SpanIs ==
  ASSUME NEW low \in X!Codes, NEW high \in X!Codes, NEW reset \in BOOLEAN
  PROVE  Xperm(low, high, reset) \in Spans
<1> DEFINE x == [low |-> low, high |-> high, reset |-> reset]
<1>1. x \in [low : X!Codes, high : X!Codes, reset : BOOLEAN]
  OBVIOUS
<1>2. x.low = low /\ x.high = high /\ x.reset = reset
  OBVIOUS
<1>3. Xperm(low, high, reset) = x
  BY DEF Xperm
<1> HIDE DEF x
<1>4. x = Xperm(x.low, x.high, x.reset)
  BY <1>2, <1>3
<1> QED
  BY <1>1, <1>3, <1>4 DEF Spans

LEMMA SpanHas ==
  ASSUME NEW x \in Spans
  PROVE  x.low \in X!Codes /\ x.high \in X!Codes /\ x.reset \in BOOLEAN
BY DEF Spans

\* The first and the last command.
LEMMA CodesAre ==
  /\ 0 \in X!Codes /\ Width * Width - 1 \in X!Codes
  /\ X!Codes = 0..(Width * Width - 1)
<1> DEFINE m == Width * Width
<1>1. m \in Nat /\ m # 0
  BY WidthAssumption
<1> HIDE DEF m
<1>2. 0 \in 0..(m - 1) /\ m - 1 \in 0..(m - 1)
  BY <1>1
<1> QED
  BY <1>2 DEF X!Codes, m

LEMMA EverythingIs ==
  ASSUME NEW reset \in BOOLEAN
  PROVE  IsList(Everything(reset)) /\ ToSet(Everything(reset)) \subseteq Spans
<1> DEFINE x == Xperm(0, Width * Width - 1, reset)
<1>1. x \in Spans
  BY CodesAre, SpanIs
<1>2. Everything(reset) = <<x>>
  BY DEF Everything
<1> HIDE DEF x
<1> QED
  BY <1>1, <1>2, OneIs

LEMMA OneSpan ==
  ASSUME NEW low \in X!Codes, NEW high \in X!Codes, NEW reset \in BOOLEAN
  PROVE  /\ IsList(<<Xperm(low, high, reset)>>)
         /\ ToSet(<<Xperm(low, high, reset)>>) \subseteq Spans
<1> DEFINE x == Xperm(low, high, reset)
<1>1. x \in Spans
  BY SpanIs
<1> HIDE DEF x
<1>2. IsList(<<x>>) /\ ToSet(<<x>>) \subseteq Spans
  BY <1>1, OneIs
<1> QED
  BY <1>2 DEF x

\* A number, or a range, in a list of them.
NumberWord(w) == w.n \in Seq(X!Codes)
\* A number in a text is one of a command.
LEMMA NumbersIn ==
  ASSUME NEW w, NumberWord(w)
  PROVE  /\ IsHex(w) => w.n[1] \in X!Codes /\ Head(w.n) \in X!Codes
         /\ IsSpan(w) => w.n[1] \in X!Codes /\ w.n[2] \in X!Codes /\ Head(w.n) \in X!Codes
<1> DEFINE n == w.n
<1>1. n \in Seq(X!Codes)
  BY DEF NumberWord
<1> HIDE DEF n
<1>2. Len(n) = 1 => n[1] \in X!Codes /\ Head(n) \in X!Codes
  BY <1>1
<1>3. Len(n) = 2 => n[1] \in X!Codes /\ n[2] \in X!Codes /\ Head(n) \in X!Codes
  BY <1>1
<1> QED
  BY <1>2, <1>3 DEF IsHex, IsSpan, n

\* What is no position of a text is the empty word.
LEMMA WordIn ==
  ASSUME NEW text, IsList(text), NEW at, WordAt(text, at) # W("")
  PROVE  at \in 1..Len(text) /\ WordAt(text, at) = text[at] /\ text[at] \in ToSet(text)
BY ListHas DEF WordAt

\* What is no number.
LEMMA HyphenIs ==
  /\ W("") # W("-") /\ ~IsHex(W("")) /\ ~IsSpan(W(""))
  /\ ~IsHex(W("-")) /\ ~IsSpan(W("-"))
<1>1. W("").s = "" /\ W("-").s = "-"
  BY DEF W
<1> QED
  BY <1>1, NumbersDiffer

\* A well-formed list has ranges of commands, and no others.
LEMMA ItemsIn ==
  ASSUME NEW words, IsList(words), ItemsWellFormed(words), NEW reset \in BOOLEAN,
         \A i \in 1..Len(words) : IsXpermItem(words[i]) /\ NumberWord(words[i])
  PROVE  IsList(Items(words, reset)) /\ ToSet(Items(words, reset)) \subseteq Spans
<1>1. /\ IsList(Items(words, reset))
      /\ \A x \in ToSet(Items(words, reset)) :
           \E i \in ItemStarts(words) : x = ItemAt(words, i, reset)
  BY ItemsAre
<1>2. Len(words) \in Nat /\ DOMAIN words = 1..Len(words)
  BY ListHas
<1>3. ASSUME NEW i \in ItemStarts(words)
      PROVE  ItemAt(words, i, reset) \in Spans
  <2> DEFINE w == words[i]
             low == Head(w.n)
             high == IF IsSpan(w) THEN w.n[2]
                     ELSE IF Hyphen(WordAt(words, i + 1)) THEN words[i + 2].n[1] ELSE low
  <2>1. i \in 1..Len(words) /\ ~Hyphen(w)
    BY <1>2 DEF ItemStarts
  <2>2. (IsHex(w) \/ IsSpan(w)) /\ NumberWord(w)
    BY <2>1 DEF IsXpermItem, Hyphen
  <2>3. low \in X!Codes /\ (IsSpan(w) => w.n[2] \in X!Codes)
    BY <2>2, NumbersIn
  <2>4. ASSUME Hyphen(WordAt(words, i + 1))
        PROVE  words[i + 2].n[1] \in X!Codes
    <3>1. i + 1 \in 1..Len(words) /\ Hyphen(words[i + 1])
      <4>1. WordAt(words, i + 1) # W("")
        BY <2>4, HyphenIs DEF Hyphen
      <4> QED
        BY <2>4, <4>1, WordIn
    <3>2. IsHex(WordAt(words, (i + 1) + 1))
      BY <1>2, <3>1 DEF ItemsWellFormed
    <3>3. (i + 1) + 1 = i + 2
      BY <2>1
    <3>4. i + 2 \in 1..Len(words) /\ IsHex(words[i + 2])
      <4>1. WordAt(words, i + 2) # W("")
        BY <3>2, <3>3, HyphenIs
      <4> QED
        BY <3>2, <3>3, <4>1, WordIn
    <3> QED
      BY <3>4, NumbersIn
  <2>5. high \in X!Codes
    BY <2>3, <2>4
  <2>6. ItemAt(words, i, reset) = Xperm(low, high, reset)
    BY DEF ItemAt
  <2> HIDE DEF low, high, w
  <2> QED
    BY <2>3, <2>5, <2>6, SpanIs
<1> QED
  BY <1>1, <1>3

\* What parse_xperms reads, however it is written.
LEMMA XpermsAre ==
  ASSUME NEW text, IsText(text), NEW start \in Nat, ParseXperms(text, start).ok
  PROVE  /\ IsList(ParseXperms(text, start).names)
         /\ ToSet(ParseXperms(text, start).names) \subseteq Spans
<1> DEFINE reset == WordAt(text, start) = W("~")
           at    == IF reset THEN start + 1 ELSE start
           w     == WordAt(text, at)
           end   == Closing(text, at, IsXpermItem)
           items == Between(text, at, end)
           a == Items(items, reset)
           b == Everything(reset)
           c1 == <<Xperm(w.n[1], w.n[1], reset)>>
           c == IF w.n = <<0>> THEN Everything(reset) ELSE c1
           d == <<Xperm(w.n[1], w.n[2], reset)>>
           In(names) == IsList(names) /\ ToSet(names) \subseteq Spans
<1>0. ParseXperms(text, start) =
        CASE w = W("{") /\ end # 0 /\ ItemsWellFormed(items) -> Got(a, end + 1)
          [] w = W("*") /\ ~reset -> Got(b, at + 1)
          [] IsHex(w) /\ ~reset -> Got(c, at + 1)
          [] IsSpan(w) /\ ~reset -> Got(d, at + 1)
          [] OTHER -> Failed
  BY DEF ParseXperms
<1>1. reset \in BOOLEAN /\ at \in Nat /\ IsList(text)
  BY DEF IsText
<1> HIDE DEF reset, at
<1>2. ASSUME w = W("{"), end # 0, ItemsWellFormed(items)
      PROVE  In(a)
  <2>1. ClosesXperm(text, at, end)
    BY <1>1, <1>2, ClosesIn
  <2> HIDE DEF end, items
  <2>2. /\ end \in 1..Len(text) /\ at < end
        /\ \A j \in 1..Len(text) : (at < j /\ j < end) => IsXpermItem(text[j])
    BY <2>1 DEF ClosesXperm
  <2> DEFINE m == end - at - 1
  <2>3. /\ IsList(items) /\ Len(items) = m
        /\ \A i \in 1..m : /\ items[i] = text[at + i] /\ at + i \in 1..Len(text)
                           /\ at < at + i /\ at + i < end
    BY <1>1, <2>2, BetweenIs DEF items
  <2> HIDE DEF m
  <2>4. \A i \in 1..Len(items) : IsXpermItem(items[i]) /\ NumberWord(items[i])
    <3>1. \A j \in 1..Len(text) : text[j].n \in Seq(X!Codes)
      BY <1>1, ListHas DEF IsText
    <3> QED
      BY <2>2, <2>3, <3>1 DEF NumberWord
  <2> QED
    BY <1>1, <1>2, <2>3, <2>4, ItemsIn
<1>3. In(b)
  BY <1>1, EverythingIs
<1>4. ASSUME IsHex(w) \/ IsSpan(w)
      PROVE  NumberWord(w)
  <2>1. w # W("")
    BY <1>4, HyphenIs
  <2>2. w \in ToSet(text)
    BY <1>1, <2>1, WordIn
  <2> QED
    BY <2>2 DEF IsText, NumberWord
<1> HIDE DEF w, end, items, a, b
<1>5. ASSUME IsHex(w)
      PROVE  In(c)
  <2>1. w.n[1] \in X!Codes
    BY <1>4, <1>5, NumbersIn
  <2>2. In(c1)
    BY <1>1, <2>1, OneSpan
  <2> HIDE DEF c1
  <2>3. c = b \/ c = c1
    BY DEF c, b
  <2> QED
    BY <1>3, <2>2, <2>3
<1>6. ASSUME IsSpan(w)
      PROVE  In(d)
  <2>1. w.n[1] \in X!Codes /\ w.n[2] \in X!Codes
    BY <1>4, <1>6, NumbersIn
  <2> QED
    BY <1>1, <2>1, OneSpan
<1> HIDE DEF c, d, In
<1> DEFINE r == ParseXperms(text, start)
<1>7. \/ In(a) /\ r = Got(a, end + 1)
      \/ In(b) /\ r = Got(b, at + 1)
      \/ In(c) /\ r = Got(c, at + 1)
      \/ In(d) /\ r = Got(d, at + 1)
      \/ r = Failed
  BY <1>0, <1>2, <1>3, <1>5, <1>6, NumbersDiffer, MarksDiffer
<1> HIDE DEF r
<1>8. r.ok
  BY DEF r
<1>9. In(r.names)
  BY <1>7, <1>8, GotIs
<1> QED
  BY <1>9 DEF In, r

\* An identifier is a word of the statement, and none of the language's own.
IsName(text, at, got) ==
  /\ at \in 1..Len(text) /\ got.names = <<text[at].s>> /\ got.next = at + 1
  /\ text[at].s \notin Actions \cup Marks

\* An identifier that is read is a list of one name.
LEMMA IdIs ==
  ASSUME NEW text, IsList(text), NEW at, ParseId(text, at).ok
  PROVE  IsList(ParseId(text, at).names) /\ IsName(text, at, ParseId(text, at))
<1> DEFINE names == <<text[at].s>>
<1>1. IsId(WordAt(text, at)) /\ ParseId(text, at) = Got(names, at + 1)
  BY GotIs DEF ParseId
<1>2. WordAt(text, at) # W("")
  <2>1. W("").s = "" /\ "" \in Marks
    BY DEF W, Marks
  <2> QED
    BY <1>1, <2>1 DEF IsId
<1>3. at \in 1..Len(text) /\ WordAt(text, at) = text[at]
  BY <1>2, WordIn
<1>4. text[at].s \notin Actions \cup Marks
  BY <1>1, <1>3 DEF IsId
<1>5. IsList(names)
  BY OneIs
<1> HIDE DEF names
<1>6. ParseId(text, at).names = names /\ ParseId(text, at).next = at + 1
  BY <1>1, GotIs
<1> QED
  BY <1>3, <1>4, <1>5, <1>6 DEF IsName, names

LEMMA NoneIsList == IsList(<<>>) /\ ToSet(<<>>) = {}
<1> DEFINE none == <<>>
<1>1. none \in Seq({}) /\ ToSet(none) = {}
  BY DEF ToSet
<1> HIDE DEF none
<1>2. IsList(none) /\ ToSet(none) = {}
  BY <1>1, IsListIs
<1> QED
  BY <1>2 DEF none

LEMMA TermIs ==
  ASSUME NEW text, IsList(text), NEW at \in Nat, ParseTerm(text, at).ok
  PROVE  IsList(ParseTerm(text, at).names)
<1> DEFINE end == Closing(text, at, IsId)
           words == Between(text, at, end)
           names == NamesOf(words)
<1>1. CASE WordAt(text, at) # W("{")
  <2>1. ParseTerm(text, at) = ParseId(text, at)
    BY <1>1 DEF ParseTerm
  <2> QED
    BY <2>1, IdIs
<1>2. CASE WordAt(text, at) = W("{")
  <2>1. end # 0 /\ ParseTerm(text, at) = Got(names, end + 1)
    BY <1>2, GotIs DEF ParseTerm
  <2>2. end \in 1..Len(text) /\ at < end
    BY <2>1, ClosesIn
  <2> HIDE DEF end
  <2>3. IsList(words)
    BY <2>2, BetweenIs
  <2> HIDE DEF words
  <2>4. IsList(names)
    BY <2>3, NamesAre
  <2> HIDE DEF names
  <2> QED
    BY <2>1, <2>4, GotIs
<1> QED
  BY <1>1, <1>2

LEMMA StermIs ==
  ASSUME NEW text, IsList(text), NEW at \in Nat, ParseSterm(text, at).ok
  PROVE  IsList(ParseSterm(text, at).names)
<1> DEFINE end == Closing(text, at, IsIdOrStar)
           words == Between(text, at, end)
           names == StarNames(words)
           none == <<>>
<1>1. CASE WordAt(text, at) = W("*")
  <2>1. ParseSterm(text, at) = Got(none, at + 1)
    BY <1>1, MarksDiffer DEF ParseSterm
  <2>2. IsList(none)
    BY NoneIsList
  <2> HIDE DEF none
  <2> QED
    BY <2>1, <2>2, GotIs
<1>2. CASE WordAt(text, at) = W("{")
  <2> HIDE DEF words
  <2>0. ParseSterm(text, at) = IF end # 0 THEN Got(names, end + 1) ELSE Failed
    BY <1>2, MarksDiffer DEF ParseSterm, words
  <2>1. end # 0 /\ ParseSterm(text, at) = Got(names, end + 1)
    BY <2>0, GotIs
  <2>2. end \in 1..Len(text) /\ at < end
    BY <2>1, ClosesIn
  <2> HIDE DEF end
  <2>3. IsList(words)
    BY <2>2, BetweenIs DEF words
  <2>4. IsList(names)
    BY <2>3, NamesAre
  <2> HIDE DEF names
  <2> QED
    BY <2>1, <2>4, GotIs
<1>3. CASE WordAt(text, at) # W("*") /\ WordAt(text, at) # W("{")
  <2>1. ParseSterm(text, at) = ParseId(text, at)
    BY <1>3 DEF ParseSterm
  <2> QED
    BY <2>1, IdIs
<1> QED
  BY <1>1, <1>2, <1>3

\* Whatever the kind, what is read is a list; of ranges, if the kind is xperms.
LEMMA ArgumentIs ==
  ASSUME NEW text, IsText(text), NEW at \in Nat, NEW kind \in Kinds,
         ParseArgument(text, at, kind).ok
  PROVE  /\ IsList(ParseArgument(text, at, kind).names)
         /\ kind = "id" => IsName(text, at, ParseArgument(text, at, kind))
         /\ kind = "xperms" => ToSet(ParseArgument(text, at, kind).names) \subseteq Spans
<1> DEFINE r == ParseArgument(text, at, kind)
           none == <<>>
<1>0. IsList(text) /\ r.ok
  BY DEF IsText
<1>1. IsList(none)
  BY NoneIsList
<1>2. /\ kind = "id" => r = ParseId(text, at)
      /\ kind = "name" => r = ParseId(text, at) \/ r = Got(none, at)
      /\ kind = "term" => r = ParseTerm(text, at)
      /\ kind = "terms" => r = ParseTerm(text, at) \/ r = Got(none, at)
      /\ kind = "sterm" => r = ParseSterm(text, at)
      /\ kind = "ioctl" => r = Got(none, at + 1) \/ r = Failed
      /\ kind = "xperms" => r = ParseXperms(text, at)
  BY DEF ParseArgument, IfAny
<1>3. kind \in {"id", "name", "term", "terms", "sterm", "ioctl", "xperms"}
  BY DEF Kinds
<1> HIDE DEF r, none
<1>4. ASSUME r = ParseId(text, at)
      PROVE  IsList(r.names) /\ IsName(text, at, r)
  BY <1>0, <1>4, IdIs
<1>5. ASSUME r = Got(none, at) \/ r = Got(none, at + 1)
      PROVE  IsList(r.names)
  BY <1>1, <1>5, GotIs
<1>6. ASSUME r = ParseTerm(text, at)
      PROVE  IsList(r.names)
  BY <1>0, <1>6, TermIs
<1>7. ASSUME r = ParseSterm(text, at)
      PROVE  IsList(r.names)
  BY <1>0, <1>7, StermIs
<1>8. ASSUME r = ParseXperms(text, at)
      PROVE  IsList(r.names) /\ ToSet(r.names) \subseteq Spans
  BY <1>0, <1>8, XpermsAre
<1>9. r # Failed
  BY <1>0, GotIs
<1>10. IsList(r.names)
  BY <1>2, <1>3, <1>4, <1>5, <1>6, <1>7, <1>8, <1>9
<1>11. kind = "id" => IsName(text, at, r)
  BY <1>2, <1>4
<1>12. kind = "xperms" => ToSet(r.names) \subseteq Spans
  BY <1>2, <1>8
<1> QED
  BY <1>10, <1>11, <1>12 DEF r

\* A statement that is carried out, and what it is read as.
Understood(text) == IsText(text) /\ ~Refused(text)
ActionOf(text) == text[1].s
ArgsOf(text) == ParseArguments(text).args

\* A text that is not refused has an action and an argument of each kind.
LEMMA UnderstoodHas ==
  ASSUME NEW text, Understood(text)
  PROVE  /\ ActionOf(text) \in Actions /\ IsList(ArgsOf(text))
         /\ Len(Arguments(ActionOf(text))) \in Nat
         /\ DOMAIN ArgsOf(text) = 1..Len(Arguments(ActionOf(text)))
         /\ \A i \in 1..Len(Arguments(ActionOf(text))) :
              LET kind == Arguments(ActionOf(text))[i] IN
              /\ IsList(ArgsOf(text)[i])
              /\ kind = "id" =>
                   \E x : ArgsOf(text)[i] = <<x>> /\ x \notin Actions \cup Marks
              /\ kind = "xperms" => ToSet(ArgsOf(text)[i]) \subseteq Spans
<1> DEFINE action == ActionOf(text)
           kinds == Arguments(action)
           args == ArgsOf(text)
           n == Len(kinds)
<1>1. IsText(text) /\ IsList(text) /\ ~Refused(text)
  BY DEF Understood, IsText
<1>2. /\ action \in Actions /\ IsList(args)
      /\ \E at : ReadAs(text, kinds, at, args)
  BY <1>1, UnrefusedIs DEF ActionOf, ArgsOf
<1>3. PICK at : ReadAs(text, kinds, at, args)
  BY <1>2
<1>4. IsList(kinds) /\ ToSet(kinds) \subseteq Kinds
  BY <1>2, ArgumentsAre
<1> HIDE DEF action, kinds, args
<1>5. n \in Nat /\ \A i \in 1..n : kinds[i] \in Kinds
  BY <1>4, ListHas
<1>6. /\ DOMAIN args = 1..n
      /\ \A i \in 1..n :
           /\ at[i] \in Nat /\ ParseArgument(text, at[i], kinds[i]).ok
           /\ args[i] = ParseArgument(text, at[i], kinds[i]).names
  BY <1>3 DEF ReadAs
<1> HIDE DEF n
<1>7. ASSUME NEW i \in 1..n
      PROVE  /\ IsList(args[i])
             /\ kinds[i] = "id" => \E x : args[i] = <<x>> /\ x \notin Actions \cup Marks
             /\ kinds[i] = "xperms" => ToSet(args[i]) \subseteq Spans
  <2> DEFINE got == ParseArgument(text, at[i], kinds[i])
             p == at[i]
             kind == kinds[i]
  <2>1. p \in Nat /\ kind \in Kinds /\ got.ok /\ args[i] = got.names
    BY <1>5, <1>6
  <2>2. /\ IsList(got.names)
        /\ kind = "id" => IsName(text, p, got)
        /\ kind = "xperms" => ToSet(got.names) \subseteq Spans
    <3> HIDE DEF p, kind
    <3> QED
      BY <1>1, <2>1, ArgumentIs DEF p, kind
  <2> HIDE DEF got
  <2>3. kind = "id" => \E x : got.names = <<x>> /\ x \notin Actions \cup Marks
    BY <2>2 DEF IsName
  <2> QED
    BY <2>1, <2>2, <2>3
<1> QED
  BY <1>2, <1>5, <1>6, <1>7 DEF n, action, kinds, args

\* How many arguments the actions have, and which are identifiers.
LEMMA KindsOf ==
  ASSUME NEW action \in Actions
  PROVE  LET kinds == Arguments(action) IN
         /\ action \in AvActions => Len(kinds) = 4
         /\ action \in XpermActions => Len(kinds) = 5 /\ kinds[5] = "xperms"
         /\ action \in {"permissive", "enforce"} => Len(kinds) = 1
         /\ action = "typeattribute" => Len(kinds) = 2
         /\ action = "type" => Len(kinds) = 2 /\ kinds[1] = "id"
         /\ action = "attribute" => Len(kinds) = 1 /\ kinds[1] = "id"
         /\ action \in {"type_change", "type_member"} => Len(kinds) = 4
         /\ action = "type_transition" => Len(kinds) = 5
         /\ action = "genfscon" => Len(kinds) = 3
<1> DEFINE a4 == <<"sterm", "sterm", "sterm", "sterm">>
           a5 == <<"sterm", "sterm", "sterm", "ioctl", "xperms">>
           a1 == <<"sterm">>
           a2 == <<"term", "term">>
           b2 == <<"id", "terms">>
           b1 == <<"id">>
           b4 == <<"id", "id", "id", "id">>
           b5 == <<"id", "id", "id", "id", "name">>
           b3 == <<"id", "id", "id">>
           kinds == Arguments(action)
<1>1. /\ action \in AvActions => kinds = a4
      /\ action \in XpermActions => kinds = a5
      /\ action \in {"permissive", "enforce"} => kinds = a1
      /\ action = "typeattribute" => kinds = a2
      /\ action = "type" => kinds = b2
      /\ action = "attribute" => kinds = b1
      /\ action \in {"type_change", "type_member"} => kinds = b4
      /\ action = "type_transition" => kinds = b5
      /\ action = "genfscon" => kinds = b3
  BY DEF Arguments, AvActions, XpermActions
<1>2. /\ Len(a4) = 4 /\ Len(a5) = 5 /\ a5[5] = "xperms" /\ Len(a1) = 1 /\ Len(a2) = 2
      /\ Len(b2) = 2 /\ b2[1] = "id" /\ Len(b1) = 1 /\ b1[1] = "id"
      /\ Len(b4) = 4 /\ Len(b5) = 5 /\ Len(b3) = 3
  OBVIOUS
<1> HIDE DEF a4, a5, a1, a2, b2, b1, b4, b5, b3, kinds
<1> QED
  BY <1>1, <1>2 DEF kinds

\* A list that matches all has one element.
LEMMA WildList ==
  ASSUME NEW names, IsList(names)
  PROVE  IsList(expand_wildcard(names))
<1> DEFINE all == <<MatchAll>>
<1>1. IsList(all)
  BY OneIs
<1>2. expand_wildcard(names) = all \/ expand_wildcard(names) = names
  BY DEF expand_wildcard
<1> HIDE DEF all
<1> QED
  BY <1>1, <1>2

\* The lists of a rule with matching arguments, and those of an extended one.
Wild(args) == [i \in DOMAIN args |-> expand_wildcard(args[i])]
XpermLists(args) == <<expand_wildcard(args[1]), expand_wildcard(args[2]),
                      expand_wildcard(args[3]), args[5]>>
XpermCall(action, t) ==
  [op |-> action, names |-> SubSeq(t, 1, 3), xperm |-> t[4]]
Caller(text, S) == IsList(Calls(text)) /\ ToSet(Calls(text)) \subseteq S

LEMMA WildIsLists ==
  ASSUME NEW n \in Nat, NEW args, DOMAIN args = 1..n, \A i \in 1..n : IsList(args[i])
  PROVE  DOMAIN Wild(args) = 1..n /\ \A i \in 1..n : IsList(Wild(args)[i])
BY WildList DEF Wild

\* Permissive rules and rules with an access vector.
LEMMA WildCalls ==
  ASSUME NEW text, Understood(text),
         ActionOf(text) \in AvActions \cup {"permissive", "enforce"}
  PROVE  Caller(text, {Call(ActionOf(text), t) :
                         t \in TuplesOf(Len(Arguments(ActionOf(text))), Wild(ArgsOf(text)))})
<1> DEFINE action == ActionOf(text)
           n == Len(Arguments(action))
           args == ArgsOf(text)
           wild == Wild(args)
<1>1. n \in Nat /\ DOMAIN args = 1..n /\ \A i \in 1..n : IsList(args[i])
  BY UnderstoodHas
<1>2. Calls(text) = CallsOf(action, wild)
  BY DEF Calls, ActionOf, ArgsOf, Wild, AvActions, XpermActions
<1> HIDE DEF n, args, action
<1>3. DOMAIN wild = 1..n /\ \A i \in 1..n : IsList(wild[i])
  BY <1>1, WildIsLists
<1> HIDE DEF wild
<1>4. /\ IsList(CallsOf(action, wild))
      /\ \A call \in ToSet(CallsOf(action, wild)) :
           \E t \in TuplesOf(n, wild) : call = Call(action, t)
  BY <1>1, <1>3, CallsOfAre
<1>5. ToSet(Calls(text)) \subseteq {Call(action, t) : t \in TuplesOf(n, wild)}
  BY <1>2, <1>4
<1> QED
  BY <1>2, <1>4, <1>5 DEF Caller, n, args, action, wild

\* The calls of each kind of statement are of tuples of its arguments.
LEMMA XpermCalls ==
  ASSUME NEW text, Understood(text), ActionOf(text) \in XpermActions
  PROVE  Caller(text, {XpermCall(ActionOf(text), t) :
                         t \in TuplesOf(4, XpermLists(ArgsOf(text)))})
<1> DEFINE action == ActionOf(text)
           args == ArgsOf(text)
           lists == XpermLists(args)
           cells == Product(lists)
           calls == Calls(text)
           m == Len(cells)
<1>1. \A i \in 1..5 : IsList(args[i]) /\ i \in DOMAIN args
  BY UnderstoodHas, KindsOf
<1> DEFINE w1 == expand_wildcard(args[1])
           w2 == expand_wildcard(args[2])
           w3 == expand_wildcard(args[3])
           w4 == args[5]
<1>2. /\ Wild(args)[1] = w1 /\ Wild(args)[2] = w2 /\ Wild(args)[3] = w3
      /\ lists = <<w1, w2, w3, w4>>
  BY <1>1 DEF Wild, XpermLists
<1>3. IsList(w1) /\ IsList(w2) /\ IsList(w3) /\ IsList(w4)
  BY <1>1, WildList
<1>4. calls = [i \in DOMAIN cells |-> XpermCall(action, cells[i])]
  <2> DEFINE pcells == Product(<<Wild(args)[1], Wild(args)[2], Wild(args)[3], args[5]>>)
  <2>1. Calls(text) =
          [i \in DOMAIN pcells |->
             [op |-> action, names |-> SubSeq(pcells[i], 1, 3), xperm |-> pcells[i][4]]]
    BY DEF Calls, ActionOf, ArgsOf, Wild, AvActions, XpermActions
  <2>2. pcells = cells
    <3> HIDE DEF args, w1, w2, w3
    <3> QED
      BY <1>2
  <2> HIDE DEF pcells, cells, action
  <2> QED
    BY <2>1, <2>2 DEF XpermCall
<1> HIDE DEF w1, w2, w3, w4, args
<1>5. DOMAIN lists = 1..4 /\ \A i \in 1..4 : IsList(lists[i])
  <2> HIDE DEF lists
  <2>1. /\ DOMAIN <<w1, w2, w3, w4>> = 1..4
        /\ \A i \in 1..4 : <<w1, w2, w3, w4>>[i] \in {w1, w2, w3, w4}
    OBVIOUS
  <2>2. DOMAIN lists = 1..4 /\ \A i \in 1..4 : lists[i] \in {w1, w2, w3, w4}
    BY <1>2, <2>1
  <2> QED
    BY <1>3, <2>2
<1> HIDE DEF lists
<1>6. IsList(cells) /\ ToSet(cells) \subseteq TuplesOf(4, lists)
  BY <1>5, ProductMembers
<1> HIDE DEF cells, calls
<1>7. m \in Nat /\ DOMAIN cells = 1..m /\ \A i \in 1..m : cells[i] \in ToSet(cells)
  BY <1>6, ListHas
<1> HIDE DEF m
<1>8. \A i \in 1..m : calls[i] = XpermCall(action, cells[i])
  BY <1>4, <1>7
<1>9. calls = [i \in 1..m |-> calls[i]]
  BY <1>4, <1>7
<1>10. IsList(calls) /\ \A c \in ToSet(calls) : \E i \in 1..m : c = calls[i]
  BY <1>7, <1>9, IndexedIs
<1>11. ToSet(calls) \subseteq {XpermCall(action, t) : t \in TuplesOf(4, lists)}
  BY <1>6, <1>7, <1>8, <1>10
<1> QED
  BY <1>10, <1>11 DEF Caller, calls, lists, args

\* type makes a type, and then gives it its attributes.
LEMMA TypeCalls ==
  ASSUME NEW text, Understood(text), ActionOf(text) = "type"
  PROVE  Caller(text, {Call("type", ArgsOf(text)[1])}
                        \cup {Call("typeattribute", t) : t \in TuplesOf(2, ArgsOf(text))})
<1> DEFINE args == ArgsOf(text)
           first == Call("type", args[1])
           one == <<first>>
           rest == CallsOf("typeattribute", args)
<1>1. DOMAIN args = 1..2 /\ \A i \in 1..2 : IsList(args[i])
  BY UnderstoodHas, KindsOf
<1>2. Calls(text) = one \o rest
  BY DEF Calls, ActionOf, ArgsOf, AvActions, XpermActions
<1> HIDE DEF args
<1>3. /\ IsList(rest)
      /\ \A call \in ToSet(rest) : \E t \in TuplesOf(2, args) : call = Call("typeattribute", t)
  <2> DEFINE n == 2
             op == "typeattribute"
  <2>1. n \in Nat /\ DOMAIN args = 1..n /\ \A i \in 1..n : IsList(args[i])
    BY <1>1
  <2> HIDE DEF n, op
  <2>2. /\ IsList(CallsOf(op, args))
        /\ \A call \in ToSet(CallsOf(op, args)) : \E t \in TuplesOf(n, args) : call = Call(op, t)
    BY <2>1, CallsOfAre
  <2> QED
    BY <2>2 DEF n, op
<1> HIDE DEF first, rest
<1>4. IsList(one) /\ ToSet(one) = {first}
  BY OneIs
<1> HIDE DEF one
<1>5. IsList(one \o rest) /\ ToSet(one \o rest) = ToSet(one) \cup ToSet(rest)
  BY <1>3, <1>4, JoinedIs
<1>6. ToSet(Calls(text)) \subseteq {first} \cup {Call("typeattribute", t) : t \in TuplesOf(2, args)}
  BY <1>2, <1>3, <1>4, <1>5
<1> QED
  BY <1>2, <1>5, <1>6 DEF Caller, first, args

\* type_transition makes one kind of call or the other.
LEMMA TransitionCalls ==
  ASSUME NEW text, Understood(text), ActionOf(text) = "type_transition"
  PROVE  /\ ArgsOf(text)[5] # <<>> =>
              Caller(text, {Call("name", t) : t \in TuplesOf(5, ArgsOf(text))})
         /\ ArgsOf(text)[5] = <<>> =>
              Caller(text, {Call("type_transition", t) :
                              t \in TuplesOf(4, SubSeq(ArgsOf(text), 1, 4))})
<1> DEFINE args == ArgsOf(text)
           four == SubSeq(args, 1, 4)
<1>1. DOMAIN args = 1..5 /\ \A i \in 1..5 : IsList(args[i])
  BY UnderstoodHas, KindsOf
<1>2. Calls(text) = IF args[5] # <<>> THEN CallsOf("name", args)
                    ELSE CallsOf("type_transition", four)
  BY DEF Calls, ActionOf, ArgsOf, AvActions, XpermActions
<1> HIDE DEF args
<1>3. ASSUME args[5] # <<>>
      PROVE  Caller(text, {Call("name", t) : t \in TuplesOf(5, args)})
  <2> DEFINE n == 5
             op == "name"
  <2>2. n \in Nat /\ DOMAIN args = 1..n /\ \A i \in 1..n : IsList(args[i])
    BY <1>1
  <2> HIDE DEF n, op
  <2>3. /\ IsList(CallsOf(op, args))
        /\ \A call \in ToSet(CallsOf(op, args)) : \E t \in TuplesOf(n, args) : call = Call(op, t)
    BY <2>2, CallsOfAre
  <2>1. /\ IsList(CallsOf("name", args))
        /\ \A call \in ToSet(CallsOf("name", args)) :
             \E t \in TuplesOf(5, args) : call = Call("name", t)
    BY <2>3 DEF n, op
  <2> QED
    BY <1>2, <1>3, <2>1 DEF Caller
<1>4. ASSUME args[5] = <<>>
      PROVE  Caller(text, {Call("type_transition", t) : t \in TuplesOf(4, four)})
  <2>0. DOMAIN four = 1..4 /\ \A i \in 1..4 : four[i] = args[i]
    OBVIOUS
  <2> HIDE DEF four
  <2> DEFINE n == 4
             op == "type_transition"
  <2>2. n \in Nat /\ DOMAIN four = 1..n /\ \A i \in 1..n : IsList(four[i])
    BY <1>1, <2>0
  <2> HIDE DEF n, op
  <2>3. /\ IsList(CallsOf(op, four))
        /\ \A call \in ToSet(CallsOf(op, four)) : \E t \in TuplesOf(n, four) : call = Call(op, t)
    BY <2>2, CallsOfAre
  <2>1. /\ IsList(CallsOf("type_transition", four))
        /\ \A call \in ToSet(CallsOf("type_transition", four)) :
             \E t \in TuplesOf(4, four) : call = Call("type_transition", t)
    BY <2>3 DEF n, op
  <2> QED
    BY <1>2, <1>4, <2>1 DEF Caller
<1> QED
  BY <1>3, <1>4 DEF args, four

OtherActions == {"attribute", "typeattribute", "type_change", "type_member", "genfscon"}
LEMMA OtherCalls ==
  ASSUME NEW text, Understood(text), ActionOf(text) \in OtherActions
  PROVE  Caller(text, {Call(ActionOf(text), t) :
                         t \in TuplesOf(Len(Arguments(ActionOf(text))), ArgsOf(text))})
<1> DEFINE action == ActionOf(text)
           n == Len(Arguments(action))
           args == ArgsOf(text)
<1>1. n \in Nat /\ DOMAIN args = 1..n /\ \A i \in 1..n : IsList(args[i])
  BY UnderstoodHas
<1>2. Calls(text) = CallsOf(action, args)
  BY DEF Calls, ActionOf, ArgsOf, OtherActions, AvActions, XpermActions
<1> HIDE DEF n, args, action
<1>4. /\ IsList(CallsOf(action, args))
      /\ \A call \in ToSet(CallsOf(action, args)) :
           \E t \in TuplesOf(n, args) : call = Call(action, t)
  BY <1>1, CallsOfAre
<1>5. ToSet(Calls(text)) \subseteq {Call(action, t) : t \in TuplesOf(n, args)}
  BY <1>2, <1>4
<1> QED
  BY <1>2, <1>4, <1>5 DEF Caller, n, args, action
--------------------------------------------------------------------------------
(***************************************************************************)
(* Calls that can be made, and the texts that make them.                   *)
(***************************************************************************)
CallOK(call) ==
  /\ call.op \in {"type", "attribute"} => call.names[1] \notin Actions \cup Marks
  /\ call.op \in XpermActions => call.xperm \in Spans

LEMMA CallHas ==
  ASSUME NEW op, NEW t
  PROVE  Call(op, t).op = op /\ Call(op, t).names = t
BY DEF Call

\* Only calls that make a type or have a range could be wrong.
LEMMA PlainCallOK ==
  ASSUME NEW op, op \notin XpermActions \cup {"type", "attribute"}, NEW t
  PROVE  CallOK(Call(op, t))
BY CallHas DEF CallOK

LEMMA NameCallOK ==
  ASSUME NEW op \in {"type", "attribute"}, NEW t, t[1] \notin Actions \cup Marks
  PROVE  CallOK(Call(op, t))
<1>1. op \notin XpermActions
  BY DEF XpermActions
<1>2. Call(op, t).op = op /\ Call(op, t).names = t
  BY CallHas
<1> QED
  BY <1>1, <1>2 DEF CallOK

\* The parts of the call for a range.
LEMMA XpermCallHas ==
  ASSUME NEW op, NEW S, NEW t \in Seq(S), Len(t) = 4
  PROVE  /\ XpermCall(op, t).op = op /\ XpermCall(op, t).xperm = t[4]
         /\ XpermCall(op, t).names = <<t[1], t[2], t[3]>>
<1> DEFINE three == SubSeq(t, 1, 3)
<1>1. three = <<t[1], t[2], t[3]>>
  <2>0. three = [i \in 1..3 |-> t[i]]
    OBVIOUS
  <2> HIDE DEF three
  <2>1. three \in Seq(S) /\ Len(three) = 3
    <3>1. t[1] \in S /\ t[2] \in S /\ t[3] \in S
      <4>1. \A i \in 1..Len(t) : t[i] \in S
        BY ElementOfSeq
      <4>2. 1 \in 1..Len(t) /\ 2 \in 1..Len(t) /\ 3 \in 1..Len(t)
        OBVIOUS
      <4> QED
        BY <4>1, <4>2
    <3>2. three = <<t[1], t[2], t[3]>>
      BY <2>0
    <3> DEFINE x == t[1]
               y == t[2]
               z == t[3]
    <3> HIDE DEF x, y, z
    <3>3. x \in S /\ y \in S /\ z \in S /\ three = <<x, y, z>>
      BY <3>1, <3>2 DEF x, y, z
    <3> QED
      BY <3>3
  <2>2. three[1] = t[1] /\ three[2] = t[2] /\ three[3] = t[3]
    BY <2>0
  <2> HIDE DEF three
  <2>3. three = <<three[1], three[2], three[3]>>
    BY <2>1, TupleIs
  <2> QED
    BY <2>2, <2>3
<1> HIDE DEF three
<1> QED
  BY <1>1 DEF XpermCall, three

\* What is known of the elements of a tuple.
LEMMA TuplesHave ==
  ASSUME NEW n \in Nat, NEW lists, NEW t \in TuplesOf(n, lists)
  PROVE  /\ t \in Seq(UNION {ToSet(lists[i]) : i \in 1..n}) /\ Len(t) = n
         /\ \A i \in 1..n : t[i] \in ToSet(lists[i])
BY DEF TuplesOf

LEMMA OtherKinds ==
  ASSUME NEW action \in Actions
  PROVE  \/ action \in AvActions \cup {"permissive", "enforce"}
         \/ action \in XpermActions \/ action = "type"
         \/ action = "type_transition" \/ action \in OtherActions
BY DEF Actions, AvActions, XpermActions, TypeActions, OtherActions

\* Every call of a text that is not refused can be made.
LEMMA TextCalls ==
  ASSUME NEW text, Understood(text)
  PROVE  IsList(Calls(text)) /\ \A call \in ToSet(Calls(text)) : CallOK(call)
<1> DEFINE action == ActionOf(text)
           args == ArgsOf(text)
           n == Len(Arguments(action))
           calls == Calls(text)
<1>1. action \in Actions /\ n \in Nat
  BY UnderstoodHas
<1>2. ASSUME action \in AvActions \cup {"permissive", "enforce"}
      PROVE  IsList(calls) /\ \A call \in ToSet(calls) : CallOK(call)
  <2>1. Caller(text, {Call(action, t) : t \in TuplesOf(n, Wild(args))})
    BY <1>2, WildCalls
  <2>2. action \notin XpermActions \cup {"type", "attribute"}
    BY <1>2 DEF AvActions, XpermActions
  <2> HIDE DEF action, args, n
  <2>3. \A t : CallOK(Call(action, t))
    BY <2>2, PlainCallOK
  <2> QED
    BY <2>1, <2>3 DEF Caller
<1>3. ASSUME action \in XpermActions
      PROVE  IsList(calls) /\ \A call \in ToSet(calls) : CallOK(call)
  <2>1. Caller(text, {XpermCall(action, t) : t \in TuplesOf(4, XpermLists(args))})
    BY <1>3, XpermCalls
  <2>2. ToSet(args[5]) \subseteq Spans
    BY <1>3, UnderstoodHas, KindsOf
  <2> HIDE DEF action, args, n, calls
  <2>3. ASSUME NEW t \in TuplesOf(4, XpermLists(args))
        PROVE  CallOK(XpermCall(action, t))
    <3> DEFINE lists == XpermLists(args)
               D == UNION {ToSet(lists[i]) : i \in 1..4}
    <3>1. lists[4] = args[5]
      BY DEF XpermLists
    <3> HIDE DEF lists
    <3>2. t \in Seq(D) /\ Len(t) = 4 /\ \A i \in 1..4 : t[i] \in ToSet(lists[i])
      BY <2>3 DEF TuplesOf, lists
    <3> HIDE DEF D
    <3>3. XpermCall(action, t).op = action /\ XpermCall(action, t).xperm = t[4]
      BY <3>2, XpermCallHas
    <3>4. t[4] \in Spans
      BY <2>2, <3>1, <3>2
    <3>5. action \notin {"type", "attribute"}
      BY <1>3 DEF XpermActions
    <3> QED
      BY <3>3, <3>4, <3>5 DEF CallOK
  <2> QED
    BY <2>1, <2>3 DEF Caller, calls
<1>4. ASSUME action = "type"
      PROVE  IsList(calls) /\ \A call \in ToSet(calls) : CallOK(call)
  <2>1. Caller(text, {Call("type", args[1])}
                        \cup {Call("typeattribute", t) : t \in TuplesOf(2, args)})
    BY <1>4, TypeCalls
  <2>2. PICK x : args[1] = <<x>> /\ x \notin Actions \cup Marks
    BY <1>4, UnderstoodHas, KindsOf
  <2> HIDE DEF action, args, n
  <2>3. args[1][1] \notin Actions \cup Marks
    BY <2>2
  <2>4. CallOK(Call("type", args[1]))
    BY <2>3, NameCallOK
  <2>5. "typeattribute" \notin XpermActions \cup {"type", "attribute"}
    BY DEF XpermActions
  <2> DEFINE op == "typeattribute"
  <2> HIDE DEF op
  <2>6. \A t : CallOK(Call(op, t))
    BY <2>5, PlainCallOK DEF op
  <2> QED
    BY <2>1, <2>4, <2>6 DEF Caller, op
<1>5. ASSUME action = "type_transition"
      PROVE  IsList(calls) /\ \A call \in ToSet(calls) : CallOK(call)
  <2>1. \/ Caller(text, {Call("name", t) : t \in TuplesOf(5, args)})
        \/ Caller(text, {Call("type_transition", t) : t \in TuplesOf(4, SubSeq(args, 1, 4))})
    BY <1>5, TransitionCalls
  <2>2. /\ "name" \notin XpermActions \cup {"type", "attribute"}
        /\ "type_transition" \notin XpermActions \cup {"type", "attribute"}
    BY DEF XpermActions
  <2> DEFINE one == "name"
             two == "type_transition"
  <2> HIDE DEF one, two, args
  <2>3. \A t : CallOK(Call(one, t)) /\ CallOK(Call(two, t))
    BY <2>2, PlainCallOK DEF one, two
  <2> QED
    BY <2>1, <2>3 DEF Caller, one, two
<1>6. ASSUME action \in OtherActions
      PROVE  IsList(calls) /\ \A call \in ToSet(calls) : CallOK(call)
  <2>1. Caller(text, {Call(action, t) : t \in TuplesOf(n, args)})
    BY <1>6, OtherCalls
  <2>2. ASSUME NEW t \in TuplesOf(n, args)
        PROVE  CallOK(Call(action, t))
    <3>1. CASE action # "attribute"
      <4>1. action \notin XpermActions \cup {"type", "attribute"}
        BY <1>6, <3>1 DEF OtherActions, XpermActions
      <4> HIDE DEF action
      <4> QED
        BY <4>1, PlainCallOK
    <3>2. CASE action = "attribute"
      <4>1. n = 1 /\ \E x : args[1] = <<x>> /\ x \notin Actions \cup Marks
        BY <1>1, <3>2, UnderstoodHas, KindsOf
      <4> HIDE DEF action, args, n
      <4>2. PICK x : args[1] = <<x>> /\ x \notin Actions \cup Marks
        BY <4>1
      <4>3. ToSet(args[1]) = {x}
        BY <4>2, OneIs
      <4>4. t[1] = x
        <5>1. \A i \in 1..n : t[i] \in ToSet(args[i])
          BY <1>1, <2>2, TuplesHave
        <5>2. 1 \in 1..n
          BY <4>1
        <5> QED
          BY <4>3, <5>1, <5>2
      <4> QED
        BY <3>2, <4>2, <4>4, NameCallOK
    <3> QED
      BY <3>1, <3>2
  <2> HIDE DEF action, args, n
  <2> QED
    BY <2>1, <2>2 DEF Caller
<1> QED
  BY <1>1, <1>2, <1>3, <1>4, <1>5, <1>6, OtherKinds

\* Words of names are a text.
LEMMA PlainWords ==
  ASSUME NEW list, IsList(list)
  PROVE  IsText(Words(list)) /\ \A x : IsText(<<W(x)>>)
<1> DEFINE n == Len(list)
           words == Words(list)
           none == <<>>
<1>0. none \in Seq(X!Codes)
  OBVIOUS
<1>1. \A x : W(x).n \in Seq(X!Codes)
  <2>1. \A x : W(x).n = none
    BY DEF W
  <2> HIDE DEF none
  <2> QED
    BY <1>0, <2>1
<1>2. n \in Nat /\ DOMAIN list = 1..n
  BY ListHas
<1> HIDE DEF n
<1>3. words = [i \in 1..n |-> W(list[i])]
  BY <1>2 DEF Words
<1>4. words = [i \in 1..n |-> words[i]] /\ \A i \in 1..n : words[i] = W(list[i])
  BY <1>3
<1> HIDE DEF words
<1>5. IsList(words) /\ \A w \in ToSet(words) : \E i \in 1..n : w = words[i]
  BY <1>2, <1>4, IndexedIs
<1>6. IsText(words)
  BY <1>1, <1>4, <1>5 DEF IsText
<1>7. ASSUME NEW x
      PROVE  IsText(<<W(x)>>)
  <2> DEFINE w == W(x)
  <2>1. w.n \in Seq(X!Codes)
    BY <1>1
  <2> HIDE DEF w
  <2>2. IsList(<<w>>) /\ ToSet(<<w>>) = {w}
    BY OneIs
  <2> QED
    BY <2>1, <2>2 DEF IsText, w
<1> QED
  BY <1>6, <1>7 DEF words

LEMMA JoinedText ==
  ASSUME NEW a, IsText(a), NEW b, IsText(b)
  PROVE  IsText(a \o b)
BY JoinedIs DEF IsText

\* A rule is a text.
LEMMA RuleTextIs ==
  ASSUME NEW r \in Rules
  PROVE  IsText(RuleText(r))
<1>1. ASSUME NEW list, IsList(list)
      PROVE  IsText(Group(list))
  <2> DEFINE words == Words(list)
             o == <<W("{")>>
             c == <<W("}")>>
  <2>1. IsText(words) /\ IsText(o) /\ IsText(c)
    BY <1>1, PlainWords
  <2>2. Group(list) = words \/ Group(list) = o \o words \o c
    BY DEF Group, Braced
  <2> HIDE DEF words, o, c
  <2>3. IsText(o \o words)
    BY <2>1, JoinedText
  <2>4. IsText(o \o words \o c)
    BY <2>1, <2>3, JoinedText
  <2> QED
    BY <2>1, <2>2, <2>4
<1>2. IsList(r.s) /\ IsList(r.t) /\ IsList(r.c) /\ IsList(r.p)
  BY RulesAssumption DEF IsList
<1> DEFINE a == <<W(r.op)>>
           b == Group(r.s)
           c == Group(r.t)
           d == Group(r.c)
           e == Group(r.p)
<1>3. IsText(a)
  BY PlainWords, NoneIsList
<1>4. IsText(b) /\ IsText(c) /\ IsText(d) /\ IsText(e)
  BY <1>1, <1>2
<1>5. RuleText(r) = a \o b \o c \o d \o e
  BY DEF RuleText
<1> HIDE DEF a, b, c, d, e
<1>6. IsText(a \o b)
  BY <1>3, <1>4, JoinedText
<1>7. IsText(a \o b \o c)
  BY <1>4, <1>6, JoinedText
<1>8. IsText(a \o b \o c \o d)
  BY <1>4, <1>7, JoinedText
<1>9. IsText(a \o b \o c \o d \o e)
  BY <1>4, <1>8, JoinedText
<1> QED
  BY <1>5, <1>9
--------------------------------------------------------------------------------
(***************************************************************************)
(* A policy stays one, whatever call is made.                              *)
(***************************************************************************)
Fields == {"version", "flavor", "attrs", "permissive", "av", "type_rules", "xperms",
           "names", "genfs"}
Tables == {"av", "type_rules", "xperms", "names", "genfs"}
Shape(p) ==
  p = [version |-> p.version, flavor |-> p.flavor, attrs |-> p.attrs,
       permissive |-> p.permissive, av |-> p.av, type_rules |-> p.type_rules,
       xperms |-> p.xperms, names |-> p.names, genfs |-> p.genfs]
\* One field has another value.
IsUpdate(q, p, f, v) == Shape(q) /\ q[f] = v /\ \A g \in Fields \ {f} : q[g] = p[g]

\* EXCEPT, one field after the other.
LEMMA Updates ==
  ASSUME NEW p, Shape(p), NEW v
  PROVE  /\ IsUpdate([p EXCEPT !.flavor = v], p, "flavor", v)
         /\ IsUpdate([p EXCEPT !.attrs = v], p, "attrs", v)
         /\ IsUpdate([p EXCEPT !.permissive = v], p, "permissive", v)
         /\ IsUpdate([p EXCEPT !.av = v], p, "av", v)
         /\ IsUpdate([p EXCEPT !.type_rules = v], p, "type_rules", v)
         /\ IsUpdate([p EXCEPT !.xperms = v], p, "xperms", v)
         /\ IsUpdate([p EXCEPT !.names = v], p, "names", v)
         /\ IsUpdate([p EXCEPT !.genfs = v], p, "genfs", v)
<1>1. IsUpdate([p EXCEPT !.flavor = v], p, "flavor", v)
  BY DEF IsUpdate, Shape, Fields
<1>2. IsUpdate([p EXCEPT !.attrs = v], p, "attrs", v)
  BY DEF IsUpdate, Shape, Fields
<1>3. IsUpdate([p EXCEPT !.permissive = v], p, "permissive", v)
  BY DEF IsUpdate, Shape, Fields
<1>4. IsUpdate([p EXCEPT !.av = v], p, "av", v)
  BY DEF IsUpdate, Shape, Fields
<1>5. IsUpdate([p EXCEPT !.type_rules = v], p, "type_rules", v)
  BY DEF IsUpdate, Shape, Fields
<1>6. IsUpdate([p EXCEPT !.xperms = v], p, "xperms", v)
  BY DEF IsUpdate, Shape, Fields
<1>7. IsUpdate([p EXCEPT !.names = v], p, "names", v)
  BY DEF IsUpdate, Shape, Fields
<1>8. IsUpdate([p EXCEPT !.genfs = v], p, "genfs", v)
  BY DEF IsUpdate, Shape, Fields
<1> QED
  BY <1>1, <1>2, <1>3, <1>4, <1>5, <1>6, <1>7, <1>8

\* Giving a field its own value changes nothing.
LEMMA SameField ==
  ASSUME NEW p, Shape(p), NEW q, NEW f \in Fields, IsUpdate(q, p, f, p[f])
  PROVE  q = p
<1>1. Shape(q) /\ \A g \in Fields : q[g] = p[g]
  BY DEF IsUpdate
<1>2. /\ q.version = p.version /\ q.flavor = p.flavor /\ q.attrs = p.attrs
      /\ q.permissive = p.permissive /\ q.av = p.av /\ q.type_rules = p.type_rules
      /\ q.xperms = p.xperms /\ q.names = p.names /\ q.genfs = p.genfs
  BY <1>1 DEF Fields
<1> QED
  BY <1>1, <1>2 DEF Shape

\* Finitely many types and classes make finitely many keys.
LEMMA KeysFinite ==
  ASSUME NEW A, IsFiniteSet(A), NEW B, IsFiniteSet(B), NEW e
  PROVE  IsFiniteSet(A \X A \X B \X {e})
<1> DEFINE P == A \X A
           Q == P \X B
           T == A \X A \X B \X {e}
           F == [q \in Q |-> <<q[1][1], q[1][2], q[2], e>>]
<1>1. IsFiniteSet(P)
  BY FS_Product
<1>2. IsFiniteSet(Q)
  <2> HIDE DEF P
  <2> QED
    BY <1>1, FS_Product
<1>3. F \in [Q -> T]
  OBVIOUS
<1>4. ASSUME NEW t \in T
      PROVE  \E q \in Q : F[q] = t
  <2>1. PICK a \in A, b \in A, c \in B : t = <<a, b, c, e>>
    OBVIOUS
  <2> DEFINE q == <<<<a, b>>, c>>
  <2>2. q \in Q /\ q[1][1] = a /\ q[1][2] = b /\ q[2] = c
    OBVIOUS
  <2> HIDE DEF q
  <2>3. F[q] = <<a, b, c, e>>
    BY <2>2
  <2> QED
    BY <2>1, <2>2, <2>3
<1> HIDE DEF P, Q, T, F
<1>5. F \in Surjection(Q, T)
  BY <1>3, <1>4 DEF Surjection
<1>6. IsFiniteSet(T)
  BY <1>2, <1>5, FS_Surjection
<1> QED
  BY <1>6 DEF T

\* The parts of PolicyOK, by name.
LEMMA OKHas ==
  ASSUME NEW p, PolicyOK(p)
  PROVE  /\ Shape(p) /\ \A f \in Tables : IsTable(p[f])
         /\ IsFiniteSet(DOMAIN p.flavor) /\ DOMAIN p.flavor \cap (Actions \cup Marks) = {}
         /\ \A a \in p.attrs : Known(p, {a[1], a[2]})
         /\ DOMAIN p.av \subseteq KeysIn(p, AvEffects)
         /\ \A k \in DOMAIN p.av : p.av[k] \subseteq Bits /\ p.av[k] # NoRule(k[4])
         /\ DOMAIN p.type_rules \subseteq KeysIn(p, TypeActions)
         /\ DOMAIN p.xperms \subseteq KeysIn(p, XpermActions)
         /\ \A k \in DOMAIN p.xperms : GoodNodes(p.xperms[k])
         /\ \A k \in DOMAIN p.names : k = <<k[1], k[2], k[3], k[4]>>
         /\ \A k \in DOMAIN p.genfs : k = <<k[1], k[2]>>
BY DEF PolicyOK, Shape, Tables, GoodNodes

LEMMA OKIs ==
  ASSUME NEW p, Shape(p), \A f \in Tables : IsTable(p[f]),
         IsFiniteSet(DOMAIN p.flavor), DOMAIN p.flavor \cap (Actions \cup Marks) = {},
         \A a \in p.attrs : Known(p, {a[1], a[2]}),
         DOMAIN p.av \subseteq KeysIn(p, AvEffects),
         \A k \in DOMAIN p.av : p.av[k] \subseteq Bits /\ p.av[k] # NoRule(k[4]),
         DOMAIN p.type_rules \subseteq KeysIn(p, TypeActions),
         DOMAIN p.xperms \subseteq KeysIn(p, XpermActions),
         \A k \in DOMAIN p.xperms : GoodNodes(p.xperms[k]),
         \A k \in DOMAIN p.names : k = <<k[1], k[2], k[3], k[4]>>,
         \A k \in DOMAIN p.genfs : k = <<k[1], k[2]>>
  PROVE  PolicyOK(p)
BY DEF PolicyOK, Shape, Tables, GoodNodes

\* An update leaves the other fields alone.
LEMMA UpdateHas ==
  ASSUME NEW p, NEW q, NEW f, NEW v, IsUpdate(q, p, f, v)
  PROVE  /\ Shape(q) /\ q[f] = v
         /\ f # "flavor" => q.flavor = p.flavor
         /\ f # "attrs" => q.attrs = p.attrs
         /\ f # "permissive" => q.permissive = p.permissive
         /\ f # "av" => q.av = p.av
         /\ f # "type_rules" => q.type_rules = p.type_rules
         /\ f # "xperms" => q.xperms = p.xperms
         /\ f # "names" => q.names = p.names
         /\ f # "genfs" => q.genfs = p.genfs
         /\ f # "version" => q.version = p.version
BY DEF IsUpdate, Fields

LEMMA SameFlavor ==
  ASSUME NEW p, NEW q, q.flavor = p.flavor
  PROVE  /\ \A effects : KeysIn(q, effects) = KeysIn(p, effects)
         /\ \A names : Known(q, names) <=> Known(p, names)
         /\ AttributesOf(q) = AttributesOf(p)
BY DEF KeysIn, Known, AttributesOf

\* A new value of a table keeps the policy one.
LEMMA AvUpdated ==
  ASSUME NEW p, PolicyOK(p), NEW q, NEW f, IsUpdate(q, p, "av", f), IsTable(f),
         DOMAIN f \subseteq KeysIn(p, AvEffects),
         \A k \in DOMAIN f : f[k] \subseteq Bits /\ f[k] # NoRule(k[4])
  PROVE  PolicyOK(q)
<1>1. /\ Shape(q) /\ q.av = f /\ q.flavor = p.flavor /\ q.attrs = p.attrs
      /\ q.type_rules = p.type_rules /\ q.xperms = p.xperms /\ q.names = p.names
      /\ q.genfs = p.genfs
  BY UpdateHas
<1>2. \A g \in Tables : IsTable(q[g])
  BY <1>1, OKHas DEF Tables
<1>3. /\ KeysIn(q, AvEffects) = KeysIn(p, AvEffects)
      /\ KeysIn(q, TypeActions) = KeysIn(p, TypeActions)
      /\ KeysIn(q, XpermActions) = KeysIn(p, XpermActions)
      /\ \A names : Known(q, names) <=> Known(p, names)
  BY <1>1, SameFlavor
<1>4. /\ IsFiniteSet(DOMAIN q.flavor) /\ DOMAIN q.flavor \cap (Actions \cup Marks) = {}
      /\ \A a \in q.attrs : Known(q, {a[1], a[2]})
      /\ DOMAIN q.av \subseteq KeysIn(q, AvEffects)
      /\ \A k \in DOMAIN q.av : q.av[k] \subseteq Bits /\ q.av[k] # NoRule(k[4])
  BY <1>1, <1>3, OKHas
<1>5. /\ DOMAIN q.type_rules \subseteq KeysIn(q, TypeActions)
      /\ DOMAIN q.xperms \subseteq KeysIn(q, XpermActions)
      /\ \A k \in DOMAIN q.xperms : GoodNodes(q.xperms[k])
      /\ \A k \in DOMAIN q.names : k = <<k[1], k[2], k[3], k[4]>>
      /\ \A k \in DOMAIN q.genfs : k = <<k[1], k[2]>>
  BY <1>1, <1>3, OKHas
<1> QED
  BY <1>1, <1>2, <1>4, <1>5, OKIs

\* A policy with one field replaced is one still, if that field is what it has to be.
LEMMA XpermsUpdated ==
  ASSUME NEW p, PolicyOK(p), NEW q, NEW f, IsUpdate(q, p, "xperms", f), IsTable(f),
         DOMAIN f \subseteq KeysIn(p, XpermActions),
         \A k \in DOMAIN f : GoodNodes(f[k])
  PROVE  PolicyOK(q)
<1>1. /\ Shape(q) /\ q.xperms = f /\ q.flavor = p.flavor /\ q.attrs = p.attrs
      /\ q.type_rules = p.type_rules /\ q.av = p.av /\ q.names = p.names
      /\ q.genfs = p.genfs
  BY UpdateHas
<1>2. \A g \in Tables : IsTable(q[g])
  BY <1>1, OKHas DEF Tables
<1>3. /\ KeysIn(q, AvEffects) = KeysIn(p, AvEffects)
      /\ KeysIn(q, TypeActions) = KeysIn(p, TypeActions)
      /\ KeysIn(q, XpermActions) = KeysIn(p, XpermActions)
      /\ \A names : Known(q, names) <=> Known(p, names)
  BY <1>1, SameFlavor
<1>4. /\ IsFiniteSet(DOMAIN q.flavor) /\ DOMAIN q.flavor \cap (Actions \cup Marks) = {}
      /\ \A a \in q.attrs : Known(q, {a[1], a[2]})
      /\ DOMAIN q.av \subseteq KeysIn(q, AvEffects)
      /\ \A k \in DOMAIN q.av : q.av[k] \subseteq Bits /\ q.av[k] # NoRule(k[4])
  BY <1>1, <1>3, OKHas
<1>5. /\ DOMAIN q.type_rules \subseteq KeysIn(q, TypeActions)
      /\ DOMAIN q.xperms \subseteq KeysIn(q, XpermActions)
      /\ \A k \in DOMAIN q.xperms : GoodNodes(q.xperms[k])
      /\ \A k \in DOMAIN q.names : k = <<k[1], k[2], k[3], k[4]>>
      /\ \A k \in DOMAIN q.genfs : k = <<k[1], k[2]>>
  BY <1>1, <1>3, OKHas
<1> QED
  BY <1>1, <1>2, <1>4, <1>5, OKIs

LEMMA TypeRulesUpdated ==
  ASSUME NEW p, PolicyOK(p), NEW q, NEW f, IsUpdate(q, p, "type_rules", f), IsTable(f),
         DOMAIN f \subseteq KeysIn(p, TypeActions)
  PROVE  PolicyOK(q)
<1>1. /\ Shape(q) /\ q.type_rules = f /\ q.flavor = p.flavor /\ q.attrs = p.attrs
      /\ q.xperms = p.xperms /\ q.av = p.av /\ q.names = p.names
      /\ q.genfs = p.genfs
  BY UpdateHas
<1>2. \A g \in Tables : IsTable(q[g])
  BY <1>1, OKHas DEF Tables
<1>3. /\ KeysIn(q, AvEffects) = KeysIn(p, AvEffects)
      /\ KeysIn(q, TypeActions) = KeysIn(p, TypeActions)
      /\ KeysIn(q, XpermActions) = KeysIn(p, XpermActions)
      /\ \A names : Known(q, names) <=> Known(p, names)
  BY <1>1, SameFlavor
<1>4. /\ IsFiniteSet(DOMAIN q.flavor) /\ DOMAIN q.flavor \cap (Actions \cup Marks) = {}
      /\ \A a \in q.attrs : Known(q, {a[1], a[2]})
      /\ DOMAIN q.av \subseteq KeysIn(q, AvEffects)
      /\ \A k \in DOMAIN q.av : q.av[k] \subseteq Bits /\ q.av[k] # NoRule(k[4])
  BY <1>1, <1>3, OKHas
<1>5. /\ DOMAIN q.type_rules \subseteq KeysIn(q, TypeActions)
      /\ DOMAIN q.xperms \subseteq KeysIn(q, XpermActions)
      /\ \A k \in DOMAIN q.xperms : GoodNodes(q.xperms[k])
      /\ \A k \in DOMAIN q.names : k = <<k[1], k[2], k[3], k[4]>>
      /\ \A k \in DOMAIN q.genfs : k = <<k[1], k[2]>>
  BY <1>1, <1>3, OKHas
<1> QED
  BY <1>1, <1>2, <1>4, <1>5, OKIs

LEMMA NamesUpdated ==
  ASSUME NEW p, PolicyOK(p), NEW q, NEW f, IsUpdate(q, p, "names", f), IsTable(f),
         \A k \in DOMAIN f : k = <<k[1], k[2], k[3], k[4]>>
  PROVE  PolicyOK(q)
<1>1. /\ Shape(q) /\ q.names = f /\ q.flavor = p.flavor /\ q.attrs = p.attrs
      /\ q.xperms = p.xperms /\ q.av = p.av /\ q.type_rules = p.type_rules
      /\ q.genfs = p.genfs
  BY UpdateHas
<1>2. \A g \in Tables : IsTable(q[g])
  BY <1>1, OKHas DEF Tables
<1>3. /\ KeysIn(q, AvEffects) = KeysIn(p, AvEffects)
      /\ KeysIn(q, TypeActions) = KeysIn(p, TypeActions)
      /\ KeysIn(q, XpermActions) = KeysIn(p, XpermActions)
      /\ \A names : Known(q, names) <=> Known(p, names)
  BY <1>1, SameFlavor
<1>4. /\ IsFiniteSet(DOMAIN q.flavor) /\ DOMAIN q.flavor \cap (Actions \cup Marks) = {}
      /\ \A a \in q.attrs : Known(q, {a[1], a[2]})
      /\ DOMAIN q.av \subseteq KeysIn(q, AvEffects)
      /\ \A k \in DOMAIN q.av : q.av[k] \subseteq Bits /\ q.av[k] # NoRule(k[4])
  BY <1>1, <1>3, OKHas
<1>5. /\ DOMAIN q.type_rules \subseteq KeysIn(q, TypeActions)
      /\ DOMAIN q.xperms \subseteq KeysIn(q, XpermActions)
      /\ \A k \in DOMAIN q.xperms : GoodNodes(q.xperms[k])
      /\ \A k \in DOMAIN q.names : k = <<k[1], k[2], k[3], k[4]>>
      /\ \A k \in DOMAIN q.genfs : k = <<k[1], k[2]>>
  BY <1>1, <1>3, OKHas
<1> QED
  BY <1>1, <1>2, <1>4, <1>5, OKIs

LEMMA GenfsUpdated ==
  ASSUME NEW p, PolicyOK(p), NEW q, NEW f, IsUpdate(q, p, "genfs", f), IsTable(f),
         \A k \in DOMAIN f : k = <<k[1], k[2]>>
  PROVE  PolicyOK(q)
<1>1. /\ Shape(q) /\ q.genfs = f /\ q.flavor = p.flavor /\ q.attrs = p.attrs
      /\ q.xperms = p.xperms /\ q.av = p.av /\ q.type_rules = p.type_rules
      /\ q.names = p.names
  BY UpdateHas
<1>2. \A g \in Tables : IsTable(q[g])
  BY <1>1, OKHas DEF Tables
<1>3. /\ KeysIn(q, AvEffects) = KeysIn(p, AvEffects)
      /\ KeysIn(q, TypeActions) = KeysIn(p, TypeActions)
      /\ KeysIn(q, XpermActions) = KeysIn(p, XpermActions)
      /\ \A names : Known(q, names) <=> Known(p, names)
  BY <1>1, SameFlavor
<1>4. /\ IsFiniteSet(DOMAIN q.flavor) /\ DOMAIN q.flavor \cap (Actions \cup Marks) = {}
      /\ \A a \in q.attrs : Known(q, {a[1], a[2]})
      /\ DOMAIN q.av \subseteq KeysIn(q, AvEffects)
      /\ \A k \in DOMAIN q.av : q.av[k] \subseteq Bits /\ q.av[k] # NoRule(k[4])
  BY <1>1, <1>3, OKHas
<1>5. /\ DOMAIN q.type_rules \subseteq KeysIn(q, TypeActions)
      /\ DOMAIN q.xperms \subseteq KeysIn(q, XpermActions)
      /\ \A k \in DOMAIN q.xperms : GoodNodes(q.xperms[k])
      /\ \A k \in DOMAIN q.names : k = <<k[1], k[2], k[3], k[4]>>
      /\ \A k \in DOMAIN q.genfs : k = <<k[1], k[2]>>
  BY <1>1, <1>3, OKHas
<1> QED
  BY <1>1, <1>2, <1>4, <1>5, OKIs

LEMMA AttrsUpdated ==
  ASSUME NEW p, PolicyOK(p), NEW q, NEW f, IsUpdate(q, p, "attrs", f),
         \A a \in f : Known(p, {a[1], a[2]})
  PROVE  PolicyOK(q)
<1>1. /\ Shape(q) /\ q.attrs = f /\ q.flavor = p.flavor /\ q.genfs = p.genfs
      /\ q.xperms = p.xperms /\ q.av = p.av /\ q.type_rules = p.type_rules
      /\ q.names = p.names
  BY UpdateHas
<1>2. \A g \in Tables : IsTable(q[g])
  BY <1>1, OKHas DEF Tables
<1>3. /\ KeysIn(q, AvEffects) = KeysIn(p, AvEffects)
      /\ KeysIn(q, TypeActions) = KeysIn(p, TypeActions)
      /\ KeysIn(q, XpermActions) = KeysIn(p, XpermActions)
      /\ \A names : Known(q, names) <=> Known(p, names)
  BY <1>1, SameFlavor
<1>4. /\ IsFiniteSet(DOMAIN q.flavor) /\ DOMAIN q.flavor \cap (Actions \cup Marks) = {}
      /\ \A a \in q.attrs : Known(q, {a[1], a[2]})
      /\ DOMAIN q.av \subseteq KeysIn(q, AvEffects)
      /\ \A k \in DOMAIN q.av : q.av[k] \subseteq Bits /\ q.av[k] # NoRule(k[4])
  BY <1>1, <1>3, OKHas
<1>5. /\ DOMAIN q.type_rules \subseteq KeysIn(q, TypeActions)
      /\ DOMAIN q.xperms \subseteq KeysIn(q, XpermActions)
      /\ \A k \in DOMAIN q.xperms : GoodNodes(q.xperms[k])
      /\ \A k \in DOMAIN q.names : k = <<k[1], k[2], k[3], k[4]>>
      /\ \A k \in DOMAIN q.genfs : k = <<k[1], k[2]>>
  BY <1>1, <1>3, OKHas
<1> QED
  BY <1>1, <1>2, <1>4, <1>5, OKIs

LEMMA PermissiveUpdated ==
  ASSUME NEW p, PolicyOK(p), NEW q, NEW f, IsUpdate(q, p, "permissive", f)
  PROVE  PolicyOK(q)
<1>1. /\ Shape(q) /\ q.attrs = p.attrs /\ q.flavor = p.flavor /\ q.genfs = p.genfs
      /\ q.xperms = p.xperms /\ q.av = p.av /\ q.type_rules = p.type_rules
      /\ q.names = p.names
  BY UpdateHas
<1>2. \A g \in Tables : IsTable(q[g])
  BY <1>1, OKHas DEF Tables
<1>3. /\ KeysIn(q, AvEffects) = KeysIn(p, AvEffects)
      /\ KeysIn(q, TypeActions) = KeysIn(p, TypeActions)
      /\ KeysIn(q, XpermActions) = KeysIn(p, XpermActions)
      /\ \A names : Known(q, names) <=> Known(p, names)
  BY <1>1, SameFlavor
<1>4. /\ IsFiniteSet(DOMAIN q.flavor) /\ DOMAIN q.flavor \cap (Actions \cup Marks) = {}
      /\ \A a \in q.attrs : Known(q, {a[1], a[2]})
      /\ DOMAIN q.av \subseteq KeysIn(q, AvEffects)
      /\ \A k \in DOMAIN q.av : q.av[k] \subseteq Bits /\ q.av[k] # NoRule(k[4])
  BY <1>1, <1>3, OKHas
<1>5. /\ DOMAIN q.type_rules \subseteq KeysIn(q, TypeActions)
      /\ DOMAIN q.xperms \subseteq KeysIn(q, XpermActions)
      /\ \A k \in DOMAIN q.xperms : GoodNodes(q.xperms[k])
      /\ \A k \in DOMAIN q.names : k = <<k[1], k[2], k[3], k[4]>>
      /\ \A k \in DOMAIN q.genfs : k = <<k[1], k[2]>>
  BY <1>1, <1>3, OKHas
<1> QED
  BY <1>1, <1>2, <1>4, <1>5, OKIs

LEMMA FlavorUpdated ==
  ASSUME NEW p, PolicyOK(p), NEW q, NEW f, IsUpdate(q, p, "flavor", f),
         DOMAIN p.flavor \subseteq DOMAIN f, IsFiniteSet(DOMAIN f),
         DOMAIN f \cap (Actions \cup Marks) = {}
  PROVE  PolicyOK(q)
<1>1. /\ Shape(q) /\ q.attrs = p.attrs /\ q.flavor = f /\ q.genfs = p.genfs
      /\ q.xperms = p.xperms /\ q.av = p.av /\ q.type_rules = p.type_rules
      /\ q.names = p.names
  BY UpdateHas
<1>2. \A g \in Tables : IsTable(q[g])
  BY <1>1, OKHas DEF Tables
<1>3. \A effects : KeysIn(p, effects) \subseteq KeysIn(q, effects)
  <2> SUFFICES ASSUME NEW effects, NEW k \in KeysIn(p, effects)
               PROVE  k \in KeysIn(q, effects)
    OBVIOUS
  <2>1. PICK a \in DOMAIN p.flavor, b \in DOMAIN p.flavor, c \in Classes, e \in effects :
           k = <<a, b, c, e>>
    BY DEF KeysIn
  <2>2. a \in DOMAIN q.flavor /\ b \in DOMAIN q.flavor
    BY <1>1, <2>1
  <2> QED
    BY <2>1, <2>2 DEF KeysIn
<1>4. \A names : Known(p, names) => Known(q, names)
  BY <1>1 DEF Known
<1>5. \A a \in q.attrs : Known(q, {a[1], a[2]})
  BY <1>1, <1>4, OKHas
<1>6. /\ DOMAIN q.av \subseteq KeysIn(q, AvEffects)
      /\ DOMAIN q.type_rules \subseteq KeysIn(q, TypeActions)
      /\ DOMAIN q.xperms \subseteq KeysIn(q, XpermActions)
  <2>1. /\ DOMAIN p.av \subseteq KeysIn(p, AvEffects)
        /\ DOMAIN p.type_rules \subseteq KeysIn(p, TypeActions)
        /\ DOMAIN p.xperms \subseteq KeysIn(p, XpermActions)
    BY OKHas
  <2>2. /\ KeysIn(p, AvEffects) \subseteq KeysIn(q, AvEffects)
        /\ KeysIn(p, TypeActions) \subseteq KeysIn(q, TypeActions)
        /\ KeysIn(p, XpermActions) \subseteq KeysIn(q, XpermActions)
    BY <1>3
  <2> QED
    BY <1>1, <2>1, <2>2
<1>7. /\ IsFiniteSet(DOMAIN q.flavor) /\ DOMAIN q.flavor \cap (Actions \cup Marks) = {}
      /\ \A k \in DOMAIN q.av : q.av[k] \subseteq Bits /\ q.av[k] # NoRule(k[4])
      /\ \A k \in DOMAIN q.xperms : GoodNodes(q.xperms[k])
      /\ \A k \in DOMAIN q.names : k = <<k[1], k[2], k[3], k[4]>>
      /\ \A k \in DOMAIN q.genfs : k = <<k[1], k[2]>>
  BY <1>1, OKHas
<1> QED
  BY <1>1, <1>2, <1>5, <1>6, <1>7, OKIs

\* A function on a finite set is a table.
LEMMA TableIs ==
  ASSUME NEW S, IsFiniteSet(S), NEW f, DOMAIN f = S, f = [k \in S |-> f[k]]
  PROVE  IsTable(f)
BY DEF IsTable

\* What an entry of a rule call is about: types and a class the policy knows.
LEMMA MatchedIs ==
  ASSUME NEW p, NEW n, NEW effect, NEW all, PolicyOK(p),
         Known(p, {n[1], n[2]} \ {MatchAll}), n[3] \in Classes \cup {MatchAll}
  PROVE  /\ Keys(p, n, effect, all) \subseteq KeysIn(p, {effect})
         /\ IsFiniteSet(KeysIn(p, {effect}))
<1> DEFINE S == MatchedTypes(p, n[1], all)
           T == MatchedTypes(p, n[2], all)
           C == MatchedClasses(n[3])
           F == DOMAIN p.flavor
<1>1. S \subseteq F /\ T \subseteq F
  BY DEF MatchedTypes, Known, AttributesOf
<1>2. C \subseteq Classes
  BY DEF MatchedClasses
<1>3. Keys(p, n, effect, all) = S \X T \X C \X {effect}
  BY DEF Keys
<1>4. KeysIn(p, {effect}) = F \X F \X Classes \X {effect}
  BY DEF KeysIn
<1>5. IsFiniteSet(F) /\ IsFiniteSet(Classes)
  BY OKHas, NamesAssumption
<1> HIDE DEF S, T, C, F
<1>6. S \X T \X C \X {effect} \subseteq F \X F \X Classes \X {effect}
  BY <1>1, <1>2
<1>7. IsFiniteSet(F \X F \X Classes \X {effect})
  BY <1>5, KeysFinite
<1> QED
  BY <1>3, <1>4, <1>6, <1>7

LEMMA KeysIncluded ==
  ASSUME NEW p, NEW e, NEW effects, e \in effects
  PROVE  KeysIn(p, {e}) \subseteq KeysIn(p, effects) /\ \A k \in KeysIn(p, {e}) : k[4] = e
BY DEF KeysIn

LEMMA EffectIs ==
  ASSUME NEW op \in AvActions
  PROVE  EffectOf(op) \in AvEffects
BY DEF AvActions, EffectOf, AvEffects

\* What a call that finds its names knows about them.
LEMMA ResolvedHas ==
  ASSUME NEW p, NEW op, NEW n, Resolved(p, op, n)
  PROVE  /\ op \in AvActions \cup XpermActions =>
              Known(p, {n[1], n[2]} \ {MatchAll}) /\ n[3] \in Classes \cup {MatchAll}
         /\ op \in AvActions =>
              (n[4] = MatchAll \/ (n[3] # MatchAll /\ n[4] \in Perms[n[3]]))
         /\ op \in TypeActions \cup {"name"} =>
              Known(p, {n[1], n[2], n[4]}) /\ n[3] \in Classes
         /\ op = "typeattribute" => Known(p, {n[1], n[2]})
<1>1. ASSUME op \in AvActions
      PROVE  /\ Known(p, {n[1], n[2]} \ {MatchAll}) /\ n[3] \in Classes \cup {MatchAll}
             /\ n[4] = MatchAll \/ (n[3] # MatchAll /\ n[4] \in Perms[n[3]])
  BY <1>1 DEF Resolved, AvActions, XpermActions, TypeActions
<1>2. ASSUME op \in XpermActions
      PROVE  Known(p, {n[1], n[2]} \ {MatchAll}) /\ n[3] \in Classes \cup {MatchAll}
  BY <1>2 DEF Resolved, AvActions, XpermActions, TypeActions
<1>3. op \in TypeActions \cup {"name"} => Known(p, {n[1], n[2], n[4]}) /\ n[3] \in Classes
  BY DEF Resolved, AvActions, XpermActions, TypeActions
<1>4. op = "typeattribute" => Known(p, {n[1], n[2]})
  BY DEF Resolved, AvActions, XpermActions, TypeActions
<1> QED
  BY <1>1, <1>2, <1>3, <1>4

\* The calls, one after the other.
LEMMA RuleOK ==
  ASSUME NEW p, PolicyOK(p), NEW op \in AvActions, NEW n, Resolved(p, op, n)
  PROVE  PolicyOK(AddRule(p, op, n))
<1> DEFINE effect == EffectOf(op)
           all == (effect = "auditdeny") = ~InvertOf(op)
           reach == Keys(p, n, effect, all)
           bits == IF n[4] = MatchAll THEN Bits ELSE {n[4]}
           new(k) == IF InvertOf(op) THEN Vector(p, k) \ bits ELSE Vector(p, k) \cup bits
           nodes == (DOMAIN p.av \ reach) \cup {k \in reach : new(k) # NoRule(effect)}
           f == [k \in nodes |-> IF k \in reach THEN new(k) ELSE p.av[k]]
           q == AddRule(p, op, n)
<1>1. q = [p EXCEPT !.av = f]
  BY DEF AddRule
<1>2. effect \in AvEffects
  BY EffectIs
<1>3. /\ Known(p, {n[1], n[2]} \ {MatchAll}) /\ n[3] \in Classes \cup {MatchAll}
      /\ n[4] = MatchAll \/ (n[3] # MatchAll /\ n[4] \in Perms[n[3]])
  BY ResolvedHas
<1>4. bits \subseteq Bits
  BY <1>3, NamesAssumption
<1> HIDE DEF effect, all, bits
<1>5. reach \subseteq KeysIn(p, {effect}) /\ IsFiniteSet(KeysIn(p, {effect}))
  BY <1>3, MatchedIs
<1>6. KeysIn(p, {effect}) \subseteq KeysIn(p, AvEffects) /\ \A k \in reach : k[4] = effect
  BY <1>2, <1>5, KeysIncluded
<1> HIDE DEF reach
<1>7. /\ DOMAIN p.av \subseteq KeysIn(p, AvEffects) /\ IsFiniteSet(DOMAIN p.av) /\ Shape(p)
      /\ \A k \in DOMAIN p.av : p.av[k] \subseteq Bits /\ p.av[k] # NoRule(k[4])
  BY OKHas DEF IsTable, Tables
<1>8. \A k : Vector(p, k) \subseteq Bits
  BY <1>7 DEF Vector, Given, NoRule
<1>9. \A k : new(k) \subseteq Bits
  BY <1>4, <1>8
<1> HIDE DEF new
<1>10. IsFiniteSet(nodes)
  <2> DEFINE some == {k \in reach : new(k) # NoRule(effect)}
             rest == DOMAIN p.av \ reach
  <2>1. IsFiniteSet(some)
    <3>1. some \in SUBSET KeysIn(p, {effect})
      BY <1>5
    <3> HIDE DEF some
    <3> QED
      BY <1>5, <3>1, FS_Subset
  <2>2. IsFiniteSet(rest)
    <3>1. rest \in SUBSET DOMAIN p.av
      OBVIOUS
    <3> HIDE DEF rest
    <3> QED
      BY <1>7, <3>1, FS_Subset
  <2>3. nodes = rest \cup some
    OBVIOUS
  <2> HIDE DEF some, rest
  <2>4. IsFiniteSet(rest \cup some)
    BY <2>1, <2>2, FS_Union
  <2> QED
    BY <2>3, <2>4
<1>11. nodes \subseteq KeysIn(p, AvEffects)
  BY <1>5, <1>6, <1>7
<1>12. ASSUME NEW k \in nodes
       PROVE  f[k] \subseteq Bits /\ f[k] # NoRule(k[4])
  <2>1. CASE k \in reach
    <3>1. f[k] = new(k) /\ new(k) # NoRule(effect) /\ k[4] = effect
      BY <1>6, <2>1
    <3> QED
      BY <1>9, <3>1
  <2>2. CASE k \notin reach
    <3>1. f[k] = p.av[k] /\ k \in DOMAIN p.av
      BY <2>2
    <3> QED
      BY <1>7, <3>1
  <2> QED
    BY <2>1, <2>2
<1>13. DOMAIN f = nodes /\ f = [k \in nodes |-> f[k]]
  OBVIOUS
<1> HIDE DEF f, nodes
<1>14. IsTable(f)
  BY <1>10, <1>13, TableIs
<1> HIDE DEF q
<1>15. IsUpdate(q, p, "av", f)
  <2>1. IsUpdate([p EXCEPT !.av = f], p, "av", f)
    BY <1>7, Updates
  <2> QED
    BY <1>1, <2>1
<1>16. PolicyOK(q)
  BY <1>11, <1>12, <1>13, <1>14, <1>15, AvUpdated
<1> QED
  BY <1>16 DEF q

LEMMA EmptyNodes == GoodNodes(<<>>)
<1> DEFINE none == <<>>
<1>1. none \in Seq(X!Node)
  OBVIOUS
<1>2. DOMAIN none = {}
  OBVIOUS
<1> HIDE DEF none
<1>3. X!OneOfEach(none)
  BY <1>2 DEF X!OneOfEach, X!Drivers, X!Places, X!Functions
<1> QED
  BY <1>1, <1>3 DEF GoodNodes, none

\* What an extended permission call makes of the nodes of one key.
NewNodes(p, k, x) ==
  IF x.reset THEN X!Complement(Given(p.xperms, k, <<>>), x.low, x.high)
  ELSE X!Extend(Given(p.xperms, k, <<>>), x.low, x.high)

LEMMA NewNodesGood ==
  ASSUME NEW p, PolicyOK(p), NEW k, NEW x \in Spans
  PROVE  GoodNodes(Given(p.xperms, k, <<>>)) /\ GoodNodes(NewNodes(p, k, x))
<1> DEFINE old == Given(p.xperms, k, <<>>)
<1>1. GoodNodes(old)
  BY EmptyNodes, OKHas DEF Given
<1>2. x.low \in X!Codes /\ x.high \in X!Codes
  BY SpanHas
<1> HIDE DEF old
<1>3. GoodNodes(X!Extend(old, x.low, x.high)) /\ GoodNodes(X!Complement(old, x.low, x.high))
  BY <1>1, <1>2, NodesExtended, NodesComplemented
<1> QED
  BY <1>1, <1>3 DEF NewNodes, old

LEMMA XpermOK ==
  ASSUME NEW p, PolicyOK(p), NEW op \in XpermActions, NEW n, Resolved(p, op, n),
         NEW x \in Spans
  PROVE  PolicyOK(AddXpermRule(p, op, n, x))
<1> DEFINE all == FALSE
           reach == Keys(p, n, op, all)
           dom == DOMAIN p.xperms \cup reach
           f == [k \in dom |-> IF k \in reach THEN NewNodes(p, k, x)
                                              ELSE Given(p.xperms, k, <<>>)]
           q == AddXpermRule(p, op, n, x)
<1>1. q = [p EXCEPT !.xperms = f]
  BY DEF AddXpermRule, NewNodes
<1>2. Known(p, {n[1], n[2]} \ {MatchAll}) /\ n[3] \in Classes \cup {MatchAll}
  BY ResolvedHas
<1> HIDE DEF all
<1>3. reach \subseteq KeysIn(p, {op}) /\ IsFiniteSet(KeysIn(p, {op}))
  BY <1>2, MatchedIs
<1>4. KeysIn(p, {op}) \subseteq KeysIn(p, XpermActions)
  BY KeysIncluded
<1> HIDE DEF reach
<1>5. /\ DOMAIN p.xperms \subseteq KeysIn(p, XpermActions) /\ IsFiniteSet(DOMAIN p.xperms)
      /\ Shape(p)
  BY OKHas DEF IsTable, Tables
<1>6. IsFiniteSet(dom)
  <2>1. IsFiniteSet(reach)
    BY <1>3, FS_Subset
  <2> QED
    BY <1>5, <2>1, FS_Union
<1>7. dom \subseteq KeysIn(p, XpermActions)
  BY <1>3, <1>4, <1>5
<1> HIDE DEF dom
<1>8. \A k \in dom : f[k] = NewNodes(p, k, x) \/ f[k] = Given(p.xperms, k, <<>>)
  OBVIOUS
<1>9. DOMAIN f = dom /\ f = [k \in dom |-> f[k]]
  OBVIOUS
<1> HIDE DEF f
<1>10. \A k \in dom : GoodNodes(f[k])
  BY <1>8, NewNodesGood
<1>11. IsTable(f)
  BY <1>6, <1>9, TableIs
<1>12. IsUpdate(q, p, "xperms", f)
  BY <1>1, <1>5, Updates
<1> HIDE DEF q
<1>13. PolicyOK(q)
  BY <1>7, <1>9, <1>10, <1>11, <1>12, XpermsUpdated
<1> QED
  BY <1>13 DEF q

\* A table with an entry more is a table, and the same one if it had the entry.
LEMMA WithIs ==
  ASSUME NEW f, IsFiniteSet(DOMAIN f), NEW k, NEW v
  PROVE  /\ DOMAIN With(f, k, v) = DOMAIN f \cup {k} /\ IsTable(With(f, k, v))
         /\ IsTable(f) /\ k \in DOMAIN f /\ v = f[k] => With(f, k, v) = f
<1> DEFINE g == With(f, k, v)
           dom == DOMAIN f \cup {k}
<1>1. g = [j \in dom |-> IF j = k THEN v ELSE f[j]]
  BY DEF With
<1>2. IsFiniteSet(dom)
  BY FS_AddElement
<1> HIDE DEF dom, g
<1>3. DOMAIN g = dom /\ g = [j \in dom |-> g[j]]
  BY <1>1
<1>4. IsTable(g)
  BY <1>2, <1>3, TableIs
<1>5. ASSUME IsTable(f), k \in DOMAIN f, v = f[k]
      PROVE  g = f
  <2>1. dom = DOMAIN f /\ f = [j \in DOMAIN f |-> f[j]]
    BY <1>5 DEF dom, IsTable
  <2>2. g = [j \in DOMAIN f |-> IF j = k THEN v ELSE f[j]]
    BY <1>1, <2>1
  <2>3. \A j \in DOMAIN f : (IF j = k THEN v ELSE f[j]) = f[j]
    BY <1>5
  <2>4. g = [j \in DOMAIN f |-> f[j]]
    BY <2>2, <2>3
  <2> QED
    BY <2>1, <2>4
<1> QED
  BY <1>3, <1>4, <1>5 DEF g, dom

LEMMA TablesOf ==
  ASSUME NEW p, PolicyOK(p)
  PROVE  /\ IsTable(p.av) /\ IsTable(p.type_rules) /\ IsTable(p.xperms)
         /\ IsTable(p.names) /\ IsTable(p.genfs)
         /\ IsFiniteSet(DOMAIN p.av) /\ IsFiniteSet(DOMAIN p.type_rules)
         /\ IsFiniteSet(DOMAIN p.xperms) /\ IsFiniteSet(DOMAIN p.names)
         /\ IsFiniteSet(DOMAIN p.genfs)
<1>1. /\ IsTable(p.av) /\ IsTable(p.type_rules) /\ IsTable(p.xperms)
      /\ IsTable(p.names) /\ IsTable(p.genfs)
  BY OKHas DEF Tables
<1> QED
  BY <1>1 DEF IsTable

LEMMA TypeRuleOK ==
  ASSUME NEW p, PolicyOK(p), NEW op \in TypeActions, NEW n, Resolved(p, op, n)
  PROVE  PolicyOK(AddTypeRule(p, op, n))
<1> DEFINE k == <<n[1], n[2], n[3], op>>
           f == With(p.type_rules, k, n[4])
           q == [p EXCEPT !.type_rules = f]
<1>1. Known(p, {n[1], n[2], n[4]}) /\ n[3] \in Classes
  BY ResolvedHas
<1>2. k \in KeysIn(p, TypeActions)
  BY <1>1 DEF Known, KeysIn
<1>3. AddTypeRule(p, op, n) = p \/ AddTypeRule(p, op, n) = q
  BY DEF AddTypeRule
<1> HIDE DEF k
<1>4. DOMAIN f = DOMAIN p.type_rules \cup {k} /\ IsTable(f)
  BY TablesOf, WithIs
<1> HIDE DEF f
<1>5. DOMAIN f \subseteq KeysIn(p, TypeActions)
  BY <1>2, <1>4, OKHas
<1>6. IsUpdate(q, p, "type_rules", f)
  BY OKHas, Updates
<1> HIDE DEF q
<1>7. PolicyOK(q)
  BY <1>4, <1>5, <1>6, TypeRulesUpdated
<1> QED
  BY <1>3, <1>7

LEMMA FilenameTransOK ==
  ASSUME NEW p, PolicyOK(p), NEW n
  PROVE  PolicyOK(AddFilenameTrans(p, n))
<1> DEFINE k == <<n[1], n[2], n[3], n[5]>>
           f == With(p.names, k, n[4])
           q == AddFilenameTrans(p, n)
<1>1. k = <<k[1], k[2], k[3], k[4]>>
  OBVIOUS
<1>2. q = [p EXCEPT !.names = f]
  BY DEF AddFilenameTrans
<1> HIDE DEF k
<1>3. DOMAIN f = DOMAIN p.names \cup {k} /\ IsTable(f)
  BY TablesOf, WithIs
<1> HIDE DEF f
<1>4. \A j \in DOMAIN f : j = <<j[1], j[2], j[3], j[4]>>
  BY <1>1, <1>3, OKHas
<1> HIDE DEF q
<1>5. IsUpdate([p EXCEPT !.names = f], p, "names", f)
  BY OKHas, Updates
<1>6. IsUpdate(q, p, "names", f)
  BY <1>2, <1>5
<1>7. PolicyOK(q)
  BY <1>3, <1>4, <1>6, NamesUpdated
<1> QED
  BY <1>7 DEF q

LEMMA GenfsconOK ==
  ASSUME NEW p, PolicyOK(p), NEW n
  PROVE  PolicyOK(AddGenfscon(p, n))
<1> DEFINE k == <<n[1], n[2]>>
           f == With(p.genfs, k, n[3])
           q == AddGenfscon(p, n)
<1>1. k = <<k[1], k[2]>>
  OBVIOUS
<1>2. q = [p EXCEPT !.genfs = f]
  BY DEF AddGenfscon
<1> HIDE DEF k
<1>3. DOMAIN f = DOMAIN p.genfs \cup {k} /\ IsTable(f)
  BY TablesOf, WithIs
<1> HIDE DEF f
<1>4. \A j \in DOMAIN f : j = <<j[1], j[2]>>
  BY <1>1, <1>3, OKHas
<1> HIDE DEF q
<1>5. IsUpdate([p EXCEPT !.genfs = f], p, "genfs", f)
  BY OKHas, Updates
<1>6. IsUpdate(q, p, "genfs", f)
  BY <1>2, <1>5
<1>7. PolicyOK(q)
  BY <1>3, <1>4, <1>6, GenfsUpdated
<1> QED
  BY <1>7 DEF q

LEMMA TypeAttributeOK ==
  ASSUME NEW p, PolicyOK(p), NEW n, Resolved(p, "typeattribute", n)
  PROVE  PolicyOK(AddTypeAttribute(p, n))
<1> DEFINE a == <<n[1], n[2]>>
           f == p.attrs \cup {a}
           q == [p EXCEPT !.attrs = f]
<1>1. Known(p, {n[1], n[2]})
  BY ResolvedHas
<1>2. Known(p, {a[1], a[2]})
  BY <1>1
<1>3. AddTypeAttribute(p, n) = p \/ AddTypeAttribute(p, n) = q
  BY DEF AddTypeAttribute
<1> HIDE DEF a
<1>4. \A b \in f : Known(p, {b[1], b[2]})
  BY <1>2, OKHas
<1> HIDE DEF f
<1>5. IsUpdate(q, p, "attrs", f)
  BY OKHas, Updates
<1> HIDE DEF q
<1>6. PolicyOK(q)
  BY <1>4, <1>5, AttrsUpdated
<1> QED
  BY <1>3, <1>6

LEMMA TypeOK ==
  ASSUME NEW p, PolicyOK(p), NEW op, NEW n, n[1] \notin Actions \cup Marks
  PROVE  PolicyOK(AddType(p, op, n))
<1> DEFINE k == n[1]
           f == With(p.flavor, k, op)
           q == [p EXCEPT !.flavor = f]
<1>1. AddType(p, op, n) = p \/ AddType(p, op, n) = q
  BY DEF AddType
<1>2. /\ IsFiniteSet(DOMAIN p.flavor) /\ DOMAIN p.flavor \cap (Actions \cup Marks) = {}
      /\ Shape(p)
  BY OKHas
<1> HIDE DEF k
<1>3. DOMAIN f = DOMAIN p.flavor \cup {k} /\ IsTable(f)
  BY <1>2, WithIs
<1> HIDE DEF f
<1>4. /\ DOMAIN p.flavor \subseteq DOMAIN f /\ IsFiniteSet(DOMAIN f)
      /\ DOMAIN f \cap (Actions \cup Marks) = {}
  BY <1>2, <1>3 DEF k, IsTable
<1>5. IsUpdate(q, p, "flavor", f)
  BY <1>2, Updates
<1> HIDE DEF q
<1>6. PolicyOK(q)
  BY <1>4, <1>5, FlavorUpdated
<1> QED
  BY <1>1, <1>6

LEMMA TypeStateOK ==
  ASSUME NEW p, PolicyOK(p), NEW op, NEW n
  PROVE  PolicyOK(SetTypeState(p, op, n))
<1> DEFINE set == IF n[1] = MatchAll THEN DOMAIN p.flavor ELSE {n[1]}
           f == IF op = "permissive" THEN p.permissive \cup set ELSE p.permissive \ set
           q == SetTypeState(p, op, n)
<1>1. q = [p EXCEPT !.permissive = f]
  BY DEF SetTypeState
<1> HIDE DEF f, q
<1>2. IsUpdate([p EXCEPT !.permissive = f], p, "permissive", f)
  BY OKHas, Updates
<1>3. IsUpdate(q, p, "permissive", f)
  BY <1>1, <1>2
<1>4. PolicyOK(q)
  BY <1>3, PermissiveUpdated
<1> QED
  BY <1>4 DEF q

\* The disjuncts of Execute.
LEMMA ExecuteIs ==
  ASSUME NEW p, NEW call, Resolved(p, call.op, call.names)
  PROVE  LET op == call.op
             n  == call.names
         IN /\ op \in AvActions => Execute(p, call) = AddRule(p, op, n)
            /\ op \in XpermActions => Execute(p, call) = AddXpermRule(p, op, n, call.xperm)
            /\ op \in TypeActions => Execute(p, call) = AddTypeRule(p, op, n)
            /\ op = "name" => Execute(p, call) = AddFilenameTrans(p, n)
            /\ op = "genfscon" => Execute(p, call) = AddGenfscon(p, n)
            /\ op = "typeattribute" => Execute(p, call) = AddTypeAttribute(p, n)
            /\ op \in {"type", "attribute"} => Execute(p, call) = AddType(p, op, n)
            /\ op \notin AvActions \cup XpermActions \cup TypeActions
                 \cup {"name", "genfscon", "typeattribute", "type", "attribute"} =>
                 Execute(p, call) = SetTypeState(p, op, n)
<1> DEFINE op == call.op
           n  == call.names
           r1 == AddRule(p, op, n)
           r2 == AddXpermRule(p, op, n, call.xperm)
           r3 == AddTypeRule(p, op, n)
           r4 == AddFilenameTrans(p, n)
           r5 == AddGenfscon(p, n)
           r6 == AddTypeAttribute(p, n)
           r7 == AddType(p, op, n)
           r8 == SetTypeState(p, op, n)
<1>1. Execute(p, call) =
        CASE op \in AvActions    -> r1
          [] op \in XpermActions -> r2
          [] op \in TypeActions  -> r3
          [] op = "name"         -> r4
          [] op = "genfscon"     -> r5
          [] op = "typeattribute" -> r6
          [] op \in {"type", "attribute"} -> r7
          [] OTHER -> r8
  BY DEF Execute
<1> HIDE DEF op, n, r1, r2, r3, r4, r5, r6, r7, r8
<1> DEFINE e == Execute(p, call)
<1> HIDE DEF e
<1>2. /\ op \in AvActions => e = r1
      /\ op \in XpermActions => e = r2
      /\ op \in TypeActions => e = r3
      /\ op = "name" => e = r4
      /\ op = "genfscon" => e = r5
      /\ op = "typeattribute" => e = r6
      /\ op \in {"type", "attribute"} => e = r7
      /\ op \notin AvActions \cup XpermActions \cup TypeActions
           \cup {"name", "genfscon", "typeattribute", "type", "attribute"} => e = r8
  BY <1>1 DEF e, AvActions, XpermActions, TypeActions
<1> QED
  BY <1>2 DEF e, op, n, r1, r2, r3, r4, r5, r6, r7, r8

\* Whatever is called, a policy stays one.
LEMMA ExecutedOK ==
  ASSUME NEW p, PolicyOK(p), NEW call, CallOK(call)
  PROVE  PolicyOK(Execute(p, call))
<1> DEFINE op == call.op
           n == call.names
           x == call.xperm
           q == Execute(p, call)
<1>1. CASE ~Resolved(p, op, n)
  <2>1. q = p
    BY <1>1 DEF Execute
  <2> QED
    BY <2>1
<1>2. CASE Resolved(p, op, n)
  <2>1. /\ op \in AvActions => q = AddRule(p, op, n)
        /\ op \in XpermActions => q = AddXpermRule(p, op, n, x)
        /\ op \in TypeActions => q = AddTypeRule(p, op, n)
        /\ op = "name" => q = AddFilenameTrans(p, n)
        /\ op = "genfscon" => q = AddGenfscon(p, n)
        /\ op = "typeattribute" => q = AddTypeAttribute(p, n)
        /\ op \in {"type", "attribute"} => q = AddType(p, op, n)
        /\ op \notin AvActions \cup XpermActions \cup TypeActions
             \cup {"name", "genfscon", "typeattribute", "type", "attribute"} =>
             q = SetTypeState(p, op, n)
    BY <1>2, ExecuteIs
  <2>2. /\ op \in {"type", "attribute"} => n[1] \notin Actions \cup Marks
        /\ op \in XpermActions => x \in Spans
    BY DEF CallOK
  <2> HIDE DEF op, n, x, q
  <2>3. op \in AvActions => PolicyOK(q)
    BY <1>2, <2>1, RuleOK
  <2>4. op \in XpermActions => PolicyOK(q)
    BY <1>2, <2>1, <2>2, XpermOK
  <2>5. op \in TypeActions => PolicyOK(q)
    BY <1>2, <2>1, TypeRuleOK
  <2>6. op = "name" => PolicyOK(q)
    BY <2>1, FilenameTransOK
  <2>7. op = "genfscon" => PolicyOK(q)
    BY <2>1, GenfsconOK
  <2>8. op = "typeattribute" => PolicyOK(q)
    BY <1>2, <2>1, TypeAttributeOK
  <2>9. op \in {"type", "attribute"} => PolicyOK(q)
    BY <2>1, <2>2, TypeOK
  <2>10. PolicyOK(SetTypeState(p, op, n))
    BY TypeStateOK
  <2>11. PolicyOK(q)
    BY <2>1, <2>3, <2>4, <2>5, <2>6, <2>7, <2>8, <2>9, <2>10
  <2> QED
    BY <2>11 DEF q
<1> QED
  BY <1>1, <1>2
--------------------------------------------------------------------------------
(***************************************************************************)
(* The calls that a policy's own rules make of it again.                   *)
(***************************************************************************)
\* Those that say what the policy says.
VainNames(b) ==
  {Call("type", <<n>>) : n \in DOMAIN b.flavor}
    \cup {Call("attribute", <<n>>) : n \in DOMAIN b.flavor}
    \cup {Call("typeattribute", t) :
             t \in b.attrs \cap ((DOMAIN b.flavor) \X (DOMAIN b.flavor))}
    \cup {Call("permissive", <<n>>) : n \in b.permissive \ {MatchAll}}
VainBits(b, k) == Printed(k, b.av[k]) \cap Perms[k[3]]
VainCalls(k, bits) == {Call(AvWord(k[4]), <<k[1], k[2], k[3], x>>) : x \in bits}
VainVectors(b) == UNION {VainCalls(k, VainBits(b, k)) : k \in DOMAIN b.av}
VainEntries(b) ==
  {Call(k[4], <<k[1], k[2], k[3], b.type_rules[k]>>) : k \in DOMAIN b.type_rules}
    \cup {Call("name", <<k[1], k[2], k[3], b.names[k], k[4]>>) : k \in DOMAIN b.names}
    \cup {Call("genfscon", <<k[1], k[2], b.genfs[k]>>) : k \in DOMAIN b.genfs}
Vain(b) == VainNames(b) \cup VainVectors(b) \cup VainEntries(b)

\* An unresolved call changes nothing.
LEMMA ExecuteVain ==
  ASSUME NEW p, NEW call, Resolved(p, call.op, call.names) => Execute(p, call) = p
  PROVE  Execute(p, call) = p
<1>1. CASE Resolved(p, call.op, call.names)
  BY <1>1
<1>2. CASE ~Resolved(p, call.op, call.names)
  BY <1>2 DEF Execute
<1> QED
  BY <1>1, <1>2

\* A type, an attribute or a state that is there already.
LEMMA VainNamesIs ==
  ASSUME NEW p, PolicyOK(p), NEW call \in VainNames(p)
  PROVE  Execute(p, call) = p
<1>0. Shape(p)
  BY OKHas
<1> SUFFICES ASSUME Resolved(p, call.op, call.names) PROVE Execute(p, call) = p
  BY ExecuteVain
<1>1. ASSUME NEW op \in {"type", "attribute"}, NEW n \in DOMAIN p.flavor, call = Call(op, <<n>>)
      PROVE  Execute(p, call) = p
  <2> DEFINE t == <<n>>
  <2>1. t[1] = n
    OBVIOUS
  <2> HIDE DEF t
  <2>2. call.op = op /\ call.names = t
    BY <1>1, CallHas DEF t
  <2>3. Execute(p, call) = AddType(p, op, t)
    BY <2>2, ExecuteIs
  <2> QED
    BY <2>1, <2>3 DEF AddType
<1>2. ASSUME NEW t \in p.attrs, t \in (DOMAIN p.flavor) \X (DOMAIN p.flavor),
             call = Call("typeattribute", t)
      PROVE  Execute(p, call) = p
  <2> DEFINE f == p.attrs \cup {<<t[1], t[2]>>}
             q == [p EXCEPT !.attrs = f]
             g == p["attrs"]
  <2>1. call.op = "typeattribute" /\ call.names = t
    BY <1>2, CallHas
  <2>2. Execute(p, call) = AddTypeAttribute(p, t)
    BY <2>1, ExecuteIs
  <2>3. Execute(p, call) = p \/ Execute(p, call) = q
    BY <2>2 DEF AddTypeAttribute
  <2>4. f = g
    <3>1. t = <<t[1], t[2]>>
      BY <1>2
    <3>2. f = p.attrs
      BY <1>2, <3>1
    <3> QED
      BY <3>2
  <2> HIDE DEF f, g
  <2>5. IsUpdate([p EXCEPT !.attrs = f], p, "attrs", f)
    BY <1>0, Updates
  <2>6. IsUpdate(q, p, "attrs", g)
    BY <2>4, <2>5
  <2> HIDE DEF q
  <2>7. q = p
    <3>1. "attrs" \in Fields
      BY DEF Fields
    <3> QED
      BY <1>0, <2>6, <3>1, SameField DEF g
  <2> QED
    BY <2>3, <2>7
<1>3. ASSUME NEW n \in p.permissive \ {MatchAll}, call = Call("permissive", <<n>>)
      PROVE  Execute(p, call) = p
  <2> DEFINE t == <<n>>
             f == p.permissive \cup {n}
             q == [p EXCEPT !.permissive = f]
             g == p["permissive"]
  <2>0. t[1] = n
    OBVIOUS
  <2> HIDE DEF t
  <2>1. call.op = "permissive" /\ call.names = t
    BY <1>3, CallHas DEF t
  <2>2. Execute(p, call) = SetTypeState(p, "permissive", t)
    <3>1. "permissive" \notin AvActions \cup XpermActions \cup TypeActions
            \cup {"name", "genfscon", "typeattribute", "type", "attribute"}
      BY DEF AvActions, XpermActions, TypeActions
    <3> QED
      BY <2>1, <3>1, ExecuteIs
  <2>3. Execute(p, call) = q
    BY <1>3, <2>0, <2>2 DEF SetTypeState
  <2>4. f = g
    OBVIOUS
  <2> HIDE DEF f, g
  <2>5. IsUpdate([p EXCEPT !.permissive = f], p, "permissive", f)
    BY <1>0, Updates
  <2>6. IsUpdate(q, p, "permissive", g)
    BY <2>4, <2>5
  <2> HIDE DEF q
  <2>7. q = p
    <3>1. "permissive" \in Fields
      BY DEF Fields
    <3> QED
      BY <1>0, <2>6, <3>1, SameField DEF g
  <2> QED
    BY <2>3, <2>7
<1> DEFINE D == DOMAIN p.flavor
           T == D \X D
           A == {Call("type", <<n>>) : n \in D}
           E == {Call("attribute", <<n>>) : n \in D}
           B == {Call("typeattribute", t) : t \in p.attrs \cap T}
           C == {Call("permissive", <<n>>) : n \in p.permissive \ {MatchAll}}
<1>4. call \in A \/ call \in E \/ call \in B \/ call \in C
  BY DEF VainNames
<1>5. CASE call \in A
  <2>1. PICK n \in D : call = Call("type", <<n>>)
    BY <1>5
  <2> QED
    BY <1>1, <2>1
<1>8. CASE call \in E
  <2>1. PICK n \in D : call = Call("attribute", <<n>>)
    BY <1>8
  <2> QED
    BY <1>1, <2>1
<1>6. CASE call \in B
  <2> HIDE DEF T
  <2>1. PICK t \in p.attrs \cap T : call = Call("typeattribute", t)
    BY <1>6
  <2>2. t \in p.attrs /\ t \in T
    OBVIOUS
  <2> QED
    BY <1>2, <2>1, <2>2 DEF T
<1>7. CASE call \in C
  <2>1. PICK n \in p.permissive \ {MatchAll} : call = Call("permissive", <<n>>)
    BY <1>7
  <2> QED
    BY <1>3, <2>1
<1> QED
  BY <1>4, <1>5, <1>6, <1>7, <1>8

\* A type rule, a named transition or a label that is there already.
LEMMA VainEntriesIs ==
  ASSUME NEW p, PolicyOK(p), NEW call \in VainEntries(p)
  PROVE  Execute(p, call) = p
<1>0. Shape(p)
  BY OKHas
<1> SUFFICES ASSUME Resolved(p, call.op, call.names) PROVE Execute(p, call) = p
  BY ExecuteVain
<1>1. ASSUME NEW k \in DOMAIN p.type_rules,
             call = Call(k[4], <<k[1], k[2], k[3], p.type_rules[k]>>)
      PROVE  Execute(p, call) = p
  <2>1. PICK a \in DOMAIN p.flavor, b \in DOMAIN p.flavor, c \in Classes, op \in TypeActions :
           k = <<a, b, c, op>>
    BY OKHas DEF KeysIn
  <2> DEFINE v == p.type_rules[k]
             t == <<a, b, c, v>>
  <2>2. t[1] = a /\ t[2] = b /\ t[3] = c
    OBVIOUS
  <2>3. k[1] = a /\ k[2] = b /\ k[3] = c /\ k[4] = op
    BY <2>1
  <2> HIDE DEF t
  <2>4. call.op = op /\ call.names = t
    BY <1>1, <2>3, CallHas DEF t
  <2>5. Execute(p, call) = AddTypeRule(p, op, t)
    BY <2>4, ExecuteIs
  <2>6. AddTypeRule(p, op, t) = p
    <3>1. <<t[1], t[2], t[3], op>> = k
      BY <2>1, <2>2
    <3>2. <<t[1], t[2], t[3], op>> \in DOMAIN p.type_rules
      BY <1>1, <3>1
    <3> QED
      BY <3>2 DEF AddTypeRule
  <2> QED
    BY <2>5, <2>6
<1>2. ASSUME NEW k \in DOMAIN p.names,
             call = Call("name", <<k[1], k[2], k[3], p.names[k], k[4]>>)
      PROVE  Execute(p, call) = p
  <2> DEFINE v == p.names[k]
             t == <<k[1], k[2], k[3], v, k[4]>>
             f == With(p.names, k, v)
             q == [p EXCEPT !.names = f]
             g == p["names"]
  <2>1. t[1] = k[1] /\ t[2] = k[2] /\ t[3] = k[3] /\ t[4] = v /\ t[5] = k[4]
    OBVIOUS
  <2>2. k = <<k[1], k[2], k[3], k[4]>>
    BY OKHas
  <2> HIDE DEF t
  <2>3. call.op = "name" /\ call.names = t
    BY <1>2, CallHas DEF t
  <2>4. Execute(p, call) = AddFilenameTrans(p, t)
    BY <2>3, ExecuteIs
  <2>5. Execute(p, call) = q
    BY <2>1, <2>2, <2>4 DEF AddFilenameTrans
  <2>6. f = g
    <3>1. IsTable(p.names) /\ IsFiniteSet(DOMAIN p.names)
      BY TablesOf
    <3>2. k \in DOMAIN p.names
      BY <1>2
    <3>3. f = p.names
      BY <3>1, <3>2, WithIs
    <3> QED
      BY <3>3
  <2> HIDE DEF f, g
  <2>7. IsUpdate([p EXCEPT !.names = f], p, "names", f)
    BY <1>0, Updates
  <2>8. IsUpdate(q, p, "names", g)
    BY <2>6, <2>7
  <2> HIDE DEF q
  <2>9. q = p
    <3>1. "names" \in Fields
      BY DEF Fields
    <3> QED
      BY <1>0, <2>8, <3>1, SameField DEF g
  <2> QED
    BY <2>5, <2>9
<1>3. ASSUME NEW k \in DOMAIN p.genfs, call = Call("genfscon", <<k[1], k[2], p.genfs[k]>>)
      PROVE  Execute(p, call) = p
  <2> DEFINE v == p.genfs[k]
             t == <<k[1], k[2], v>>
             f == With(p.genfs, k, v)
             q == [p EXCEPT !.genfs = f]
             g == p["genfs"]
  <2>1. t[1] = k[1] /\ t[2] = k[2] /\ t[3] = v
    OBVIOUS
  <2>2. k = <<k[1], k[2]>>
    BY OKHas
  <2> HIDE DEF t
  <2>3. call.op = "genfscon" /\ call.names = t
    BY <1>3, CallHas DEF t
  <2>4. Execute(p, call) = AddGenfscon(p, t)
    BY <2>3, ExecuteIs
  <2>5. Execute(p, call) = q
    BY <2>1, <2>2, <2>4 DEF AddGenfscon
  <2>6. f = g
    <3>1. IsTable(p.genfs) /\ IsFiniteSet(DOMAIN p.genfs)
      BY TablesOf
    <3>2. k \in DOMAIN p.genfs
      BY <1>3
    <3>3. f = p.genfs
      BY <3>1, <3>2, WithIs
    <3> QED
      BY <3>3
  <2> HIDE DEF f, g
  <2>7. IsUpdate([p EXCEPT !.genfs = f], p, "genfs", f)
    BY <1>0, Updates
  <2>8. IsUpdate(q, p, "genfs", g)
    BY <2>6, <2>7
  <2> HIDE DEF q
  <2>9. q = p
    <3>1. "genfs" \in Fields
      BY DEF Fields
    <3> QED
      BY <1>0, <2>8, <3>1, SameField DEF g
  <2> QED
    BY <2>5, <2>9
<1> QED
  BY <1>1, <1>2, <1>3 DEF VainEntries

\* The one key of a vector rule without a *, and what it does to a vector that
\* has the bit, or lacks it, already.
LEMMA OneKey ==
  ASSUME NEW p, NEW a, NEW b, NEW c, NEW e, NEW all,
         a # MatchAll, b # MatchAll, c # MatchAll, NEW n, n[1] = a, n[2] = b, n[3] = c
  PROVE  Keys(p, n, e, all) = {<<a, b, c, e>>}
<1>1. /\ MatchedTypes(p, n[1], all) = {a} /\ MatchedTypes(p, n[2], all) = {b}
      /\ MatchedClasses(n[3]) = {c}
  BY DEF MatchedTypes, MatchedClasses
<1>2. Keys(p, n, e, all) = {a} \X {b} \X {c} \X {e}
  BY <1>1 DEF Keys
<1> QED
  BY <1>2

\* No name stands for all of them.
LEMMA NamesProper ==
  ASSUME NEW p, PolicyOK(p)
  PROVE  MatchAll \notin DOMAIN p.flavor /\ MatchAll \notin Classes
         /\ \A c \in Classes : MatchAll \notin Perms[c] /\ "*" \notin Perms[c]
BY OKHas, NamesAssumption DEF Marks, MatchAll

\* A vector is printed with the word that sets it.
LEMMA AvWordIs ==
  ASSUME NEW e \in AvEffects
  PROVE  /\ AvWord(e) \in AvActions /\ EffectOf(AvWord(e)) = e
         /\ InvertOf(AvWord(e)) <=> e = "auditdeny"
BY DEF AvEffects, AvWord, AvActions, EffectOf, InvertOf

\* Permissions that a vector has already, or that an auditdeny one lacks.
LEMMA VainVectorsIs ==
  ASSUME NEW p, PolicyOK(p), NEW call \in VainVectors(p)
  PROVE  Execute(p, call) = p
<1>0. Shape(p)
  BY OKHas
<1> SUFFICES ASSUME Resolved(p, call.op, call.names) PROVE Execute(p, call) = p
  BY ExecuteVain
<1>01. PICK k \in DOMAIN p.av : call \in VainCalls(k, VainBits(p, k))
  BY DEF VainVectors
<1>1. PICK x \in VainBits(p, k) : call = Call(AvWord(k[4]), <<k[1], k[2], k[3], x>>)
  BY <1>01 DEF VainCalls
<1>2. PICK a \in DOMAIN p.flavor, b \in DOMAIN p.flavor, c \in Classes, e \in AvEffects :
         k = <<a, b, c, e>>
  BY OKHas DEF KeysIn
<1>3. k[1] = a /\ k[2] = b /\ k[3] = c /\ k[4] = e
  BY <1>2
<1>4. a # MatchAll /\ b # MatchAll /\ c # MatchAll
  BY NamesProper
<1> DEFINE t == <<a, b, c, x>>
           op == AvWord(e)
<1>5. t[1] = a /\ t[2] = b /\ t[3] = c /\ t[4] = x
  OBVIOUS
<1> HIDE DEF t
<1>6. op \in AvActions /\ EffectOf(op) = e /\ (InvertOf(op) <=> e = "auditdeny")
  BY AvWordIs
<1> HIDE DEF op
<1>7. call.op = op /\ call.names = t
  BY <1>1, <1>3, CallHas DEF t, op
<1>8. Execute(p, call) = AddRule(p, op, t)
  BY <1>6, <1>7, ExecuteIs
<1>9. /\ x \in Perms[c] /\ x \in Bits /\ x # MatchAll
      /\ IF e = "auditdeny" THEN x \notin p.av[k] ELSE x \in p.av[k]
  <2>1. x \in Printed(k, p.av[k]) /\ x \in Perms[c]
    BY <1>1, <1>3 DEF VainBits
  <2>2. x # MatchAll /\ x \in Bits
    BY <2>1, NamesProper, NamesAssumption
  <2> QED
    BY <1>3, <2>1, <2>2 DEF Printed
<1> DEFINE all == (e = "auditdeny") = ~InvertOf(op)
           reach == Keys(p, t, e, all)
           bits == IF t[4] = MatchAll THEN Bits ELSE {t[4]}
           new(j) == IF InvertOf(op) THEN Vector(p, j) \ bits ELSE Vector(p, j) \cup bits
           nodes == (DOMAIN p.av \ reach) \cup {j \in reach : new(j) # NoRule(e)}
           f == [j \in nodes |-> IF j \in reach THEN new(j) ELSE p.av[j]]
           g == p["av"]
           q == [p EXCEPT !.av = f]
<1>10. Execute(p, call) = q
  BY <1>6, <1>8 DEF AddRule
<1> HIDE DEF all
<1>11. reach = {k}
  BY <1>2, <1>4, <1>5, OneKey
<1> HIDE DEF reach
<1>12. bits = {x}
  BY <1>5, <1>9
<1>13. Vector(p, k) = p.av[k] /\ p.av[k] # NoRule(e)
  BY <1>1, <1>3, OKHas DEF Vector, Given
<1> HIDE DEF bits
<1>14. new(k) = p.av[k]
  BY <1>6, <1>9, <1>12, <1>13
<1> HIDE DEF new
<1>15. nodes = DOMAIN p.av
  BY <1>1, <1>11, <1>13, <1>14
<1> HIDE DEF nodes
<1>16. f = g
  <2>1. \A j \in DOMAIN p.av : (IF j \in reach THEN new(j) ELSE p.av[j]) = p.av[j]
    BY <1>11, <1>14
  <2>2. p.av = [j \in DOMAIN p.av |-> p.av[j]]
    BY TablesOf DEF IsTable
  <2>3. f = [j \in DOMAIN p.av |-> p.av[j]]
    BY <1>15, <2>1
  <2>4. f = p.av
    BY <2>2, <2>3
  <2> QED
    BY <2>4
<1> HIDE DEF f, g
<1>17. IsUpdate([p EXCEPT !.av = f], p, "av", f)
  BY <1>0, Updates
<1>18. IsUpdate(q, p, "av", g)
  BY <1>16, <1>17
<1> HIDE DEF q
<1>19. q = p
  <2>1. "av" \in Fields
    BY DEF Fields
  <2> QED
    BY <1>0, <1>18, <2>1, SameField DEF g
<1> QED
  BY <1>10, <1>19

\* All of them together.
LEMMA VainIs ==
  ASSUME NEW p, PolicyOK(p), NEW call \in Vain(p)
  PROVE  Execute(p, call) = p
BY VainNamesIs, VainVectorsIs, VainEntriesIs DEF Vain
--------------------------------------------------------------------------------
(***************************************************************************)
(* The rules of a policy are harmless to one that decides as it does.      *)
(***************************************************************************)
Like(p, b) == \A f \in Fields \ {"xperms"} : p[f] = b[f]
Decides(p, b) ==
  /\ Like(p, b) /\ DOMAIN p.xperms = DOMAIN b.xperms
  /\ \A k \in DOMAIN b.xperms : ~HasNetlink(b, k) => Commands(p, k) = Commands(b, k)

\* A statement about commands that a key has already.
WidensBy(b, call, k, x) ==
  /\ call.op = k[4] /\ call.names = <<k[1], k[2], k[3]>> /\ call.xperm = x
  /\ ~x.reset /\ (~HasNetlink(b, k) => RangeOf(x.low, x.high) \subseteq Commands(b, k))
Widening(b, call) == \E k \in DOMAIN b.xperms, x \in Spans : WidensBy(b, call, k, x)
Harmless(b, call) == call \in Vain(b) \/ Widening(b, call)

LEMMA LikeHas ==
  ASSUME NEW p, NEW b, Like(p, b)
  PROVE  /\ p.flavor = b.flavor /\ p.attrs = b.attrs /\ p.permissive = b.permissive
         /\ p.av = b.av /\ p.type_rules = b.type_rules
         /\ p.names = b.names /\ p.genfs = b.genfs
BY DEF Like, Fields

\* What a policy says depends on all fields but the extended permissions.
LEMMA LikeVain ==
  ASSUME NEW p, NEW b, Like(p, b)
  PROVE  Vain(p) = Vain(b)
<1>1. VainNames(p) = VainNames(b)
  BY LikeHas, Zenon DEF VainNames
<1>2. \A k : VainBits(p, k) = VainBits(b, k)
  BY LikeHas, Zenon DEF VainBits
<1>3. VainVectors(p) = VainVectors(b)
  <2> DEFINE S(q) == {VainCalls(k, VainBits(q, k)) : k \in DOMAIN q.av}
  <2>1. p.av = b.av
    BY LikeHas
  <2>2. S(p) \subseteq S(b)
    <3> SUFFICES ASSUME NEW k \in DOMAIN p.av PROVE VainCalls(k, VainBits(p, k)) \in S(b)
      OBVIOUS
    <3>1. k \in DOMAIN b.av /\ VainBits(p, k) = VainBits(b, k)
      BY <1>2, <2>1
    <3> QED
      BY <3>1
  <2>3. S(b) \subseteq S(p)
    <3> SUFFICES ASSUME NEW k \in DOMAIN b.av PROVE VainCalls(k, VainBits(b, k)) \in S(p)
      OBVIOUS
    <3>1. k \in DOMAIN p.av /\ VainBits(p, k) = VainBits(b, k)
      BY <1>2, <2>1
    <3> QED
      BY <3>1
  <2>4. S(p) = S(b)
    BY <2>2, <2>3
  <2> QED
    BY <2>4 DEF VainVectors
<1>4. VainEntries(p) = VainEntries(b)
  BY LikeHas, Zenon DEF VainEntries
<1> QED
  BY <1>1, <1>3, <1>4 DEF Vain

LEMMA GivenIs ==
  ASSUME NEW f, NEW k, NEW default
  PROVE  /\ k \in DOMAIN f => Given(f, k, default) = f[k]
         /\ k \notin DOMAIN f => Given(f, k, default) = default
BY DEF Given

\* Adding commands to a key that grants them changes nodes, and not what they grant.
LEMMA Widened ==
  ASSUME NEW p, PolicyOK(p), NEW b, PolicyOK(b), Decides(p, b), NEW call,
         Widening(b, call)
  PROVE  Decides(Execute(p, call), b)
<1>01. PICK k \in DOMAIN b.xperms, x \in Spans : WidensBy(b, call, k, x)
  BY DEF Widening
<1>0. Shape(p)
  BY OKHas
<1> SUFFICES ASSUME Resolved(p, call.op, call.names) PROVE Decides(Execute(p, call), b)
  BY DEF Execute
<1>1. PICK s \in DOMAIN b.flavor, t \in DOMAIN b.flavor, c \in Classes, op \in XpermActions :
         k = <<s, t, c, op>>
  BY OKHas DEF KeysIn
<1>2. k[1] = s /\ k[2] = t /\ k[3] = c /\ k[4] = op
  BY <1>1
<1>3. s # MatchAll /\ t # MatchAll /\ c # MatchAll
  BY NamesProper
<1> DEFINE n == <<s, t, c>>
<1>4. n[1] = s /\ n[2] = t /\ n[3] = c
  OBVIOUS
<1>5. call.op = op /\ call.names = n /\ call.xperm = x
  BY <1>01, <1>2 DEF WidensBy
<1> HIDE DEF n
<1>6. Execute(p, call) = AddXpermRule(p, op, n, x)
  BY <1>5, ExecuteIs
<1> DEFINE all == FALSE
           reach == Keys(p, n, op, all)
           old(j) == Given(p.xperms, j, <<>>)
           new(j) == IF x.reset THEN X!Complement(old(j), x.low, x.high)
                     ELSE X!Extend(old(j), x.low, x.high)
           D == DOMAIN p.xperms \cup reach
           f == [j \in D |-> IF j \in reach THEN new(j) ELSE old(j)]
           q == [p EXCEPT !.xperms = f]
<1>7. Execute(p, call) = q
  BY <1>6 DEF AddXpermRule
<1> HIDE DEF all
<1>8. reach = {k}
  BY <1>1, <1>3, <1>4, OneKey
<1> HIDE DEF reach
<1>9. DOMAIN p.xperms = DOMAIN b.xperms /\ k \in DOMAIN p.xperms
  BY DEF Decides
<1>10. D = DOMAIN b.xperms
  BY <1>8, <1>9
<1> HIDE DEF D
<1>11. new(k) = X!Extend(p.xperms[k], x.low, x.high)
  BY <1>01, <1>9, GivenIs DEF WidensBy
<1>12. GoodNodes(p.xperms[k]) /\ x.low \in X!Codes /\ x.high \in X!Codes
  BY <1>9, OKHas, SpanHas
<1>13. X!Granted(new(k)) = X!Granted(p.xperms[k]) \cup RangeOf(x.low, x.high)
  BY <1>11, <1>12, NodesExtended
<1>14. \A j \in DOMAIN b.xperms \ {k} : old(j) = p.xperms[j]
  BY <1>9, GivenIs
<1> HIDE DEF new, old
<1>15. DOMAIN f = DOMAIN b.xperms /\ f[k] = new(k)
       /\ \A j \in DOMAIN b.xperms \ {k} : f[j] = p.xperms[j]
  BY <1>8, <1>9, <1>10, <1>14
<1> HIDE DEF f
<1>16. IsUpdate([p EXCEPT !.xperms = f], p, "xperms", f)
  BY <1>0, Updates
<1>17. IsUpdate(q, p, "xperms", f)
  BY <1>16
<1> HIDE DEF q
<1>18. q.xperms = f
  BY <1>17, UpdateHas
<1>19. Like(q, b)
  BY <1>17 DEF Like, Decides, IsUpdate
<1>20. ASSUME NEW j \in DOMAIN b.xperms, ~HasNetlink(b, j)
       PROVE  Commands(q, j) = Commands(b, j)
  <2>1. Commands(q, j) = X!Granted(f[j])
    BY <1>15, <1>18, GivenIs DEF Commands
  <2>2. Commands(p, j) = X!Granted(p.xperms[j])
    BY <1>9, GivenIs DEF Commands
  <2>3. Commands(p, j) = Commands(b, j)
    BY <1>20 DEF Decides
  <2>4. CASE j # k
    BY <1>15, <2>1, <2>2, <2>3, <2>4
  <2>5. CASE j = k
    <3>1. RangeOf(x.low, x.high) \subseteq Commands(b, k)
      BY <1>01, <1>20, <2>5 DEF WidensBy
    <3>2. Commands(q, k) = Commands(b, k) \cup RangeOf(x.low, x.high)
      BY <1>13, <1>15, <2>1, <2>2, <2>3, <2>5
    <3> QED
      BY <2>5, <3>1, <3>2
  <2> QED
    BY <2>4, <2>5
<1>21. Decides(q, b)
  BY <1>15, <1>18, <1>19, <1>20 DEF Decides
<1> QED
  BY <1>7, <1>21

\* A harmless call leaves a policy that decides the same.
LEMMA HarmlessIs ==
  ASSUME NEW p, PolicyOK(p), NEW b, PolicyOK(b), Decides(p, b), NEW call,
         Harmless(b, call)
  PROVE  Decides(Execute(p, call), b)
<1>1. CASE call \in Vain(b)
  <2>1. call \in Vain(p)
    BY <1>1, LikeVain DEF Decides
  <2> QED
    BY <2>1, VainIs
<1> QED
  BY <1>1, Widened DEF Harmless
--------------------------------------------------------------------------------
(***************************************************************************)
(* A printed line that is read again: each name is an argument, and the    *)
(* list in braces, which is the last thing of a line, is the last one.     *)
(***************************************************************************)
LEMMA WordHere ==
  ASSUME NEW text, IsList(text), NEW at \in 1..Len(text)
  PROVE  WordAt(text, at) = text[at]
BY ListHas DEF WordAt

\* A word that is neither a brace nor a * is read as itself; an opening brace as what it closes.
LEMMA StermOf ==
  ASSUME NEW text, IsList(text), NEW at \in 1..Len(text), ParseSterm(text, at).ok
  PROVE  /\ text[at] # W("{") /\ text[at] # W("*") =>
              /\ ParseSterm(text, at).names = <<text[at].s>>
              /\ ParseSterm(text, at).next = at + 1
         /\ text[at] = W("{") /\ ParseSterm(text, at).next = Len(text) + 1 =>
              ParseSterm(text, at).names = StarNames(Between(text, at, Len(text)))
<1> DEFINE end == Closing(text, at, IsIdOrStar)
           words == Between(text, at, end)
           names == StarNames(words)
           r == ParseSterm(text, at)
<1>0. WordAt(text, at) = text[at] /\ Len(text) \in Nat
  BY WordHere, ListHas
<1>1. ASSUME text[at] # W("{"), text[at] # W("*")
      PROVE  r.names = <<text[at].s>> /\ r.next = at + 1
  <2>1. r = ParseId(text, at)
    BY <1>0, <1>1 DEF ParseSterm
  <2>2. IsName(text, at, ParseId(text, at))
    BY <2>1, IdIs
  <2> QED
    BY <2>1, <2>2 DEF IsName
<1>2. ASSUME text[at] = W("{"), r.next = Len(text) + 1
      PROVE  r.names = StarNames(Between(text, at, Len(text)))
  <2>0. end \in Nat
    BY ClosesAt
  <2> HIDE DEF words
  <2>1. r = IF end # 0 THEN Got(names, end + 1) ELSE Failed
    BY <1>0, <1>2, MarksDiffer DEF ParseSterm, words
  <2> HIDE DEF r, names, end
  <2>2. r = Got(names, end + 1)
    BY <2>1, GotIs DEF r
  <2>3. r.names = names /\ r.next = end + 1
    BY <2>2, GotIs
  <2>4. end = Len(text)
    <3>1. r.next = Len(text) + 1
      BY <1>2
    <3>2. end + 1 = Len(text) + 1
      BY <2>3, <3>1
    <3> QED
      BY <1>0, <2>0, <3>2
  <2> QED
    BY <2>3, <2>4 DEF names, words
<1> QED
  BY <1>1, <1>2

LEMMA TermOf ==
  ASSUME NEW text, IsList(text), NEW at \in 1..Len(text), ParseTerm(text, at).ok,
         Opens(text, at), ParseTerm(text, at).next = Len(text) + 1
  PROVE  ParseTerm(text, at).names = NamesOf(Between(text, at, Len(text)))
<1> DEFINE end == Closing(text, at, IsId)
           words == Between(text, at, end)
           names == NamesOf(words)
           r == ParseTerm(text, at)
<1>0. WordAt(text, at) = text[at] /\ Len(text) \in Nat
  BY WordHere, ListHas
<1>1. end \in Nat
  BY ClosesAt
<1> HIDE DEF words
<1>2. r = IF end = 0 THEN Failed ELSE Got(names, end + 1)
  BY <1>0 DEF ParseTerm, words, Opens
<1> HIDE DEF r, names, end
<1>3. r = Got(names, end + 1)
  BY <1>2, GotIs DEF r
<1>4. r.names = names /\ r.next = end + 1
  <2> DEFINE e == end + 1
  <2> HIDE DEF e
  <2>1. r = Got(names, e)
    BY <1>3 DEF e
  <2>2. r.names = names /\ r.next = e
    BY <2>1, GotIs
  <2> QED
    BY <2>2 DEF e
<1>5. end = Len(text)
  <2>1. r.next = Len(text) + 1
    BY DEF r
  <2>2. end + 1 = Len(text) + 1
    BY <1>4, <2>1
  <2> QED
    BY <1>0, <1>1, <2>2
<1> QED
  BY <1>4, <1>5 DEF names, words, r

LEMMA XpermsOf ==
  ASSUME NEW text, IsList(text), NEW at \in 1..Len(text), ParseXperms(text, at).ok,
         Opens(text, at), ParseXperms(text, at).next = Len(text) + 1
  PROVE  ParseXperms(text, at).names = Items(Between(text, at, Len(text)), FALSE)
<1> DEFINE reset == WordAt(text, at) = W("~")
           start == IF reset THEN at + 1 ELSE at
           w == WordAt(text, start)
           end == Closing(text, start, IsXpermItem)
           items == Between(text, start, end)
           a == Items(items, reset)
           b == Everything(reset)
           c == IF w.n = <<0>> THEN Everything(reset) ELSE <<Xperm(w.n[1], w.n[1], reset)>>
           d == <<Xperm(w.n[1], w.n[2], reset)>>
           r == ParseXperms(text, at)
<1>0. r = CASE w = W("{") /\ end # 0 /\ ItemsWellFormed(items) -> Got(a, end + 1)
            [] w = W("*") /\ ~reset -> Got(b, start + 1)
            [] IsHex(w) /\ ~reset -> Got(c, start + 1)
            [] IsSpan(w) /\ ~reset -> Got(d, start + 1)
            [] OTHER -> Failed
  BY DEF ParseXperms
<1>1. WordAt(text, at) = text[at] /\ Len(text) \in Nat
  BY WordHere, ListHas
<1>2. W("{") # W("~") /\ W("{") # W("*") /\ ~IsHex(W("{")) /\ ~IsSpan(W("{"))
  BY WordIs, MarksDiffer, NumbersDiffer
<1>3. reset = FALSE /\ start = at /\ w = W("{")
  BY <1>1, <1>2 DEF Opens
<1>4. end \in Nat
  BY <1>3, ClosesAt
<1> HIDE DEF r, a, b, c, d, end, w, items
<1>5. r = Got(a, end + 1)
  <2>1. CASE end # 0 /\ ItemsWellFormed(items)
    BY <1>0, <1>2, <1>3, <2>1
  <2>2. CASE ~(end # 0 /\ ItemsWellFormed(items))
    <3>1. r = Failed
      BY <1>0, <1>2, <1>3, <2>2
    <3> QED
      BY <3>1, GotIs DEF r
  <2> QED
    BY <2>1, <2>2
<1>6. r.names = a /\ r.next = end + 1
  <2> DEFINE e == end + 1
  <2> HIDE DEF e
  <2>1. r = Got(a, e)
    BY <1>5 DEF e
  <2>2. r.names = a /\ r.next = e
    BY <2>1, GotIs
  <2> QED
    BY <2>2 DEF e
<1>7. end = Len(text)
  <2>1. r.next = Len(text) + 1
    BY DEF r
  <2>2. end + 1 = Len(text) + 1
    BY <1>6, <2>1
  <2> QED
    BY <1>1, <1>4, <2>2
<1>8. items = Between(text, at, Len(text))
  BY <1>3, <1>7 DEF items
<1> HIDE DEF reset
<1>9. a = Items(Between(text, at, Len(text)), FALSE)
  BY <1>3, <1>8 DEF a
<1> QED
  BY <1>6, <1>9 DEF r

PlainKinds == {"id", "name", "sterm", "ioctl"}
\* The word at a place is a name, if it is read at all.
PlainAt(text, at, kind) ==
  kind \in PlainKinds /\ (kind = "sterm" => text[at] # W("{") /\ text[at] # W("*"))
IsPlain(text, kinds, m) ==
  /\ m \in 0..5 /\ m <= Len(kinds) /\ m + 1 <= Len(text)
  /\ \A i \in 1..m : PlainAt(text, i + 1, kinds[i])

\* One plain argument is one word.
LEMMA PlainStep ==
  ASSUME NEW text, IsList(text), NEW at \in 1..Len(text), NEW kind,
         PlainAt(text, at, kind), ParseArgument(text, at, kind).ok
  PROVE  /\ ParseArgument(text, at, kind).next = at + 1
         /\ kind # "ioctl" => ParseArgument(text, at, kind).names = <<text[at].s>>
<1> DEFINE r == ParseArgument(text, at, kind)
<1>1. kind \in PlainKinds /\ Len(text) \in Nat
  BY ListHas DEF PlainAt
<1>2. CASE kind = "id"
  <2>1. r = ParseId(text, at)
    BY <1>2 DEF ParseArgument
  <2>2. IsName(text, at, ParseId(text, at))
    BY <2>1, IdIs
  <2> QED
    BY <2>1, <2>2 DEF IsName
<1>3. CASE kind = "name"
  <2>1. r = ParseId(text, at)
    BY <1>1, <1>3 DEF ParseArgument, IfAny
  <2>2. IsName(text, at, ParseId(text, at))
    BY <2>1, IdIs
  <2> QED
    BY <2>1, <2>2 DEF IsName
<1>4. CASE kind = "sterm"
  <2>1. r = ParseSterm(text, at)
    BY <1>4 DEF ParseArgument
  <2>2. text[at] # W("{") /\ text[at] # W("*")
    BY <1>4 DEF PlainAt
  <2>3. r.names = <<text[at].s>> /\ r.next = at + 1
    BY <2>1, <2>2, StermOf
  <2> QED
    BY <2>3
<1>5. CASE kind = "ioctl"
  <2> DEFINE none == <<>>
             e == at + 1
  <2>1. r = IF WordAt(text, at) = W("ioctl") THEN Got(none, e) ELSE Failed
    BY <1>5 DEF ParseArgument
  <2> HIDE DEF none, e, r
  <2>2. r = Got(none, e)
    BY <2>1, GotIs DEF r
  <2>3. r.next = e
    BY <2>2, GotIs
  <2> QED
    BY <1>5, <2>3 DEF r, e
<1> QED
  BY <1>1, <1>2, <1>3, <1>4, <1>5 DEF PlainKinds

\* The first arguments of a line, and where the next one stands.
ReadsPlain(text, kinds, m, at, args) ==
  /\ at[m + 1] = m + 2
  /\ \A i \in 1..m : kinds[i] # "ioctl" => args[i] = <<text[i + 1].s>>

\* As long as they are plain, the arguments are the words.
LEMMA PlainRead ==
  ASSUME NEW text, IsList(text), NEW kinds, Len(kinds) \in Nat, NEW at, NEW args,
         ReadAs(text, kinds, at, args), NEW m, IsPlain(text, kinds, m)
  PROVE  ReadsPlain(text, kinds, m, at, args)
<1>1. /\ m \in 0..5 /\ m <= Len(kinds) /\ m + 1 <= Len(text) /\ Len(text) \in Nat
      /\ at[1] = 2
  BY ListHas DEF IsPlain, ReadAs
<1>2. ASSUME NEW i \in 1..m, at[i] = i + 1
      PROVE  at[i + 1] = i + 2 /\ (kinds[i] # "ioctl" => args[i] = <<text[i + 1].s>>)
  <2> DEFINE e == i + 1
             r == ParseArgument(text, e, kinds[i])
  <2>1. e \in 1..Len(text) /\ PlainAt(text, e, kinds[i])
    BY <1>1 DEF IsPlain
  <2>2. r.ok /\ args[i] = r.names /\ at[i + 1] = r.next
    <3>1. i \in 1..Len(kinds)
      BY <1>1
    <3> QED
      BY <1>2, <3>1 DEF ReadAs
  <2> HIDE DEF e
  <2>3. r.next = e + 1 /\ (kinds[i] # "ioctl" => r.names = <<text[e].s>>)
    BY <2>1, <2>2, PlainStep
  <2> HIDE DEF r
  <2>4. e = i + 1 /\ e + 1 = i + 2
    BY DEF e
  <2> QED
    BY <2>2, <2>3, <2>4
<1>3. 1 <= m => at[2] = 3
  BY <1>1, <1>2
<1>4. 2 <= m => at[3] = 4
  BY <1>1, <1>2, <1>3
<1>5. 3 <= m => at[4] = 5
  BY <1>1, <1>2, <1>4
<1>6. 4 <= m => at[5] = 6
  BY <1>1, <1>2, <1>5
<1>7. 5 <= m => at[6] = 7
  BY <1>1, <1>2, <1>6
<1>8. \A i \in 1..m : at[i] = i + 1
  <2>1. m \in {0, 1, 2, 3, 4, 5}
    BY <1>1
  <2>2. at[1] = 2
    BY <1>1
  <2> QED
    BY <2>1, <2>2, <1>3, <1>4, <1>5, <1>6
<1>9. at[m + 1] = m + 2
  <2>1. m \in {0, 1, 2, 3, 4, 5}
    BY <1>1
  <2> QED
    BY <2>1, <1>1, <1>3, <1>4, <1>5, <1>6, <1>7
<1> QED
  BY <1>2, <1>8, <1>9 DEF ReadsPlain

LEMMA PlainArgs ==
  ASSUME NEW text, Understood(text), NEW m, IsPlain(text, Arguments(ActionOf(text)), m)
  PROVE  /\ \A i \in 1..m : Arguments(ActionOf(text))[i] # "ioctl" =>
              ArgsOf(text)[i] = <<text[i + 1].s>>
         /\ \E at : /\ ReadAs(text, Arguments(ActionOf(text)), at, ArgsOf(text))
                    /\ at[m + 1] = m + 2
<1> DEFINE kinds == Arguments(ActionOf(text))
           args == ArgsOf(text)
<1>1. IsList(text) /\ ~Refused(text)
  BY DEF Understood, IsText
<1>2. PICK at : ReadAs(text, kinds, at, args)
  BY <1>1, UnrefusedIs DEF ActionOf, ArgsOf
<1>3. Len(kinds) \in Nat
  BY UnderstoodHas
<1> HIDE DEF kinds, args
<1>4. ReadsPlain(text, kinds, m, at, args)
  BY <1>1, <1>2, <1>3, PlainRead DEF kinds
<1> QED
  BY <1>2, <1>4 DEF ReadsPlain, kinds, args

\* A sentence of names is a text of them.
LEMMA SentenceIs ==
  ASSUME NEW names, IsList(names)
  PROVE  /\ IsText(Sentence(names)) /\ Len(Sentence(names)) = Len(names)
         /\ \A i \in 1..Len(names) : Sentence(names)[i] = W(names[i])
<1>1. Sentence(names) = Words(names)
  BY DEF Sentence, Words
<1>2. IsText(Words(names))
  BY PlainWords
<1>3. Len(names) \in Nat /\ DOMAIN names = 1..Len(names)
  BY ListHas
<1>4. Sentence(names) = [i \in 1..Len(names) |-> W(names[i])]
  BY <1>3 DEF Sentence
<1>5. Len(Sentence(names)) = Len(names)
  <2> DEFINE f == Sentence(names)
             n == Len(names)
  <2>1. f = [i \in 1..n |-> f[i]] /\ n \in Nat
    BY <1>3, <1>4
  <2> HIDE DEF f, n
  <2>2. Len(f) = n
    BY <2>1, IndexedIs
  <2> QED
    BY <2>2 DEF f, n
<1> QED
  BY <1>1, <1>2, <1>4, <1>5

\* A sentence that ends with a list in braces.
LEMMA BracedLine ==
  ASSUME NEW names, IsList(names), NEW words, IsText(words), NEW text,
         EndsBraced(text, Sentence(names), words)
  PROVE  /\ IsText(text) /\ Len(text) = Len(names) + Len(words) + 2
         /\ \A i \in 1..Len(names) : text[i] = W(names[i])
         /\ Opens(text, Len(names) + 1)
         /\ Between(text, Len(names) + 1, Len(text)) = words
<1> DEFINE head == Sentence(names)
           S == ToSet(head) \cup ToSet(words) \cup {W("{"), W("}")}
<1>1. IsText(head) /\ Len(head) = Len(names) /\ \A i \in 1..Len(names) : head[i] = W(names[i])
  BY SentenceIs
<1>2. head \in Seq(S) /\ words \in Seq(S)
  <2> HIDE DEF head
  <2>1. head \in Seq(ToSet(head)) /\ words \in Seq(ToSet(words))
    BY <1>1 DEF IsText, IsList
  <2>2. ToSet(head) \subseteq S /\ ToSet(words) \subseteq S
    OBVIOUS
  <2> HIDE DEF S
  <2> QED
    BY <2>1, <2>2
<1>3. HasBraces(S)
  BY DEF HasBraces
<1>4. \A w \in S : w.n \in Seq(X!Codes)
  <2>1. \A x : W(x).n \in Seq(X!Codes)
    <3> TAKE x
    <3> DEFINE none == <<>>
    <3>1. W(x).n = none
      BY DEF W
    <3>2. none \in Seq(X!Codes)
      OBVIOUS
    <3> HIDE DEF none
    <3> QED
      BY <3>1, <3>2
  <2> QED
    BY <1>1, <2>1 DEF IsText
<1> HIDE DEF S, head
<1>5. /\ text \in Seq(S) /\ Len(text) = Len(head) + Len(words) + 2
      /\ \A i \in 1..Len(head) : text[i] = head[i]
      /\ Opens(text, Len(head) + 1)
      /\ Between(text, Len(head) + 1, Len(text)) = words
  <2>1. EndsBraced(text, head, words)
    BY DEF head
  <2> QED
    BY <1>2, <1>3, <2>1, BracedText
<1>6. IsText(text)
  BY <1>4, <1>5, IsListIs DEF IsText
<1> QED
  BY <1>1, <1>5, <1>6

\* That list is the last argument.
LEMMA LastArg ==
  ASSUME NEW text, Understood(text), NEW m, IsPlain(text, Arguments(ActionOf(text)), m),
         Len(Arguments(ActionOf(text))) = m + 1, m + 2 \in 1..Len(text),
         Opens(text, m + 2)
  PROVE  LET kind  == Arguments(ActionOf(text))[m + 1]
             words == Between(text, m + 2, Len(text))
             last  == ArgsOf(text)[m + 1]
         IN /\ kind = "sterm" => last = StarNames(words)
            /\ kind = "terms" => last = NamesOf(words)
            /\ kind = "xperms" => last = Items(words, FALSE)
<1> DEFINE kinds == Arguments(ActionOf(text))
           kind == kinds[m + 1]
           words == Between(text, m + 2, Len(text))
           last == ArgsOf(text)[m + 1]
           e == m + 2
           r == ParseArgument(text, e, kind)
<1>0. m \in Nat /\ IsList(text) /\ Len(text) \in Nat /\ e \in 1..Len(text)
  BY ListHas DEF IsPlain, Understood, IsText
<1>1. PICK at : ReadAs(text, kinds, at, ArgsOf(text)) /\ at[m + 1] = e
  BY PlainArgs
<1>2. r.ok /\ last = r.names /\ r.next = Len(text) + 1
  <2>1. m + 1 \in 1..Len(kinds) /\ (m + 1) + 1 = Len(kinds) + 1
    BY <1>0
  <2> QED
    BY <1>1, <2>1 DEF ReadAs
<1>3. Opens(text, e) /\ words = Between(text, e, Len(text))
  OBVIOUS
<1> HIDE DEF kinds, kind, words, last, e
<1>4. ASSUME kind = "sterm"
      PROVE  last = StarNames(words)
  <2>1. r = ParseSterm(text, e)
    BY <1>4 DEF ParseArgument
  <2>2. text[e] = W("{")
    BY <1>3 DEF Opens
  <2> QED
    BY <1>0, <1>2, <1>3, <2>1, <2>2, StermOf
<1>5. ASSUME kind = "terms"
      PROVE  last = NamesOf(words)
  <2>1. r = ParseTerm(text, e)
    BY <1>0, <1>5 DEF ParseArgument, IfAny
  <2> QED
    BY <1>0, <1>2, <1>3, <2>1, TermOf
<1>6. ASSUME kind = "xperms"
      PROVE  last = Items(words, FALSE)
  <2>1. r = ParseXperms(text, e)
    BY <1>6 DEF ParseArgument
  <2> QED
    BY <1>0, <1>2, <1>3, <2>1, XpermsOf
<1> QED
  BY <1>4, <1>5, <1>6 DEF kind, kinds, words, last, e

\* An element of a product, where a list has one name only.
LEMMA OneAt ==
  ASSUME NEW n \in Nat, NEW lists, NEW t \in TuplesOf(n, lists), NEW i \in 1..n, NEW x,
         lists[i] = <<x>>
  PROVE  t[i] = x
<1>1. t[i] \in ToSet(lists[i])
  BY TuplesHave
<1> QED
  BY <1>1, OneIs

LineOK(b, text) ==
  IsText(text) /\ (~Refused(text) => \A call \in ToSet(Calls(text)) : Harmless(b, call))

\* The kinds of arguments of each action.
LEMMA KindsAre ==
  ASSUME NEW action \in Actions
  PROVE  LET kinds == Arguments(action) IN
         /\ action \in AvActions =>
              Len(kinds) = 4 /\ \A i \in 1..4 : kinds[i] = "sterm"
         /\ action \in XpermActions =>
              /\ Len(kinds) = 5 /\ \A i \in 1..3 : kinds[i] = "sterm"
              /\ kinds[4] = "ioctl" /\ kinds[5] = "xperms"
         /\ action = "permissive" => Len(kinds) = 1 /\ kinds[1] = "sterm"
         /\ action = "type" => Len(kinds) = 2 /\ kinds[1] = "id" /\ kinds[2] = "terms"
         /\ action = "attribute" => Len(kinds) = 1 /\ kinds[1] = "id"
         /\ action \in {"type_change", "type_member"} =>
              Len(kinds) = 4 /\ \A i \in 1..4 : kinds[i] = "id"
         /\ action = "type_transition" =>
              /\ Len(kinds) = 5 /\ \A i \in 1..4 : kinds[i] = "id"
              /\ kinds[5] = "name"
         /\ action = "genfscon" => Len(kinds) = 3 /\ \A i \in 1..3 : kinds[i] = "id"
<1> DEFINE a4 == <<"sterm", "sterm", "sterm", "sterm">>
           a5 == <<"sterm", "sterm", "sterm", "ioctl", "xperms">>
           a1 == <<"sterm">>
           b2 == <<"id", "terms">>
           b1 == <<"id">>
           b4 == <<"id", "id", "id", "id">>
           b5 == <<"id", "id", "id", "id", "name">>
           b3 == <<"id", "id", "id">>
           kinds == Arguments(action)
<1>1. /\ Len(a4) = 4 /\ \A i \in 1..4 : a4[i] = "sterm"
      /\ Len(a5) = 5 /\ a5[1] = "sterm" /\ a5[2] = "sterm" /\ a5[3] = "sterm"
      /\ a5[4] = "ioctl" /\ a5[5] = "xperms"
      /\ Len(a1) = 1 /\ a1[1] = "sterm" /\ Len(b1) = 1 /\ b1[1] = "id"
  OBVIOUS
<1>2. /\ Len(b2) = 2 /\ b2[1] = "id" /\ b2[2] = "terms"
      /\ Len(b4) = 4 /\ b4[1] = "id" /\ b4[2] = "id" /\ b4[3] = "id" /\ b4[4] = "id"
      /\ Len(b5) = 5 /\ b5[1] = "id" /\ b5[2] = "id" /\ b5[3] = "id" /\ b5[4] = "id"
      /\ b5[5] = "name"
      /\ Len(b3) = 3 /\ b3[1] = "id" /\ b3[2] = "id" /\ b3[3] = "id"
  OBVIOUS
<1> HIDE DEF a4, a5, a1, b2, b1, b4, b5, b3
<1>3. /\ action \in AvActions => kinds = a4
      /\ action \in XpermActions => kinds = a5
      /\ action = "permissive" => kinds = a1
      /\ action = "type" => kinds = b2
      /\ action = "attribute" => kinds = b1
      /\ action \in {"type_change", "type_member"} => kinds = b4
      /\ action = "type_transition" => kinds = b5
      /\ action = "genfscon" => kinds = b3
  BY DEF Arguments, AvActions, XpermActions, a4, a5, a1, b2, b1, b4, b5, b3
<1> HIDE DEF kinds
<1> QED
  BY <1>1, <1>2, <1>3 DEF kinds

\* A text whose first words are these names.
StartsWith(text, names) ==
  Len(names) <= Len(text) /\ \A i \in 1..Len(names) : text[i] = W(names[i])
\* Names that stand for themselves as the arguments of an action.
AsWritten(kinds, names, m) ==
  /\ m \in 0..5 /\ m <= Len(kinds) /\ Len(names) = m + 1
  /\ \A i \in 1..m : kinds[i] \in PlainKinds
                     /\ (kinds[i] = "sterm" => names[i + 1] \notin {"{", "*"})

\* A line that starts with names that are written as they are read.
LEMMA StartsPlain ==
  ASSUME NEW text, Understood(text), NEW names, StartsWith(text, names),
         NEW m, AsWritten(Arguments(names[1]), names, m)
  PROVE  /\ ActionOf(text) = names[1] /\ ActionOf(text) \in Actions
         /\ IsPlain(text, Arguments(ActionOf(text)), m)
         /\ \A i \in 1..m : Arguments(ActionOf(text))[i] # "ioctl" =>
              ArgsOf(text)[i] = <<names[i + 1]>>
<1> DEFINE kinds == Arguments(ActionOf(text))
<1>0. IsList(text) /\ Len(text) \in Nat
  BY ListHas DEF Understood, IsText
<1>1. m \in 0..5 /\ Len(names) = m + 1 /\ m + 1 <= Len(text)
  BY DEF AsWritten, StartsWith
<1>2. \A i \in 1..(m + 1) : text[i] = W(names[i]) /\ text[i].s = names[i]
  BY <1>1, WordIs DEF StartsWith
<1>3. ActionOf(text) = names[1] /\ ActionOf(text) \in Actions
  <2>1. 1 \in 1..(m + 1)
    BY <1>1
  <2> QED
    BY <1>2, <2>1, UnderstoodHas DEF ActionOf
<1>4. AsWritten(kinds, names, m)
  BY <1>3
<1> HIDE DEF kinds
<1>5. \A i \in 1..m : i + 1 \in 1..(m + 1)
  BY <1>1
<1>6. ASSUME NEW i \in 1..m
      PROVE  PlainAt(text, i + 1, kinds[i])
  <2> DEFINE x == names[i + 1]
             y == text[i + 1]
  <2>1. y = W(x)
    BY <1>2, <1>5
  <2>2. kinds[i] \in PlainKinds /\ (kinds[i] = "sterm" => x \notin {"{", "*"})
    BY <1>4 DEF AsWritten
  <2> HIDE DEF x, y
  <2>3. kinds[i] = "sterm" => y # W("{") /\ y # W("*")
    BY <2>1, <2>2, WordIs
  <2> QED
    BY <2>2, <2>3 DEF PlainAt, y
<1>7. IsPlain(text, kinds, m)
  BY <1>1, <1>4, <1>6 DEF IsPlain, AsWritten
<1>8. \A i \in 1..m : kinds[i] # "ioctl" => ArgsOf(text)[i] = <<text[i + 1].s>>
  BY <1>7, PlainArgs DEF kinds
<1>9. \A i \in 1..m : text[i + 1].s = names[i + 1]
  BY <1>2, <1>5
<1> QED
  BY <1>3, <1>7, <1>8, <1>9 DEF kinds

LEMMA SentenceLine ==
  ASSUME NEW names, IsList(names)
  PROVE  /\ IsText(Sentence(names)) /\ StartsWith(Sentence(names), names)
         /\ Len(Sentence(names)) = Len(names)
<1>1. Len(names) \in Nat
  BY ListHas
<1> QED
  BY <1>1, SentenceIs DEF StartsWith

\* A line is harmless if its calls are.
LEMMA LineIs ==
  ASSUME NEW b, NEW text, IsText(text),
         Understood(text) => \A call \in ToSet(Calls(text)) : Harmless(b, call)
  PROVE  LineOK(b, text)
BY DEF LineOK, Understood

\* What the policy says already is harmless.
LEMMA VainHas ==
  ASSUME NEW b
  PROVE  /\ \A call \in VainNames(b) : Harmless(b, call)
         /\ \A call \in VainVectors(b) : Harmless(b, call)
         /\ \A call \in VainEntries(b) : Harmless(b, call)
BY DEF Harmless, Vain

\* The tuples of lists that have one element each.
Ones(lists, t, n) == \A i \in 1..n : lists[i] = <<t[i]>>
\* One name each make one tuple.
LEMMA OnlyTuple ==
  ASSUME NEW n \in 1..5, NEW lists, NEW S, NEW v \in Seq(S), Len(v) = n, Ones(lists, v, n),
         NEW t \in TuplesOf(n, lists)
  PROVE  t = v
<1>1. t \in Seq(UNION {ToSet(lists[i]) : i \in 1..n}) /\ Len(t) = n
  BY TuplesHave
<1>2. \A i \in 1..n : t[i] = v[i]
  <2> SUFFICES ASSUME NEW i \in 1..n PROVE t[i] = v[i]
    OBVIOUS
  <2> DEFINE x == v[i]
  <2>1. lists[i] = <<x>>
    BY DEF Ones
  <2> HIDE DEF x
  <2>2. t[i] = x
    BY <2>1, OneAt
  <2> QED
    BY <2>2 DEF x
<1> HIDE DEF Ones
<1> QED
  BY <1>1, <1>2

IsNamed(kind, x) ==
  kind \in {"id", "name", "sterm"} /\ (kind = "sterm" => x \notin {"{", "*"})
\* The names of a line: an action and its arguments.
IsLine(names, op, v, n) ==
  /\ n \in 1..5 /\ Len(names) = n + 1 /\ names[1] = op /\ op \in Actions
  /\ \A i \in 1..n : names[i + 1] = v[i]
  /\ n <= Len(Arguments(op))
  /\ \A i \in 1..n : IsNamed(Arguments(op)[i], v[i])

LEMMA WrittenIs ==
  ASSUME NEW names, NEW op, NEW v, NEW n, IsLine(names, op, v, n)
  PROVE  AsWritten(Arguments(names[1]), names, n)
<1> DEFINE kinds == Arguments(names[1])
<1>0. kinds = Arguments(op)
  BY DEF IsLine
<1> HIDE DEF kinds
<1>1. n \in 0..5 /\ n <= Len(kinds) /\ Len(names) = n + 1
  BY <1>0 DEF IsLine
<1>2. ASSUME NEW i \in 1..n
      PROVE  kinds[i] \in PlainKinds /\ (kinds[i] = "sterm" => names[i + 1] \notin {"{", "*"})
  <2>1. IsNamed(kinds[i], v[i])
    BY <1>0 DEF IsLine
  <2>2. names[i + 1] = v[i]
    BY DEF IsLine
  <2>3. kinds[i] \in PlainKinds
    BY <2>1 DEF PlainKinds, IsNamed
  <2> QED
    BY <2>1, <2>2, <2>3 DEF IsNamed
<1>3. AsWritten(kinds, names, n)
  BY <1>1, <1>2 DEF AsWritten
<1> QED
  BY <1>3 DEF kinds

\* The arguments of a line of names.
LEMMA ReadsLine ==
  ASSUME NEW text, Understood(text), NEW names, StartsWith(text, names),
         NEW op, NEW v, NEW n, IsLine(names, op, v, n)
  PROVE  ActionOf(text) = op /\ Ones(ArgsOf(text), v, n)
<1>1. AsWritten(Arguments(names[1]), names, n)
  BY WrittenIs
<1>2. ActionOf(text) = op
  BY <1>1, StartsPlain DEF IsLine
<1>3. \A i \in 1..n : ArgsOf(text)[i] = <<names[i + 1]>>
  <2>1. \A i \in 1..n : Arguments(ActionOf(text))[i] # "ioctl" =>
             ArgsOf(text)[i] = <<names[i + 1]>>
    BY <1>1, StartsPlain
  <2> QED
    BY <1>2, <2>1 DEF IsLine, IsNamed
<1> QED
  BY <1>2, <1>3 DEF Ones, IsLine

\* A line that declares an attribute again.
LEMMA AttributeLine ==
  ASSUME NEW b, NEW a \in DOMAIN b.flavor
  PROVE  LineOK(b, Sentence(<<"attribute", a>>))
<1> DEFINE op == "attribute"
           n == 1
           names == <<op, a>>
           v == <<a>>
           text == Sentence(names)
<1>1. IsList(names) /\ Len(names) = 2 /\ names[1] = op /\ names[2] = a
  <2>1. names \in Seq({op, a})
    OBVIOUS
  <2> QED
    BY <2>1, IsListIs
<1>2. v \in Seq({a}) /\ Len(v) = n /\ v[1] = a
  OBVIOUS
<1>3. op \in Actions /\ op \in OtherActions /\ Len(Arguments(op)) = 1 /\ Arguments(op)[1] = "id"
  <2>1. op \in Actions /\ op = "attribute"
    BY DEF Actions
  <2> QED
    BY <2>1, KindsAre DEF OtherActions
<1>4. Call(op, v) \in VainNames(b)
  BY DEF VainNames
<1> HIDE DEF op, names, v
<1>5. IsLine(names, op, v, n)
  <2>1. \A i \in 1..n : i = 1
    OBVIOUS
  <2>2. names[1 + 1] = v[1]
    BY <1>1, <1>2
  <2>3. IsNamed(Arguments(op)[1], v[1])
    BY <1>3 DEF IsNamed
  <2> QED
    BY <1>1, <1>3, <2>1, <2>2, <2>3 DEF IsLine
<1>6. n \in Nat /\ n \in 1..5 /\ n = Len(Arguments(op))
  BY <1>3
<1> HIDE DEF n
<1>7. IsText(text) /\ StartsWith(text, names)
  BY <1>1, SentenceLine
<1> HIDE DEF text
<1>8. ASSUME Understood(text), NEW call \in ToSet(Calls(text))
      PROVE  Harmless(b, call)
  <2>1. ActionOf(text) = op /\ Ones(ArgsOf(text), v, n)
    BY <1>5, <1>7, <1>8, ReadsLine
  <2>2. PICK t \in TuplesOf(n, ArgsOf(text)) : call = Call(op, t)
    <3>1. Caller(text, {Call(op, t) : t \in TuplesOf(n, ArgsOf(text))})
      BY <1>3, <1>6, <1>8, <2>1, OtherCalls
    <3> QED
      BY <1>8, <3>1 DEF Caller
  <2>3. t = v
    BY <1>2, <1>6, <2>1, OnlyTuple
  <2> QED
    BY <1>4, <2>2, <2>3, VainHas
<1>9. LineOK(b, text)
  BY <1>7, <1>8, LineIs
<1> QED
  BY <1>9 DEF text, names, op

CallsFrom(text, op, n, lists) == Caller(text, {Call(op, t) : t \in TuplesOf(n, lists)})
\* One tuple, and one call.
LEMMA OneCall ==
  ASSUME NEW b, NEW text, NEW n \in 1..5, NEW lists, NEW op, NEW S, NEW v \in Seq(S),
         Len(v) = n, Ones(lists, v, n), CallsFrom(text, op, n, lists),
         Harmless(b, Call(op, v)), NEW call \in ToSet(Calls(text))
  PROVE  Harmless(b, call)
<1>1. PICK t \in TuplesOf(n, lists) : call = Call(op, t)
  BY DEF CallsFrom, Caller
<1>2. t = v
  BY OnlyTuple
<1> QED
  BY <1>1, <1>2

\* A line for a permissive type.
LEMMA PermissiveLine ==
  ASSUME NEW b, PolicyOK(b), NEW a \in DOMAIN b.flavor, a \in b.permissive
  PROVE  LineOK(b, Sentence(<<"permissive", a>>))
<1> DEFINE op == "permissive"
           n == 1
           names == <<op, a>>
           v == <<a>>
           text == Sentence(names)
<1>0. a # MatchAll /\ a \notin {"{", "*"}
  <2>1. a \notin Marks
    BY OKHas
  <2> QED
    BY <2>1 DEF Marks, MatchAll
<1>1. IsList(names) /\ Len(names) = 2 /\ names[1] = op /\ names[2] = a
  <2>1. names \in Seq({op, a})
    OBVIOUS
  <2> QED
    BY <2>1, IsListIs
<1>2. v \in Seq({a}) /\ Len(v) = n /\ v[1] = a /\ v # <<>>
  OBVIOUS
<1>3. /\ op \in Actions /\ op \in AvActions \cup {"permissive", "enforce"}
      /\ Len(Arguments(op)) = 1 /\ Arguments(op)[1] = "sterm"
  <2>1. op \in Actions /\ op = "permissive"
    BY DEF Actions
  <2> QED
    BY <2>1, KindsAre
<1>4. Call(op, v) \in VainNames(b)
  BY <1>0 DEF VainNames
<1>41. expand_wildcard(v) = v
  BY <1>2 DEF expand_wildcard
<1> HIDE DEF op, names, v
<1>5. IsLine(names, op, v, n)
  <2>1. \A i \in 1..n : i = 1
    OBVIOUS
  <2>2. names[1 + 1] = v[1]
    BY <1>1, <1>2
  <2>3. IsNamed(Arguments(op)[1], v[1])
    BY <1>0, <1>2, <1>3 DEF IsNamed
  <2> QED
    BY <1>1, <1>3, <2>1, <2>2, <2>3 DEF IsLine
<1>6. n \in Nat /\ n \in 1..5 /\ n = Len(Arguments(op)) /\ n = 1
  BY <1>3
<1> HIDE DEF n
<1>7. IsText(text) /\ StartsWith(text, names)
  BY <1>1, SentenceLine
<1> HIDE DEF text
<1>8. ASSUME Understood(text), NEW call \in ToSet(Calls(text))
      PROVE  Harmless(b, call)
  <2> DEFINE lists == Wild(ArgsOf(text))
  <2>1. ActionOf(text) = op /\ Ones(ArgsOf(text), v, n)
    BY <1>5, <1>7, <1>8, ReadsLine
  <2>2. CallsFrom(text, op, n, lists)
    BY <1>3, <1>6, <1>8, <2>1, WildCalls DEF CallsFrom
  <2>3. Ones(lists, v, n)
    <3>1. DOMAIN ArgsOf(text) = 1..n
      BY <1>6, <1>8, <2>1, UnderstoodHas
    <3>2. ArgsOf(text)[1] = v
      <4> DEFINE x == v[1]
      <4>1. v = <<x>>
        BY <1>2, <1>6 DEF v
      <4>2. ArgsOf(text)[1] = <<x>>
        BY <1>6, <2>1 DEF Ones
      <4> QED
        BY <4>1, <4>2
    <3>3. lists[1] = v
      BY <1>41, <1>6, <3>1, <3>2 DEF Wild
    <3> HIDE DEF lists
    <3>4. \A i \in 1..n : i = 1
      BY <1>6
    <3>5. v = <<v[1]>>
      BY <1>2 DEF v
    <3> QED
      BY <3>3, <3>4, <3>5 DEF Ones
  <2> HIDE DEF lists
  <2> QED
    BY <1>2, <1>4, <1>6, <1>8, <2>2, <2>3, OneCall, VainHas
<1>9. LineOK(b, text)
  BY <1>7, <1>8, LineIs
<1> QED
  BY <1>9 DEF text, names, op

\* The four arguments of a type rule, whether it may have a fifth or not.
LEMMA FourNamed ==
  ASSUME NEW op \in TypeActions
  PROVE  /\ op \in Actions /\ 4 <= Len(Arguments(op))
         /\ \A x : \A i \in 1..4 : IsNamed(Arguments(op)[i], x)
<1>1. op \in Actions
  BY DEF Actions
<1>2. op \in {"type_change", "type_member", "type_transition"}
  BY DEF TypeActions
<1>3. /\ Len(Arguments(op)) \in {4, 5} /\ \A i \in 1..4 : Arguments(op)[i] = "id"
  BY <1>1, <1>2, KindsAre
<1>4. \A x : IsNamed("id", x)
  BY DEF IsNamed
<1> QED
  BY <1>1, <1>3, <1>4

\* A type_transition of five words has no name.
LEMMA NoName ==
  ASSUME NEW text, Understood(text), ActionOf(text) = "type_transition", Len(text) = 5,
         NEW m, m = 4, IsPlain(text, Arguments(ActionOf(text)), m)
  PROVE  ArgsOf(text)[5] = <<>>
<1> DEFINE kinds == Arguments(ActionOf(text))
           i == 5
           e == 6
           none == <<>>
           r == ParseArgument(text, e, kinds[i])
<1>1. Len(kinds) = 5 /\ kinds[i] = "name"
  BY UnderstoodHas, KindsAre
<1>2. PICK at : ReadAs(text, kinds, at, ArgsOf(text)) /\ at[m + 1] = m + 2
  BY PlainArgs
<1>3. m + 1 = i /\ m + 2 = e /\ i \in 1..5 /\ e > Len(text)
  OBVIOUS
<1> HIDE DEF kinds, i, e, none
<1>4. ArgsOf(text)[i] = r.names
  BY <1>1, <1>2, <1>3 DEF ReadAs
<1>5. r = IfAny(text, e, ParseId(text, e))
  BY <1>1 DEF ParseArgument
<1>6. r = Got(none, e)
  BY <1>3, <1>5 DEF IfAny, none
<1>7. r.names = none
  BY <1>6, GotIs
<1> QED
  BY <1>4, <1>7 DEF i, none

\* A line for a type rule; it has no name.
LEMMA TypeRuleLine ==
  ASSUME NEW b, PolicyOK(b), NEW k \in DOMAIN b.type_rules
  PROVE  LineOK(b, Sentence(<<k[4], k[1], k[2], k[3], b.type_rules[k]>>))
<1> DEFINE op == k[4]
           n == 4
           names == <<op, k[1], k[2], k[3], b.type_rules[k]>>
           v == <<k[1], k[2], k[3], b.type_rules[k]>>
           S == {op, k[1], k[2], k[3], b.type_rules[k]}
           text == Sentence(names)
<1>0. op \in TypeActions
  <2>1. PICK x \in DOMAIN b.flavor, y \in DOMAIN b.flavor, c \in Classes, o \in TypeActions :
           k = <<x, y, c, o>>
    BY OKHas DEF KeysIn
  <2> QED
    BY <2>1
<1>1. /\ IsList(names) /\ Len(names) = 5 /\ names[1] = op
      /\ names[2] = v[1] /\ names[3] = v[2] /\ names[4] = v[3] /\ names[5] = v[4]
  <2>1. names \in Seq(S)
    OBVIOUS
  <2> QED
    BY <2>1, IsListIs
<1>2. v \in Seq(S) /\ Len(v) = n
  OBVIOUS
<1>3. Call(op, v) \in VainEntries(b)
  BY DEF VainEntries
<1> HIDE DEF op, names, v, S
<1>4. IsLine(names, op, v, n)
  <2>1. \A i \in 1..n : i = 1 \/ i = 2 \/ i = 3 \/ i = 4
    OBVIOUS
  <2>2. names[1 + 1] = v[1] /\ names[2 + 1] = v[2] /\ names[3 + 1] = v[3] /\ names[4 + 1] = v[4]
    BY <1>1
  <2>3. \A i \in 1..n : names[i + 1] = v[i]
    BY <2>1, <2>2
  <2>4. op \in Actions /\ n <= Len(Arguments(op)) /\ \A i \in 1..n : IsNamed(Arguments(op)[i], v[i])
    BY <1>0, FourNamed
  <2>5. n \in 1..5 /\ Len(names) = n + 1
    BY <1>1
  <2> HIDE DEF n
  <2> QED
    BY <1>1, <2>3, <2>4, <2>5 DEF IsLine
<1>5. n \in Nat /\ n \in 1..5 /\ n = 4
  OBVIOUS
<1> HIDE DEF n
<1>6. IsText(text) /\ StartsWith(text, names) /\ Len(text) = 5
  BY <1>1, SentenceLine
<1> HIDE DEF text
<1>7. ASSUME Understood(text), NEW call \in ToSet(Calls(text))
      PROVE  Harmless(b, call)
  <2>1. ActionOf(text) = op /\ Ones(ArgsOf(text), v, n)
    BY <1>4, <1>6, <1>7, ReadsLine
  <2>2. CASE op \in {"type_change", "type_member"}
    <3>1. op \in OtherActions /\ Len(Arguments(op)) = n
      BY <1>0, <1>5, <2>2, KindsAre, FourNamed DEF OtherActions
    <3>2. CallsFrom(text, op, n, ArgsOf(text))
      BY <1>7, <2>1, <3>1, OtherCalls DEF CallsFrom
    <3> QED
      BY <1>2, <1>3, <1>5, <1>7, <2>1, <3>2, OneCall, VainHas
  <2>3. CASE op = "type_transition"
    <3> DEFINE lists == SubSeq(ArgsOf(text), 1, 4)
    <3>1. Len(ArgsOf(text)) = 5 /\ ArgsOf(text) \in Seq(ToSet(ArgsOf(text)))
      <4>1. Len(Arguments(ActionOf(text))) = 5
        BY <2>1, <2>3, <1>7, UnderstoodHas, KindsAre
      <4>2. IsList(ArgsOf(text)) /\ DOMAIN ArgsOf(text) = 1..5
        BY <1>7, <4>1, UnderstoodHas
      <4>3. Len(ArgsOf(text)) \in Nat /\ DOMAIN ArgsOf(text) = 1..Len(ArgsOf(text))
        BY <4>2, ListHas
      <4> QED
        BY <4>2, <4>3 DEF IsList
    <3>2. \A i \in 1..n : lists[i] = ArgsOf(text)[i]
      BY <1>5, <3>1
    <3>3. IsPlain(text, Arguments(ActionOf(text)), n)
      <4>1. AsWritten(Arguments(names[1]), names, n)
        BY <1>4, WrittenIs
      <4> QED
        BY <1>6, <1>7, <4>1, StartsPlain
    <3>4. ArgsOf(text)[5] = <<>>
      BY <1>5, <1>6, <1>7, <2>1, <2>3, <3>3, NoName
    <3>5. CallsFrom(text, op, 4, lists)
      BY <1>7, <2>1, <2>3, <3>4, TransitionCalls DEF CallsFrom
    <3> HIDE DEF lists
    <3>6. CallsFrom(text, op, n, lists)
      BY <1>5, <3>5
    <3>7. Ones(lists, v, n)
      BY <2>1, <3>2 DEF Ones
    <3> QED
      BY <1>2, <1>3, <1>5, <1>7, <3>6, <3>7, OneCall, VainHas
  <2> QED
    BY <1>0, <2>2, <2>3 DEF TypeActions
<1>8. LineOK(b, text)
  BY <1>6, <1>7, LineIs
<1> QED
  BY <1>8 DEF text, names, op

\* A line for a named transition, whose last word is the name.
LEMMA FilenameLine ==
  ASSUME NEW b, NEW k \in DOMAIN b.names
  PROVE  LineOK(b, Sentence(<<"type_transition", k[1], k[2], k[3], b.names[k], k[4]>>))
<1> DEFINE op == "type_transition"
           to == "name"
           n == 5
           names == <<op, k[1], k[2], k[3], b.names[k], k[4]>>
           v == <<k[1], k[2], k[3], b.names[k], k[4]>>
           S == {op, k[1], k[2], k[3], k[4], b.names[k]}
           text == Sentence(names)
<1>1. /\ IsList(names) /\ Len(names) = 6 /\ names[1] = op
      /\ names[2] = v[1] /\ names[3] = v[2] /\ names[4] = v[3] /\ names[5] = v[4]
      /\ names[6] = v[5]
  <2>1. names \in Seq(S)
    OBVIOUS
  <2> QED
    BY <2>1, IsListIs
<1>2. v \in Seq(S) /\ Len(v) = n
  OBVIOUS
<1>3. Call(to, v) \in VainEntries(b)
  BY DEF VainEntries
<1>4. /\ op \in Actions /\ Len(Arguments(op)) = 5 /\ Arguments(op)[5] = "name"
      /\ \A i \in 1..4 : Arguments(op)[i] = "id"
  <2>1. op \in Actions /\ op = "type_transition"
    BY DEF Actions, TypeActions
  <2> HIDE DEF op
  <2> QED
    BY <2>1, KindsAre
<1>5. op = "type_transition"
  OBVIOUS
<1> HIDE DEF op, to, names, v, S
<1>6. IsLine(names, op, v, n)
  <2>1. \A i \in 1..n : i = 1 \/ i = 2 \/ i = 3 \/ i = 4 \/ i = 5
    OBVIOUS
  <2>2. /\ names[1 + 1] = v[1] /\ names[2 + 1] = v[2] /\ names[3 + 1] = v[3]
        /\ names[4 + 1] = v[4] /\ names[5 + 1] = v[5]
    BY <1>1
  <2>3. \A i \in 1..n : names[i + 1] = v[i]
    BY <2>1, <2>2
  <2>4. \A x : IsNamed("id", x) /\ IsNamed("name", x)
    BY DEF IsNamed
  <2>5. \A i \in 1..n : IsNamed(Arguments(op)[i], v[i])
    BY <1>4, <2>1, <2>4
  <2>6. n \in 1..5 /\ Len(names) = n + 1 /\ n <= Len(Arguments(op))
    BY <1>1, <1>4
  <2> HIDE DEF n
  <2> QED
    BY <1>1, <1>4, <2>3, <2>5, <2>6 DEF IsLine
<1>7. n \in Nat /\ n \in 1..5 /\ n = 5
  OBVIOUS
<1> HIDE DEF n
<1>8. IsText(text) /\ StartsWith(text, names)
  BY <1>1, SentenceLine
<1> HIDE DEF text
<1>9. ASSUME Understood(text), NEW call \in ToSet(Calls(text))
      PROVE  Harmless(b, call)
  <2>1. ActionOf(text) = op /\ Ones(ArgsOf(text), v, n)
    BY <1>6, <1>8, <1>9, ReadsLine
  <2>2. ArgsOf(text)[5] # <<>>
    <3>1. ArgsOf(text)[5] = <<v[5]>>
      BY <1>7, <2>1 DEF Ones
    <3> QED
      BY <3>1
  <2>3. CallsFrom(text, to, n, ArgsOf(text))
    BY <1>5, <1>7, <1>9, <2>1, <2>2, TransitionCalls DEF CallsFrom, to
  <2> QED
    BY <1>2, <1>3, <1>7, <1>9, <2>1, <2>3, OneCall, VainHas
<1>10. LineOK(b, text)
  BY <1>8, <1>9, LineIs
<1> QED
  BY <1>10 DEF text, names, op

\* A label is read again as it is, unless a comma cuts its context.
LEMMA ContextIs ==
  ASSUME NEW c
  PROVE  IsText(ContextWords(c)) /\ Len(ContextWords(c)) \in {1, 3}
         /\ ContextWords(c)[1] = W(c)
<1> DEFINE comma == ","
           last == "last category"
           a == <<c>>
           d == <<c, comma, last>>
<1>1. IsList(a) /\ Len(a) = 1 /\ a[1] = c
  BY OneIs
<1>2. IsList(d) /\ Len(d) = 3 /\ d[1] = c
  <2>1. d \in Seq({c, comma, last})
    OBVIOUS
  <2> QED
    BY <2>1, IsListIs
<1>3. ContextWords(c) = Sentence(a) \/ ContextWords(c) = Sentence(d)
  <2>1. Sentence(a) = <<W(c)>>
    BY DEF Sentence
  <2>2. Sentence(d) = <<W(c), W(comma), W(last)>>
    <3> DEFINE x == W(c)
               y == W(comma)
               z == W(last)
               t == <<x, y, z>>
    <3>1. d[1] = c /\ d[2] = comma /\ d[3] = last /\ DOMAIN d = 1..3
      OBVIOUS
    <3>2. Sentence(d) = [i \in 1..3 |-> W(d[i])]
      BY <3>1 DEF Sentence
    <3>3. t = [i \in 1..3 |-> t[i]] /\ t[1] = x /\ t[2] = y /\ t[3] = z
      OBVIOUS
    <3>4. W(d[1]) = x /\ W(d[2]) = y /\ W(d[3]) = z
      BY <3>1
    <3> HIDE DEF t, x, y, z, d
    <3>5. \A i \in 1..3 : W(d[i]) = t[i]
      <4>1. \A i \in 1..3 : i = 1 \/ i = 2 \/ i = 3
        OBVIOUS
      <4> QED
        BY <3>3, <3>4, <4>1
    <3>6. Sentence(d) = t
      BY <3>2, <3>3, <3>5
    <3> QED
      BY <3>6 DEF t, x, y, z
  <2> QED
    BY <2>1, <2>2 DEF ContextWords
<1> HIDE DEF a, d
<1>4. /\ IsText(Sentence(a)) /\ Len(Sentence(a)) = 1 /\ Sentence(a)[1] = W(c)
      /\ IsText(Sentence(d)) /\ Len(Sentence(d)) = 3 /\ Sentence(d)[1] = W(c)
  BY <1>1, <1>2, SentenceIs
<1> QED
  BY <1>3, <1>4

IsLabelLine(text, head, c) == text = Sentence(head) \o ContextWords(c)
\* A label ends with its context, which a comma may have cut into words.
LEMMA LabelText ==
  ASSUME NEW head, IsList(head), Len(head) = 3, NEW c, NEW text, IsLabelLine(text, head, c)
  PROVE  /\ IsText(text) /\ Len(text) \in {4, 6}
         /\ \A i \in 1..3 : text[i] = W(head[i])
         /\ text[4] = W(c)
<1> DEFINE a == Sentence(head)
           d == ContextWords(c)
           S == ToSet(a) \cup ToSet(d)
<1>1. IsText(a) /\ Len(a) = 3 /\ \A i \in 1..3 : a[i] = W(head[i])
  BY SentenceIs
<1>2. IsText(d) /\ Len(d) \in {1, 3} /\ d[1] = W(c)
  BY ContextIs
<1>3. text = a \o d
  BY DEF IsLabelLine
<1> HIDE DEF a, d
<1>4. IsText(text)
  BY <1>1, <1>2, <1>3, JoinedText
<1>5. a \in Seq(S) /\ d \in Seq(S)
  <2>1. a \in Seq(ToSet(a)) /\ d \in Seq(ToSet(d))
    BY <1>1, <1>2 DEF IsText, IsList
  <2>2. ToSet(a) \subseteq S /\ ToSet(d) \subseteq S
    OBVIOUS
  <2> HIDE DEF S
  <2> QED
    BY <2>1, <2>2
<1> HIDE DEF S
<1>6. /\ Len(text) = Len(a) + Len(d)
      /\ \A i \in 1..(Len(a) + Len(d)) : text[i] = IF i <= Len(a) THEN a[i] ELSE d[i - Len(a)]
  BY <1>3, <1>5, ConcatProperties
<1>7. \A i \in 1..3 : text[i] = a[i]
  BY <1>1, <1>2, <1>6
<1>8. text[4] = d[1]
  <2>1. 4 \in 1..(Len(a) + Len(d)) /\ ~(4 <= Len(a)) /\ 4 - Len(a) = 1
    BY <1>1, <1>2
  <2> QED
    BY <1>6, <2>1
<1>9. Len(text) \in {4, 6}
  <2>1. CASE Len(d) = 1
    BY <1>1, <1>6, <2>1
  <2>2. CASE Len(d) = 3
    BY <1>1, <1>6, <2>2
  <2> QED
    BY <1>2, <2>1, <2>2
<1> QED
  BY <1>1, <1>2, <1>4, <1>7, <1>8, <1>9

\* A line for a label: refused, if the context was cut.
LEMMA LabelLine ==
  ASSUME NEW b, NEW k \in DOMAIN b.genfs
  PROVE  LineOK(b, Sentence(<<"genfscon", k[1], k[2]>>) \o ContextWords(b.genfs[k]))
<1> DEFINE op == "genfscon"
           c == b.genfs[k]
           n == 3
           head == <<op, k[1], k[2]>>
           names == <<op, k[1], k[2], c>>
           v == <<k[1], k[2], c>>
           S == {op, k[1], k[2], c}
           text == Sentence(head) \o ContextWords(c)
<1>1. /\ Len(names) = 4 /\ names[1] = op
      /\ names[2] = v[1] /\ names[3] = v[2] /\ names[4] = v[3] /\ names[4] = c
      /\ IsList(head) /\ Len(head) = 3
      /\ head[1] = names[1] /\ head[2] = names[2] /\ head[3] = names[3]
  <2> HIDE DEF c, op
  <2>1. head \in Seq(S) /\ Len(head) = 3
    OBVIOUS
  <2>2. IsList(head)
    BY <2>1, IsListIs
  <2>3. /\ Len(names) = 4 /\ names[1] = op
        /\ names[2] = k[1] /\ names[3] = k[2] /\ names[4] = c
    OBVIOUS
  <2>4. v[1] = k[1] /\ v[2] = k[2] /\ v[3] = c
    OBVIOUS
  <2>5. head[1] = op /\ head[2] = k[1] /\ head[3] = k[2]
    OBVIOUS
  <2> HIDE DEF head, names, v, S
  <2> QED
    BY <2>1, <2>2, <2>3, <2>4, <2>5
<1>2. v \in Seq(S) /\ Len(v) = n
  OBVIOUS
<1>3. Call(op, v) \in VainEntries(b)
  BY DEF VainEntries
<1>4. /\ op \in Actions /\ op \in OtherActions /\ Len(Arguments(op)) = 3
      /\ \A i \in 1..3 : Arguments(op)[i] = "id"
  <2>1. op \in Actions /\ op \in OtherActions /\ op = "genfscon"
    BY DEF Actions, OtherActions
  <2> HIDE DEF op
  <2> QED
    BY <2>1, KindsAre
<1>5. IsLabelLine(text, head, c)
  BY DEF IsLabelLine
<1> HIDE DEF op, c, head, names, v, S
<1>6. IsLine(names, op, v, n)
  <2>1. \A i \in 1..n : i = 1 \/ i = 2 \/ i = 3
    OBVIOUS
  <2>2. names[1 + 1] = v[1] /\ names[2 + 1] = v[2] /\ names[3 + 1] = v[3]
    BY <1>1
  <2>3. \A i \in 1..n : names[i + 1] = v[i]
    BY <2>1, <2>2
  <2>4. \A x : IsNamed("id", x)
    BY DEF IsNamed
  <2>5. \A i \in 1..n : IsNamed(Arguments(op)[i], v[i])
    BY <1>4, <2>1, <2>4
  <2>6. n \in 1..5 /\ Len(names) = n + 1 /\ n <= Len(Arguments(op))
    BY <1>1, <1>4
  <2> HIDE DEF n
  <2> QED
    BY <1>1, <1>4, <2>3, <2>5, <2>6 DEF IsLine
<1>7. n \in Nat /\ n \in 1..5 /\ n = 3
  OBVIOUS
<1> HIDE DEF n, text
<1>8. IsText(text) /\ StartsWith(text, names)
  <2>1. /\ IsText(text) /\ Len(text) \in {4, 6}
        /\ \A i \in 1..3 : text[i] = W(head[i])
        /\ text[4] = W(c)
    BY <1>1, <1>5, LabelText
  <2>2. \A i \in 1..4 : i = 1 \/ i = 2 \/ i = 3 \/ i = 4
    OBVIOUS
  <2>3. \A i \in 1..4 : text[i] = W(names[i])
    BY <1>1, <2>1, <2>2
  <2> QED
    BY <1>1, <2>1, <2>3 DEF StartsWith
<1>9. ASSUME Understood(text), NEW call \in ToSet(Calls(text))
      PROVE  Harmless(b, call)
  <2>1. ActionOf(text) = op /\ Ones(ArgsOf(text), v, n)
    BY <1>6, <1>8, <1>9, ReadsLine
  <2>2. CallsFrom(text, op, n, ArgsOf(text))
    BY <1>4, <1>7, <1>9, <2>1, OtherCalls DEF CallsFrom
  <2> QED
    BY <1>2, <1>3, <1>7, <1>9, <2>1, <2>2, OneCall, VainHas
<1>10. LineOK(b, text)
  BY <1>8, <1>9, LineIs
<1> QED
  BY <1>10 DEF text, head, op, c

\* A line with a list at its end.
LastReads(kind, last, words) ==
  /\ kind = "sterm" => last = StarNames(words)
  /\ kind = "terms" => last = NamesOf(words)
  /\ kind = "xperms" => last = Items(words, FALSE)
ReadsNames(kinds, args, names, m) ==
  \A i \in 1..m : kinds[i] # "ioctl" => args[i] = <<names[i + 1]>>
\* What a line with a list at its end is read as.
LEMMA BracedReads ==
  ASSUME NEW names, IsList(names), NEW words, IsText(words), NEW text,
         EndsBraced(text, Sentence(names), words), Understood(text),
         NEW m, AsWritten(Arguments(names[1]), names, m),
         Len(Arguments(names[1])) = m + 1
  PROVE  /\ ActionOf(text) = names[1]
         /\ ReadsNames(Arguments(names[1]), ArgsOf(text), names, m)
         /\ LastReads(Arguments(names[1])[m + 1], ArgsOf(text)[m + 1], words)
<1>1. /\ Len(text) = Len(names) + Len(words) + 2
      /\ \A i \in 1..Len(names) : text[i] = W(names[i])
      /\ Opens(text, Len(names) + 1)
      /\ Between(text, Len(names) + 1, Len(text)) = words
  BY BracedLine
<1>2. Len(names) \in Nat /\ Len(words) \in Nat
  BY ListHas DEF IsText
<1>3. StartsWith(text, names)
  BY <1>1, <1>2 DEF StartsWith
<1>4. /\ ActionOf(text) = names[1]
      /\ IsPlain(text, Arguments(ActionOf(text)), m)
      /\ \A i \in 1..m : Arguments(ActionOf(text))[i] # "ioctl" =>
           ArgsOf(text)[i] = <<names[i + 1]>>
  BY <1>3, StartsPlain
<1> DEFINE e == m + 2
<1>5. Len(names) + 1 = e /\ e \in 1..Len(text)
  <2>1. m \in 0..5 /\ Len(names) = m + 1
    BY DEF AsWritten
  <2> QED
    BY <1>1, <1>2, <2>1
<1>6. Opens(text, e) /\ Between(text, e, Len(text)) = words
  BY <1>1, <1>5
<1>7. Len(Arguments(ActionOf(text))) = m + 1
  BY <1>4
<1> QED
  BY <1>4, <1>5, <1>6, <1>7, LastArg DEF LastReads, ReadsNames

\* Names are read as they were printed.
LEMMA WordsBack ==
  ASSUME NEW list, IsList(list)
  PROVE  /\ NamesOf(Words(list)) = list
         /\ "*" \notin ToSet(list) => StarNames(Words(list)) = list
<1>1. /\ Len(list) \in Nat /\ DOMAIN list = 1..Len(list)
      /\ \A i \in 1..Len(list) : list[i] \in ToSet(list)
  BY ListHas
<1>2. Words(list) = [i \in 1..Len(list) |-> W(list[i])]
  BY <1>1 DEF Words
<1>3. \A x : W(x).s = x
  BY WordIs
<1>4. list = [i \in 1..Len(list) |-> list[i]]
  <2>1. list \in Seq(ToSet(list))
    BY DEF IsList
  <2> QED
    BY <2>1
<1>5. NamesOf(Words(list)) = list
  <2> DEFINE words == Words(list)
  <2>1. DOMAIN words = 1..Len(list) /\ \A i \in 1..Len(list) : words[i].s = list[i]
    BY <1>2, <1>3
  <2> HIDE DEF words
  <2>2. NamesOf(words) = [i \in 1..Len(list) |-> list[i]]
    BY <2>1 DEF NamesOf
  <2> QED
    BY <1>4, <2>2 DEF words
<1>6. ASSUME "*" \notin ToSet(list)
      PROVE  StarNames(Words(list)) = list
  <2>1. ~\E i \in DOMAIN Words(list) : Words(list)[i] = W("*")
    <3> SUFFICES ASSUME NEW i \in 1..Len(list) PROVE Words(list)[i] # W("*")
      BY <1>2
    <3>1. Words(list)[i] = W(list[i]) /\ list[i] # "*"
      BY <1>1, <1>2, <1>6
    <3> QED
      BY <3>1, WordIs
  <2> QED
    BY <1>5, <2>1 DEF StarNames
<1> QED
  BY <1>5, <1>6

\* The name of a type and the attributes it has.
AttrsOf(b, n) == {a \in AttributesOf(b) : <<n, a>> \in b.attrs}
\* A line for a type and its attributes.
LEMMA TypeLine ==
  ASSUME NEW b, PolicyOK(b), NEW x \in DOMAIN b.flavor, NEW text,
         EndsBraced(text, Sentence(<<"type", x>>), Words(InAnyOrder(AttrsOf(b, x))))
  PROVE  LineOK(b, text)
<1> DEFINE op == "type"
           m == 1
           names == <<op, x>>
           attrs == AttrsOf(b, x)
           list == InAnyOrder(attrs)
           words == Words(list)
           one == <<x>>
<1>1. IsList(names) /\ Len(names) = 2 /\ names[1] = op /\ names[2] = x
  <2>1. names \in Seq({op, x})
    OBVIOUS
  <2> QED
    BY <2>1, IsListIs
<1>2. IsList(list) /\ ToSet(list) = attrs
  <2>1. IsFiniteSet(attrs)
    <3>1. IsFiniteSet(DOMAIN b.flavor)
      BY OKHas
    <3>2. attrs \subseteq DOMAIN b.flavor
      BY DEF AttributesOf, AttrsOf
    <3> QED
      BY <3>1, <3>2, FS_Subset
  <2> HIDE DEF attrs
  <2>2. list \in Seq(attrs) /\ ToSet(list) = attrs
    BY <2>1, AnyOrderIs
  <2> QED
    BY <2>2, IsListIs
<1>3. op \in Actions /\ op = "type"
  BY DEF Actions
<1>4. EndsBraced(text, Sentence(names), words)
  OBVIOUS
<1>5. Call(op, one) \in VainNames(b)
  BY DEF VainNames
<1> HIDE DEF op, names, list
<1>6. IsText(words)
  BY <1>2, PlainWords
<1> HIDE DEF words
<1>7. IsText(text)
  BY <1>1, <1>4, <1>6, BracedLine
<1>8. Len(Arguments(op)) = 2 /\ Arguments(op)[1] = "id" /\ Arguments(op)[2] = "terms"
  BY <1>3, KindsAre
<1>9. AsWritten(Arguments(names[1]), names, m) /\ Len(Arguments(names[1])) = m + 1
      /\ m \in 1..m /\ m + 1 = 2
  <2>1. \A i \in 1..m : i = 1
    OBVIOUS
  <2>2. "id" \in PlainKinds
    BY DEF PlainKinds
  <2>3. \A i \in 1..m : Arguments(names[1])[i] = "id"
    BY <1>1, <1>8, <2>1
  <2>4. \A i \in 1..m : Arguments(names[1])[i] \in PlainKinds
           /\ (Arguments(names[1])[i] = "sterm" => names[i + 1] \notin {"{", "*"})
    BY <2>2, <2>3
  <2>5. /\ m \in 0..5 /\ m <= Len(Arguments(names[1])) /\ Len(names) = m + 1
        /\ Len(Arguments(names[1])) = m + 1 /\ m \in 1..m /\ m + 1 = 2
    BY <1>1, <1>8
  <2> HIDE DEF m
  <2>6. AsWritten(Arguments(names[1]), names, m)
    BY <2>4, <2>5 DEF AsWritten
  <2> QED
    BY <2>5, <2>6
<1>91. m = 1
  OBVIOUS
<1> HIDE DEF m
<1>10. ASSUME Understood(text), NEW call \in ToSet(Calls(text))
       PROVE  Harmless(b, call)
  <2> DEFINE args == ArgsOf(text)
  <2>1. /\ ActionOf(text) = op
        /\ ReadsNames(Arguments(names[1]), args, names, m)
        /\ LastReads(Arguments(names[1])[m + 1], args[m + 1], words)
    BY <1>1, <1>4, <1>6, <1>9, <1>10, BracedReads
  <2>2. args[2] = list
    <3>1. args[m + 1] = NamesOf(words)
      BY <1>1, <1>8, <1>9, <2>1 DEF LastReads
    <3> QED
      BY <1>2, <1>9, <3>1, WordsBack DEF words
  <2>3. args[1] = one
    BY <1>1, <1>8, <1>9, <1>91, <2>1 DEF ReadsNames, one
  <2>4. call = Call("type", args[1])
          \/ \E t \in TuplesOf(2, args) : call = Call("typeattribute", t)
    BY <1>3, <1>10, <2>1, TypeCalls DEF Caller
  <2> HIDE DEF one, args
  <2>5. CASE call = Call("type", args[1])
    BY <1>5, <2>3, <2>5, VainHas DEF op
  <2>6. ASSUME NEW t \in TuplesOf(2, args), call = Call("typeattribute", t)
        PROVE  Harmless(b, call)
    <3> DEFINE n == 2
    <3>0. n \in Nat /\ 1 \in 1..n /\ 2 \in 1..n /\ n = 2 /\ t \in TuplesOf(n, args)
      OBVIOUS
    <3> HIDE DEF n
    <3>1. /\ t \in Seq(UNION {ToSet(args[i]) : i \in 1..n}) /\ Len(t) = n
          /\ \A i \in 1..n : t[i] \in ToSet(args[i])
      BY <3>0, TuplesHave
    <3>2. t = <<t[1], t[2]>>
      BY <3>0, <3>1, TupleIs
    <3>3. t[1] = x
      BY <2>3, <3>0, <3>1, OneIs DEF one
    <3>4. t[2] \in attrs
      BY <1>2, <2>2, <3>0, <3>1
    <3>5. t[2] \in DOMAIN b.flavor /\ <<x, t[2]>> \in b.attrs
      BY <3>4 DEF AttrsOf, AttributesOf
    <3>6. t \in b.attrs /\ t \in (DOMAIN b.flavor) \X (DOMAIN b.flavor)
      BY <3>2, <3>3, <3>5
    <3> DEFINE D == (DOMAIN b.flavor) \X (DOMAIN b.flavor)
    <3>7. t \in b.attrs \cap D
      BY <3>6
    <3> HIDE DEF D
    <3>8. Call("typeattribute", t) \in {Call("typeattribute", u) : u \in b.attrs \cap D}
      BY <3>7
    <3>9. call \in VainNames(b)
      BY <2>6, <3>8 DEF VainNames, D
    <3> QED
      BY <3>9, VainHas
  <2> QED
    BY <2>4, <2>5, <2>6
<1> QED
  BY <1>7, <1>10, LineIs

\* The first three names of a rule, that have to be read as they are.
LEMMA ThreeNamed ==
  ASSUME NEW b, PolicyOK(b), NEW x \in DOMAIN b.flavor, NEW y \in DOMAIN b.flavor,
         NEW c \in Classes
  PROVE  \A z \in {x, y, c} : z \notin {"{", "*"} /\ z # MatchAll
<1>1. DOMAIN b.flavor \cap Marks = {} /\ Classes \cap Marks = {}
  BY OKHas, NamesAssumption
<1>2. "{" \in Marks /\ "*" \in Marks /\ MatchAll \in Marks
  BY DEF Marks, MatchAll
<1> QED
  BY <1>1, <1>2

\* A line for a vector and the permissions of it that have a name.
LEMMA VectorLine ==
  ASSUME NEW b, PolicyOK(b), NEW k \in DOMAIN b.av, VainBits(b, k) # {}, NEW text,
         EndsBraced(text, Sentence(<<AvWord(k[4]), k[1], k[2], k[3]>>),
                    Words(InAnyOrder(VainBits(b, k))))
  PROVE  LineOK(b, text)
<1> DEFINE op == AvWord(k[4])
           m == 3
           names == <<op, k[1], k[2], k[3]>>
           named == VainBits(b, k)
           list == InAnyOrder(named)
           words == Words(list)
<1>0. /\ k[1] \in DOMAIN b.flavor /\ k[2] \in DOMAIN b.flavor /\ k[3] \in Classes
      /\ k[4] \in AvEffects
  <2>1. PICK x \in DOMAIN b.flavor, y \in DOMAIN b.flavor, c \in Classes, e \in AvEffects :
           k = <<x, y, c, e>>
    BY OKHas DEF KeysIn
  <2> QED
    BY <2>1
<1>1. /\ IsList(names) /\ Len(names) = 4 /\ names[1] = op
      /\ names[2] = k[1] /\ names[3] = k[2] /\ names[4] = k[3]
  <2> HIDE DEF op
  <2>1. names \in Seq({op, k[1], k[2], k[3]})
    OBVIOUS
  <2>2. Len(names) = 4 /\ names[1] = op /\ names[2] = k[1] /\ names[3] = k[2] /\ names[4] = k[3]
    OBVIOUS
  <2> QED
    BY <2>1, <2>2, IsListIs
<1>2. IsList(list) /\ ToSet(list) = named /\ list # <<>> /\ "*" \notin ToSet(list)
  <2>1. IsFiniteSet(named) /\ "*" \notin named
    <3>1. named \subseteq Bits /\ "*" \notin named
      BY <1>0, NamesAssumption, NamesProper DEF VainBits
    <3> QED
      BY <3>1, NamesAssumption, FS_Subset
  <2> HIDE DEF named
  <2>2. list \in Seq(named) /\ ToSet(list) = named
    BY <2>1, AnyOrderIs
  <2> HIDE DEF list
  <2>3. named # {}
    BY DEF named
  <2>4. list # <<>>
    BY <2>2, <2>3, NoneIsList
  <2> QED
    BY <2>1, <2>2, <2>4, IsListIs
<1>3. op \in AvActions /\ op \in Actions
  BY <1>0, AvWordIs DEF Actions
<1>4. EndsBraced(text, Sentence(names), words)
  OBVIOUS
<1>5. \A x \in named : Call(op, <<k[1], k[2], k[3], x>>) \in VainVectors(b)
  BY DEF VainVectors, VainCalls
<1> HIDE DEF op, names, list, named
<1>6. IsText(words)
  BY <1>2, PlainWords
<1> HIDE DEF words
<1>7. IsText(text)
  BY <1>1, <1>4, <1>6, BracedLine
<1>8. Len(Arguments(op)) = 4 /\ \A i \in 1..4 : Arguments(op)[i] = "sterm"
  BY <1>3, KindsAre
<1>9. /\ AsWritten(Arguments(names[1]), names, m) /\ Len(Arguments(names[1])) = m + 1
      /\ \A i \in 1..m : i \in 1..4
      /\ 1 \in 1..m /\ 2 \in 1..m /\ 3 \in 1..m /\ m + 1 = 4
  <2>1. \A i \in 1..m : i = 1 \/ i = 2 \/ i = 3
    OBVIOUS
  <2>2. "sterm" \in PlainKinds
    BY DEF PlainKinds
  <2>3. \A i \in 1..m : Arguments(names[1])[i] = "sterm"
    BY <1>1, <1>8
  <2>4. \A i \in 1..m : names[i + 1] \notin {"{", "*"}
    <3>1. \A z \in {k[1], k[2], k[3]} : z \notin {"{", "*"}
      BY <1>0, ThreeNamed
    <3>2. names[1 + 1] = k[1] /\ names[2 + 1] = k[2] /\ names[3 + 1] = k[3]
      BY <1>1
    <3>3. \A i \in 1..m : names[i + 1] \in {k[1], k[2], k[3]}
      BY <2>1, <3>2
    <3> QED
      BY <3>1, <3>3
  <2>5. /\ m \in 0..5 /\ m <= Len(Arguments(names[1])) /\ Len(names) = m + 1
        /\ Len(Arguments(names[1])) = m + 1
        /\ \A i \in 1..m : i \in 1..4
        /\ 1 \in 1..m /\ 2 \in 1..m /\ 3 \in 1..m /\ m + 1 = 4
    BY <1>1, <1>8
  <2> HIDE DEF m
  <2>6. AsWritten(Arguments(names[1]), names, m)
    BY <2>2, <2>3, <2>4, <2>5 DEF AsWritten
  <2> QED
    BY <2>5, <2>6
<1> HIDE DEF m
<1>10. ASSUME Understood(text), NEW call \in ToSet(Calls(text))
       PROVE  Harmless(b, call)
  <2> DEFINE args == ArgsOf(text)
             lists == Wild(args)
  <2>1. /\ ActionOf(text) = op
        /\ ReadsNames(Arguments(names[1]), args, names, m)
        /\ LastReads(Arguments(names[1])[m + 1], args[m + 1], words)
    BY <1>1, <1>4, <1>6, <1>9, <1>10, BracedReads
  <2>2. args[4] = list
    <3>1. args[m + 1] = StarNames(words)
      BY <1>1, <1>8, <1>9, <2>1 DEF LastReads
    <3> QED
      BY <1>2, <1>9, <3>1, WordsBack DEF words
  <2>3. args[1] = <<k[1]>> /\ args[2] = <<k[2]>> /\ args[3] = <<k[3]>>
    <3>1. \A i \in 1..m : args[i] = <<names[i + 1]>>
      BY <1>1, <1>8, <1>9, <2>1 DEF ReadsNames
    <3>2. names[1 + 1] = k[1] /\ names[2 + 1] = k[2] /\ names[3 + 1] = k[3]
      BY <1>1
    <3> QED
      BY <1>9, <3>1, <3>2
  <2>4. DOMAIN args = 1..4
    BY <1>8, <1>10, <2>1, UnderstoodHas
  <2>5. PICK t \in TuplesOf(4, lists) : call = Call(op, t)
    <3>1. Caller(text, {Call(op, t) : t \in TuplesOf(4, lists)})
      BY <1>3, <1>8, <1>10, <2>1, WildCalls
    <3> QED
      BY <1>10, <3>1 DEF Caller
  <2>6. lists[1] = <<k[1]>> /\ lists[2] = <<k[2]>> /\ lists[3] = <<k[3]>> /\ lists[4] = list
    <3>1. \A x : expand_wildcard(<<x>>) = <<x>>
      BY DEF expand_wildcard
    <3>2. expand_wildcard(list) = list
      BY <1>2 DEF expand_wildcard
    <3> HIDE DEF args
    <3>3. \A i \in 1..4 : lists[i] = expand_wildcard(args[i])
      BY <2>4 DEF Wild
    <3> QED
      BY <2>2, <2>3, <3>1, <3>2, <3>3
  <2> HIDE DEF args, lists
  <2> DEFINE n == 4
  <2>7. n \in Nat /\ 1 \in 1..n /\ 2 \in 1..n /\ 3 \in 1..n /\ 4 \in 1..n
        /\ n = 4 /\ t \in TuplesOf(n, lists)
    OBVIOUS
  <2> HIDE DEF n
  <2>8. /\ t \in Seq(UNION {ToSet(lists[i]) : i \in 1..n}) /\ Len(t) = n
        /\ \A i \in 1..n : t[i] \in ToSet(lists[i])
    BY <2>7, TuplesHave
  <2>9. t = <<t[1], t[2], t[3], t[4]>>
    BY <2>7, <2>8, TupleIs
  <2>10. t[1] = k[1] /\ t[2] = k[2] /\ t[3] = k[3]
    <3> DEFINE x == k[1]
               y == k[2]
               z == k[3]
    <3>1. lists[1] = <<x>> /\ lists[2] = <<y>> /\ lists[3] = <<z>>
      BY <2>6
    <3> HIDE DEF x, y, z
    <3>2. ToSet(<<x>>) = {x} /\ ToSet(<<y>>) = {y} /\ ToSet(<<z>>) = {z}
      BY OneIs
    <3>3. t[1] = x /\ t[2] = y /\ t[3] = z
      BY <2>7, <2>8, <3>1, <3>2
    <3> QED
      BY <3>3 DEF x, y, z
  <2>11. t[4] \in named
    BY <1>2, <2>6, <2>7, <2>8
  <2>12. call \in VainVectors(b)
    BY <1>5, <2>5, <2>9, <2>10, <2>11
  <2> QED
    BY <2>12, VainHas
<1> QED
  BY <1>7, <1>10, LineIs
--------------------------------------------------------------------------------
(***************************************************************************)
(* The runs of a node, and what a printed run is read as.                  *)
(***************************************************************************)
LEMMA EndIs ==
  ASSUME NEW set, set \subseteq 0..(Width - 1), NEW x \in set
  PROVE  EndOf(set, x) \in set /\ x <= EndOf(set, x) /\ x..EndOf(set, x) \subseteq set
<1> DEFINE ends == {y \in x..Width : y + 1 \notin set}
           e == CHOOSE y \in ends : \A z \in ends : y <= z
<1>0. Width \in Nat \ {0} /\ x \in 0..(Width - 1)
  BY WidthAssumption
<1>1. EndOf(set, x) = e
  BY DEF EndOf, Min
<1>2. Width \in ends /\ ends \subseteq Nat
  BY <1>0
<1>3. \A y \in ends : y \in x..Width /\ y + 1 \notin set
  OBVIOUS
<1>4. \A y \in x..Width : y \notin ends => y + 1 \in set
  OBVIOUS
<1> HIDE DEF ends
<1>5. e \in ends /\ \A z \in ends : e <= z
  <2>1. ends # {}
    BY <1>2
  <2> QED
    BY <1>2, <2>1, Nearest
<1> HIDE DEF e
<1>6. e \in x..Width
  BY <1>3, <1>5
<1>7. \A y \in x..e : y # e => y + 1 \in set
  <2> SUFFICES ASSUME NEW y \in x..e, y # e PROVE y + 1 \in set
    OBVIOUS
  <2>1. y \in x..Width /\ ~(e <= y)
    BY <1>0, <1>6
  <2> QED
    BY <1>4, <1>5, <2>1
<1>8. ASSUME NEW z \in x..e
      PROVE  z \in set
  <2>1. CASE z = x
    BY <2>1
  <2>2. CASE z # x
    <3>1. z - 1 \in x..e /\ z - 1 # e /\ (z - 1) + 1 = z
      BY <1>0, <1>6, <2>2
    <3> QED
      BY <1>7, <3>1
  <2> QED
    BY <2>1, <2>2
<1>9. e \in x..e
  BY <1>0, <1>6
<1> QED
  BY <1>0, <1>1, <1>6, <1>8, <1>9

IsRun(set, r) ==
  \E lo \in set, hi \in set : r = <<lo, hi>> /\ lo <= hi /\ lo..hi \subseteq set

\* A run is of bits that are set.
LEMMA RunsAre ==
  ASSUME NEW set, set \subseteq 0..(Width - 1)
  PROVE  IsList(Runs(set)) /\ \A r \in ToSet(Runs(set)) : IsRun(set, r)
<1> DEFINE n == Width
           Starts(i) == i - 1 \in set /\ i - 2 \notin set
           Run(i) == <<i - 1, EndOf(set, i - 1)>>
           part == [i \in 1..n |-> LineIf(Starts(i), Run(i))]
           D == {Run(i) : i \in {j \in 1..n : Starts(j)}}
<1>1. n \in Nat
  BY WidthAssumption
<1>2. Runs(set) = FlattenSeq(part)
  BY DEF Runs
<1>9. ASSUME NEW r \in D
      PROVE  IsRun(set, r)
  <2>1. PICK i \in 1..n : Starts(i) /\ r = Run(i)
    OBVIOUS
  <2> DEFINE x == i - 1
  <2>2. x \in set /\ r = <<x, EndOf(set, x)>>
    BY <2>1
  <2> HIDE DEF x
  <2>3. EndOf(set, x) \in set /\ x <= EndOf(set, x) /\ x..EndOf(set, x) \subseteq set
    BY <2>2, EndIs
  <2> QED
    BY <2>2, <2>3 DEF IsRun
<1>10. \A i \in 1..n : Starts(i) => Run(i) \in D
  OBVIOUS
<1> HIDE DEF n, Starts, Run
<1>3. \A i \in 1..n : part[i] = LineIf(Starts(i), Run(i))
  BY <1>1
<1>4. part = [i \in 1..n |-> part[i]]
  BY <1>1
<1> HIDE DEF part, D
<1>5. ASSUME NEW i \in 1..n
      PROVE  part[i] \in Seq(D)
  <2>1. CASE Starts(i)
    <3> DEFINE x == Run(i)
    <3>1. x \in D
      BY <1>10, <2>1
    <3>2. part[i] = <<x>>
      BY <1>3, <2>1 DEF LineIf
    <3> HIDE DEF x
    <3> QED
      BY <3>1, <3>2
  <2>2. CASE ~Starts(i)
    <3>1. part[i] = <<>>
      BY <1>3, <2>2 DEF LineIf
    <3> QED
      BY <3>1
  <2> QED
    BY <2>1, <2>2
<1>6. part \in Seq(Seq(D))
  <2> DEFINE A == Seq(D)
  <2> HIDE DEF A
  <2>1. part \in [1..n -> A]
    BY <1>4, <1>5 DEF A
  <2>2. part \in Seq(A)
    BY <1>1, <2>1
  <2> QED
    BY <2>2 DEF A
<1>7. FlattenSeq(part) \in Seq(D)
  BY <1>6, FlattenIs
<1>8. IsList(Runs(set)) /\ ToSet(Runs(set)) \subseteq D
  BY <1>2, <1>7, IsListIs
<1> QED
  BY <1>8, <1>9

\* A command, from its driver and its function.
LEMMA Composed ==
  ASSUME NEW d \in 0..(Width - 1), NEW x \in 0..(Width - 1), NEW c, c = d * Width + x
  PROVE  c \in X!Codes /\ c \div Width = d /\ c % Width = x
<1> DEFINE W0 == Width
           p == d * Width
           q == c \div Width
           r == c % Width
<1>1. Width \in Nat /\ Width > 0 /\ d \in Nat /\ x \in Nat /\ d < Width /\ x < Width
  BY WidthAssumption
<1>2. p \in Nat /\ c = p + x /\ c \in Nat
  BY <1>1
<1>3. q \in Int /\ r \in 0..(Width - 1) /\ c = Width * q + r
  BY <1>1, <1>2
<1>4. Width * d = p
  BY <1>1
<1> HIDE DEF p, q, r
<1>5. p + Width <= Width * Width
  <2>1. Width * d + Width <= Width * Width
    BY <1>1
  <2> QED
    BY <1>4, <2>1
<1>6. c \in X!Codes
  <2> DEFINE m == Width * Width
  <2>1. m \in Nat
    BY <1>1
  <2>2. p + Width <= m /\ X!Codes = 0..(m - 1)
    BY <1>5, CodesAre
  <2> HIDE DEF m
  <2> QED
    BY <1>1, <1>2, <2>1, <2>2
<1>7. ~(q < d)
  <2> SUFFICES ASSUME q < d PROVE FALSE
    OBVIOUS
  <2>1. Width * q + Width <= Width * d
    BY <1>1, <1>3
  <2>2. Width * q \in Int
    BY <1>1, <1>3
  <2> QED
    BY <1>1, <1>2, <1>3, <1>4, <2>1, <2>2
<1>8. ~(q > d)
  <2> SUFFICES ASSUME q > d PROVE FALSE
    OBVIOUS
  <2>1. Width * d + Width <= Width * q
    BY <1>1, <1>3
  <2>2. Width * q \in Int
    BY <1>1, <1>3
  <2> QED
    BY <1>1, <1>2, <1>3, <1>4, <2>1, <2>2
<1>9. q = d
  BY <1>1, <1>3, <1>7, <1>8
<1>10. r = x
  BY <1>1, <1>2, <1>3, <1>4, <1>9
<1> QED
  BY <1>6, <1>9, <1>10 DEF q, r

\* The commands one node grants.
NodeGrants(node, c) ==
  \/ X!IsDriver(node) /\ X!ioctl_driver(c) \in node.perms
  \/ X!IsFunction(node, X!ioctl_driver(c)) /\ X!ioctl_func(c) \in node.perms

LEMMA NodeHas ==
  ASSUME NEW node \in X!Node
  PROVE  /\ node.specified \in {X!FUNCTION, X!DRIVER, X!NLMSG}
         /\ node.driver \in 0..(Width - 1) /\ node.perms \subseteq 0..(Width - 1)
BY DEF X!Node, X!Bytes

LEMMA SameKinds == X!FUNCTION = FUNCTION /\ X!DRIVER = DRIVER /\ FUNCTION # DRIVER
BY DEF X!FUNCTION, FUNCTION, X!DRIVER, DRIVER

\* The command a bit of a node is printed as.
LEMMA CommandIs ==
  ASSUME NEW node \in X!Node, NEW x \in node.perms
  PROVE  /\ CommandOf(node, x) \in X!Codes
         /\ node.specified = FUNCTION =>
              DriverOf(CommandOf(node, x)) = node.driver
              /\ CommandOf(node, x) = node.driver * Width + x
         /\ node.specified # FUNCTION => DriverOf(CommandOf(node, x)) = x
<1>1. x \in 0..(Width - 1) /\ node.driver \in 0..(Width - 1)
  BY NodeHas
<1>2. CASE node.specified = FUNCTION
  <2> DEFINE c == node.driver * Width + x
  <2>1. CommandOf(node, x) = c
    BY <1>2 DEF CommandOf
  <2>2. c \in X!Codes /\ c \div Width = node.driver
    BY <1>1, Composed
  <2> QED
    BY <1>2, <2>1, <2>2 DEF DriverOf
<1>3. CASE node.specified # FUNCTION
  <2> DEFINE c == x * Width
  <2>1. CommandOf(node, x) = c
    BY <1>3 DEF CommandOf
  <2>2. 0 \in 0..(Width - 1) /\ c = x * Width + 0
    BY <1>1, WidthAssumption
  <2> HIDE DEF c
  <2>3. c \in X!Codes /\ c \div Width = x
    BY <1>1, <2>2, Composed
  <2> QED
    BY <1>3, <2>1, <2>3 DEF DriverOf
<1> QED
  BY <1>2, <1>3

\* A run of bits names commands that the node grants.
LEMMA RunIs ==
  ASSUME NEW node \in X!Node, NEW lo \in node.perms, NEW hi \in node.perms, lo <= hi,
         lo..hi \subseteq node.perms
  PROVE  LET low  == CommandOf(node, lo)
             high == CommandOf(node, hi)
         IN /\ low \in X!Codes /\ high \in X!Codes
            /\ node.specified # X!NLMSG =>
                 \A c \in RangeOf(low, high) : c \in X!Codes /\ NodeGrants(node, c)
<1> DEFINE low  == CommandOf(node, lo)
           high == CommandOf(node, hi)
           d == node.driver
<1>0. /\ low \in X!Codes /\ high \in X!Codes
      /\ node.specified = FUNCTION =>
           /\ DriverOf(low) = d /\ low = d * Width + lo
           /\ DriverOf(high) = d /\ high = d * Width + hi
      /\ node.specified # FUNCTION => DriverOf(low) = lo /\ DriverOf(high) = hi
  BY CommandIs
<1>1. lo \in 0..(Width - 1) /\ hi \in 0..(Width - 1) /\ d \in 0..(Width - 1)
      /\ Width \in Nat
  BY NodeHas, WidthAssumption
<1> HIDE DEF low, high, d
<1>2. ASSUME node.specified = FUNCTION, NEW c \in RangeOf(low, high)
      PROVE  c \in X!Codes /\ NodeGrants(node, c)
  <2>1. c \in low..high
    BY <1>0, <1>2 DEF RangeOf
  <2> DEFINE p == d * Width
             x == c - p
  <2>2. p \in Int /\ low = p + lo /\ high = p + hi
    BY <1>0, <1>1, <1>2
  <2> HIDE DEF p
  <2>3. x \in lo..hi /\ c = p + x
    BY <1>1, <2>1, <2>2
  <2> HIDE DEF x
  <2>4. x \in node.perms /\ x \in 0..(Width - 1)
    BY <1>1, <2>3
  <2>5. c \in X!Codes /\ c \div Width = d /\ c % Width = x
    BY <1>1, <2>3, <2>4, Composed DEF p
  <2>6. X!IsFunction(node, d)
    BY <1>2, SameKinds DEF X!IsFunction, d
  <2> QED
    BY <2>4, <2>5, <2>6 DEF NodeGrants, X!ioctl_driver, X!ioctl_func
<1>3. ASSUME node.specified = DRIVER, NEW c \in RangeOf(low, high)
      PROVE  c \in X!Codes /\ NodeGrants(node, c)
  <2>0. DriverOf(low) = lo /\ DriverOf(high) = hi
    BY <1>0, <1>3, SameKinds
  <2>1. c \in X!Codes /\ DriverOf(c) \in lo..hi
    <3>1. CASE lo = hi
      <4>1. low = high
        BY <3>1 DEF low, high
      <4>2. c = low
        <5>1. c \in low..low
          BY <1>3, <4>1 DEF RangeOf
        <5>2. low \in Int
          BY <1>0, CodesAre
        <5> QED
          BY <5>1, <5>2
      <4> QED
        BY <1>0, <1>1, <2>0, <3>1, <4>2
    <3>2. CASE lo # hi
      BY <1>3, <2>0, <3>2 DEF RangeOf
    <3> QED
      BY <3>1, <3>2
  <2>2. DriverOf(c) \in node.perms
    BY <2>1
  <2>3. X!IsDriver(node)
    BY <1>3, SameKinds DEF X!IsDriver
  <2> QED
    BY <2>1, <2>2, <2>3 DEF NodeGrants, X!ioctl_driver, DriverOf
<1>4. node.specified \in {FUNCTION, DRIVER, X!NLMSG}
  BY NodeHas, SameKinds
<1> QED
  BY <1>0, <1>2, <1>3, <1>4 DEF low, high

\* The word for a run, and the range it is read as.
LEMMA RunWord ==
  ASSUME NEW node \in X!Node, NEW r, IsRun(node.perms, r)
  PROVE  LET low  == CommandOf(node, r[1])
             high == CommandOf(node, r[2])
             w    == PrintRun(node, r)
         IN /\ w.n \in Seq(X!Codes) /\ ~Hyphen(w) /\ Head(w.n) = low
            /\ (IsSpan(w) => w.n[2] = high) /\ (~IsSpan(w) => low = high)
            /\ low \in X!Codes /\ high \in X!Codes
            /\ node.specified # X!NLMSG =>
                 \A c \in RangeOf(low, high) : c \in X!Codes /\ NodeGrants(node, c)
<1>1. PICK lo \in node.perms, hi \in node.perms :
         r = <<lo, hi>> /\ lo <= hi /\ lo..hi \subseteq node.perms
  BY DEF IsRun
<1> DEFINE low  == CommandOf(node, lo)
           high == CommandOf(node, hi)
           w == PrintRun(node, r)
<1>2. r[1] = lo /\ r[2] = hi
  BY <1>1
<1>3. /\ low \in X!Codes /\ high \in X!Codes
      /\ node.specified # X!NLMSG =>
           \A c \in RangeOf(low, high) : c \in X!Codes /\ NodeGrants(node, c)
  BY <1>1, RunIs
<1>4. w = IF lo = hi THEN Hex(low) ELSE Span(<<low, high>>)
  BY <1>2 DEF PrintRun
<1>41. lo = hi => low = high
  OBVIOUS
<1> HIDE DEF low, high, w
<1>5. CASE lo = hi
  <2> DEFINE n == <<low>>
  <2>1. w.n = n /\ w.s = "0x"
    BY <1>4, <1>5 DEF Hex
  <2>2. n \in Seq(X!Codes) /\ Len(n) = 1 /\ Head(n) = low
    BY <1>3
  <2> HIDE DEF n
  <2>3. ~IsSpan(w)
    BY <2>1, <2>2 DEF IsSpan
  <2>4. ~Hyphen(w)
    <3>1. W("-").s = "-"
      BY WordIs
    <3> QED
      BY <2>1, <3>1 DEF Hyphen
  <2> QED
    BY <1>2, <1>3, <1>41, <1>5, <2>1, <2>2, <2>3, <2>4 DEF low, high, w
<1>6. CASE lo # hi
  <2> DEFINE n == <<low, high>>
  <2>1. w.n = n /\ w.s = "0x-0x"
    BY <1>4, <1>6 DEF Span
  <2>2. n \in Seq(X!Codes) /\ Len(n) = 2 /\ Head(n) = low /\ n[2] = high
    BY <1>3
  <2> HIDE DEF n
  <2>3. IsSpan(w)
    BY <2>1, <2>2 DEF IsSpan
  <2>4. ~Hyphen(w)
    <3>1. W("-").s = "-"
      BY WordIs
    <3> QED
      BY <2>1, <3>1 DEF Hyphen
  <2> QED
    BY <1>2, <1>3, <2>1, <2>2, <2>3, <2>4 DEF low, high, w
<1> QED
  BY <1>5, <1>6

RunWords(node, runs) == [i \in DOMAIN runs |-> PrintRun(node, runs[i])]
RunSpan(node, r) == Xperm(CommandOf(node, r[1]), CommandOf(node, r[2]), FALSE)
\* The list for a node is read as the ranges of its runs.
LEMMA RunsRead ==
  ASSUME NEW node \in X!Node, NEW runs, IsList(runs),
         \A r \in ToSet(runs) : IsRun(node.perms, r)
  PROVE  /\ IsText(RunWords(node, runs))
         /\ \A x \in ToSet(Items(RunWords(node, runs), FALSE)) :
              \E r \in ToSet(runs) : x = RunSpan(node, r)
<1> DEFINE words == RunWords(node, runs)
           n == Len(runs)
           reset == FALSE
<1>1. n \in Nat /\ DOMAIN runs = 1..n /\ \A i \in 1..n : runs[i] \in ToSet(runs)
  BY ListHas
<1> HIDE DEF n
<1>2. words = [i \in 1..n |-> words[i]] /\ \A i \in 1..n : words[i] = PrintRun(node, runs[i])
  BY <1>1 DEF RunWords
<1> HIDE DEF words
<1>3. /\ IsList(words) /\ DOMAIN words = 1..n /\ Len(words) = n
      /\ \A w \in ToSet(words) : \E i \in 1..n : w = words[i]
  BY <1>1, <1>2, IndexedIs
<1>4. \A i \in 1..n : IsRun(node.perms, runs[i])
  BY <1>1
<1>5. \A i \in 1..n : words[i].n \in Seq(X!Codes) /\ ~Hyphen(words[i])
  BY <1>2, <1>4, RunWord
<1>6. IsText(words)
  BY <1>3, <1>5 DEF IsText
<1>7. \A i : ~Hyphen(WordAt(words, i))
  BY <1>3, <1>5, HyphenIs DEF WordAt, Hyphen
<1>8. ASSUME NEW i \in 1..n
      PROVE  ItemAt(words, i, reset) = Xperm(CommandOf(node, runs[i][1]),
                                             CommandOf(node, runs[i][2]), reset)
  <2> DEFINE low == CommandOf(node, runs[i][1])
             high == CommandOf(node, runs[i][2])
             w == words[i]
             h == IF IsSpan(w) THEN w.n[2]
                  ELSE IF Hyphen(WordAt(words, i + 1)) THEN words[i + 2].n[1] ELSE Head(w.n)
  <2>1. /\ Head(w.n) = low /\ (IsSpan(w) => w.n[2] = high) /\ (~IsSpan(w) => low = high)
    BY <1>2, <1>4, RunWord
  <2>2. ItemAt(words, i, reset) = Xperm(Head(w.n), h, reset)
    BY DEF ItemAt
  <2>3. h = high
    BY <1>7, <2>1
  <2> HIDE DEF low, high, w, h, reset
  <2> QED
    BY <2>1, <2>2, <2>3 DEF low, high
<1> HIDE DEF reset
<1>9. /\ IsList(Items(words, reset))
      /\ \A x \in ToSet(Items(words, reset)) :
           \E i \in ItemStarts(words) : x = ItemAt(words, i, reset)
  BY <1>3, ItemsAre
<1>10. ItemStarts(words) \subseteq 1..n
  BY <1>3 DEF ItemStarts
<1>11. \A x \in ToSet(Items(words, reset)) : \E r \in ToSet(runs) : x = RunSpan(node, r)
  <2> SUFFICES ASSUME NEW x \in ToSet(Items(words, reset))
               PROVE \E r \in ToSet(runs) : x = RunSpan(node, r)
    OBVIOUS
  <2>1. PICK i \in 1..n : x = ItemAt(words, i, reset)
    BY <1>9, <1>10
  <2>2. x = RunSpan(node, runs[i])
    BY <1>8, <2>1 DEF RunSpan, reset
  <2> QED
    BY <1>1, <2>2
<1> QED
  BY <1>6, <1>11 DEF words, reset

LEMMA GoodNodesHave ==
  ASSUME NEW nodes, GoodNodes(nodes), NEW i \in DOMAIN nodes
  PROVE  nodes[i] \in X!Node
<1>1. nodes \in Seq(X!Node)
  BY DEF GoodNodes
<1> QED
  BY <1>1, IsListIs

\* What a node grants is granted by the key.
LEMMA NodeCommands ==
  ASSUME NEW b, NEW k \in DOMAIN b.xperms, NEW i \in DOMAIN b.xperms[k],
         NEW c \in X!Codes, NodeGrants(b.xperms[k][i], c)
  PROVE  c \in Commands(b, k)
<1> DEFINE nodes == b.xperms[k]
<1>1. Commands(b, k) = X!Granted(nodes)
  BY GivenIs DEF Commands
<1>2. i \in DOMAIN nodes /\ NodeGrants(nodes[i], c)
  OBVIOUS
<1> HIDE DEF nodes
<1>3. c \in X!Granted(nodes)
  BY <1>2 DEF NodeGrants, X!Granted
<1> QED
  BY <1>1, <1>3

\* The spans a node is printed as widen nothing.
LEMMA SpanHarmless ==
  ASSUME NEW b, PolicyOK(b), NEW k \in DOMAIN b.xperms, NEW i \in DOMAIN b.xperms[k],
         NEW r, IsRun(b.xperms[k][i].perms, r), NEW call,
         call.op = k[4], call.names = <<k[1], k[2], k[3]>>,
         call.xperm = RunSpan(b.xperms[k][i], r)
  PROVE  Harmless(b, call)
<1> DEFINE node == b.xperms[k][i]
           low  == CommandOf(node, r[1])
           high == CommandOf(node, r[2])
           x == RunSpan(node, r)
           reset == FALSE
<1>1. node \in X!Node
  BY OKHas, GoodNodesHave
<1> HIDE DEF node
<1>2. /\ low \in X!Codes /\ high \in X!Codes
      /\ node.specified # X!NLMSG =>
           \A c \in RangeOf(low, high) : c \in X!Codes /\ NodeGrants(node, c)
  BY <1>1, RunWord DEF node
<1>3. x = Xperm(low, high, reset)
  BY DEF RunSpan
<1> HIDE DEF low, high
<1>4. reset \in BOOLEAN /\ reset = FALSE
  OBVIOUS
<1> HIDE DEF reset, x
<1>5. x \in Spans
  BY <1>2, <1>3, <1>4, SpanIs
<1>6. x.low = low /\ x.high = high /\ ~x.reset
  BY <1>3, <1>4 DEF Xperm
<1>7. ~HasNetlink(b, k) => node.specified # X!NLMSG
  BY DEF HasNetlink, node
<1>8. ~HasNetlink(b, k) => RangeOf(x.low, x.high) \subseteq Commands(b, k)
  BY <1>2, <1>6, <1>7, NodeCommands DEF node
<1>9. call.xperm = x
  BY DEF x, node
<1>10. WidensBy(b, call, k, x)
  BY <1>6, <1>8, <1>9 DEF WidensBy
<1> QED
  BY <1>5, <1>10 DEF Harmless, Widening

\* A line for a node.
LEMMA NodeLine ==
  ASSUME NEW b, PolicyOK(b), NEW k \in DOMAIN b.xperms, NEW i \in DOMAIN b.xperms[k],
         NEW text,
         EndsBraced(text, Sentence(<<k[4], k[1], k[2], k[3], "ioctl">>),
                    RunWords(b.xperms[k][i], Runs(b.xperms[k][i].perms)))
  PROVE  LineOK(b, text)
<1> DEFINE op == k[4]
           io == "ioctl"
           m == 4
           names == <<op, k[1], k[2], k[3], io>>
           node == b.xperms[k][i]
           runs == Runs(node.perms)
           words == RunWords(node, runs)
<1>0. /\ k[1] \in DOMAIN b.flavor /\ k[2] \in DOMAIN b.flavor /\ k[3] \in Classes
      /\ k[4] \in XpermActions
  <2>1. PICK x \in DOMAIN b.flavor, y \in DOMAIN b.flavor, c \in Classes,
             e \in XpermActions : k = <<x, y, c, e>>
    BY OKHas DEF KeysIn
  <2> QED
    BY <2>1
<1>1. /\ IsList(names) /\ Len(names) = 5 /\ names[1] = op
      /\ names[2] = k[1] /\ names[3] = k[2] /\ names[4] = k[3] /\ names[5] = io
  <2> HIDE DEF op, io
  <2>1. names \in Seq({op, k[1], k[2], k[3], io})
    OBVIOUS
  <2>2. /\ Len(names) = 5 /\ names[1] = op /\ names[2] = k[1] /\ names[3] = k[2]
        /\ names[4] = k[3] /\ names[5] = io
    OBVIOUS
  <2> QED
    BY <2>1, <2>2, IsListIs
<1>2. node \in X!Node
  BY OKHas, GoodNodesHave
<1>3. IsList(runs) /\ \A r \in ToSet(runs) : IsRun(node.perms, r)
  BY <1>2, NodeHas, RunsAre
<1>4. EndsBraced(text, Sentence(names), words)
  OBVIOUS
<1>5. op \in XpermActions /\ op \in Actions /\ op = k[4]
  BY <1>0 DEF Actions
<1>51. io = "ioctl" /\ io \notin {"{", "*"}
  OBVIOUS
<1> HIDE DEF op, io, names, runs
<1>6. /\ IsText(words)
      /\ \A x \in ToSet(Items(words, FALSE)) : \E r \in ToSet(runs) : x = RunSpan(node, r)
  <2> HIDE DEF node
  <2> QED
    BY <1>2, <1>3, RunsRead
<1> HIDE DEF words
<1>7. IsText(text)
  BY <1>1, <1>4, <1>6, BracedLine
<1>8. /\ Len(Arguments(op)) = 5 /\ \A j \in 1..3 : Arguments(op)[j] = "sterm"
      /\ Arguments(op)[4] = "ioctl" /\ Arguments(op)[5] = "xperms"
  BY <1>5, KindsAre
<1>9. /\ AsWritten(Arguments(names[1]), names, m) /\ Len(Arguments(names[1])) = m + 1
      /\ 1 \in 1..m /\ 2 \in 1..m /\ 3 \in 1..m /\ m + 1 = 5
  <2>1. \A j \in 1..m : j = 1 \/ j = 2 \/ j = 3 \/ j = 4
    OBVIOUS
  <2>2. "sterm" \in PlainKinds /\ "ioctl" \in PlainKinds
    BY DEF PlainKinds
  <2>3. \A j \in 1..m : Arguments(names[1])[j] = "sterm" \/ Arguments(names[1])[j] = "ioctl"
    BY <1>1, <1>8, <2>1
  <2>4. \A j \in 1..m : names[j + 1] \notin {"{", "*"}
    <3>1. \A z \in {k[1], k[2], k[3]} : z \notin {"{", "*"}
      BY <1>0, ThreeNamed
    <3>2. names[1 + 1] = k[1] /\ names[2 + 1] = k[2] /\ names[3 + 1] = k[3]
          /\ names[4 + 1] = io
      BY <1>1
    <3>3. \A j \in 1..m : names[j + 1] \in {k[1], k[2], k[3], io}
      BY <2>1, <3>2
    <3> QED
      BY <1>51, <3>1, <3>3
  <2>5. /\ m \in 0..5 /\ m <= Len(Arguments(names[1])) /\ Len(names) = m + 1
        /\ Len(Arguments(names[1])) = m + 1
        /\ 1 \in 1..m /\ 2 \in 1..m /\ 3 \in 1..m /\ m + 1 = 5
    BY <1>1, <1>8
  <2> HIDE DEF m
  <2>6. AsWritten(Arguments(names[1]), names, m)
    BY <2>2, <2>3, <2>4, <2>5 DEF AsWritten
  <2> QED
    BY <2>5, <2>6
<1> HIDE DEF m
<1>10. ASSUME Understood(text), NEW call \in ToSet(Calls(text))
       PROVE  Harmless(b, call)
  <2> DEFINE args == ArgsOf(text)
             lists == XpermLists(args)
  <2>1. /\ ActionOf(text) = op
        /\ ReadsNames(Arguments(names[1]), args, names, m)
        /\ LastReads(Arguments(names[1])[m + 1], args[m + 1], words)
    BY <1>1, <1>4, <1>6, <1>9, <1>10, BracedReads
  <2>2. args[5] = Items(words, FALSE)
    BY <1>1, <1>8, <1>9, <2>1 DEF LastReads
  <2>3. args[1] = <<k[1]>> /\ args[2] = <<k[2]>> /\ args[3] = <<k[3]>>
    <3>1. /\ Arguments(names[1])[1] # "ioctl" /\ Arguments(names[1])[2] # "ioctl"
          /\ Arguments(names[1])[3] # "ioctl"
      BY <1>1, <1>8
    <3>2. names[1 + 1] = k[1] /\ names[2 + 1] = k[2] /\ names[3 + 1] = k[3]
      BY <1>1
    <3> QED
      BY <1>9, <2>1, <3>1, <3>2 DEF ReadsNames
  <2>5. PICK t \in TuplesOf(4, lists) : call = XpermCall(op, t)
    <3>1. Caller(text, {XpermCall(op, t) : t \in TuplesOf(4, lists)})
      BY <1>5, <1>10, <2>1, XpermCalls
    <3> QED
      BY <1>10, <3>1 DEF Caller
  <2>6. /\ lists[1] = <<k[1]>> /\ lists[2] = <<k[2]>> /\ lists[3] = <<k[3]>>
        /\ lists[4] = Items(words, FALSE)
    <3>1. \A x : expand_wildcard(<<x>>) = <<x>>
      BY DEF expand_wildcard
    <3> HIDE DEF args
    <3>3. /\ lists[1] = expand_wildcard(args[1]) /\ lists[2] = expand_wildcard(args[2])
          /\ lists[3] = expand_wildcard(args[3]) /\ lists[4] = args[5]
      BY DEF XpermLists
    <3> QED
      BY <2>2, <2>3, <3>1, <3>3
  <2> HIDE DEF args, lists
  <2> DEFINE n == 4
  <2>7. n \in Nat /\ 1 \in 1..n /\ 2 \in 1..n /\ 3 \in 1..n /\ 4 \in 1..n
        /\ n = 4 /\ t \in TuplesOf(n, lists)
    OBVIOUS
  <2> HIDE DEF n
  <2>8. /\ t \in Seq(UNION {ToSet(lists[j]) : j \in 1..n}) /\ Len(t) = n
        /\ \A j \in 1..n : t[j] \in ToSet(lists[j])
    BY <2>7, TuplesHave
  <2>9. call.op = op /\ call.xperm = t[4] /\ call.names = <<t[1], t[2], t[3]>>
    <3> DEFINE A == UNION {ToSet(lists[j]) : j \in 1..n}
    <3>1. t \in Seq(A) /\ Len(t) = 4
      BY <2>7, <2>8
    <3> HIDE DEF A
    <3> QED
      BY <2>5, <3>1, XpermCallHas
  <2>10. t[1] = k[1] /\ t[2] = k[2] /\ t[3] = k[3]
    <3> DEFINE x == k[1]
               y == k[2]
               z == k[3]
    <3>1. lists[1] = <<x>> /\ lists[2] = <<y>> /\ lists[3] = <<z>>
      BY <2>6
    <3> HIDE DEF x, y, z
    <3>2. ToSet(<<x>>) = {x} /\ ToSet(<<y>>) = {y} /\ ToSet(<<z>>) = {z}
      BY OneIs
    <3>3. t[1] = x /\ t[2] = y /\ t[3] = z
      BY <2>7, <2>8, <3>1, <3>2
    <3> QED
      BY <3>3 DEF x, y, z
  <2>11. PICK r \in ToSet(runs) : t[4] = RunSpan(node, r)
    BY <1>6, <2>6, <2>7, <2>8
  <2>12. /\ IsRun(node.perms, r) /\ call.op = k[4] /\ call.names = <<k[1], k[2], k[3]>>
         /\ call.xperm = RunSpan(node, r)
    BY <1>3, <1>5, <2>9, <2>10, <2>11
  <2> QED
    BY <2>12, SpanHarmless
<1> QED
  BY <1>7, <1>10, LineIs
--------------------------------------------------------------------------------
(***************************************************************************)
(* print_rules, line by line.                                              *)
(***************************************************************************)
AllOK(b, list) == IsList(list) /\ \A text \in ToSet(list) : LineOK(b, text)
Images(f, D) == {f[k] : k \in D}

\* Finitely many lines.
LEMMA FiniteImages ==
  ASSUME NEW D, IsFiniteSet(D), NEW f, DOMAIN f = D, f = [k \in D |-> f[k]]
  PROVE  IsFiniteSet(Images(f, D))
<1> DEFINE S == Images(f, D)
<1>1. f \in [D -> S] /\ \A x \in S : \E k \in D : f[k] = x
  BY DEF Images
<1> HIDE DEF S
<1>2. f \in Surjection(D, S)
  BY <1>1 DEF Surjection
<1> QED
  BY <1>2, FS_Surjection DEF S

\* Lines for each of finitely many things are harmless if each one is.
LEMMA AllOf ==
  ASSUME NEW b, NEW D, IsFiniteSet(D), NEW f, DOMAIN f = D, f = [k \in D |-> f[k]],
         \A k \in D : AllOK(b, f[k]), NEW S, S = Images(f, D)
  PROVE  AllOK(b, Lines(S))
<1>1. IsFiniteSet(S)
  BY FiniteImages
<1>2. \A part \in S : \E k \in D : part = f[k]
  BY DEF Images
<1>3. \A part \in S : AllOK(b, part)
  BY <1>2
<1>4. /\ IsList(Lines(S))
      /\ \A text \in ToSet(Lines(S)) : \E part \in S : text \in ToSet(part)
  BY <1>1, <1>3, LinesAre DEF AllOK
<1> QED
  BY <1>3, <1>4 DEF AllOK

LEMMA OneOK ==
  ASSUME NEW b, NEW text, LineOK(b, text)
  PROVE  AllOK(b, <<text>>)
BY OneIs DEF AllOK

LEMMA IfOK ==
  ASSUME NEW b, NEW condition, NEW text, condition => LineOK(b, text)
  PROVE  AllOK(b, LineIf(condition, text))
BY LineIfIs DEF AllOK

LEMMA BothOK ==
  ASSUME NEW b, NEW u, AllOK(b, u), NEW v, AllOK(b, v)
  PROVE  AllOK(b, u \o v)
<1>1. IsList(u \o v) /\ ToSet(u \o v) = ToSet(u) \cup ToSet(v)
  BY JoinedIs DEF AllOK
<1> QED
  BY <1>1 DEF AllOK

\* The tables, in the order in which they are printed.
LEMMA AttributesOK ==
  ASSUME NEW b, PolicyOK(b)
  PROVE  AllOK(b, PrintAttributes(b))
<1> DEFINE D == AttributesOf(b)
           Text(a) == Sentence(<<"attribute", a>>)
           f == [a \in D |-> <<Text(a)>>]
           S == {<<Text(a)>> : a \in D}
<1>1. IsFiniteSet(D) /\ D \subseteq DOMAIN b.flavor
  <2>1. D \subseteq DOMAIN b.flavor
    BY DEF AttributesOf
  <2>2. IsFiniteSet(DOMAIN b.flavor)
    BY OKHas
  <2> QED
    BY <2>1, <2>2, FS_Subset
<1>2. PrintAttributes(b) = Lines(S)
  BY DEF PrintAttributes
<1>3. \A a \in D : LineOK(b, Text(a))
  BY <1>1, AttributeLine
<1> HIDE DEF D, Text
<1>4. \A a \in D : AllOK(b, f[a])
  <2>1. \A a \in D : AllOK(b, <<Text(a)>>)
    BY <1>3, OneOK
  <2>2. \A a \in D : f[a] = <<Text(a)>>
    OBVIOUS
  <2> HIDE DEF f
  <2> QED
    BY <2>1, <2>2
<1>5. S = Images(f, D) /\ DOMAIN f = D /\ f = [a \in D |-> f[a]]
  BY DEF Images
<1> HIDE DEF f, S
<1> QED
  BY <1>1, <1>2, <1>4, <1>5, AllOf

LEMMA PrintTypeOK ==
  ASSUME NEW b, PolicyOK(b), NEW n \in DOMAIN b.flavor
  PROVE  AllOK(b, PrintType(b, n))
<1> DEFINE attrs == {a \in AttributesOf(b) : <<n, a>> \in b.attrs}
           text == Sentence(<<"type", n>>) \o Braced(Words(InAnyOrder(attrs)))
           state == Sentence(<<"permissive", n>>)
           u == LineIf(attrs # {}, text)
           v == LineIf(n \in b.permissive, state)
<1>1. PrintType(b, n) = u \o v
  BY DEF PrintType
<1>2. LineOK(b, text)
  <2>1. EndsBraced(text, Sentence(<<"type", n>>), Words(InAnyOrder(AttrsOf(b, n))))
    BY DEF EndsBraced, AttrsOf
  <2> HIDE DEF text
  <2> QED
    BY <2>1, TypeLine
<1>3. n \in b.permissive => LineOK(b, state)
  BY PermissiveLine
<1> HIDE DEF attrs, text, state
<1>4. AllOK(b, u) /\ AllOK(b, v)
  BY <1>2, <1>3, IfOK
<1> HIDE DEF u, v
<1> QED
  BY <1>1, <1>4, BothOK

LEMMA TypesOK ==
  ASSUME NEW b, PolicyOK(b)
  PROVE  AllOK(b, PrintTypes(b))
<1> DEFINE D == DOMAIN b.flavor \ AttributesOf(b)
           f == [n \in D |-> PrintType(b, n)]
           S == {PrintType(b, n) : n \in D}
<1>1. IsFiniteSet(D) /\ D \subseteq DOMAIN b.flavor
  <2>1. D \subseteq DOMAIN b.flavor
    OBVIOUS
  <2>2. IsFiniteSet(DOMAIN b.flavor)
    BY OKHas
  <2> QED
    BY <2>1, <2>2, FS_Subset
<1>2. PrintTypes(b) = Lines(S)
  BY DEF PrintTypes
<1> HIDE DEF D
<1>4. \A n \in D : AllOK(b, f[n])
  BY <1>1, PrintTypeOK
<1>5. S = Images(f, D) /\ DOMAIN f = D /\ f = [n \in D |-> f[n]]
  BY DEF Images
<1> HIDE DEF f, S
<1> QED
  BY <1>1, <1>2, <1>4, <1>5, AllOf

LEMMA VectorOK ==
  ASSUME NEW b, PolicyOK(b), NEW k \in DOMAIN b.av
  PROVE  AllOK(b, PrintVector(k, b.av[k]))
<1> DEFINE named == Printed(k, b.av[k]) \cap Perms[k[3]]
           text == Sentence(<<AvWord(k[4]), k[1], k[2], k[3]>>)
                     \o Braced(Words(InAnyOrder(named)))
<1>1. PrintVector(k, b.av[k]) = LineIf(named # {}, text)
  BY DEF PrintVector
<1>2. named # {} => LineOK(b, text)
  <2>1. EndsBraced(text, Sentence(<<AvWord(k[4]), k[1], k[2], k[3]>>),
                   Words(InAnyOrder(VainBits(b, k))))
    BY DEF EndsBraced, VainBits
  <2>2. named = VainBits(b, k)
    BY DEF VainBits
  <2> HIDE DEF text, named
  <2> QED
    BY <2>1, <2>2, VectorLine
<1> HIDE DEF named, text
<1> QED
  BY <1>1, <1>2, IfOK

LEMMA VectorsOK ==
  ASSUME NEW b, PolicyOK(b)
  PROVE  AllOK(b, Lines({PrintVector(k, b.av[k]) : k \in DOMAIN b.av}))
<1> DEFINE D == DOMAIN b.av
           f == [k \in D |-> PrintVector(k, b.av[k])]
           S == {PrintVector(k, b.av[k]) : k \in D}
<1>1. IsFiniteSet(D)
  BY TablesOf
<1>4. \A k \in D : AllOK(b, f[k])
  BY VectorOK
<1>5. S = Images(f, D) /\ DOMAIN f = D /\ f = [k \in D |-> f[k]]
  BY DEF Images
<1>6. AllOK(b, Lines(S))
  <2> HIDE DEF D, f, S
  <2> QED
    BY <1>1, <1>4, <1>5, AllOf
<1> QED
  BY <1>6

LEMMA TypeRulesOK ==
  ASSUME NEW b, PolicyOK(b)
  PROVE  AllOK(b, Lines({<<Sentence(<<k[4], k[1], k[2], k[3], b.type_rules[k]>>)>> :
                            k \in DOMAIN b.type_rules}))
<1> DEFINE D == DOMAIN b.type_rules
           Text(k) == Sentence(<<k[4], k[1], k[2], k[3], b.type_rules[k]>>)
           f == [k \in D |-> <<Text(k)>>]
           S == {<<Text(k)>> : k \in D}
<1>1. IsFiniteSet(D)
  BY TablesOf
<1>3. \A k \in D : LineOK(b, Text(k))
  BY TypeRuleLine
<1>6. AllOK(b, Lines(S))
  <2> HIDE DEF D, Text
  <2>1. \A k \in D : AllOK(b, <<Text(k)>>)
    BY <1>3, OneOK
  <2>2. \A k \in D : f[k] = <<Text(k)>>
    OBVIOUS
  <2>3. S = Images(f, D) /\ DOMAIN f = D /\ f = [k \in D |-> f[k]]
    BY DEF Images
  <2> HIDE DEF f, S
  <2>4. \A k \in D : AllOK(b, f[k])
    BY <2>1, <2>2
  <2> QED
    BY <1>1, <2>3, <2>4, AllOf
<1> QED
  BY <1>6

LEMMA PrintNodeOK ==
  ASSUME NEW b, PolicyOK(b), NEW k \in DOMAIN b.xperms, NEW i \in DOMAIN b.xperms[k]
  PROVE  LineOK(b, PrintNode(k, b.xperms[k][i]))
<1> DEFINE node == b.xperms[k][i]
           text == PrintNode(k, node)
<1>1. EndsBraced(text, Sentence(<<k[4], k[1], k[2], k[3], "ioctl">>),
                 RunWords(node, Runs(node.perms)))
  BY DEF PrintNode, RunWords, EndsBraced
<1> HIDE DEF text
<1>2. LineOK(b, text)
  BY <1>1, NodeLine
<1> QED
  BY <1>2 DEF text

LEMMA PrintNodesOK ==
  ASSUME NEW b, PolicyOK(b), NEW k \in DOMAIN b.xperms
  PROVE  AllOK(b, PrintNodes(k, b.xperms[k]))
<1> DEFINE nodes == b.xperms[k]
           n == Len(nodes)
           f == PrintNodes(k, nodes)
<1>1. n \in Nat /\ DOMAIN nodes = 1..n
  <2>1. nodes \in Seq(X!Node)
    BY OKHas DEF GoodNodes
  <2> QED
    BY <2>1
<1>2. f = [i \in 1..n |-> PrintNode(k, nodes[i])]
  BY <1>1 DEF PrintNodes
<1>3. \A i \in 1..n : LineOK(b, PrintNode(k, nodes[i]))
  BY <1>1, PrintNodeOK
<1> HIDE DEF f, n
<1>4. f = [i \in 1..n |-> f[i]] /\ \A i \in 1..n : f[i] = PrintNode(k, nodes[i])
  BY <1>2
<1>5. IsList(f) /\ \A text \in ToSet(f) : \E i \in 1..n : text = f[i]
  BY <1>1, <1>4, IndexedIs
<1>6. \A text \in ToSet(f) : LineOK(b, text)
  BY <1>3, <1>4, <1>5
<1>7. AllOK(b, f)
  BY <1>5, <1>6 DEF AllOK
<1> QED
  BY <1>7 DEF f

LEMMA NodesOK ==
  ASSUME NEW b, PolicyOK(b)
  PROVE  AllOK(b, Lines({PrintNodes(k, b.xperms[k]) : k \in DOMAIN b.xperms}))
<1> DEFINE D == DOMAIN b.xperms
           f == [k \in D |-> PrintNodes(k, b.xperms[k])]
           S == {PrintNodes(k, b.xperms[k]) : k \in D}
<1>1. IsFiniteSet(D)
  BY TablesOf
<1>4. \A k \in D : AllOK(b, f[k])
  BY PrintNodesOK
<1>5. S = Images(f, D) /\ DOMAIN f = D /\ f = [k \in D |-> f[k]]
  BY DEF Images
<1>6. AllOK(b, Lines(S))
  <2> HIDE DEF D, f, S
  <2> QED
    BY <1>1, <1>4, <1>5, AllOf
<1> QED
  BY <1>6

LEMMA FilenamesOK ==
  ASSUME NEW b, PolicyOK(b)
  PROVE  AllOK(b, PrintFilenameTrans(b))
<1> DEFINE D == DOMAIN b.names
           Text(k) == Sentence(<<"type_transition", k[1], k[2], k[3], b.names[k], k[4]>>)
           f == [k \in D |-> <<Text(k)>>]
           S == {<<Text(k)>> : k \in D}
<1>1. IsFiniteSet(D)
  BY TablesOf
<1>2. PrintFilenameTrans(b) = Lines(S)
  BY DEF PrintFilenameTrans
<1>3. \A k \in D : LineOK(b, Text(k))
  BY FilenameLine
<1> HIDE DEF D, Text
<1>4. \A k \in D : AllOK(b, <<Text(k)>>)
  BY <1>3, OneOK
<1>5. \A k \in D : f[k] = <<Text(k)>>
  OBVIOUS
<1>6. S = Images(f, D) /\ DOMAIN f = D /\ f = [k \in D |-> f[k]]
  BY DEF Images
<1> HIDE DEF f, S
<1>7. \A k \in D : AllOK(b, f[k])
  BY <1>4, <1>5
<1> QED
  BY <1>1, <1>2, <1>6, <1>7, AllOf

LEMMA LabelsOK ==
  ASSUME NEW b, PolicyOK(b)
  PROVE  AllOK(b, PrintGenfscon(b))
<1> DEFINE D == DOMAIN b.genfs
           Text(k) == Sentence(<<"genfscon", k[1], k[2]>>) \o ContextWords(b.genfs[k])
           f == [k \in D |-> <<Text(k)>>]
           S == {<<Text(k)>> : k \in D}
<1>1. IsFiniteSet(D)
  BY TablesOf
<1>2. PrintGenfscon(b) = Lines(S)
  BY DEF PrintGenfscon
<1>3. \A k \in D : LineOK(b, Text(k))
  BY LabelLine
<1> HIDE DEF D, Text
<1>4. \A k \in D : AllOK(b, <<Text(k)>>)
  BY <1>3, OneOK
<1>5. \A k \in D : f[k] = <<Text(k)>>
  OBVIOUS
<1>6. S = Images(f, D) /\ DOMAIN f = D /\ f = [k \in D |-> f[k]]
  BY DEF Images
<1> HIDE DEF f, S
<1>7. \A k \in D : AllOK(b, f[k])
  BY <1>4, <1>5
<1> QED
  BY <1>1, <1>2, <1>6, <1>7, AllOf

\* Whatever print_rules prints of a policy does nothing to that policy.
LEMMA PrintedOK ==
  ASSUME NEW b, PolicyOK(b)
  PROVE  AllOK(b, print_rules(b))
<1> DEFINE vectors == Lines({PrintVector(k, b.av[k]) : k \in DOMAIN b.av})
           rules == Lines({<<Sentence(<<k[4], k[1], k[2], k[3], b.type_rules[k]>>)>> :
                              k \in DOMAIN b.type_rules})
           nodes == Lines({PrintNodes(k, b.xperms[k]) : k \in DOMAIN b.xperms})
           names == PrintAttributes(b) \o PrintTypes(b)
           all == (vectors \o rules) \o nodes
<1>1. AllOK(b, vectors) /\ AllOK(b, rules) /\ AllOK(b, nodes)
  BY VectorsOK, TypeRulesOK, NodesOK
<1>2. AllOK(b, names)
  BY AttributesOK, TypesOK, BothOK
<1>3. PrintNames(b) = names
  BY DEF PrintNames
<1>4. PrintRules(b) = all
  BY DEF PrintRules
<1> HIDE DEF vectors, rules, nodes, names
<1>5. AllOK(b, vectors \o rules)
  BY <1>1, BothOK
<1>6. AllOK(b, all)
  BY <1>1, <1>5, BothOK
<1> HIDE DEF all
<1> DEFINE u == names \o all
           v == u \o PrintFilenameTrans(b)
           w == v \o PrintGenfscon(b)
<1>7. print_rules(b) = w
  BY <1>3, <1>4 DEF print_rules
<1>8. AllOK(b, u)
  BY <1>2, <1>6, BothOK
<1> HIDE DEF u
<1>9. AllOK(b, v)
  BY <1>8, FilenamesOK, BothOK
<1> HIDE DEF v
<1>10. AllOK(b, w)
  BY <1>9, LabelsOK, BothOK
<1> QED
  BY <1>7, <1>10
--------------------------------------------------------------------------------
(***************************************************************************)
(* The invariant of a replay.                                              *)
(***************************************************************************)
\* A policy that reads its own rules goes on deciding as before, as every line
\* still to be read, and every call still to be made, is harmless.
Replaying ==
  /\ Decides(pol, before)
  /\ \A text \in ToSet(lines) : LineOK(before, text)
  /\ \A call \in ToSet(todo) : Harmless(before, call)
Underway ==
  /\ IsList(lines) /\ \A text \in ToSet(lines) : IsText(text)
  /\ IsList(todo) /\ \A call \in ToSet(todo) : CallOK(call)
ReplayInv ==
  /\ PolicyOK(pol) /\ PolicyOK(before) /\ Underway
  /\ replay = "same" => Replaying

\* Before the first call.
LEMMA DecidesItself ==
  ASSUME NEW p
  PROVE  Decides(p, p)
BY DEF Decides, Like

LEMMA NothingUnderway ==
  ASSUME NEW p, NEW b
  PROVE  /\ IsList(<<>>) /\ \A text \in ToSet(<<>>) : IsText(text) /\ LineOK(b, text)
         /\ \A call \in ToSet(<<>>) : CallOK(call) /\ Harmless(b, call)
BY NoneIsList

LEMMA RestIsList ==
  ASSUME NEW list, IsList(list), list # <<>>
  PROVE  /\ Head(list) \in ToSet(list) /\ IsList(Tail(list))
         /\ ToSet(Tail(list)) \subseteq ToSet(list)
<1> DEFINE S == ToSet(list)
<1>1. list \in Seq(S)
  BY DEF IsList
<1> HIDE DEF S
<1>2. /\ Head(list) \in S /\ Tail(list) \in Seq(S)
      /\ ToSet(list) = {Head(list)} \cup ToSet(Tail(list))
  BY <1>1, FirstAndRest
<1>3. IsList(Tail(list))
  BY <1>2, IsListIs
<1> QED
  BY <1>2, <1>3 DEF S

\* The steps.
LEMMA ReplayInit ==
  ASSUME Init
  PROVE  ReplayInv
<1>1. PolicyOK(pol) /\ PolicyOK(before)
  BY PoliciesAssumption DEF Init
<1>2. Underway
  BY NothingUnderway DEF Init, Underway
<1>3. replay # "same"
  BY DEF Init
<1> QED
  BY <1>1, <1>2, <1>3 DEF ReplayInv

LEMMA BeginKeeps ==
  ASSUME ReplayInv, NEW text, IsText(text), NEW r, Begin(text, r)
  PROVE  ReplayInv'
<1> DEFINE one == <<text>>
<1>1. IsList(one) /\ ToSet(one) = {text}
  BY OneIs
<1>2. lines' = one /\ todo = <<>> /\ todo' = todo /\ pol' = pol /\ before' = pol
      /\ replay' = replay /\ replay # "same"
  BY DEF Begin, Idle
<1> HIDE DEF one
<1>3. Underway'
  BY <1>1, <1>2, NothingUnderway DEF Underway
<1>4. PolicyOK(pol') /\ PolicyOK(before')
  BY <1>2 DEF ReplayInv
<1> QED
  BY <1>2, <1>3, <1>4 DEF ReplayInv

LEMMA ReadLineKeeps ==
  ASSUME ReplayInv, ReadLine
  PROVE  ReplayInv'
<1> DEFINE text == Head(lines)
           rest == Tail(lines)
<1>1. /\ lines' = rest /\ todo' = IF Refused(text) THEN <<>> ELSE Calls(text)
      /\ pol' = pol /\ before' = before /\ replay' = replay /\ lines # <<>>
  BY DEF ReadLine
<1>2. /\ text \in ToSet(lines) /\ IsList(rest) /\ ToSet(rest) \subseteq ToSet(lines)
  BY <1>1, RestIsList DEF ReplayInv, Underway
<1>3. IsText(text) /\ (replay = "same" => LineOK(before, text))
  BY <1>2 DEF ReplayInv, Underway, Replaying
<1>4. /\ \A t \in ToSet(rest) : IsText(t)
      /\ replay = "same" => \A t \in ToSet(rest) : LineOK(before, t)
  BY <1>2 DEF ReplayInv, Underway, Replaying
<1> HIDE DEF text, rest
<1>5. /\ IsList(todo') /\ \A call \in ToSet(todo') : CallOK(call)
      /\ replay = "same" => \A call \in ToSet(todo') : Harmless(before, call)
  <2>1. CASE Refused(text)
    BY <1>1, <2>1, NothingUnderway
  <2>2. CASE ~Refused(text)
    <3>1. Understood(text)
      BY <1>3, <2>2 DEF Understood
    <3>2. IsList(Calls(text)) /\ \A call \in ToSet(Calls(text)) : CallOK(call)
      BY <3>1, TextCalls
    <3>3. replay = "same" => \A call \in ToSet(Calls(text)) : Harmless(before, call)
      BY <1>3, <2>2 DEF LineOK
    <3>4. todo' = Calls(text)
      BY <1>1, <2>2
    <3> QED
      BY <3>2, <3>3, <3>4
  <2> QED
    BY <2>1, <2>2
<1>6. Underway'
  BY <1>1, <1>2, <1>4, <1>5 DEF Underway
<1>7. replay = "same" => Replaying'
  BY <1>1, <1>4, <1>5 DEF ReplayInv, Replaying
<1> QED
  BY <1>1, <1>6, <1>7 DEF ReplayInv

LEMMA ApplyKeeps ==
  ASSUME ReplayInv, Apply
  PROVE  ReplayInv'
<1> DEFINE call == Head(todo)
           rest == Tail(todo)
<1>1. /\ pol' = Execute(pol, call) /\ todo' = rest /\ todo # <<>>
      /\ lines' = lines /\ before' = before /\ replay' = replay
  BY DEF Apply
<1>2. call \in ToSet(todo) /\ IsList(rest) /\ ToSet(rest) \subseteq ToSet(todo)
  BY <1>1, RestIsList DEF ReplayInv, Underway
<1>3. /\ CallOK(call) /\ \A c \in ToSet(rest) : CallOK(c)
      /\ replay = "same" =>
           Harmless(before, call) /\ \A c \in ToSet(rest) : Harmless(before, c)
  BY <1>2 DEF ReplayInv, Underway, Replaying
<1> HIDE DEF call, rest
<1>4. PolicyOK(pol') /\ PolicyOK(before')
  BY <1>1, <1>3, ExecutedOK DEF ReplayInv
<1>5. Underway'
  BY <1>1, <1>2, <1>3 DEF ReplayInv, Underway
<1>6. replay = "same" => Replaying'
  <2>1. replay = "same" => Decides(pol', before)
    BY <1>1, <1>3, HarmlessIs DEF ReplayInv, Replaying
  <2> QED
    BY <1>1, <1>3, <2>1 DEF ReplayInv, Replaying
<1> QED
  BY <1>1, <1>4, <1>5, <1>6 DEF ReplayInv

LEMMA DumpKeeps ==
  ASSUME ReplayInv, NEW onto \in {"same", "bare"}, Dump(onto)
  PROVE  ReplayInv'
<1>1. /\ lines' = print_rules(pol) /\ pol' = IF onto = "same" THEN pol ELSE Bare
      /\ before' = pol /\ replay' = onto /\ todo' = todo /\ todo = <<>>
  BY DEF Dump, Idle
<1>2. PolicyOK(pol') /\ PolicyOK(before')
  BY <1>1, PoliciesAssumption DEF ReplayInv
<1>3. IsList(lines') /\ \A text \in ToSet(lines') : LineOK(before', text)
  BY <1>1, PrintedOK DEF ReplayInv, AllOK
<1>4. \A text \in ToSet(lines') : IsText(text)
  BY <1>3 DEF LineOK
<1>5. Underway'
  BY <1>1, <1>3, <1>4, NothingUnderway DEF Underway
<1>6. replay' = "same" => Replaying'
  BY <1>1, <1>3, NothingUnderway, DecidesItself DEF Replaying
<1> QED
  BY <1>2, <1>5, <1>6 DEF ReplayInv

LEMMA ReplayNext ==
  ASSUME ReplayInv, [Next]_vars
  PROVE  ReplayInv'
<1>1. ASSUME NEW r \in Rules, Begin(RuleText(r), r)
      PROVE  ReplayInv'
  BY <1>1, RuleTextIs, BeginKeeps
<1>2. ASSUME NEW text \in Texts, Begin(text, NoStatement)
      PROVE  ReplayInv'
  <2>1. IsText(text)
    BY TextsAssumption DEF IsText, IsList
  <2> QED
    BY <1>2, <2>1, BeginKeeps
<1>3. CASE UNCHANGED vars
  BY <1>3 DEF vars, ReplayInv, Underway, Replaying
<1> QED
  BY <1>1, <1>2, <1>3, ReadLineKeeps, ApplyKeeps, DumpKeeps DEF Next

\* What the invariant says at the end of a replay.
LEMMA DecidesTheSame ==
  ASSUME ReplayInv
  PROVE  ReplayChangesNothing
<1> SUFFICES ASSUME Replayed("same")
             PROVE  ReplayChangesNothing
  BY DEF ReplayChangesNothing
<1>1. Decides(pol, before)
  BY DEF Replayed, ReplayInv, Replaying
<1>2. Like(pol, before)
  BY <1>1 DEF Decides
<1>3. \A f \in {"flavor", "attrs", "permissive", "type_rules", "names", "genfs"} :
         pol[f] = before[f]
  BY <1>2 DEF Like, Fields
<1>4. \A k : NamedVector(pol, k) = NamedVector(before, k)
  <2>1. pol.av = before.av
    BY <1>2, LikeHas
  <2> QED
    BY <2>1 DEF NamedVector, Vector
<1>5. /\ DOMAIN pol.xperms = DOMAIN before.xperms
      /\ \A k \in DOMAIN before.xperms :
           ~HasNetlink(before, k) => Commands(pol, k) = Commands(before, k)
  BY <1>1 DEF Decides
<1> QED
  BY <1>3, <1>4, <1>5 DEF ReplayChangesNothing

\* A policy that is given its own rules as a rule file decides as before, for
\* every policy, and whatever was carried out before the dump.
THEOREM ReplayChangesNothingAlways == Spec => []ReplayChangesNothing
<1>1. Init => ReplayInv
  BY ReplayInit
<1>2. ReplayInv /\ [Next]_vars => ReplayInv'
  BY ReplayNext
<1>3. ReplayInv => ReplayChangesNothing
  BY DecidesTheSame
<1> QED
  BY <1>1, <1>2, <1>3, PTL DEF Spec
================================================================================
