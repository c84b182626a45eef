----------------------------- MODULE Session_proofs -----------------------------
(***************************************************************************)
(* Proofs about Session: what parse_args makes of a command line of any    *)
(* length, and what holds of any number of invocations over any files.     *)
(***************************************************************************)
EXTENDS Session, Lists_proofs

(***************************************************************************)
(* There is a function as Taken defines it.                                *)
(***************************************************************************)
IsTaken(config, words, m) ==
  config = [n \in 0..m |-> IF n = 0 THEN NoConfig ELSE Take(config[n - 1], words[n])]

LEMMA TakenExists ==
  ASSUME NEW words, NEW m \in Nat
  PROVE  \E config : IsTaken(config, words, m)
<1> DEFINE Without == {n \in Nat : ~ \E config : IsTaken(config, words, n)}
<1>1. SUFFICES ASSUME Without # {}
               PROVE  FALSE
  OBVIOUS
<1>2. PICK n \in Without : \A k \in Without : n <= k
  BY <1>1, LeastNumber
<1>3. n \in Nat /\ ~ \E config : IsTaken(config, words, n)
  BY <1>2
<1>4. CASE n = 0
  <2>1. IsTaken([k \in 0..0 |-> NoConfig], words, 0)
    BY DEF IsTaken
  <2> QED
    BY <1>3, <1>4, <2>1
<1>5. CASE n # 0
  <2>1. n - 1 \in Nat /\ n - 1 \notin Without
    BY <1>2, <1>3, <1>5
  <2>2. PICK shorter : IsTaken(shorter, words, n - 1)
    BY <2>1
  <2> DEFINE longer == [k \in 0..n |-> IF k = n THEN Take(shorter[n - 1], words[n])
                                                ELSE shorter[k]]
  <2>3. \A k \in 0..(n - 1) :
          shorter[k] = IF k = 0 THEN NoConfig ELSE Take(shorter[k - 1], words[k])
    BY <2>1, <2>2 DEF IsTaken
  <2>4. \A k \in 0..n :
          longer[k] = IF k = 0 THEN NoConfig ELSE Take(longer[k - 1], words[k])
    <3> TAKE k \in 0..n
    <3>1. CASE k = n
      BY <1>3, <1>5, <3>1
    <3>2. CASE k # n
      <4>1. k \in 0..(n - 1) /\ longer[k] = shorter[k]
        BY <1>3, <3>2
      <4>2. k # 0 => longer[k - 1] = shorter[k - 1]
        BY <1>3, <4>1
      <4> QED
        BY <2>3, <4>1, <4>2
    <3> QED
      BY <3>1, <3>2
  <2>5. IsTaken(longer, words, n)
    <3> HIDE DEF longer
    <3>1. longer = [k \in 0..n |-> longer[k]]
      BY DEF longer
    <3> QED
      BY <2>4, <3>1 DEF IsTaken
  <2> QED
    BY <1>3, <2>5
<1> QED
  BY <1>4, <1>5

LEMMA TakenIs ==
  ASSUME NEW words, Len(words) \in Nat
  PROVE  /\ Taken(words)[0] = NoConfig
         /\ \A n \in 1..Len(words) :
              Taken(words)[n] = Take(Taken(words)[n - 1], words[n])
<1>1. PICK config : IsTaken(config, words, Len(words))
  BY TakenExists
<1>2. IsTaken(Taken(words), words, Len(words))
  BY <1>1 DEF Taken, IsTaken
<1> QED
  BY <1>2 DEF IsTaken

(***************************************************************************)
(* What the configuration c has of the first n words, as long as they were *)
(* no error: the value that is waited for, each statement, --magisk, and   *)
(* the value of each --apply.                                              *)
(***************************************************************************)
Has(seq, x) == \E k \in 1..Len(seq) : seq[k] = x

Waits(c, words, n) ==
  c.waits = IF n > 0 /\ words[n] \in ValueOptions THEN words[n] ELSE NoFile
Collects(c, words, n) ==
  /\ \A i \in 1..n : words[i] \in Statements => Has(c.policies, words[i])
  /\ \A i \in 1..n : words[i] = "--magisk" => "--magisk" \in c.flags
  /\ \A i \in 1..(n - 1) : words[i] = "--apply" => Has(c.apply, words[i + 1])
Follows(c, words, n) ==
  /\ c \in CliConfig
  /\ c.exit = NoFile => Waits(c, words, n) /\ Collects(c, words, n)

LEMMA AppendHas ==
  ASSUME NEW S, NEW seq \in Seq(S), NEW x \in S
  PROVE  /\ Append(seq, x) \in Seq(S)
         /\ Has(Append(seq, x), x)
         /\ \A y : Has(seq, y) => Has(Append(seq, x), y)
<1>1. /\ Append(seq, x) \in Seq(S)
      /\ Len(seq) \in Nat
      /\ Len(Append(seq, x)) = Len(seq) + 1
      /\ Append(seq, x)[Len(seq) + 1] = x
      /\ \A k \in 1..Len(seq) : Append(seq, x)[k] = seq[k]
  OBVIOUS
<1>2. Has(Append(seq, x), x)
  BY <1>1 DEF Has
<1>3. ASSUME NEW y, Has(seq, y)
      PROVE  Has(Append(seq, x), y)
  <2>1. PICK k \in 1..Len(seq) : seq[k] = y
    BY <1>3 DEF Has
  <2>2. k \in 1..Len(Append(seq, x)) /\ Append(seq, x)[k] = y
    BY <1>1, <2>1
  <2> QED
    BY <2>2 DEF Has
<1> QED
  BY <1>1, <1>2, <1>3

LEMMA NoConfigFollows ==
  ASSUME NEW words
  PROVE  Follows(NoConfig, words, 0)
<1>1. <<>> \in Seq(STRING) /\ <<>> \in Seq(Statements)
  OBVIOUS
<1>2. NoConfig \in CliConfig
  <2>1. {} \in SUBSET Flags
    OBVIOUS
  <2>2. NoFile \in Files \cup {NoFile}
    OBVIOUS
  <2>3. NoFile \in ValueOptions \cup {NoFile}
    OBVIOUS
  <2>4. NoFile \in {NoFile, "ok", "error"}
    OBVIOUS
  <2> QED
    BY <1>1, <2>1, <2>2, <2>3, <2>4 DEF NoConfig, CliConfig
<1>3. Waits(NoConfig, words, 0)
  BY DEF Waits, NoConfig
<1>4. Collects(NoConfig, words, 0)
  BY DEF Collects
<1> QED
  BY <1>2, <1>3, <1>4 DEF Follows

\* One more word.  The word before decides if it is a value.
LEMMA TakeFollows ==
  ASSUME NEW words \in Commands, NEW n \in 1..Len(words), NEW c,
         Follows(c, words, n - 1)
  PROVE  Follows(Take(c, words[n]), words, n)
<1> DEFINE word == words[n]
           d    == Take(c, word)
<1>1. /\ words \in Seq(STRING) /\ Len(words) \in Nat /\ n \in Nat /\ n > 0
      /\ word \in STRING
  BY CommandsAssumption
<1>2. c \in CliConfig
  BY DEF Follows
<1>3. CASE c.exit # NoFile
  BY <1>2, <1>3 DEF Take, Follows
<1>4. CASE c.exit = NoFile /\ c.waits # NoFile
  <2>1. /\ n - 1 > 0 /\ words[n - 1] \in ValueOptions /\ c.waits = words[n - 1]
        /\ Collects(c, words, n - 1)
    BY <1>4 DEF Follows, Waits
  <2>2. /\ word \notin Flags \cup ValueOptions \cup Statements \cup {NoFile}
        /\ c.waits \in {"--load", "--save"} => word \in Files
    <3>1. n - 1 \in 1..(Len(words) - 1) /\ (n - 1) + 1 = n
      BY <1>1, <2>1
    <3> QED
      BY <2>1, <3>1, CommandsAssumption
  <2>3. /\ d = Value(c, word)
        /\ d \in CliConfig /\ d.waits = NoFile
        /\ d.policies = c.policies /\ d.flags = c.flags
        /\ \A y : Has(c.apply, y) => Has(d.apply, y)
        /\ c.waits = "--apply" => Has(d.apply, word)
    <3>1. /\ Append(c.apply, word) \in Seq(STRING)
          /\ Has(Append(c.apply, word), word)
          /\ \A y : Has(c.apply, y) => Has(Append(c.apply, word), y)
      <4>1. c.apply \in Seq(STRING)
        BY <1>2 DEF CliConfig
      <4> QED
        BY <1>1, <4>1, AppendHas
    <3>2. d = Value(c, word)
      BY <1>4 DEF Take
    <3>3. c.waits \in ValueOptions
      BY <2>1
    <3>4. CASE c.waits = "--load"
      BY <1>1, <1>2, <2>2, <3>2, <3>4 DEF Value, CliConfig
    <3>5. CASE c.waits = "--save"
      BY <1>1, <1>2, <2>2, <3>2, <3>5 DEF Value, CliConfig
    <3>6. CASE c.waits = "--apply"
      BY <1>1, <1>2, <3>1, <3>2, <3>6 DEF Value, CliConfig
    <3> QED
      BY <3>3, <3>4, <3>5, <3>6 DEF ValueOptions
  <2>4. Collects(d, words, n)
    <3> HIDE DEF d
    <3>1. \A i \in 1..n : words[i] \in Statements => Has(d.policies, words[i])
      BY <1>1, <2>1, <2>2, <2>3 DEF Collects
    <3>2. \A i \in 1..n : words[i] = "--magisk" => "--magisk" \in d.flags
      BY <1>1, <2>1, <2>2, <2>3 DEF Collects, Flags
    <3>3. ASSUME NEW i \in 1..(n - 1), words[i] = "--apply"
          PROVE  Has(d.apply, words[i + 1])
      <4>1. CASE i = n - 1
        <5>1. words[i + 1] = word
          BY <1>1, <4>1
        <5> QED
          BY <2>1, <2>3, <3>3, <4>1, <5>1
      <4>2. CASE i # n - 1
        <5>1. i \in 1..((n - 1) - 1)
          BY <1>1, <4>2
        <5> QED
          BY <2>1, <2>3, <3>3, <5>1 DEF Collects
      <4> QED
        BY <4>1, <4>2
    <3> QED
      BY <3>1, <3>2, <3>3 DEF Collects
  <2> QED
    BY <1>1, <2>2, <2>3, <2>4 DEF Follows, Waits
<1>5. CASE c.exit = NoFile /\ c.waits = NoFile
  <2>1. d = Option(c, word)
    BY <1>5 DEF Take
  <2>2. Collects(c, words, n - 1)
    BY <1>5 DEF Follows
  <2>3. n - 1 > 0 => words[n - 1] \notin ValueOptions
    BY <1>1, <1>5 DEF Follows, Waits, ValueOptions, NoFile
  \* All that is left to show of d.
  <2>4. ASSUME d \in CliConfig,
               d.exit = NoFile => Waits(d, words, n),
               d.apply = c.apply,
               \A y : Has(c.policies, y) => Has(d.policies, y),
               c.flags \subseteq d.flags,
               (d.exit = NoFile /\ word \in Statements) => Has(d.policies, word),
               (d.exit = NoFile /\ word = "--magisk") => "--magisk" \in d.flags
        PROVE  Follows(d, words, n)
    <3> HIDE DEF d
    <3>1. ASSUME d.exit = NoFile
          PROVE  \A i \in 1..n : words[i] \in Statements => Has(d.policies, words[i])
      BY <1>1, <2>2, <2>4, <3>1 DEF Collects
    <3>2. ASSUME d.exit = NoFile
          PROVE  \A i \in 1..n : words[i] = "--magisk" => "--magisk" \in d.flags
      BY <1>1, <2>2, <2>4, <3>2 DEF Collects
    <3>3. ASSUME NEW i \in 1..(n - 1), words[i] = "--apply"
          PROVE  Has(d.apply, words[i + 1])
      <4>1. i # n - 1
        BY <1>1, <2>3, <3>3 DEF ValueOptions
      <4>2. i \in 1..((n - 1) - 1)
        BY <1>1, <4>1
      <4> QED
        BY <2>2, <2>4, <3>3, <4>2 DEF Collects
    <3> QED
      BY <2>4, <3>1, <3>2, <3>3 DEF Follows, Collects
  <2>5. CASE word \in ValueOptions
    <3>1. word \notin Flags /\ word \notin Statements /\ word # "--magisk"
      BY <2>5, CommandsAssumption DEF Flags, ValueOptions
    <3>2. d = [c EXCEPT !.waits = word]
      BY <2>1, <2>5, <3>1 DEF Option
    <3>3. d \in CliConfig /\ Waits(d, words, n)
      BY <1>1, <1>2, <2>5, <3>2 DEF CliConfig, Waits
    <3>4. d.apply = c.apply /\ d.policies = c.policies /\ d.flags = c.flags
      BY <1>2, <3>2 DEF CliConfig
    <3> QED
      BY <2>4, <3>1, <3>3, <3>4
  <2>6. CASE word \in Flags
    <3>1. word \notin ValueOptions /\ word \notin Statements
      BY <2>6, CommandsAssumption DEF Flags, ValueOptions
    <3>2. d = [c EXCEPT !.flags = @ \cup {word}]
      BY <2>1, <2>6, <3>1 DEF Option
    <3>3. d \in CliConfig /\ Waits(d, words, n)
      BY <1>1, <1>2, <1>5, <2>6, <3>1, <3>2 DEF CliConfig, Waits
    <3>4. d.apply = c.apply /\ d.policies = c.policies /\ d.flags = c.flags \cup {word}
      BY <1>2, <3>2 DEF CliConfig
    <3> QED
      BY <2>4, <3>1, <3>3, <3>4
  <2>7. CASE word \in Statements
    <3>1. word \notin ValueOptions /\ word \notin Flags
      BY <2>7, CommandsAssumption
    <3>2. d = [c EXCEPT !.policies = Append(@, word)]
      BY <2>1, <2>7, <3>1 DEF Option
    <3>3. /\ Append(c.policies, word) \in Seq(Statements)
          /\ Has(Append(c.policies, word), word)
          /\ \A y : Has(c.policies, y) => Has(Append(c.policies, word), y)
      <4>1. c.policies \in Seq(Statements)
        BY <1>2 DEF CliConfig
      <4> QED
        BY <2>7, <4>1, AppendHas
    <3>4. /\ d.apply = c.apply /\ d.policies = Append(c.policies, word)
          /\ d.flags = c.flags /\ word # "--magisk"
      BY <1>2, <3>1, <3>2 DEF CliConfig, Flags
    <3>5. d \in CliConfig /\ Waits(d, words, n)
      BY <1>1, <1>2, <1>5, <3>1, <3>2, <3>3 DEF CliConfig, Waits
    <3> QED
      BY <2>4, <3>3, <3>4, <3>5
  <2>8. CASE word \notin ValueOptions \cup Flags \cup Statements
    <3>1. d = [c EXCEPT !.exit = IF word = "--help" THEN "ok" ELSE "error"]
      BY <2>1, <2>8 DEF Option
    <3>2. /\ d \in CliConfig /\ d.exit # NoFile
          /\ d.apply = c.apply /\ d.policies = c.policies /\ d.flags = c.flags
      BY <1>2, <3>1 DEF CliConfig, NoFile
    <3> QED
      BY <2>4, <3>2
  <2> QED
    BY <2>5, <2>6, <2>7, <2>8
<1> QED
  BY <1>3, <1>4, <1>5

\* What parse_args makes of a command line: it is refused, or the configuration
\* has all that the words ask for.
LEMMA ParseArgsFollows ==
  ASSUME NEW words \in Commands
  PROVE  Follows(ParseArgs(words), words, Len(words))
<1>1. words \in Seq(STRING) /\ Len(words) \in Nat
  BY CommandsAssumption
<1> DEFINE Config(n) == Taken(words)[n]
           Wrong == {n \in 0..Len(words) : ~ Follows(Config(n), words, n)}
<1>2. Wrong = {}
  <2>1. SUFFICES ASSUME Wrong # {}
                 PROVE  FALSE
    OBVIOUS
  <2>2. PICK n \in Wrong : \A k \in Wrong : n <= k
    <3>1. Wrong \subseteq Nat
      OBVIOUS
    <3> QED
      BY <2>1, <3>1, LeastNumber
  <2>3. n \in 0..Len(words) /\ ~ Follows(Config(n), words, n)
    BY <2>2
  <2>4. CASE n = 0
    BY <1>1, <2>3, <2>4, TakenIs, NoConfigFollows
  <2>5. CASE n # 0
    <3>1. n \in 1..Len(words) /\ n - 1 \in 0..Len(words) /\ n - 1 \notin Wrong
      BY <1>1, <2>2, <2>3, <2>5
    <3>2. Follows(Config(n - 1), words, n - 1)
      BY <3>1
    <3>3. Config(n) = Take(Config(n - 1), words[n])
      BY <1>1, <3>1, TakenIs
    <3> HIDE DEF Config
    <3> QED
      BY <2>3, <3>1, <3>2, <3>3, TakeFollows
  <2> QED
    BY <2>4, <2>5
<1>3. Follows(Config(Len(words)), words, Len(words))
  BY <1>1, <1>2
<1> HIDE DEF Config
<1>4. ParseArgs(words) = IF words = <<>> \/ (Config(Len(words)).waits # NoFile
                                              /\ Config(Len(words)).exit = NoFile)
                         THEN [Config(Len(words)) EXCEPT !.exit = "error"]
                         ELSE Config(Len(words))
  BY DEF ParseArgs, Config
<1>5. CASE ParseArgs(words) = Config(Len(words))
  BY <1>3, <1>5
<1>6. CASE ParseArgs(words) = [Config(Len(words)) EXCEPT !.exit = "error"]
  BY <1>3, <1>6 DEF Follows, CliConfig, NoFile
<1> QED
  BY <1>4, <1>5, <1>6

(***************************************************************************)
(* The state of one run, as far as it depends on that run alone: what its  *)
(* policy has when it comes to each of its steps.                          *)
(***************************************************************************)
Early   == {"start", "run", "reading", "rules"}
Late    == {"live", "save", "truncate", "write", "close", "close_short"}
Writing == {"truncate", "write", "close", "close_short"}

HasBuiltin(p) == "--magisk" \in cfg[p].flags => MagiskRules \subseteq db[p]
HasApplied(p) ==
  \A k \in 1..Len(cfg[p].apply) : k < next[p] =>
    cfg[p].apply[k] \in DOMAIN RuleFiles /\ RuleFiles[cfg[p].apply[k]] \subseteq db[p]
HasAll(p) == /\ next[p] > Len(cfg[p].apply)
             /\ ToSet(cfg[p].policies) \subseteq db[p]

Gathers(p) ==
  /\ pc[p] \in Running => Collects(cfg[p], args[p], Len(args[p]))
  /\ pc[p] \in Early => next[p] = 1
  /\ pc[p] \in {"apply"} \cup Late => HasBuiltin(p) /\ HasApplied(p)
  /\ pc[p] \in Late => HasAll(p)
  /\ pc[p] = "reading" => cfg[p].load # NoFile
  /\ (pc[p] \in {"rules", "apply"} \cup Late /\ cfg[p].load = NoFile) =>
       base[p] \subseteq db[p]

\* The files: those that only well ended runs have written are whole.
IsWhole(f) ==
  (WritersOf(f) # {} /\ \A p \in WritersOf(f) : pc[p] \in {"close", "ok"}) =>
     \E p \in WritersOf(f) : disk[f] = Whole(db[p])
Writers ==
  /\ \A p \in opened : pc[p] \in Writing \cup Ended
  /\ \A p \in Invocations : pc[p] \in Writing => p \in opened
  /\ \A f \in Files : IsWhole(f)

SessionInv == SessionTypeOK /\ (\A p \in Invocations : Gathers(p)) /\ Writers

LEMMA InitSession == Init => SessionInv
<1> SUFFICES ASSUME Init
             PROVE  SessionInv
  OBVIOUS
<1>1. NoConfig \in CliConfig
  BY NoConfigFollows DEF Follows
<1>2. SessionTypeOK
  <2>1. Len(NoConfig.apply) = 0
    BY DEF NoConfig
  <2> QED
    BY <1>1, <2>1, RulesAssumption DEF Init, SessionTypeOK
<1>3. \A p \in Invocations : Gathers(p)
  BY DEF Init, Gathers, Running, Early, Late
<1>4. Writers
  BY DEF Init, Writers, Writing, IsWhole, WritersOf
<1> QED
  BY <1>2, <1>3, <1>4 DEF SessionInv

(***************************************************************************)
(* Types.                                                                  *)
(***************************************************************************)
LEMMA ConfigParts ==
  ASSUME NEW c \in CliConfig
  PROVE  /\ c.flags \subseteq Flags
         /\ c.apply \in Seq(STRING) /\ Len(c.apply) \in Nat
         /\ ToSet(c.policies) \subseteq Rules
<1>1. c.policies \in Seq(Statements) /\ c.apply \in Seq(STRING) /\ c.flags \subseteq Flags
  BY DEF CliConfig
<1>2. \A i \in DOMAIN c.policies : c.policies[i] \in Statements
  BY <1>1
<1> QED
  BY <1>1, <1>2, RulesAssumption DEF ToSet

LEMMA ContentsParts ==
  /\ Empty \in Contents /\ Torn \in Contents /\ Absent \in Contents
  /\ \A S \in SUBSET Rules : Whole(S) \in Contents
  /\ \A c \in Contents : c.rules \subseteq Rules
<1>1. Empty \in Contents /\ Torn \in Contents /\ Absent \in Contents
  BY DEF Contents
<1>2. \A S \in SUBSET Rules : Whole(S) \in Contents
  BY DEF Contents
<1>3. ASSUME NEW c \in Contents
      PROVE  c.rules \subseteq Rules
  <2>1. CASE c \in {Absent, Empty, Torn}
    BY <2>1 DEF Absent, Empty, Torn
  <2>2. CASE c \in {Whole(S) : S \in SUBSET Rules}
    BY <2>2 DEF Whole
  <2> QED
    BY <1>3, <2>1, <2>2 DEF Contents
<1> QED
  BY <1>1, <1>2, <1>3

\* A reader gets rules there are, and nothing at all of no policy.
LEMMA PoliciesOfFile ==
  ASSUME NEW contents \in SUBSET Contents, NEW policy \in PoliciesIn(contents)
  PROVE  /\ policy \subseteq Rules
         /\ \E content \in contents : IsPolicy(content)
<1> DEFINE whole    == {d \in contents : IsPolicy(d)}
           policies == {c.rules : c \in whole}
<1>1. policy \in IF Cardinality(policies) > 1 THEN SUBSET UNION policies ELSE policies
  BY DEF PoliciesIn
<1>2. UNION policies \subseteq Rules
  BY ContentsParts
<1>3. policies # {}
  <2>1. CASE policies = {}
    <3>1. Cardinality(policies) = 0
      BY <2>1, FS_EmptySet
    <3> HIDE DEF policies
    <3> QED
      BY <1>1, <2>1, <3>1
  <2> QED
    BY <2>1
<1> QED
  BY <1>1, <1>2, <1>3

LEMMA PutOK ==
  ASSUME SessionTypeOK, NEW file, NEW content \in Contents, Put(file, content)
  PROVE  /\ disk' \in [Files -> Contents]
         /\ seen' \in [Invocations -> SUBSET Contents]
BY DEF SessionTypeOK, Put

\* What a command line becomes when a run starts with it.
LEMMA Started ==
  ASSUME SessionTypeOK, NEW p \in Invocations, Start(p)
  PROVE  /\ pc[p] = "start" /\ args'[p] \in Commands
         /\ cfg'[p] \in CliConfig /\ Follows(cfg'[p], args'[p], Len(args'[p]))
         /\ pc'[p] \in {"ok", "error", "run"}
         /\ pc'[p] = "run" => cfg'[p].exit = NoFile
         /\ args' = [args EXCEPT ![p] = args'[p]]
         /\ cfg' = [cfg EXCEPT ![p] = cfg'[p]]
         /\ pc' = [pc EXCEPT ![p] = pc'[p]]
<1>1. PICK words \in Commands :
        /\ args' = [args EXCEPT ![p] = words]
        /\ cfg' = [cfg EXCEPT ![p] = ParseArgs(words)]
        /\ Goto(p, IF ParseArgs(words).exit # NoFile THEN ParseArgs(words).exit
                   ELSE IF Cardinality(Sources(ParseArgs(words))) > 1 THEN "error"
                   ELSE "run")
  BY DEF Start
<1>2. Follows(ParseArgs(words), words, Len(words)) /\ ParseArgs(words) \in CliConfig
  BY ParseArgsFollows DEF Follows
<1>3. ParseArgs(words).exit \in {NoFile, "ok", "error"}
  BY <1>2 DEF CliConfig
<1>4. pc[p] = "start" /\ args'[p] = words /\ cfg'[p] = ParseArgs(words)
  BY <1>1 DEF Start, SessionTypeOK
<1>5. pc'[p] = IF ParseArgs(words).exit # NoFile THEN ParseArgs(words).exit
               ELSE IF Cardinality(Sources(ParseArgs(words))) > 1 THEN "error" ELSE "run"
  BY <1>1 DEF Goto, SessionTypeOK
<1>6. "run" # "ok" /\ "run" # "error"
  OBVIOUS
<1> HIDE DEF Follows
<1> QED
  BY <1>1, <1>2, <1>3, <1>4, <1>5, <1>6 DEF Goto

LEMMA TypeStep == SessionInv /\ [Next]_vars => SessionTypeOK'
<1> SUFFICES ASSUME SessionInv, [Next]_vars
             PROVE  SessionTypeOK'
  OBVIOUS
<1>1. SessionTypeOK /\ \A p \in Invocations : Gathers(p)
  BY DEF SessionInv
<1>2. ASSUME NEW p \in Invocations, Start(p)
      PROVE  SessionTypeOK'
  <2>1. /\ args'[p] \in Commands /\ cfg'[p] \in CliConfig
        /\ args' = [args EXCEPT ![p] = args'[p]]
        /\ cfg' = [cfg EXCEPT ![p] = cfg'[p]]
        /\ pc' = [pc EXCEPT ![p] = pc'[p]]
        /\ pc'[p] \in Running \cup Ended
    BY <1>1, <1>2, Started DEF Running, Ended
  <2>2. UNCHANGED <<next, db, seen, opened, disk, live, base>>
    BY <1>2 DEF Start
  <2>3. next[p] = 1 /\ Len(cfg'[p].apply) \in Nat
    BY <1>1, <1>2, <2>1, ConfigParts DEF Start, Gathers, Early
  <2>4. ASSUME NEW q \in Invocations
        PROVE  next'[q] \in 1..(Len(cfg'[q].apply) + 1)
    <3>1. CASE q = p
      BY <2>2, <2>3, <3>1
    <3>2. CASE q # p
      <4>1. cfg'[q] = cfg[q] /\ next'[q] = next[q]
        BY <1>1, <2>1, <2>2, <3>2 DEF SessionTypeOK
      <4> QED
        BY <1>1, <4>1 DEF SessionTypeOK
    <3> QED
      BY <3>1, <3>2
  <2> QED
    BY <1>1, <2>1, <2>2, <2>4 DEF SessionTypeOK
<1> USE DEF SessionTypeOK, Goto, Running, Ended
<1>3. ASSUME NEW p \in Invocations, LoadLivePolicy(p)
      PROVE  SessionTypeOK'
  BY <1>1, <1>3 DEF LoadLivePolicy
<1>4. ASSUME NEW p \in Invocations, LoadSplit(p)
      PROVE  SessionTypeOK'
  BY <1>1, <1>4 DEF LoadSplit
<1>5. ASSUME NEW p \in Invocations, OpenPolicy(p)
      PROVE  SessionTypeOK'
  <2>1. cfg[p].load \in Files
    <3>1. cfg[p] \in CliConfig
      BY <1>1
    <3>2. cfg[p].load # NoFile
      BY <1>5 DEF OpenPolicy, Sources
    <3> QED
      BY <3>1, <3>2 DEF CliConfig
  <2>2. /\ pc' \in [Invocations -> Running \cup Ended \cup {"start"}]
        /\ seen' \in [Invocations -> SUBSET Contents]
    <3>1. disk[cfg[p].load] \in Contents
      BY <1>1, <2>1
    <3>2. CASE disk[cfg[p].load] = Absent
      BY <1>1, <1>5, <3>2 DEF OpenPolicy
    <3>3. CASE disk[cfg[p].load] # Absent
      BY <1>1, <1>5, <3>1, <3>3 DEF OpenPolicy
    <3> QED
      BY <3>2, <3>3
  <2>3. UNCHANGED <<args, cfg, next, db, opened, disk, live, base>>
    BY <1>5 DEF OpenPolicy
  <2> QED
    BY <1>1, <2>2, <2>3
<1>6. ASSUME NEW p \in Invocations, ReadPolicy(p)
      PROVE  SessionTypeOK'
  <2>1. \A policy \in PoliciesIn(seen[p]) : policy \subseteq Rules
    BY <1>1, PoliciesOfFile
  <2> QED
    BY <1>1, <1>6, <2>1 DEF ReadPolicy
<1>7. ASSUME NEW p \in Invocations, PrintRules(p)
      PROVE  SessionTypeOK'
  BY <1>1, <1>7 DEF PrintRules
<1>8. ASSUME NEW p \in Invocations, Builtin(p)
      PROVE  SessionTypeOK'
  <2>1. db[p] \cup MagiskRules \in SUBSET Rules
    BY <1>1, RulesAssumption
  <2>2. db' \in [Invocations -> SUBSET Rules]
    <3>1. db' = db \/ db' = [db EXCEPT ![p] = db[p] \cup MagiskRules]
      BY <1>8 DEF Builtin, With
    <3> QED
      BY <1>1, <2>1, <3>1
  <2>3. pc' \in [Invocations -> Running \cup Ended \cup {"start"}]
    BY <1>1, <1>8 DEF Builtin
  <2>4. UNCHANGED <<args, cfg, next, seen, opened, disk, live, base>>
    BY <1>8 DEF Builtin
  <2> QED
    BY <1>1, <2>2, <2>3, <2>4
<1>9. ASSUME NEW p \in Invocations, ApplyFile(p)
      PROVE  SessionTypeOK'
  <2>1. /\ UNCHANGED <<args, cfg, seen, opened, disk, live, base>>
        /\ next' = [next EXCEPT ![p] = next[p] + 1]
        /\ next[p] <= Len(cfg[p].apply)
        /\ Len(cfg[p].apply) \in Nat
    BY <1>1, <1>9, ConfigParts DEF ApplyFile, Following
  <2>2. /\ db' \in [Invocations -> SUBSET Rules]
        /\ pc' \in [Invocations -> Running \cup Ended \cup {"start"}]
    <3> DEFINE file == cfg[p].apply[next[p]]
    <3>1. CASE file \in DOMAIN RuleFiles
      <4>1. RuleFiles[file] \subseteq Rules
        BY <3>1, RulesAssumption
      <4>2. db' = [db EXCEPT ![p] = db[p] \cup RuleFiles[file]] /\ pc' = pc
        BY <1>1, <1>9, <3>1 DEF ApplyFile, With
      <4> QED
        BY <1>1, <4>1, <4>2
    <3>2. CASE file \notin DOMAIN RuleFiles
      BY <1>1, <1>9, <3>2 DEF ApplyFile, Unreadable
    <3> QED
      BY <3>1, <3>2
  <2>3. next' \in [Invocations -> Nat]
    BY <1>1, <2>1
  <2>4. \A q \in Invocations : next'[q] \in 1..(Len(cfg'[q].apply) + 1)
    BY <1>1, <2>1
  <2> QED
    BY <1>1, <2>1, <2>2, <2>3, <2>4
<1>10. ASSUME NEW p \in Invocations, ApplyStatements(p)
       PROVE  SessionTypeOK'
  <2>1. ToSet(cfg[p].policies) \subseteq Rules
    BY <1>1, ConfigParts
  <2> QED
    BY <1>1, <1>10, <2>1 DEF ApplyStatements, With
<1>11. ASSUME NEW p \in Invocations, LoadLive(p)
       PROVE  SessionTypeOK'
  BY <1>1, <1>11 DEF LoadLive
<1>12. ASSUME NEW p \in Invocations, Save(p)
       PROVE  SessionTypeOK'
  BY <1>1, <1>12, PutOK, ContentsParts DEF Save
<1>13. ASSUME NEW p \in Invocations, Truncate(p)
       PROVE  SessionTypeOK'
  BY <1>1, <1>13, PutOK, ContentsParts DEF Truncate
<1>14. ASSUME NEW p \in Invocations, Write(p)
       PROVE  SessionTypeOK'
  BY <1>1, <1>14, PutOK, ContentsParts DEF Write, ShortWrite
<1>15. ASSUME NEW p \in Invocations, Close(p)
       PROVE  SessionTypeOK'
  BY <1>1, <1>15 DEF Close
<1>16. ASSUME NEW p \in Invocations, Kill(p)
       PROVE  SessionTypeOK'
  BY <1>1, <1>16 DEF Kill
<1>17. CASE UNCHANGED vars
  BY <1>1, <1>17 DEF vars
<1> QED
  BY <1>2, <1>3, <1>4, <1>5, <1>6, <1>7, <1>8, <1>9, <1>10, <1>11, <1>12, <1>13,
     <1>14, <1>15, <1>16, <1>17 DEF Next, Step

(***************************************************************************)
(* What a run has gathered.  A step of another run changes nothing in it.  *)
(***************************************************************************)
Same(q) == /\ pc'[q] = pc[q] /\ args'[q] = args[q] /\ cfg'[q] = cfg[q]
           /\ next'[q] = next[q] /\ db'[q] = db[q] /\ base'[q] = base[q]

LEMMA OthersSame ==
  ASSUME SessionTypeOK, NEW p \in Invocations, Step(p) \/ Kill(p)
  PROVE  \A q \in Invocations \ {p} : Same(q)
<1> TAKE q \in Invocations \ {p}
<1> USE DEF SessionTypeOK, Same, Goto
<1>1. CASE Start(p)
  BY <1>1 DEF Start
<1>2. CASE ReadPolicy(p)
  BY <1>2 DEF ReadPolicy
<1>3. CASE ApplyFile(p)
  BY <1>3 DEF ApplyFile
<1>4. CASE Save(p) \/ Truncate(p) \/ Write(p)
  BY <1>4 DEF Save, Truncate, Write
<1>5. CASE \/ LoadLivePolicy(p) \/ LoadSplit(p) \/ OpenPolicy(p) \/ PrintRules(p)
           \/ Builtin(p) \/ ApplyStatements(p) \/ LoadLive(p) \/ Close(p) \/ Kill(p)
  BY <1>5 DEF LoadLivePolicy, LoadSplit, OpenPolicy, PrintRules, Builtin,
              ApplyStatements, LoadLive, Close, Kill
<1> QED
  BY <1>1, <1>2, <1>3, <1>4, <1>5 DEF Step

LEMMA SameGathers ==
  ASSUME NEW q \in Invocations, Gathers(q), Same(q)
  PROVE  Gathers(q)'
BY DEF Same, Gathers, HasBuiltin, HasApplied, HasAll

LEMMA GatherStep == SessionInv /\ [Next]_vars => \A p \in Invocations : Gathers(p)'
<1> SUFFICES ASSUME SessionInv, [Next]_vars
             PROVE  \A p \in Invocations : Gathers(p)'
  OBVIOUS
<1>1. SessionTypeOK /\ \A p \in Invocations : Gathers(p)
  BY DEF SessionInv
<1>2. CASE UNCHANGED vars
  BY <1>1, <1>2, SameGathers DEF vars, Same
<1>3. SUFFICES ASSUME NEW p \in Invocations, Step(p) \/ Kill(p)
               PROVE  Gathers(p)'
  BY <1>1, <1>2, OthersSame, SameGathers DEF Next
<1>4. cfg[p] \in CliConfig /\ Len(cfg[p].apply) \in Nat
  BY <1>1, ConfigParts DEF SessionTypeOK
<1>5. Gathers(p)
  BY <1>1
<1> DEFINE Own == <<args[p], cfg[p], next[p]>>
<1>6. CASE Start(p)
  <2>1. /\ Follows(cfg'[p], args'[p], Len(args'[p]))
        /\ pc'[p] \in {"ok", "error", "run"}
        /\ pc'[p] = "run" => cfg'[p].exit = NoFile
        /\ pc[p] = "start" /\ next'[p] = next[p]
    BY <1>1, <1>6, Started DEF Start
  <2>2. pc'[p] \in Running => Collects(cfg'[p], args'[p], Len(args'[p]))
    BY <2>1 DEF Follows, Running
  <2>3. next'[p] = 1
    BY <1>5, <2>1 DEF Gathers, Early
  <2> QED
    BY <2>1, <2>2, <2>3 DEF Gathers, Late
<1> USE DEF SessionTypeOK, Goto, Running, Ended, Early, Late
<1>7. CASE LoadLivePolicy(p)
  <2>1. /\ pc[p] = "run" /\ pc'[p] \in {"rules", "error"}
        /\ Own' = Own
        /\ pc'[p] = "rules" => base'[p] = db'[p]
    BY <1>1, <1>7 DEF LoadLivePolicy
  <2> QED
    BY <1>5, <2>1 DEF Gathers
<1>8. CASE LoadSplit(p) \/ Kill(p) \/ PrintRules(p)
  <2>1. /\ pc[p] \in Running \cup {"start"} /\ pc'[p] \in Ended
        /\ Own' = Own
    BY <1>1, <1>8 DEF LoadSplit, Kill, PrintRules
  <2> QED
    BY <1>5, <2>1 DEF Gathers
<1>9. CASE OpenPolicy(p)
  <2>1. /\ pc[p] = "run" /\ pc'[p] \in {"reading", "error"}
        /\ Own' = Own
    BY <1>1, <1>9 DEF OpenPolicy
  <2>2. cfg[p].load # NoFile
    BY <1>9 DEF OpenPolicy, Sources
  <2> QED
    BY <1>5, <2>1, <2>2 DEF Gathers
<1>10. CASE ReadPolicy(p)
  <2>1. /\ pc[p] = "reading" /\ pc'[p] \in {"rules", "error"}
        /\ Own' = Own
    BY <1>1, <1>10 DEF ReadPolicy
  <2> QED
    BY <1>5, <2>1 DEF Gathers
<1>11. CASE Builtin(p)
  <2>1. /\ pc[p] = "rules" /\ pc'[p] = "apply"
        /\ Own' = Own /\ base'[p] = base[p]
        /\ db'[p] = IF "--magisk" \in cfg[p].flags THEN db[p] \cup MagiskRules ELSE db[p]
    BY <1>1, <1>11 DEF Builtin, With
  <2>2. next[p] = 1
    BY <1>5, <2>1 DEF Gathers
  <2> QED
    BY <1>4, <1>5, <2>1, <2>2 DEF Gathers, HasBuiltin, HasApplied
<1>12. CASE ApplyFile(p)
  <2> DEFINE file == cfg[p].apply[next[p]]
  <2>1. /\ pc[p] = "apply" /\ args'[p] = args[p] /\ cfg'[p] = cfg[p]
        /\ base'[p] = base[p] /\ next'[p] = next[p] + 1
        /\ next[p] <= Len(cfg[p].apply) /\ next[p] \in Nat
    BY <1>1, <1>12 DEF ApplyFile, Following
  <2>2. CASE file \in DOMAIN RuleFiles
    <3>1. db'[p] = db[p] \cup RuleFiles[file] /\ pc'[p] = "apply"
      BY <1>1, <1>12, <2>1, <2>2 DEF ApplyFile, With
    <3>2. HasBuiltin(p)' /\ HasApplied(p)'
      <4>1. HasBuiltin(p) /\ HasApplied(p)
        BY <1>5, <2>1 DEF Gathers
      <4>2. ASSUME NEW k \in 1..Len(cfg[p].apply), k < next'[p]
            PROVE  /\ cfg[p].apply[k] \in DOMAIN RuleFiles
                   /\ RuleFiles[cfg[p].apply[k]] \subseteq db'[p]
        <5>1. CASE k = next[p]
          BY <2>2, <3>1, <5>1
        <5>2. CASE k # next[p]
          <6>1. k < next[p]
            BY <1>4, <2>1, <4>2, <5>2
          <6> QED
            BY <3>1, <4>1, <6>1 DEF HasApplied
        <5> QED
          BY <5>1, <5>2
      <4> QED
        BY <2>1, <3>1, <4>1, <4>2 DEF HasBuiltin, HasApplied
    <3>3. cfg[p].load = NoFile => base'[p] \subseteq db'[p]
      BY <1>5, <2>1, <3>1 DEF Gathers
    <3> QED
      BY <1>5, <2>1, <3>1, <3>2, <3>3 DEF Gathers
  <2>3. CASE file \notin DOMAIN RuleFiles
    <3>1. pc'[p] = "error"
      BY <1>1, <1>12, <2>3 DEF ApplyFile, Unreadable
    <3> QED
      BY <3>1 DEF Gathers
  <2> QED
    BY <2>2, <2>3
<1>13. CASE ApplyStatements(p)
  <2>1. /\ pc[p] = "apply" /\ pc'[p] = "live" /\ base'[p] = base[p]
        /\ Own' = Own /\ next[p] > Len(cfg[p].apply)
        /\ db'[p] = db[p] \cup ToSet(cfg[p].policies)
    BY <1>1, <1>13 DEF ApplyStatements, With
  <2> HIDE DEF SessionTypeOK
  <2> QED
    BY <1>5, <2>1 DEF Gathers, HasBuiltin, HasApplied, HasAll
<1>14. CASE LoadLive(p) \/ Save(p) \/ Truncate(p) \/ Write(p) \/ Close(p)
  <2>1. /\ pc[p] \in Late /\ pc'[p] \in Late \cup Ended
        /\ Own' = Own /\ db'[p] = db[p] /\ base'[p] = base[p]
    <3>1. CASE LoadLive(p)
      BY <1>1, <3>1 DEF LoadLive
    <3>2. CASE Save(p)
      BY <1>1, <3>2 DEF Save
    <3>3. CASE Truncate(p)
      BY <1>1, <3>3 DEF Truncate
    <3>4. CASE Write(p)
      BY <1>1, <3>4 DEF Write, ShortWrite
    <3>5. CASE Close(p)
      BY <1>1, <3>5 DEF Close
    <3> QED
      BY <1>14, <3>1, <3>2, <3>3, <3>4, <3>5
  <2> HIDE DEF SessionTypeOK
  <2> QED
    BY <1>5, <2>1 DEF Gathers, HasBuiltin, HasApplied, HasAll
<1> QED
  BY <1>3, <1>6, <1>7, <1>8, <1>9, <1>10, <1>11, <1>12, <1>13, <1>14 DEF Step

(***************************************************************************)
(* The files.  A step that writes no file, of a run that has opened none,  *)
(* or that only ends in another way than well, keeps what holds of them.   *)
(***************************************************************************)
LEMMA QuietSteps ==
  ASSUME SessionTypeOK, Writers, NEW p \in Invocations,
         \A q \in Invocations \ {p} : Same(q),
         UNCHANGED <<disk, opened>>,
         p \notin opened /\ pc'[p] \notin Writing
  PROVE  Writers'
<1>1. \A q \in opened : q \in Invocations \ {p} /\ Same(q)
  BY DEF SessionTypeOK
<1>2. \A q \in opened : pc'[q] = pc[q] /\ cfg'[q] = cfg[q] /\ db'[q] = db[q]
  BY <1>1 DEF Same
<1>3. \A q \in Invocations : pc'[q] \in Writing => q \in opened'
  BY DEF Writers, Same
<1>4. \A f \in Files : WritersOf(f)' = WritersOf(f) /\ WritersOf(f) \subseteq opened
  BY <1>2 DEF WritersOf
<1>5. ASSUME NEW f \in Files
      PROVE  IsWhole(f)'
  BY <1>2, <1>4 DEF Writers, IsWhole
<1> QED
  BY <1>2, <1>3, <1>5 DEF Writers

\* A step of a run that has opened its file, or does so: the others' files stay.
LEMMA WriterSteps ==
  ASSUME SessionTypeOK, Writers, NEW p \in Invocations,
         \A q \in Invocations \ {p} : Same(q),
         cfg'[p] = cfg[p], db'[p] = db[p],
         opened' = opened \cup {p},
         pc'[p] \in Writing \cup Ended,
         \A f \in Files : f # cfg[p].save => disk'[f] = disk[f],
         \/ pc'[p] \notin {"close", "ok"}
         \/ cfg[p].save \in Files => disk'[cfg[p].save] = Whole(db[p])
         \/ p \in opened /\ pc[p] = "close" /\ UNCHANGED disk
  PROVE  Writers'
<1>1. \A q \in opened \ {p} : q \in Invocations \ {p} /\ Same(q)
  BY DEF SessionTypeOK
<1>2. \A q \in opened \ {p} : pc'[q] = pc[q] /\ cfg'[q] = cfg[q] /\ db'[q] = db[q]
  BY <1>1 DEF Same
<1>3. /\ \A q \in opened' : pc'[q] \in Writing \cup Ended
      /\ \A q \in Invocations : pc'[q] \in Writing => q \in opened'
  BY <1>2 DEF Writers, Same
<1>4. ASSUME NEW f \in Files
      PROVE  IsWhole(f)'
  <2>1. CASE f # cfg[p].save
    <3>1. WritersOf(f)' = WritersOf(f) /\ WritersOf(f) \subseteq opened \ {p}
      BY <1>2, <2>1 DEF WritersOf
    <3>2. disk'[f] = disk[f]
      BY <2>1
    <3> QED
      BY <1>2, <3>1, <3>2 DEF Writers, IsWhole
  <2>2. CASE f = cfg[p].save
    <3>1. p \in WritersOf(f)'
      BY <2>2 DEF WritersOf
    <3>2. CASE pc'[p] \notin {"close", "ok"}
      BY <3>1, <3>2 DEF IsWhole
    <3>3. CASE disk'[f] = Whole(db[p])
      BY <3>1, <3>3 DEF IsWhole
    <3>4. CASE p \in opened /\ pc[p] = "close" /\ UNCHANGED disk
      <4>1. WritersOf(f)' = WritersOf(f) /\ WritersOf(f) \subseteq opened
        BY <1>2, <3>4 DEF WritersOf
      <4>2. \A q \in opened : db'[q] = db[q]
        BY <1>2
      <4>3. \A q \in opened : pc'[q] \in {"close", "ok"} => pc[q] \in {"close", "ok"}
        BY <1>2, <3>4
      <4> QED
        BY <3>4, <4>1, <4>2, <4>3 DEF Writers, IsWhole
    <3> QED
      BY <2>2, <3>2, <3>3, <3>4
  <2> QED
    BY <2>1, <2>2
<1> QED
  BY <1>3, <1>4 DEF Writers

LEMMA FilesStep == SessionInv /\ [Next]_vars => Writers'
<1> SUFFICES ASSUME SessionInv, [Next]_vars
             PROVE  Writers'
  OBVIOUS
<1>1. SessionTypeOK /\ Writers
  BY DEF SessionInv
<1>2. CASE UNCHANGED vars
  BY <1>1, <1>2 DEF vars, Writers, IsWhole, WritersOf
<1>3. SUFFICES ASSUME NEW p \in Invocations, Step(p) \/ Kill(p)
               PROVE  Writers'
  BY <1>2 DEF Next
<1>4. \A q \in Invocations \ {p} : Same(q)
  BY <1>1, <1>3, OthersSame
<1>5. pc[p] \notin Writing \cup Ended => p \notin opened
  BY <1>1 DEF Writers
<1>6. pc[p] \in Writing => p \in opened /\ opened = opened \cup {p}
  BY <1>1 DEF Writers
<1>7. CASE Start(p)
  <2>1. pc[p] = "start" /\ pc'[p] \in {"ok", "error", "run"}
    BY <1>1, <1>7, Started
  <2> QED
    BY <1>1, <1>4, <1>5, <1>7, <2>1, QuietSteps DEF Start, Writing, Ended
<1> USE DEF Goto
<1>8. CASE \/ LoadLivePolicy(p) \/ LoadSplit(p) \/ OpenPolicy(p) \/ ReadPolicy(p)
           \/ PrintRules(p) \/ Builtin(p) \/ ApplyFile(p) \/ ApplyStatements(p)
           \/ LoadLive(p)
  <2>1. /\ pc[p] \notin Writing \cup Ended /\ pc'[p] \notin Writing
        /\ UNCHANGED <<disk, opened>>
    <3> USE DEF SessionTypeOK, Writing, Ended
    <3>1. CASE ReadPolicy(p)
      BY <1>1, <3>1 DEF ReadPolicy
    <3>2. CASE ApplyFile(p)
      BY <1>1, <3>2 DEF ApplyFile, Unreadable
    <3>3. CASE OpenPolicy(p)
      BY <1>1, <3>3 DEF OpenPolicy
    <3>4. CASE PrintRules(p) \/ LoadSplit(p) \/ LoadLivePolicy(p)
      BY <1>1, <3>4 DEF PrintRules, LoadSplit, LoadLivePolicy
    <3>5. CASE Builtin(p) \/ ApplyStatements(p) \/ LoadLive(p)
      BY <1>1, <3>5 DEF Builtin, ApplyStatements, LoadLive
    <3> QED
      BY <1>8, <3>1, <3>2, <3>3, <3>4, <3>5
  <2> QED
    BY <1>1, <1>4, <1>5, <2>1, QuietSteps
<1>9. CASE Save(p)
  <2>1. pc[p] = "save" /\ p \notin opened /\ cfg'[p] = cfg[p] /\ db'[p] = db[p]
    BY <1>5, <1>9 DEF Save, Writing, Ended
  <2>2. CASE pc'[p] \in Ended /\ UNCHANGED <<disk, opened>>
    BY <1>1, <1>4, <2>1, <2>2, QuietSteps DEF Ended, Writing
  <2>3. CASE pc'[p] = "truncate" /\ opened' = opened \cup {p} /\ Put(cfg[p].save, Empty)
    <3>1. \A f \in Files : f # cfg[p].save => disk'[f] = disk[f]
      BY <1>1, <2>3 DEF Put, SessionTypeOK
    <3> QED
      BY <1>1, <1>4, <2>1, <2>3, <3>1, WriterSteps DEF Writing
  <2> QED
    BY <1>1, <1>9, <2>2, <2>3 DEF Save, Ended, SessionTypeOK
<1>10. CASE Truncate(p)
  <2>1. /\ pc[p] \in Writing /\ pc'[p] = "write" /\ UNCHANGED <<cfg, db, opened>>
        /\ \A f \in Files : f # cfg[p].save => disk'[f] = disk[f]
    BY <1>1, <1>10 DEF Truncate, Put, SessionTypeOK, Writing
  <2> QED
    BY <1>1, <1>4, <1>6, <2>1, WriterSteps DEF Writing
<1>11. CASE Write(p)
  <2>1. /\ pc[p] \in Writing /\ pc'[p] \in {"close", "close_short"}
        /\ UNCHANGED <<cfg, db, opened>>
        /\ \A f \in Files : f # cfg[p].save => disk'[f] = disk[f]
    BY <1>1, <1>11 DEF Write, ShortWrite, Put, SessionTypeOK, Writing
  <2>2. pc'[p] = "close" /\ cfg[p].save \in Files => disk'[cfg[p].save] = Whole(db[p])
    BY <1>1, <1>11 DEF Write, ShortWrite, Put, SessionTypeOK
  <2>3. "ok" \notin {"close", "close_short"}
    OBVIOUS
  <2> QED
    BY <1>1, <1>4, <1>6, <2>1, <2>2, <2>3, WriterSteps DEF Writing
<1>12. CASE Close(p)
  <2>1. /\ pc[p] \in {"close", "close_short"} /\ pc'[p] \in {"ok", "error"}
        /\ pc'[p] = "ok" => pc[p] = "close"
        /\ UNCHANGED <<cfg, db, opened, disk>>
    BY <1>1, <1>12 DEF Close, SessionTypeOK
  <2> QED
    BY <1>1, <1>4, <1>6, <2>1, WriterSteps DEF Writing, Ended
<1>13. CASE Kill(p)
  <2>1. /\ pc[p] \in Running /\ pc'[p] = "killed" /\ UNCHANGED <<cfg, db, opened, disk>>
    BY <1>1, <1>13 DEF Kill, SessionTypeOK
  <2>2. CASE p \in opened
    BY <1>1, <1>4, <2>1, <2>2, WriterSteps DEF Ended
  <2>3. CASE p \notin opened
    BY <1>1, <1>4, <2>1, <2>3, QuietSteps DEF Writing
  <2> QED
    BY <2>2, <2>3
<1> QED
  BY <1>3, <1>7, <1>8, <1>9, <1>10, <1>11, <1>12, <1>13 DEF Step

(***************************************************************************)
(* The theorems.                                                           *)
(***************************************************************************)
LEMMA SessionInvAlways == Spec => []SessionInv
<1>1. SessionInv /\ [Next]_vars => SessionInv'
  BY TypeStep, GatherStep, FilesStep DEF SessionInv
<1> QED
  BY InitSession, <1>1, PTL DEF Spec

\* However many runs write however many files, in whatever order they truncate,
\* write and close (write_buffer_to_path), a file all of whose writers ended
\* well is the whole policy of one of them.
THEOREM SavedFilesAreWhole == Spec => []SavedIsWhole
<1>1. SessionInv => SavedIsWhole
  <2> SUFFICES ASSUME SessionInv, NEW f \in Files,
                      WritersOf(f) # {}, \A p \in WritersOf(f) : pc[p] = "ok"
               PROVE  \E p \in WritersOf(f) : disk[f] = Whole(db[p])
    BY DEF SessionInv, SavedIsWhole
  <2> QED
    BY DEF SessionInv, Writers, IsWhole
<1> QED
  BY <1>1, SessionInvAlways, PTL

\* Only these steps change what others can see, and each of them is taken by
\* the run that changes it.
LEMMA Publishing ==
  ASSUME SessionTypeOK, [Next]_vars, NEW p \in Invocations, Publishes(p)
  PROVE  \/ LoadLive(p)
         \/ Save(p) /\ UNCHANGED live
         \/ Truncate(p) /\ UNCHANGED live
         \/ Write(p) /\ UNCHANGED live
<1>1. pc'[p] # pc[p] /\ <<disk, live>>' # <<disk, live>>
  BY DEF Publishes
<1>2. PICK q \in Invocations : Step(q) \/ Kill(q)
  BY <1>1 DEF Next, vars
<1>3. q = p
  BY <1>1, <1>2, OthersSame DEF Same
<1>4. CASE Start(p) \/ ReadPolicy(p) \/ ApplyFile(p)
  BY <1>1, <1>4 DEF Start, ReadPolicy, ApplyFile
<1>5. CASE \/ LoadLivePolicy(p) \/ LoadSplit(p) \/ OpenPolicy(p) \/ PrintRules(p)
           \/ Builtin(p) \/ ApplyStatements(p) \/ Close(p) \/ Kill(p)
  BY <1>1, <1>5 DEF LoadLivePolicy, LoadSplit, OpenPolicy, PrintRules, Builtin,
                    ApplyStatements, Close, Kill
<1>6. CASE LoadLive(p) \/ Save(p) \/ Truncate(p) \/ Write(p)
  BY <1>6 DEF Save, Truncate, Write
<1> QED
  BY <1>2, <1>3, <1>4, <1>5, <1>6 DEF Step

\* A run that has come this far has all that its command line asks for.
LEMMA AskedIsIn ==
  ASSUME SessionInv, NEW p \in Invocations,
         pc[p] \in {"live", "save", "truncate", "write"}
  PROVE  /\ Asked(args[p]) \subseteq db[p]
         /\ ValuesOf(args[p], "--apply") \subseteq DOMAIN RuleFiles
<1> DEFINE words == args[p]
           c     == cfg[p]
<1>1. /\ Collects(c, words, Len(words))
      /\ HasBuiltin(p) /\ HasApplied(p) /\ HasAll(p)
  BY DEF SessionInv, Gathers, Running, Late
<1>2. /\ words \in Seq(STRING) /\ c \in CliConfig
      /\ DOMAIN words = 1..Len(words) /\ next[p] \in Nat
  <2>1. words \in Commands \cup {<<>>} /\ c \in CliConfig /\ next[p] \in Nat
    BY DEF SessionInv, SessionTypeOK
  <2>2. words \in Seq(STRING)
    <3>1. <<>> \in Seq(STRING)
      OBVIOUS
    <3> QED
      BY <2>1, <3>1, CommandsAssumption
  <2> QED
    BY <2>1, <2>2
<1>3. /\ c.policies \in Seq(Statements) /\ c.apply \in Seq(STRING)
      /\ Len(c.apply) \in Nat
      /\ \A x : Has(c.policies, x) => x \in ToSet(c.policies)
  BY <1>2 DEF CliConfig, Has, ToSet
<1>4. \A x : Has(c.apply, x) => x \in DOMAIN RuleFiles /\ RuleFiles[x] \subseteq db[p]
  <2> TAKE x
  <2>1. HAVE Has(c.apply, x)
  <2>2. PICK k \in 1..Len(c.apply) : c.apply[k] = x
    BY <2>1 DEF Has
  <2>3. k < next[p]
    BY <1>1, <1>2, <1>3, <2>2 DEF HasAll
  <2> QED
    BY <1>1, <2>2, <2>3 DEF HasApplied
<1>5. \A x \in ValuesOf(words, "--apply") : Has(c.apply, x)
  BY <1>1 DEF ValuesOf, Collects
<1>6. ToSet(words) \cap Statements \subseteq db[p]
  <2>1. \A x \in ToSet(words) \cap Statements : Has(c.policies, x)
    BY <1>1, <1>2 DEF ToSet, Collects
  <2> QED
    BY <1>1, <1>3, <2>1 DEF HasAll
<1>7. "--magisk" \in ToSet(words) => MagiskRules \subseteq db[p]
  BY <1>1, <1>2 DEF ToSet, Collects, HasBuiltin
<1>8. /\ ValuesOf(words, "--apply") \subseteq DOMAIN RuleFiles
      /\ \A f \in ValuesOf(words, "--apply") : RuleFiles[f] \subseteq db[p]
  BY <1>4, <1>5
<1>9. Asked(words) \subseteq db[p]
  <2> DEFINE applied == UNION {RuleFiles[f] : f \in ValuesOf(words, "--apply")
                                                      \cap DOMAIN RuleFiles}
             builtin == IF "--magisk" \in ToSet(words) THEN MagiskRules ELSE {}
  <2>1. applied \subseteq db[p]
    BY <1>8
  <2>2. builtin \subseteq db[p]
    BY <1>7
  <2>3. Asked(words) = (ToSet(words) \cap Statements) \cup applied \cup builtin
    BY DEF Asked
  <2> HIDE DEF words, applied, builtin
  <2> QED
    BY <1>6, <2>1, <2>2, <2>3
<1> QED
  BY <1>8, <1>9

\* No run of any command line puts a policy into the kernel, or as much as
\* truncates a file, before its policy has every rule that was asked for
\* (parse_args, run).
THEOREM PublishesAllOrNothing == Spec => AllOrNothing
<1>1. SessionInv /\ [Next]_vars =>
        [\A p \in Invocations : Publishes(p) =>
           /\ Asked(args[p]) \subseteq db[p]
           /\ ValuesOf(args[p], "--apply") \subseteq DOMAIN RuleFiles]_vars
  <2> SUFFICES ASSUME SessionInv, [Next]_vars, NEW p \in Invocations, Publishes(p)
               PROVE  /\ Asked(args[p]) \subseteq db[p]
                      /\ ValuesOf(args[p], "--apply") \subseteq DOMAIN RuleFiles
    OBVIOUS
  <2>1. pc[p] \in {"live", "save", "truncate", "write"}
    BY Publishing DEF SessionInv, LoadLive, Save, Truncate, Write
  <2> QED
    BY <2>1, AskedIsIn
<1> QED
  BY <1>1, SessionInvAlways, PTL DEF Spec, AllOrNothing

\* What was found in a file that held no policy all the time it was open is
\* never taken for one (sepol_db_from_file).
THEOREM TornFilesAreRefused == Spec => NothingFromTornFiles
<1>1. SessionInv /\ [Next]_vars =>
        [\A p \in Invocations : (pc[p] = "reading" /\ pc'[p] = "rules") =>
           \E content \in seen[p] : IsPolicy(content)]_vars
  <2> SUFFICES ASSUME SessionInv, [Next]_vars, NEW p \in Invocations,
                      pc[p] = "reading", pc'[p] = "rules"
               PROVE  \E content \in seen[p] : IsPolicy(content)
    OBVIOUS
  <2>1. SessionTypeOK /\ seen[p] \in SUBSET Contents
    BY DEF SessionInv, SessionTypeOK
  <2>2. PICK q \in Invocations : Step(q) \/ Kill(q)
    BY DEF Next, vars
  <2>3. q = p
    BY <2>1, <2>2, OthersSame DEF Same
  <2>4. ReadPolicy(p) \/ Kill(p)
    BY <2>2, <2>3 DEF Step, Start, LoadLivePolicy, LoadSplit, OpenPolicy, PrintRules,
                      Builtin, ApplyFile, ApplyStatements, LoadLive, Save, Truncate,
                      Write, Close
  <2>5. ReadPolicy(p)
    BY <2>1, <2>4 DEF Kill, Goto, SessionTypeOK
  <2>6. \E policy \in PoliciesIn(seen[p]) : TRUE
    BY <2>1, <2>5 DEF ReadPolicy, Goto, SessionTypeOK
  <2> QED
    BY <2>1, <2>6, PoliciesOfFile
<1> QED
  BY <1>1, SessionInvAlways, PTL DEF Spec, NothingFromTornFiles

\* A run that started from the kernel's policy and finds it unchanged takes no
\* rule away (run: from_file of the live policy, to_file).
THEOREM LivePolicyGrows == Spec => LiveKeepsRules
<1>1. SessionInv /\ [Next]_vars =>
        [\A p \in Invocations :
           (Publishes(p) /\ cfg[p].load = NoFile /\ base[p] = live) => live \subseteq live']_vars
  <2> SUFFICES ASSUME SessionInv, [Next]_vars, NEW p \in Invocations,
                      Publishes(p), cfg[p].load = NoFile, base[p] = live
               PROVE  live \subseteq live'
    OBVIOUS
  <2>1. CASE LoadLive(p)
    <3>1. base[p] \subseteq db[p]
      BY <2>1 DEF SessionInv, Gathers, LoadLive, Late
    <3> QED
      BY <2>1, <3>1 DEF LoadLive
  <2>2. CASE UNCHANGED live
    BY <2>2
  <2> QED
    BY <2>1, <2>2, Publishing DEF SessionInv
<1> QED
  BY <1>1, SessionInvAlways, PTL DEF Spec, LiveKeepsRules
================================================================================
