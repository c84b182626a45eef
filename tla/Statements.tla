------------------------------ MODULE Statements -------------------------------
(***************************************************************************)
(* Statements as text: parse_statement and the parser below it, the calls  *)
(* SePolicy makes of a statement, one per element of the product of its    *)
(* lists, and print_rules, which writes a policy as statements again.  The *)
(* calls do not know of each other: one that names something unknown is    *)
(* skipped, and the others go on.                                          *)
(*                                                                         *)
(* A policy is kept by names here, as far as it can be printed: the other  *)
(* modules have the tables behind it.  A text is the sequence of its words *)
(* after extract_token has cut it at braces and commas.                    *)
(***************************************************************************)
EXTENDS Integers, Sequences, FiniteSets, FiniteSetsExt, SequencesExt

CONSTANTS Perms,         \* class -> the names of its permissions
          Bits,          \* the bits of an access vector, named or not
          Width,         \* the number of ioctl drivers, and of functions of one
          ContextType,   \* context -> the type in it
          CommaContexts, \* the contexts whose category list has a comma
          Policies,      \* the policies a run may start from
          Bare,          \* the policy without rules a dump may be applied to
          Rules,         \* rule statements, as the lists they are written with
          Texts,         \* other statements, well formed or not
          MaxStatements  \* a bound on the statements before a dump

VARIABLES pol,     \* the policy
          lines,   \* the statements that are still to be read
          todo,    \* the calls of the current statement that are still to be made
          rule,    \* the rule statement last begun, or none
          before,  \* the policy when it, or the dump, was begun
          replay,  \* what a dump was applied to, or none
          count    \* the number of statements begun

vars == <<pol, lines, todo, rule, before, replay, count>>

MatchAll == ""
Classes  == DOMAIN Perms
DRIVER   == "IOCTLDRIVER"
FUNCTION == "IOCTLFUNCTION"

\* The nodes of an extended permission key and what is done to them.
X == INSTANCE XpermRules
       WITH xperms <- pol.xperms, policyvers <- pol.version, Types <- {},
            Attribs <- {}, Effects <- {}, Ranges <- {}, Files <- {},
            Any <- MatchAll
--------------------------------------------------------------------------------
(***************************************************************************)
(* The words.  A number, and a range without blanks around its hyphen, are *)
(* words with numbers; such a range is a Token::ID all the same.           *)
(***************************************************************************)
W(s)      == [s |-> s, n |-> <<>>]
Hex(n)    == [s |-> "0x", n |-> <<n>>]
Span(r)   == [s |-> "0x-0x", n |-> r]
IsHex(w)  == Len(w.n) = 1
IsSpan(w) == Len(w.n) = 2
Words(names) == [i \in DOMAIN names |-> W(names[i])]
Braced(words) == <<W("{")>> \o words \o <<W("}")>>

AvActions    == {"allow", "deny", "auditallow", "dontaudit"}
XpermActions == {"allowxperm", "auditallowxperm", "dontauditxperm"}
TypeActions  == {"type_transition", "type_change", "type_member"}
Actions == AvActions \cup XpermActions \cup TypeActions \cup
  {"permissive", "enforce", "typeattribute", "type", "attribute", "genfscon"}
Marks == {"{", "}", ",", "*", "~", "-", ""}
IsId(w) == ~IsHex(w) /\ w.s \notin Actions \cup Marks

WordAt(text, at) == IF at \in DOMAIN text THEN text[at] ELSE W("")
Between(text, i, j) == SubSeq(text, i + 1, j - 1)

(***************************************************************************)
(* Each parse_ function returns what it read and where it stopped, or that *)
(* the statement is refused.                                               *)
(***************************************************************************)
Failed == [ok |-> FALSE, next |-> 0, names |-> <<>>]
Got(names, next) == [ok |-> TRUE, next |-> next, names |-> names]

\* The closing brace of the list that opens at a word: the first word that
\* satisfies no Item, if it is a brace.
Closing(text, at, Item(_)) ==
  LET ends == {j \in DOMAIN text : j > at /\ ~Item(text[j])}
      j == IF ends = {} THEN 0 ELSE CHOOSE i \in ends : \A k \in ends : i <= k
  IN IF WordAt(text, j) = W("}") THEN j ELSE 0

ParseId(text, at) ==
  IF IsId(WordAt(text, at)) THEN Got(<<text[at].s>>, at + 1) ELSE Failed

NamesOf(words) == [i \in DOMAIN words |-> words[i].s]
ParseTerm(text, at) ==
  LET end == Closing(text, at, IsId)
  IN IF WordAt(text, at) # W("{") THEN ParseId(text, at)
     ELSE IF end = 0 THEN Failed
     ELSE Got(NamesOf(Between(text, at, end)), end + 1)

\* parse_sterm: a * stands for the empty list, and so it does in a list,
\* whatever else that list has.
IsIdOrStar(w) == IsId(w) \/ w = W("*")
StarNames(words) ==
  IF \E i \in DOMAIN words : words[i] = W("*") THEN <<>> ELSE NamesOf(words)
ParseSterm(text, at) ==
  LET end == Closing(text, at, IsIdOrStar)
  IN CASE WordAt(text, at) = W("*") -> Got(<<>>, at + 1)
       [] WordAt(text, at) = W("{") /\ end # 0 ->
            Got(StarNames(Between(text, at, end)), end + 1)
       [] WordAt(text, at) = W("{") /\ end = 0 -> Failed
       [] OTHER -> ParseId(text, at)

\* The optional last argument of type and type_transition.
IfAny(text, at, result) == IF at > Len(text) THEN Got(<<>>, at) ELSE result

\* parse_xperms.  In a list, a number may be followed by a hyphen and another
\* one; outside of it, the number 0 stands for every command.
Xperm(low, high, reset) == [low |-> low, high |-> high, reset |-> reset]
Everything(reset) == <<Xperm(0, Width * Width - 1, reset)>>
IsXpermItem(w) == IsHex(w) \/ IsSpan(w) \/ w = W("-")
Hyphen(w) == w = W("-")
ItemStarts(words) ==
  {i \in DOMAIN words : ~Hyphen(words[i]) /\ ~(i > 1 /\ Hyphen(words[i - 1]))}
ItemsWellFormed(words) ==
  /\ words # <<>>
  /\ \A i \in DOMAIN words : Hyphen(words[i]) =>
       /\ i - 1 \in ItemStarts(words) /\ IsHex(words[i - 1])
       /\ IsHex(WordAt(words, i + 1))
ItemAt(words, i, reset) ==
  LET low  == Head(words[i].n)
      high == IF IsSpan(words[i]) THEN words[i].n[2]
              ELSE IF Hyphen(WordAt(words, i + 1)) THEN words[i + 2].n[1] ELSE low
  IN Xperm(low, high, reset)
LineIf(condition, text) == IF condition THEN <<text>> ELSE <<>>
Items(words, reset) ==
  FlattenSeq([i \in DOMAIN words |->
    LineIf(i \in ItemStarts(words), ItemAt(words, i, reset))])

ParseXperms(text, start) ==
  LET reset == WordAt(text, start) = W("~")
      at    == IF reset THEN start + 1 ELSE start
      w     == WordAt(text, at)
      end   == Closing(text, at, IsXpermItem)
      items == Between(text, at, end)
  IN CASE w = W("{") /\ end # 0 /\ ItemsWellFormed(items) ->
            Got(Items(items, reset), end + 1)
       [] w = W("*") /\ ~reset -> Got(Everything(reset), at + 1)
       [] IsHex(w) /\ ~reset ->
            Got(IF w.n = <<0>> THEN Everything(reset)
                ELSE <<Xperm(w.n[1], w.n[1], reset)>>, at + 1)
       [] IsSpan(w) /\ ~reset -> Got(<<Xperm(w.n[1], w.n[2], reset)>>, at + 1)
       [] OTHER -> Failed

\* exec_statement: the arguments each action takes.
Arguments(action) ==
  CASE action \in AvActions -> <<"sterm", "sterm", "sterm", "sterm">>
    [] action \in XpermActions -> <<"sterm", "sterm", "sterm", "ioctl", "xperms">>
    [] action \in {"permissive", "enforce"} -> <<"sterm">>
    [] action = "typeattribute" -> <<"term", "term">>
    [] action = "type" -> <<"id", "terms">>
    [] action = "attribute" -> <<"id">>
    [] action \in {"type_change", "type_member"} -> <<"id", "id", "id", "id">>
    [] action = "type_transition" -> <<"id", "id", "id", "id", "name">>
    [] action = "genfscon" -> <<"id", "id", "id">>

ParseArgument(text, at, kind) ==
  CASE kind = "id"     -> ParseId(text, at)
    [] kind = "name"   -> IfAny(text, at, ParseId(text, at))
    [] kind = "term"   -> ParseTerm(text, at)
    [] kind = "terms"  -> IfAny(text, at, ParseTerm(text, at))
    [] kind = "sterm"  -> ParseSterm(text, at)
    [] kind = "ioctl"  -> IF WordAt(text, at) = W("ioctl") THEN Got(<<>>, at + 1)
                          ELSE Failed
    [] kind = "xperms" -> ParseXperms(text, at)

\* What is wrong with a statement shows before any of it is carried out: an
\* unknown action, an argument that does not parse, or one too many.
Parsed(next, args) == [ok |-> TRUE, next |-> next, args |-> args]
NextArgument(text, sofar, kind) ==
  LET got == ParseArgument(text, sofar.next, kind)
  IN IF ~sofar.ok \/ ~got.ok THEN [sofar EXCEPT !.ok = FALSE]
     ELSE Parsed(got.next, Append(sofar.args, got.names))
ParseArguments(text) ==
  LET Argument(sofar, kind) == NextArgument(text, sofar, kind)
  IN FoldLeft(Argument, Parsed(2, <<>>), Arguments(text[1].s))
Refused(text) ==
  \/ text = <<>> \/ text[1].s \notin Actions
  \/ LET got == ParseArguments(text) IN ~got.ok \/ got.next # Len(text) + 1
--------------------------------------------------------------------------------
(***************************************************************************)
(* SePolicy: the calls of a statement, in order.                           *)
(***************************************************************************)
\* ExpandNothing makes no call for an argument that matches all.
ExpandNothing(names) == names
expand_wildcard(names) == IF names = <<>> THEN <<MatchAll>> ELSE names

Extended(tuples, list) ==
  FlattenSeq([i \in DOMAIN tuples |->
    [j \in DOMAIN list |-> Append(tuples[i], list[j])]])
Product(lists) == FoldLeft(Extended, <<<<>>>>, lists)

NoXperm == Xperm(0, 0, FALSE)
Call(op, names) == [op |-> op, names |-> names, xperm |-> NoXperm]
CallsOf(op, lists) ==
  LET tuples == Product(lists) IN [i \in DOMAIN tuples |-> Call(op, tuples[i])]

Calls(text) ==
  LET action == text[1].s
      args   == ParseArguments(text).args
      wild   == [i \in DOMAIN args |-> expand_wildcard(args[i])]
      cells  == Product(<<wild[1], wild[2], wild[3], args[5]>>)
  IN CASE action \in AvActions \cup {"permissive", "enforce"} -> CallsOf(action, wild)
       [] action \in XpermActions ->
            [i \in DOMAIN cells |->
               [op |-> action, names |-> SubSeq(cells[i], 1, 3), xperm |-> cells[i][4]]]
       [] action = "type" ->
            <<Call("type", args[1])>> \o CallsOf("typeattribute", args)
       [] action = "type_transition" /\ args[5] # <<>> -> CallsOf("name", args)
       [] action = "type_transition" /\ args[5] = <<>> ->
            CallsOf(action, SubSeq(args, 1, 4))
       [] OTHER -> CallsOf(action, args)
--------------------------------------------------------------------------------
(***************************************************************************)
(* What the calls do to the policy.  One with a name the policy does not   *)
(* know returns an error that nobody looks at.                             *)
(***************************************************************************)
AttributesOf(p) == {n \in DOMAIN p.flavor : p.flavor[n] = "attribute"}
Given(f, k, default) == IF k \in DOMAIN f THEN f[k] ELSE default
With(f, k, v) == [j \in DOMAIN f \cup {k} |-> IF j = k THEN v ELSE f[j]]
Known(p, names) == names \subseteq DOMAIN p.flavor

EffectOf(op) == CASE op \in {"allow", "deny"} -> "allowed"
                  [] op = "auditallow" -> "auditallow"
                  [] op = "dontaudit"  -> "auditdeny"
InvertOf(op) == op \in {"deny", "dontaudit"}
NoRule(effect) == IF effect = "auditdeny" THEN Bits ELSE {}
Vector(p, k) == Given(p.av, k, NoRule(k[4]))

\* expand_rule: the keys a call is about.
MatchedTypes(p, n, all) ==
  IF n # MatchAll THEN {n} ELSE IF all THEN DOMAIN p.flavor ELSE AttributesOf(p)
MatchedClasses(c) == IF c # MatchAll THEN {c} ELSE Classes
Keys(p, n, effect, all) ==
  MatchedTypes(p, n[1], all) \X MatchedTypes(p, n[2], all)
    \X MatchedClasses(n[3]) \X {effect}

AddRule(p, op, n) ==
  LET effect == EffectOf(op)
      reach  == Keys(p, n, effect, (effect = "auditdeny") = ~InvertOf(op))
      bits   == IF n[4] = MatchAll THEN Bits ELSE {n[4]}
      new(k) == IF InvertOf(op) THEN Vector(p, k) \ bits ELSE Vector(p, k) \cup bits
      nodes  == (DOMAIN p.av \ reach) \cup {k \in reach : new(k) # NoRule(effect)}
  IN [p EXCEPT !.av = [k \in nodes |-> IF k \in reach THEN new(k) ELSE p.av[k]]]

AddXpermRule(p, op, n, x) ==
  LET reach  == Keys(p, n, op, FALSE)
      old(k) == Given(p.xperms, k, <<>>)
      new(k) == IF x.reset THEN X!Complement(old(k), x.low, x.high)
                ELSE X!Extend(old(k), x.low, x.high)
  IN [p EXCEPT !.xperms = [k \in DOMAIN p.xperms \cup reach |->
                             IF k \in reach THEN new(k) ELSE old(k)]]

AddTypeRule(p, op, n) ==
  LET k == <<n[1], n[2], n[3], op>>
  IN IF k \in DOMAIN p.type_rules THEN p
     ELSE [p EXCEPT !.type_rules = With(@, k, n[4])]

AddType(p, op, n) ==
  IF n[1] \in DOMAIN p.flavor THEN p ELSE [p EXCEPT !.flavor = With(@, n[1], op)]

AddTypeAttribute(p, n) ==
  IF p.flavor[n[1]] = "attribute" \/ p.flavor[n[2]] # "attribute" THEN p
  ELSE [p EXCEPT !.attrs = @ \cup {<<n[1], n[2]>>}]

SetTypeState(p, op, n) ==
  LET set == IF n[1] = MatchAll THEN DOMAIN p.flavor ELSE {n[1]}
  IN [p EXCEPT !.permissive = IF op = "permissive" THEN @ \cup set ELSE @ \ set]

\* An entry has one source type here; FilenameTrans has the entries that have
\* more, and what becomes of them.
AddFilenameTrans(p, n) == [p EXCEPT !.names = With(@, <<n[1], n[2], n[3], n[5]>>, n[4])]

AddGenfscon(p, n) == [p EXCEPT !.genfs = With(@, <<n[1], n[2]>>, n[3])]

Resolved(p, op, n) ==
  CASE op \in AvActions -> /\ Known(p, {n[1], n[2]} \ {MatchAll})
                           /\ n[3] \in Classes \cup {MatchAll}
                           /\ n[4] = MatchAll \/ (n[3] # MatchAll /\ n[4] \in Perms[n[3]])
    [] op \in XpermActions -> /\ p.version >= X!POLICYDB_VERSION_XPERMS_IOCTL
                              /\ Known(p, {n[1], n[2]} \ {MatchAll})
                              /\ n[3] \in Classes \cup {MatchAll}
    [] op \in TypeActions \cup {"name"} ->
         Known(p, {n[1], n[2], n[4]}) /\ n[3] \in Classes
    [] op = "typeattribute" -> Known(p, {n[1], n[2]})
    [] op \in {"permissive", "enforce"} -> Known(p, {n[1]} \ {MatchAll})
    [] op = "genfscon" -> /\ n[3] \in DOMAIN ContextType
                          /\ Known(p, {ContextType[n[3]]})
    [] OTHER -> TRUE

Execute(p, call) ==
  LET op == call.op
      n  == call.names
  IN CASE ~Resolved(p, op, n) -> p
       [] OTHER ->
            CASE op \in AvActions    -> AddRule(p, op, n)
              [] op \in XpermActions -> AddXpermRule(p, op, n, call.xperm)
              [] op \in TypeActions  -> AddTypeRule(p, op, n)
              [] op = "name"         -> AddFilenameTrans(p, n)
              [] op = "genfscon"     -> AddGenfscon(p, n)
              [] op = "typeattribute" -> AddTypeAttribute(p, n)
              [] op \in {"type", "attribute"}     -> AddType(p, op, n)
              [] OTHER -> SetTypeState(p, op, n)
--------------------------------------------------------------------------------
(***************************************************************************)
(* print_rules: the policy as statements, in the order of its tables.  The *)
(* attributes come first, as typeattribute needs them.                     *)
(***************************************************************************)
InAnyOrder(S) == LET Add(line, sofar) == Append(sofar, line) IN FoldSet(Add, <<>>, S)
Lines(S) == FlattenSeq(InAnyOrder(S))
Sentence(names) == [i \in DOMAIN names |-> W(names[i])]

\* sepol_print_types.  A type without attributes is not printed.
PrintAttributes(p) == Lines({<<Sentence(<<"attribute", a>>)>> : a \in AttributesOf(p)})
PrintType(p, n) ==
  LET attrs == {a \in AttributesOf(p) : <<n, a>> \in p.attrs}
  IN LineIf(attrs # {},
            Sentence(<<"type", n>>) \o Braced(Words(InAnyOrder(attrs))))
       \o LineIf(n \in p.permissive, Sentence(<<"permissive", n>>))
PrintTypes(p) == Lines({PrintType(p, n) : n \in DOMAIN p.flavor \ AttributesOf(p)})

\* sepol_print_avtab_rules.  The bits of an auditdeny vector are printed as what
\* they leave out, and bits without a name are not printed.  Uninverted prints
\* them as they are.
Uninverted(k, vector) == vector
Printed(k, vector) == IF k[4] = "auditdeny" THEN Bits \ vector ELSE vector
AvWord(effect) == CASE effect = "allowed"    -> "allow"
                    [] effect = "auditallow" -> "auditallow"
                    [] effect = "auditdeny"  -> "dontaudit"
PrintVector(k, vector) ==
  LET named == Printed(k, vector) \cap Perms[k[3]]
  IN LineIf(named # {}, Sentence(<<AvWord(k[4]), k[1], k[2], k[3]>>)
                          \o Braced(Words(InAnyOrder(named))))

\* The runs of set bits of a node, from a bit whose predecessor is clear to the
\* first whose successor is.  A node is a function node or else printed as one of
\* drivers, and a run of one driver as a single command.
EndOf(set, x) == Min({y \in x..Width : y + 1 \notin set})
Runs(set) ==
  FlattenSeq([i \in 1..Width |->
    LineIf(i - 1 \in set /\ i - 2 \notin set, <<i - 1, EndOf(set, i - 1)>>)])
CommandOf(node, x) ==
  IF node.specified = FUNCTION THEN node.driver * Width + x ELSE x * Width
PrintRun(node, r) ==
  IF r[1] = r[2] THEN Hex(CommandOf(node, r[1]))
  ELSE Span(<<CommandOf(node, r[1]), CommandOf(node, r[2])>>)
PrintNode(k, node) ==
  LET runs == Runs(node.perms)
  IN Sentence(<<k[4], k[1], k[2], k[3], "ioctl">>)
       \o Braced([i \in DOMAIN runs |-> PrintRun(node, runs[i])])
PrintNodes(k, nodes) == [i \in DOMAIN nodes |-> PrintNode(k, nodes[i])]

PrintRules(p) ==
  Lines({PrintVector(k, p.av[k]) : k \in DOMAIN p.av})
    \o Lines({<<Sentence(<<k[4], k[1], k[2], k[3], p.type_rules[k]>>)>> :
                 k \in DOMAIN p.type_rules})
    \o Lines({PrintNodes(k, p.xperms[k]) : k \in DOMAIN p.xperms})

\* sepol_print_filename_trans, sepol_print_genfscon.  A comma in a context is a
\* word of its own when the line is read again.
PrintFilenameTrans(p) ==
  Lines({<<Sentence(<<"type_transition", k[1], k[2], k[3], p.names[k], k[4]>>)>> :
           k \in DOMAIN p.names})
ContextWords(c) ==
  IF c \in CommaContexts THEN <<W(c), W(","), W("last category")>> ELSE <<W(c)>>
PrintGenfscon(p) ==
  Lines({<<Sentence(<<"genfscon", k[1], k[2]>>) \o ContextWords(p.genfs[k])>> :
           k \in DOMAIN p.genfs})

\* TypesFirst prints the two kinds of names in the wrong order.
TypesFirst(p) == PrintTypes(p) \o PrintAttributes(p)
PrintNames(p) == PrintAttributes(p) \o PrintTypes(p)
print_rules(p) ==
  PrintNames(p) \o PrintRules(p) \o PrintFilenameTrans(p) \o PrintGenfscon(p)
--------------------------------------------------------------------------------
NoStatement == [op |-> "none", s |-> <<>>, t |-> <<>>, c |-> <<>>, p |-> <<>>]
Group(names) == IF Len(names) = 1 THEN Words(names) ELSE Braced(Words(names))
RuleText(r) ==
  <<W(r.op)>> \o Group(r.s) \o Group(r.t) \o Group(r.c) \o Group(r.p)

\* A policy has finite tables, rules between names it knows, names that are not
\* words of the language, and no vector that says what no rule says.
AvEffects == {"allowed", "auditallow", "auditdeny"}
IsTable(f) == f = [k \in DOMAIN f |-> f[k]] /\ IsFiniteSet(DOMAIN f)
KeysIn(p, effects) == (DOMAIN p.flavor) \X (DOMAIN p.flavor) \X Classes \X effects
PolicyOK(p) ==
  /\ p = [version |-> p.version, flavor |-> p.flavor, attrs |-> p.attrs,
          permissive |-> p.permissive, av |-> p.av, type_rules |-> p.type_rules,
          xperms |-> p.xperms, names |-> p.names, genfs |-> p.genfs]
  /\ \A f \in {"av", "type_rules", "xperms", "names", "genfs"} : IsTable(p[f])
  /\ IsFiniteSet(DOMAIN p.flavor) /\ DOMAIN p.flavor \cap (Actions \cup Marks) = {}
  /\ \A a \in p.attrs : Known(p, {a[1], a[2]})
  /\ DOMAIN p.av \subseteq KeysIn(p, AvEffects)
  /\ \A k \in DOMAIN p.av : p.av[k] \subseteq Bits /\ p.av[k] # NoRule(k[4])
  /\ DOMAIN p.type_rules \subseteq KeysIn(p, TypeActions)
  /\ DOMAIN p.xperms \subseteq KeysIn(p, XpermActions)
  /\ \A k \in DOMAIN p.xperms : p.xperms[k] \in Seq(X!Node) /\ X!OneOfEach(p.xperms[k])
  /\ \A k \in DOMAIN p.names : k = <<k[1], k[2], k[3], k[4]>>
  /\ \A k \in DOMAIN p.genfs : k = <<k[1], k[2]>>

ASSUME WidthAssumption == Width \in Nat \ {0}
ASSUME PoliciesAssumption == \A p \in Policies \cup {Bare} : PolicyOK(p)
ASSUME BareAssumption ==
  /\ \A f \in {"av", "type_rules", "xperms", "names", "genfs"} : DOMAIN Bare[f] = {}
  /\ Bare.attrs = {} /\ Bare.permissive = {}
\* The words of a rule are names, or a * for all of them.
ASSUME RulesAssumption ==
  \A r \in Rules :
    /\ r.op \in AvActions
    /\ \A list \in {r.s, r.t, r.c, r.p} :
         /\ list \in Seq(ToSet(list))
         /\ ToSet(list) \cap (Actions \cup Marks) \subseteq {"*"}
\* A number is one of a command, whatever the statement.
ASSUME TextsAssumption ==
  \A text \in Texts : /\ text \in Seq(ToSet(text))
                      /\ \A w \in ToSet(text) : w.n \in Seq(X!Codes)
ASSUME NamesAssumption ==
  /\ IsFiniteSet(Bits) /\ IsFiniteSet(Classes) /\ Classes \cap (Actions \cup Marks) = {}
  /\ \A c \in Classes : /\ Perms[c] \subseteq Bits
                         /\ Perms[c] \cap (Actions \cup Marks) = {}

Init == /\ pol \in Policies
        /\ lines = <<>> /\ todo = <<>> /\ rule = NoStatement
        /\ before = pol /\ replay = "none" /\ count = 0

Idle == lines = <<>> /\ todo = <<>>

Begin(text, r) ==
  /\ Idle /\ replay = "none" /\ count < MaxStatements
  /\ lines' = <<text>> /\ rule' = r /\ before' = pol /\ count' = count + 1
  /\ UNCHANGED <<pol, todo, replay>>

\* parse_statement, up to the first call.
ReadLine ==
  /\ lines # <<>> /\ todo = <<>>
  /\ lines' = Tail(lines)
  /\ todo' = IF Refused(Head(lines)) THEN <<>> ELSE Calls(Head(lines))
  /\ UNCHANGED <<pol, rule, before, replay, count>>

Apply ==
  /\ todo # <<>>
  /\ pol' = Execute(pol, Head(todo))
  /\ todo' = Tail(todo)
  /\ UNCHANGED <<lines, rule, before, replay, count>>

\* The output of print_rules becomes a rule file, for the policy it describes or
\* for the one that has nothing yet.
Dump(onto) ==
  /\ Idle /\ replay = "none"
  /\ lines' = print_rules(pol)
  /\ pol' = IF onto = "same" THEN pol ELSE Bare
  /\ before' = pol /\ replay' = onto /\ rule' = NoStatement
  /\ UNCHANGED <<todo, count>>

Next == \/ \E r \in Rules : Begin(RuleText(r), r)
        \/ \E text \in Texts : Begin(text, NoStatement)
        \/ ReadLine \/ Apply
        \/ \E onto \in {"same", "bare"} : Dump(onto)

Spec == Init /\ [][Next]_vars
--------------------------------------------------------------------------------
AvKeysOf(p) == KeysIn(p, AvEffects)

\* A rule statement with lists changes the vectors of the pairs of known names
\* it lists, each for the permissions its class knows, and nothing else: no
\* name that is unknown, listed twice or unknown to one class only stops or
\* spoils the calls for the others.  Lists with a * are not among them.
IsExact(r) == /\ r # NoStatement
              /\ \A list \in {r.s, r.t, r.c} : list # <<>> /\ "*" \notin ToSet(list)
              /\ r.p # <<>>
RuleIsProduct ==
  Idle /\ replay = "none" /\ IsExact(rule) =>
    LET names == DOMAIN before.flavor
        cells == (ToSet(rule.s) \cap names) \X (ToSet(rule.t) \cap names)
                   \X (ToSet(rule.c) \cap Classes) \X {EffectOf(rule.op)}
        bits(k) == IF "*" \in ToSet(rule.p) THEN Bits
                   ELSE ToSet(rule.p) \cap Perms[k[3]]
        promised(k) == IF InvertOf(rule.op) THEN Vector(before, k) \ bits(k)
                       ELSE Vector(before, k) \cup bits(k)
    IN /\ \A k \in AvKeysOf(before) :
            Vector(pol, k) = IF k \in cells THEN promised(k) ELSE Vector(before, k)
       /\ [pol EXCEPT !.av = <<>>] = [before EXCEPT !.av = <<>>]

\* What a policy decides, as far as a dump can say it.
NamedVector(p, k) == Vector(p, k) \cap Perms[k[3]]
Commands(p, k) == X!Granted(Given(p.xperms, k, <<>>))
HasNetlink(p, k) ==
  \E i \in DOMAIN p.xperms[k] : p.xperms[k][i].specified = X!NLMSG
Replayed(onto) == Idle /\ replay = onto

\* A policy that is given its own rules as a rule file decides as before; rules
\* about netlink messages, which are printed as rules about ioctls, apart.
ReplayChangesNothing ==
  Replayed("same") =>
    /\ \A f \in {"flavor", "attrs", "permissive", "type_rules", "names", "genfs"} :
         pol[f] = before[f]
    /\ \A k \in AvKeysOf(before) : NamedVector(pol, k) = NamedVector(before, k)
    /\ DOMAIN pol.xperms = DOMAIN before.xperms
    /\ \A k \in DOMAIN before.xperms :
         ~HasNetlink(before, k) => Commands(pol, k) = Commands(before, k)

\* On a policy that has none of them, its rules bring back the names that are
\* printed and every rule between them; of the commands of a driver that stands
\* alone only the first one, and no label whose context has a comma.
AloneIn(nodes) ==
  \E i \in DOMAIN nodes : /\ nodes[i].specified = DRIVER
                          /\ \E r \in ToSet(Runs(nodes[i].perms)) : r[1] = r[2]
RestoredTypes ==
  /\ DOMAIN pol.flavor = DOMAIN Bare.flavor
                           \cup {n \in DOMAIN before.flavor :
                                  n \in AttributesOf(before)
                                    \/ \E a \in before.attrs : a[1] = n}
  /\ \A n \in DOMAIN pol.flavor : pol.flavor[n] = before.flavor[n]
  /\ pol.attrs = before.attrs
  /\ pol.permissive \ AttributesOf(before)
       = before.permissive \cap (DOMAIN pol.flavor \ AttributesOf(before))
RestoredRules ==
  LET known == DOMAIN pol.flavor
      TypesIn(k) == {k[1], k[2]}
  IN /\ \A k \in AvKeysOf(pol) : NamedVector(pol, k) = NamedVector(before, k)
     /\ pol.type_rules =
          [k \in {k \in DOMAIN before.type_rules :
                    TypesIn(k) \cup {before.type_rules[k]} \subseteq known}
             |-> before.type_rules[k]]
     /\ pol.names =
          [k \in {k \in DOMAIN before.names :
                    TypesIn(k) \cup {before.names[k]} \subseteq known}
             |-> before.names[k]]
     /\ \A k \in DOMAIN before.xperms :
          TypesIn(k) \subseteq known /\ ~HasNetlink(before, k) =>
            /\ Commands(pol, k) \subseteq Commands(before, k)
            /\ ~AloneIn(before.xperms[k]) => Commands(pol, k) = Commands(before, k)
RestoredLabels ==
  pol.genfs = [k \in {k \in DOMAIN before.genfs :
                        /\ before.genfs[k] \notin CommaContexts
                        /\ ContextType[before.genfs[k]] \in DOMAIN pol.flavor}
                 |-> before.genfs[k]]
DumpRestores == Replayed("bare") => RestoredTypes /\ RestoredRules /\ RestoredLabels
================================================================================
