---------------------------- MODULE XpermStatements ----------------------------
(***************************************************************************)
(* An extended permission statement as the interpreter carries it out:     *)
(* parse_xperms turns the set that is written into a list of ranges, and   *)
(* SePolicy::allowxperm calls the engine once for each of them, in order.  *)
(* Nothing else runs in between, but the calls do not know of each other.  *)
(***************************************************************************)
EXTENDS XpermRules

CONSTANTS Target,   \* the <<source, target, class, effect>> of the statements
          MaxItems  \* a bound on the items of a braced set

ASSUME TargetAssumption == Target \in Types \X Types \X Classes \X Effects
ASSUME ItemsAssumption == MaxItems \in Nat

VARIABLES todo,     \* the Xperms of the statement that are still to be applied
          written,  \* the set as it is written, or none before the first one
          before    \* what the rule granted when the statement began

statementVars == <<todo, written, before>>
sVars == <<xpermVars, statementVars>>

\* The forms of a set: *, one command, one range, or a braced list of commands
\* and ranges, which alone may follow a ~.
None == [form |-> "none", negated |-> FALSE, items |-> <<>>]
ItemLists == UNION {[1..n -> Ranges] : n \in 1..MaxItems}
Braced   == [form : {"braces"}, negated : BOOLEAN, items : ItemLists]
Range1   == [form : {"range"}, negated : {FALSE}, items : [1..1 -> Ranges]]
Command  == [form : {"hex"}, negated : {FALSE},
             items : {<<r>> : r \in {p \in Ranges : p[1] = p[2]}}]
Star     == [form : {"star"}, negated : {FALSE}, items : {<<>>}]
XpermSet == Braced \cup Range1 \cup Command \cup Star

Xperm(r, reset) == [low |-> r[1], high |-> r[2], reset |-> reset]
Everything == <<0, Width * Width - 1>>

\* parse_xperms.  A single command 0 becomes every command.  RemainsPlain
\* forgets to carry the ~ over to the items; FirstItemOnly stops too early.
RemainsPlain(set) == [i \in DOMAIN set.items |-> Xperm(set.items[i], FALSE)]
FirstItemOnly(set) == <<Xperm(set.items[1], set.negated)>>
Items(set) == [i \in DOMAIN set.items |-> Xperm(set.items[i], set.negated)]
Xperms(set) ==
  IF set.form = "star" \/ (set.form = "hex" /\ set.items[1][1] = 0)
  THEN <<Xperm(Everything, set.negated)>>
  ELSE Items(set)

Rule == [source_type |-> Target[1], target_type |-> Target[2],
         target_class |-> Target[3], specified |-> Target[4]]

Begin(set) ==
  /\ todo = <<>>
  /\ todo' = Xperms(set)
  /\ written' = set
  /\ before' = Granted(xperms[Rule])
  /\ UNCHANGED xpermVars

\* One call of the engine; one that is refused changes nothing.
Apply ==
  /\ todo # <<>>
  /\ LET p == Head(todo)
     IN \/ AddXpermRule(Target[1], Target[2], Target[3],
                        p.low, p.high, p.reset, Target[4])
        \/ ~Supported /\ UNCHANGED xpermVars
  /\ todo' = Tail(todo)
  /\ UNCHANGED <<written, before>>

StatementInit == XpermInit /\ todo = <<>> /\ written = None /\ before = {}
StatementNext == (\E set \in XpermSet : Begin(set)) \/ Apply

StatementSpec == StatementInit /\ [][StatementNext]_sVars
--------------------------------------------------------------------------------
\* The commands a set lists, and what is in force when its statement is done.
Listed(set) == UNION {set.items[i][1]..set.items[i][2] : i \in DOMAIN set.items}
Done(form) == todo = <<>> /\ written.form \in form /\ Supported
InForce == Granted(xperms[Rule])

\* A plain list grants every command it lists, in whatever order its ranges
\* stand and whatever was in force before, and it takes nothing away.
PlainListsAdd ==
  Done({"braces", "range"}) /\ ~written.negated =>
     Listed(written) \cup before \subseteq InForce

\* Wherever the ~ stands, the last item of a list is not granted afterwards,
\* and what was in force before no longer matters.
ComplementForgets ==
  Done({"braces"}) /\ written.negated =>
     LET last == written.items[Len(written.items)]
     IN /\ InForce \cap (last[1]..last[2]) = {}
        /\ InForce = Granted(Complement(<<>>, last[1], last[2]))
--------------------------------------------------------------------------------
(***************************************************************************)
(* What the help text of the statements says of the same sets.             *)
(***************************************************************************)
\* "The special value 0 is used to clear all rules."
ZeroClearsRules ==
  Done({"hex"}) /\ written.items[1][1] = 0 => InForce = {}

\* "Use the complement operator (~) to specify all permissions except those
\* explicitly listed."
ComplementIsTheRest ==
  Done({"braces"}) /\ written.negated => InForce = Codes \ Listed(written)

\* "Use the range operator (-) to specify all permissions within the range."
RangesAreExact ==
  Done({"braces", "range"}) /\ ~written.negated =>
     InForce = before \cup Listed(written)
================================================================================
