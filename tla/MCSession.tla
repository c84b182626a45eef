------------------------------ MODULE MCSession ------------------------------
(***************************************************************************)
(* Model values for Session: one device with two policy files, a rule file *)
(* that can be read and one that cannot.                                   *)
(***************************************************************************)
EXTENDS Session

MCRules       == {"magisk", "applied", "statement"}
MCStatements  == {"statement"}
MCMagiskRules == {"magisk"}
MCFiles       == {"a", "b"}
MCRuleFiles   == [file \in {"rules"} |-> {"applied"}]

\* The stock policy in one file, and nothing, the stock policy or what a run
\* that failed has left in the other one.
MCDisks == {[f \in MCFiles |-> IF f = "a" THEN Whole({"statement"}) ELSE c] :
              c \in {Absent, Empty, Torn, Whole({})}}

\* Both sources, each way to ask for rules, both ways to publish, and options in
\* an unusual order; and command lines that do not get far.
MCCommands ==
  {<<"--live", "--magisk">>,
   <<"statement", "--live", "--apply", "rules", "--save", "b">>,
   <<"--load", "a", "--magisk", "--save", "b">>,
   <<"--load", "b", "--apply", "rules", "--apply", "rules", "--save", "a">>,
   <<"--load", "a", "--load", "b", "--save", "b", "statement">>,
   <<"--apply", "rules", "--magisk", "--apply", "none", "--save", "b">>,
   <<"--load", "b", "--print-rules">>,
   <<"--print-rules", "--magisk">>,
   <<"--load-split">>,
   <<"--load", "a", "--compile-split">>,
   <<"--magisk", "--save">>,
   <<"--quiet", "--help">>,
   <<"--help", "--quiet">>,
   <<>>}
==============================================================================
