-------------------------------- MODULE Session --------------------------------
(***************************************************************************)
(* Invocations of the magiskpolicy program, at once or one after another,  *)
(* over the policy files and the live policy of one device: parse_args,    *)
(* run, and the file access of sepol_db_from_file and sepol_db_to_file.    *)
(* A policy is the set of rules it has here; what a rule does to a policy  *)
(* is the business of the other modules.                                   *)
(*                                                                         *)
(* Every system call is a step of its own, except that reading a file is   *)
(* two steps, open and close: a file that changes in between is refused,   *)
(* or taken for a policy with rules of the old and of the new file.        *)
(* Invocations may be killed anywhere.                                     *)
(***************************************************************************)
EXTENDS Integers, SequencesExt

CONSTANTS Invocations,  \* the runs of the program
          Commands,     \* the command lines they may have, sequences of words
          Files,        \* the paths of policy files
          RuleFiles,    \* readable rule file -> the rules in it
          Rules,        \* the rules there are
          Statements,   \* the words that are statements, each of one rule
          MagiskRules,  \* the rules of --magisk
          Disks         \* what the policy files may hold at first

VARIABLES pc,      \* where each run is
          args,    \* its command line
          cfg,     \* its CliConfig
          next,    \* the index in cfg.apply of the next rule file
          db,      \* the policy it holds
          seen,    \* what the file it is reading held since it was opened
          opened,  \* the runs that opened their file for writing
          disk,    \* the policy files
          live,    \* the policy the kernel has
          base     \* what live was when a run loaded it; nothing depends on it

vars == <<pc, args, cfg, next, db, seen, opened, disk, live, base>>

Absent   == [state |-> "absent", rules |-> {}]
Empty    == [state |-> "empty", rules |-> {}]   \* of size 0
Torn     == [state |-> "torn", rules |-> {}]    \* the first part of a policy
Whole(S) == [state |-> "whole", rules |-> S]
Contents == {Absent, Empty, Torn} \cup {Whole(S) : S \in SUBSET Rules}

Running == {"run", "reading", "rules", "apply", "live", "save",
            "truncate", "write", "close", "close_short"}
Ended   == {"ok", "error", "killed"}

ASSUME RulesAssumption ==
  /\ Statements \subseteq Rules /\ MagiskRules \subseteq Rules
  /\ \A f \in DOMAIN RuleFiles : RuleFiles[f] \subseteq Rules
  /\ Disks \subseteq [Files -> Contents]
--------------------------------------------------------------------------------
(***************************************************************************)
(* parse_args takes the words one by one.  An option that takes a value    *)
(* waits for the next word; --load and --save keep the last one they get.  *)
(***************************************************************************)
NoFile == "no file"
Flags  == {"--live", "--magisk", "--compile-split", "--load-split", "--print-rules"}
ValueOptions == {"--load", "--save", "--apply"}

\* A statement does not look like an option, nor does the value of an option
\* look like another option or a statement.
ASSUME CommandsAssumption ==
  /\ Commands \subseteq Seq(STRING)
  /\ Statements \subseteq STRING
  /\ Statements \cap (Flags \cup ValueOptions) = {}
  /\ \A words \in Commands : \A i \in 1..(Len(words) - 1) :
       /\ words[i] \in ValueOptions =>
            words[i + 1] \notin Flags \cup ValueOptions \cup Statements \cup {NoFile}
       /\ words[i] \in {"--load", "--save"} => words[i + 1] \in Files

CliConfig == [flags : SUBSET Flags,
              load : Files \cup {NoFile}, save : Files \cup {NoFile},
              apply : Seq(STRING), policies : Seq(Statements),
              waits : ValueOptions \cup {NoFile}, exit : {NoFile, "ok", "error"}]

NoConfig == [flags |-> {}, load |-> NoFile, save |-> NoFile,
             apply |-> <<>>, policies |-> <<>>, waits |-> NoFile, exit |-> NoFile]

Value(c, word) ==
  CASE c.waits = "--load"  -> [c EXCEPT !.load = word, !.waits = NoFile]
    [] c.waits = "--save"  -> [c EXCEPT !.save = word, !.waits = NoFile]
    [] c.waits = "--apply" -> [c EXCEPT !.apply = Append(@, word), !.waits = NoFile]

Option(c, word) ==
  CASE word \in ValueOptions -> [c EXCEPT !.waits = word]
    [] word \in Flags        -> [c EXCEPT !.flags = @ \cup {word}]
    [] word \in Statements   -> [c EXCEPT !.policies = Append(@, word)]
    [] OTHER                 -> [c EXCEPT !.exit = IF word = "--help" THEN "ok" ELSE "error"]

Take(c, word) == IF c.exit # NoFile THEN c
                 ELSE IF c.waits # NoFile THEN Value(c, word) ELSE Option(c, word)

\* The configuration after each number of words.
Taken(words) ==
  LET config[n \in 0..Len(words)] ==
        IF n = 0 THEN NoConfig ELSE Take(config[n - 1], words[n])
  IN config

ParseArgs(words) ==
  LET c == Taken(words)[Len(words)]
  IN IF words = <<>> \/ (c.waits # NoFile /\ c.exit = NoFile)
     THEN [c EXCEPT !.exit = "error"] ELSE c

\* The sources of the policy that are asked for; more than one is an error.
Sources(c) == (c.flags \cap {"--compile-split", "--load-split"})
                \cup (IF c.load # NoFile THEN {"--load"} ELSE {})
Changes(c) == \/ {"--magisk", "--live"} \cap c.flags # {}
              \/ c.apply # <<>> \/ c.policies # <<>> \/ c.save # NoFile

Init ==
  /\ pc = [p \in Invocations |-> "start"]
  /\ args = [p \in Invocations |-> <<>>]
  /\ cfg = [p \in Invocations |-> NoConfig]
  /\ next = [p \in Invocations |-> 1]
  /\ db = [p \in Invocations |-> {}]
  /\ seen = [p \in Invocations |-> {}]
  /\ opened = {}
  /\ disk \in Disks
  /\ live = {}
  /\ base = [p \in Invocations |-> {}]
--------------------------------------------------------------------------------
Goto(p, label) == pc' = [pc EXCEPT ![p] = label]

Start(p) ==
  /\ pc[p] = "start"
  /\ \E words \in Commands :
       LET c == ParseArgs(words)
       IN /\ args' = [args EXCEPT ![p] = words]
          /\ cfg' = [cfg EXCEPT ![p] = c]
          /\ Goto(p, IF c.exit # NoFile THEN c.exit
                     ELSE IF Cardinality(Sources(c)) > 1 THEN "error" ELSE "run")
  /\ UNCHANGED <<next, db, seen, opened, disk, live, base>>

\* The kernel hands out the live policy whole, or refuses.
LoadLivePolicy(p) ==
  /\ pc[p] = "run" /\ Sources(cfg[p]) = {}
  /\ \/ /\ Goto(p, "rules")
        /\ db' = [db EXCEPT ![p] = live] /\ base' = [base EXCEPT ![p] = live]
     \/ Goto(p, "error") /\ UNCHANGED <<db, base>>
  /\ UNCHANGED <<args, cfg, next, seen, opened, disk, live>>

\* from_split and compile_split are not implemented.
LoadSplit(p) ==
  /\ pc[p] = "run" /\ Sources(cfg[p]) \notin {{}, {"--load"}}
  /\ Goto(p, "error")
  /\ UNCHANGED <<args, cfg, next, db, seen, opened, disk, live, base>>

OpenPolicy(p) ==
  /\ pc[p] = "run" /\ Sources(cfg[p]) = {"--load"}
  /\ LET content == disk[cfg[p].load]
     IN IF content = Absent
        THEN Goto(p, "error") /\ UNCHANGED seen
        ELSE Goto(p, "reading") /\ seen' = [seen EXCEPT ![p] = {content}]
  /\ UNCHANGED <<args, cfg, next, db, opened, disk, live, base>>

\* The bug of a reader that does not notice the end of the file.
PoliciesOrNone(contents) == {c.rules : c \in contents}

\* The policies a reader may make of a file that held these one after another:
\* of two policies it may get the first part of one and the rest of the other.
IsPolicy(content) == content.state = "whole"
PoliciesIn(contents) ==
  LET policies == {c.rules : c \in {d \in contents : IsPolicy(d)}}
  IN IF Cardinality(policies) > 1 THEN SUBSET UNION policies ELSE policies

ReadPolicy(p) ==
  /\ pc[p] = "reading"
  /\ \/ \E policy \in PoliciesIn(seen[p]) :
          Goto(p, "rules") /\ db' = [db EXCEPT ![p] = policy]
     \/ /\ \A S \in SUBSET Rules : seen[p] # {Whole(S)}
        /\ Goto(p, "error")
        /\ UNCHANGED db
  /\ seen' = [seen EXCEPT ![p] = {}]
  /\ UNCHANGED <<args, cfg, next, opened, disk, live, base>>

\* --print-rules wants to be the only option besides the source.
PrintRules(p) ==
  /\ pc[p] = "rules" /\ "--print-rules" \in cfg[p].flags
  /\ Goto(p, IF Changes(cfg[p]) THEN "error" ELSE "ok")
  /\ UNCHANGED <<args, cfg, next, db, seen, opened, disk, live, base>>

\* Rules are added to those of the policy; Instead would forget the latter.
Instead(policy, rules) == rules
With(policy, rules)    == policy \cup rules

\* First the built-in rules, then the rule files, then the statements.
Builtin(p) ==
  /\ pc[p] = "rules" /\ "--print-rules" \notin cfg[p].flags
  /\ Goto(p, "apply")
  /\ IF "--magisk" \in cfg[p].flags
     THEN db' = [db EXCEPT ![p] = With(@, MagiskRules)]
     ELSE UNCHANGED db
  /\ UNCHANGED <<args, cfg, next, seen, opened, disk, live, base>>

\* A rule file that cannot be read ends the run; Skipped would go on without.
\* Following is the next of the files; SameAgain never comes to an end of them.
Skipped      == "apply"
Unreadable   == "error"
SameAgain(i) == i
Following(i) == i + 1
ApplyFile(p) ==
  /\ pc[p] = "apply" /\ next[p] <= Len(cfg[p].apply)
  /\ LET file == cfg[p].apply[next[p]]
     IN IF file \in DOMAIN RuleFiles
        THEN db' = [db EXCEPT ![p] = With(@, RuleFiles[file])] /\ UNCHANGED pc
        ELSE Goto(p, Unreadable) /\ UNCHANGED db
  /\ next' = [next EXCEPT ![p] = Following(@)]
  /\ UNCHANGED <<args, cfg, seen, opened, disk, live, base>>

ApplyStatements(p) ==
  /\ pc[p] = "apply" /\ next[p] > Len(cfg[p].apply)
  /\ db' = [db EXCEPT ![p] = With(@, ToSet(cfg[p].policies))]
  /\ Goto(p, "live")
  /\ UNCHANGED <<args, cfg, next, seen, opened, disk, live, base>>

\* The kernel takes a policy whole, or not at all.
LoadLive(p) ==
  /\ pc[p] = "live"
  /\ \/ /\ "--live" \notin cfg[p].flags
        /\ Goto(p, "save") /\ UNCHANGED live
     \/ /\ "--live" \in cfg[p].flags
        /\ \/ Goto(p, "save") /\ live' = db[p]
           \/ Goto(p, "error") /\ live' \in {live, db[p]}
  /\ UNCHANGED <<args, cfg, next, db, seen, opened, disk, base>>
--------------------------------------------------------------------------------
(***************************************************************************)
(* sepol_db_to_file and write_buffer_to_path: the policy is put into       *)
(* memory first, then the file is opened with O_TRUNC, truncated again if  *)
(* it is not empty, written with one call and closed.                      *)
(***************************************************************************)
Put(file, content) ==
  /\ disk' = [disk EXCEPT ![file] = content]
  /\ seen' = [q \in Invocations |->
                IF pc[q] = "reading" /\ cfg[q].load = file
                THEN seen[q] \cup {content} ELSE seen[q]]

Save(p) ==
  /\ pc[p] = "save"
  /\ \/ /\ cfg[p].save = NoFile
        /\ Goto(p, "ok") /\ UNCHANGED <<disk, seen, opened>>
     \/ /\ cfg[p].save # NoFile
        /\ Goto(p, "truncate")
        /\ opened' = opened \cup {p}
        /\ Put(cfg[p].save, Empty)
     \* The policy does not serialize, or the file does not open.
     \/ /\ cfg[p].save # NoFile
        /\ Goto(p, "error") /\ UNCHANGED <<disk, seen, opened>>
  /\ UNCHANGED <<args, cfg, next, db, live, base>>

Truncate(p) ==
  /\ pc[p] = "truncate"
  /\ Goto(p, "write")
  /\ IF disk[cfg[p].save] # Empty THEN Put(cfg[p].save, Empty)
                                  ELSE UNCHANGED <<disk, seen>>
  /\ UNCHANGED <<args, cfg, next, db, opened, live, base>>

\* A whole policy is read as such whatever follows it in the file.  ShortIsFine
\* does not compare what was written with the size.
ShortIsFine == "close"
ShortWrite  == "close_short"
Write(p) ==
  /\ pc[p] = "write"
  /\ \/ Goto(p, "close") /\ Put(cfg[p].save, Whole(db[p]))
     \/ Goto(p, ShortWrite) /\ Put(cfg[p].save, Torn)
     \/ Goto(p, ShortWrite) /\ UNCHANGED <<disk, seen>>
  /\ UNCHANGED <<args, cfg, next, db, opened, live, base>>

Close(p) ==
  /\ pc[p] \in {"close", "close_short"}
  /\ \/ pc[p] = "close" /\ Goto(p, "ok")
     \/ Goto(p, "error")
  /\ UNCHANGED <<args, cfg, next, db, seen, opened, disk, live, base>>

Kill(p) == /\ pc[p] \in Running
           /\ Goto(p, "killed")
           /\ UNCHANGED <<args, cfg, next, db, seen, opened, disk, live, base>>

Step(p) ==
  \/ Start(p) \/ LoadLivePolicy(p) \/ LoadSplit(p) \/ OpenPolicy(p) \/ ReadPolicy(p)
  \/ PrintRules(p) \/ Builtin(p) \/ ApplyFile(p) \/ ApplyStatements(p)
  \/ LoadLive(p) \/ Save(p) \/ Truncate(p) \/ Write(p) \/ Close(p)

Next == \E p \in Invocations : Step(p) \/ Kill(p)

\* The system runs every process that can go on; nothing has to be killed.
Fairness == \A p \in Invocations : WF_vars(Step(p))
Spec == Init /\ [][Next]_vars /\ Fairness
--------------------------------------------------------------------------------
SessionTypeOK ==
  /\ pc \in [Invocations -> Running \cup Ended \cup {"start"}]
  /\ args \in [Invocations -> Commands \cup {<<>>}]
  /\ cfg \in [Invocations -> CliConfig]
  /\ next \in [Invocations -> Nat]
  /\ \A p \in Invocations : next[p] \in 1..(Len(cfg[p].apply) + 1)
  /\ db \in [Invocations -> SUBSET Rules]
  /\ seen \in [Invocations -> SUBSET Contents]
  /\ opened \subseteq Invocations
  /\ disk \in [Files -> Contents]
  /\ live \subseteq Rules
  /\ base \in [Invocations -> SUBSET Rules]

(***************************************************************************)
(* What a command line asks for, read off its words.                       *)
(***************************************************************************)
ValuesOf(words, opt) ==
  {words[i + 1] : i \in {j \in 1..(Len(words) - 1) : words[j] = opt}}
Asked(words) ==
  (ToSet(words) \cap Statements)
    \cup (UNION {RuleFiles[f] : f \in ValuesOf(words, "--apply") \cap DOMAIN RuleFiles})
    \cup (IF "--magisk" \in ToSet(words) THEN MagiskRules ELSE {})

\* p is the run that takes the step, and it changes what others can see.
Publishes(p) == pc'[p] # pc[p] /\ <<disk, live>>' # <<disk, live>>

\* All or nothing: a run touches neither the kernel's policy nor a file, not
\* even to truncate it, unless its policy has every rule that was asked for,
\* wherever the options stood on the line and however many there were, and
\* every rule file could be read.
AllOrNothing ==
  [][\A p \in Invocations : Publishes(p) =>
       /\ Asked(args[p]) \subseteq db[p]
       /\ ValuesOf(args[p], "--apply") \subseteq DOMAIN RuleFiles]_vars

\* Once all the runs that opened a file for writing have ended well, whatever
\* the order of their truncations and writes was, the file is the policy of
\* one of them, and no part of one or empty.
WritersOf(f) == {p \in opened : cfg[p].save = f}
SavedIsWhole ==
  /\ SessionTypeOK
  /\ \A f \in Files :
       (WritersOf(f) # {} /\ \A p \in WritersOf(f) : pc[p] = "ok") =>
         \E p \in WritersOf(f) : disk[f] = Whole(db[p])

\* No run goes on with what it found in a file that held no policy all the time
\* it was open: what a run that failed or is not yet done has left, empty or
\* torn, is refused and not taken for a policy without rules.
NothingFromTornFiles ==
  [][\A p \in Invocations : (pc[p] = "reading" /\ pc'[p] = "rules") =>
       \E content \in seen[p] : IsPolicy(content)]_vars

\* A run that starts from the kernel's policy, and finds that policy there again
\* when it puts its own in place, takes away no rule.  Runs that overlap may:
\* nothing tells the second one that the first one has changed the policy.
LiveKeepsRules ==
  [][\A p \in Invocations :
       (Publishes(p) /\ cfg[p].load = NoFile /\ base[p] = live) => live \subseteq live']_vars

\* Every run that has started comes to an end.
EveryRunEnds == \A p \in Invocations : pc[p] \in Running ~> pc[p] \in Ended
================================================================================
