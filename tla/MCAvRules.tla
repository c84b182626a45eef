------------------------------- MODULE MCAvRules -------------------------------
(***************************************************************************)
(* Small policies for AvRules: one type with an attribute, one without,    *)
(* one name free for a new type or attribute.  Bit 3 of a vector names no  *)
(* permission.  The bound is the number of statements of a run.            *)
(***************************************************************************)
EXTENDS AvRules

CONSTANT MaxStatements
VARIABLE statements

D(v, f) == [value |-> v, flavor |-> f, primary |-> TRUE]

MCLoaded ==
  {[types |-> [n \in {"app", "domain"} |->
                 IF n = "app" THEN D(1, TYPE_TYPE) ELSE D(2, TYPE_ATTRIB)],
    nprim |-> 2,
    attrs |-> [v \in Values |-> a[v]],
    permissive |-> {}, roles |-> [r \in Roles |-> {1}],
    exprs |-> [e \in Exprs |-> <<>>]]
      : a \in {[v \in Values |-> {}], [v \in Values |-> IF v = 1 THEN {2} ELSE {}]}}

MCPerms == [c \in Classes |-> IF 3 \in Bits THEN {1, 2} ELSE {1}]

MCAvFiles ==
  {[avtab |-> [k \in {Key(2, 2, "file", AVTAB_ALLOWED)} |-> {1}],
    type_rules |-> <<>>],
   [avtab |-> [k \in {Key(1, 2, "file", AVTAB_ALLOWED),
                      Key(2, 1, "file", AVTAB_AUDITDENY)} |-> Bits \ {1}],
    type_rules |-> [k \in {Key(1, 2, "file", "transition")} |-> 1]]}

MCInit == AvInit /\ statements = 0
MCNext == /\ statements < MaxStatements
          /\ statements' = statements + 1
          /\ AvNext
MCSpec == MCInit /\ [][MCNext]_<<avVars, statements>>
================================================================================
