---------------------------- MODULE MCFilenameTrans -----------------------------
(***************************************************************************)
(* One key (chains of different keys have nothing in common), three types  *)
(* as sources and defaults, so that a chain can have two nodes between     *)
(* which a statement has to choose, and a policy of each format.           *)
(***************************************************************************)
EXTENDS FilenameTrans

Empty == [k \in Keys |-> <<>>]
TwoNodes == [k \in Keys |-> <<[otype |-> 1, stypes |-> {1}], [otype |-> 2, stypes |-> {2, 3}]>>]

MCFiles == {[trans |-> t, policyvers |-> v] : t \in {Empty, TwoNodes}, v \in {30, 33}}
             \cup {[trans |-> Empty, policyvers |-> 24]}
OldFiles  == {f \in MCFiles : f.policyvers = 24}
MidFiles  == {f \in MCFiles : f.policyvers = 30}
NewFiles  == {f \in MCFiles : f.policyvers = 33}
================================================================================
