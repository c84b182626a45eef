-------------------------------- MODULE MCAvtab --------------------------------
(***************************************************************************)
(* Model values for Avtab: keys that differ in each part, and a hash that  *)
(* puts most of them into one chain.                                       *)
(***************************************************************************)
EXTENDS Avtab

MCHash == [k \in Keys |-> IF k.source_type = 2 /\ k.target_class = 2 THEN "b2" ELSE "b1"]
================================================================================
