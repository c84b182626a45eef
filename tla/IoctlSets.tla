------------------------------- MODULE IoctlSets -------------------------------
(***************************************************************************)
(* What the extended permission rules promise: for every key a set of      *)
(* ioctl commands, widened by a plain range and replaced by a complemented *)
(* one.  A range within one driver is exact; a range over several drivers  *)
(* stands for all the commands of each driver it touches.  There are no    *)
(* nodes here; XpermRules implements this with driver and function nodes.  *)
(***************************************************************************)
EXTENDS Integers

CONSTANTS Types,    \* the values of types and attributes
          Attribs,  \* those of attributes
          Classes,  \* the object classes
          Effects,  \* allowed, audited, silenced
          Width     \* the number of drivers, and of the functions of a driver

VARIABLES granted,  \* key -> the commands its rule names
          present   \* the keys that have a rule, one that names nothing included

Keys == [source_type : Types, target_type : Types,
         target_class : Classes, specified : Effects]
Codes == 0..(Width * Width - 1)
DriverOf(x) == x \div Width

\* The commands a range stands for.
Round(low, high) ==
  IF DriverOf(low) = DriverOf(high) THEN low..high
  ELSE {x \in Codes : DriverOf(x) \in DriverOf(low)..DriverOf(high)}

\* A field of a statement: one type or class, or a *, which stands for all the
\* attributes or for all the classes.
Fields == {{t} : t \in Types} \cup {Attribs}
ClassFields == {{c} : c \in Classes} \cup {Classes}

Init == granted \in [Keys -> SUBSET Codes] /\ present \in SUBSET Keys

Widen(K, low, high) ==
  granted' = [k \in Keys |-> IF k \in K THEN granted[k] \cup Round(low, high)
                                        ELSE granted[k]]

AllBut(K, low, high) ==
  granted' = [k \in Keys |-> IF k \in K THEN Codes \ Round(low, high)
                                        ELSE granted[k]]

\* Every key a rule reaches has one afterwards, whatever it names.
Next ==
  \E S, T \in Fields, C \in ClassFields, e \in Effects, low, high \in Codes :
     LET K == {k \in Keys : /\ k.source_type \in S /\ k.target_type \in T
                            /\ k.target_class \in C /\ k.specified = e}
     IN /\ Widen(K, low, high) \/ AllBut(K, low, high)
        /\ present' = present \cup K

Spec == Init /\ [][Next]_<<granted, present>>
================================================================================
