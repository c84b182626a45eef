------------------------------- MODULE RuleMatrix -------------------------------
(***************************************************************************)
(* What allow, deny, auditallow and dontaudit promise: a matrix with one   *)
(* access vector for every source, target, class and effect, of which a    *)
(* statement sets or clears bits.  There is no table, no node and no       *)
(* default entry here; AvRules implements this with the sparse te_avtab.   *)
(***************************************************************************)
EXTENDS Integers

CONSTANTS Values,   \* the values types and attributes may have
          Classes,  \* the object classes
          Bits      \* the bits of an access vector

VARIABLES declared,  \* the values that name a type or an attribute
          attribs,   \* those that name an attribute
          matrix     \* key -> access vector

AVTAB_ALLOWED    == "allowed"
AVTAB_AUDITALLOW == "auditallow"
AVTAB_AUDITDENY  == "auditdeny"
Effects == {AVTAB_ALLOWED, AVTAB_AUDITALLOW, AVTAB_AUDITDENY}

Keys == [source_type : Values, target_type : Values,
         target_class : Classes, specified : Effects]

\* The vector that says nothing: no grant, no audited grant, no silent denial.
NoRule(specified) == IF specified = AVTAB_AUDITDENY THEN Bits ELSE {}

\* A statement adds an effect to its bits, or takes one away.
Adds(effect, invert) == (effect = AVTAB_AUDITDENY) = invert

\* What * stands for in a type field: everything when rights are taken away,
\* the attributes alone when they are given.
Everything(effect, invert) == IF Adds(effect, invert) THEN attribs ELSE declared
Fields(effect, invert) == {{v} : v \in declared} \cup {Everything(effect, invert)}

MatrixTypeOK ==
  /\ attribs \subseteq declared /\ declared \subseteq Values
  /\ matrix \in [Keys -> SUBSET Bits]

Init ==
  /\ attribs \subseteq declared /\ declared \subseteq Values
  /\ matrix \in [Keys -> SUBSET Bits]

Apply(S, T, C, bits, effect, invert) ==
  /\ matrix' = [k \in Keys |->
                  IF /\ k.source_type \in S /\ k.target_type \in T
                     /\ k.target_class \in C /\ k.specified = effect
                  THEN IF invert THEN matrix[k] \ bits ELSE matrix[k] \cup bits
                  ELSE matrix[k]]
  /\ UNCHANGED <<declared, attribs>>

\* A new type or attribute has no rules of its own.
Declare(v, isAttrib) ==
  /\ v \in Values \ declared
  /\ \A k \in Keys : v \in {k.source_type, k.target_type} =>
                        matrix[k] = NoRule(k.specified)
  /\ declared' = declared \cup {v}
  /\ attribs' = IF isAttrib THEN attribs \cup {v} ELSE attribs
  /\ UNCHANGED matrix

Next ==
  \/ \E effect \in Effects, invert \in BOOLEAN :
       \E S, T \in Fields(effect, invert) :
       \E C \in {{c} : c \in Classes} \cup {Classes} :
       \E bits \in {{b} : b \in Bits} \cup {Bits} :
          Apply(S, T, C, bits, effect, invert)
  \/ \E v \in Values, isAttrib \in BOOLEAN : Declare(v, isAttrib)

Spec == Init /\ [][Next]_<<declared, attribs, matrix>>
================================================================================
