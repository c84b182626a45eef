--------------------------- MODULE MCXpermStatements ---------------------------
(***************************************************************************)
(* Statements about the rule of an attribute, carried out call by call, and *)
(* between them calls of the engine for every pair of commands, for the    *)
(* attribute or for *, and reloads.  The rules of the type must stay as they *)
(* are.  One policy has nodes of all three kinds, one has none, one is too *)
(* old for extended permissions.                                           *)
(***************************************************************************)
EXTENDS XpermStatements

SomeNodes == <<NewNode(FUNCTION, 1, {0}), NewNode(NLMSG, 0, {1}), NewNode(DRIVER, 0, {0})>>
NoNodes == [k \in Keys |-> <<>>]
MCFiles ==
  {[xperms |-> [k \in Keys |-> IF k.source_type = k.target_type THEN SomeNodes ELSE <<>>],
    policyvers |-> 33],
   [xperms |-> NoNodes, policyvers |-> 30],
   [xperms |-> NoNodes, policyvers |-> 29]}

MCTarget == <<2, 2, "chr_file", "XPERMS_ALLOWED">>
MCRanges == {<<0, 0>>, <<1, 1>>, <<2, 3>>, <<1, 2>>, <<3, 0>>}
OneDriver == {<<0, 0>>, <<1, 1>>, <<0, 1>>, <<2, 3>>}

AnyCall ==
  \E s \in Attribs \cup {Any}, t \in Attribs, c \in Classes \cup {Any},
     e \in Effects, low, high \in Codes, reset \in BOOLEAN :
        AddXpermRule(s, t, c, low, high, reset, e)
\* A statement, or a call or a reload of its own; what a statement was is
\* forgotten before the next one.
Idle == todo = <<>> /\ written = None
Between == Idle /\ (AnyCall \/ ReloadXperms) /\ UNCHANGED statementVars
Forget == /\ todo = <<>> /\ written' = None /\ before' = {}
          /\ UNCHANGED <<xpermVars, todo>>
MCNext == \/ Idle /\ \E set \in XpermSet : Begin(set)
          \/ Apply \/ Forget \/ Between
MCSpec == StatementInit /\ [][MCNext]_sVars
================================================================================
