------------------------------ MODULE MCPolicyTypes ------------------------------
(***************************************************************************)
(* Two small policies for PolicyTypes.  The first has two types, an alias, *)
(* an attribute the first type has, a role of one type and constraints     *)
(* over the type, the attribute, both, and the attribute less a type.  The *)
(* second has a value no name uses, which an expanded attribute leaves.    *)
(***************************************************************************)
EXTENDS PolicyTypes

D(v, f, p) == [value |-> v, flavor |-> f, primary |-> p]
E(ts, ns, xs) == [types |-> ts, negset |-> ns, names |-> xs]

WithAlias ==
  [types |-> [n \in {"app", "init", "init_alias", "domain"} |->
                CASE n = "app"        -> D(1, TYPE_TYPE, TRUE)
                  [] n = "domain"     -> D(2, TYPE_ATTRIB, TRUE)
                  [] n = "init"       -> D(3, TYPE_TYPE, TRUE)
                  [] n = "init_alias" -> D(3, TYPE_TYPE, FALSE)],
   nprim |-> 3,
   attrs |-> [v \in Values |-> IF v = 1 THEN {2} ELSE {}],
   permissive |-> {3},
   roles |-> [r \in Roles |-> IF r = "r" THEN {1} ELSE {}],
   exprs |-> [e \in Exprs |-> CASE e = "attr"   -> E({2}, {}, {1})
                                [] e = "type"   -> E({3}, {}, {3})
                                [] e = "except" -> E({2}, {3}, {1})]]

WithHole ==
  [types |-> [n \in {"app", "domain"} |->
                CASE n = "app"        -> D(3, TYPE_TYPE, TRUE)
                  [] n = "domain"     -> D(1, TYPE_ATTRIB, TRUE)],
   nprim |-> 3,
   attrs |-> [v \in Values |-> {}],
   permissive |-> {},
   roles |-> [r \in Roles |-> {3}],
   exprs |-> [e \in Exprs |-> CASE e = "attr"   -> E({1, 3}, {}, {3})
                                [] e = "type"   -> E({3}, {}, {3})
                                [] e = "except" -> E({1}, {3}, {})]]

MCLoaded == {WithAlias, WithHole}
================================================================================
