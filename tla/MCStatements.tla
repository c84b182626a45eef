----------------------------- MODULE MCStatements ------------------------------
(***************************************************************************)
(* A policy with every kind of thing a dump prints, one with hardly any,   *)
(* and statements that fill the rest: lists, names that are unknown, match- *)
(* all arguments in and out of braces, every form of extended permission,  *)
(* and statements the parser refuses.                                      *)
(***************************************************************************)
EXTENDS Statements

MCPerms == [file |-> {"read", "write"}, socket |-> {"read", "send"}]
MCBits == {"read", "write", "send", "unnamed"}
MCContextType == [c_app |-> "app", c_tmp |-> "tmp", c_cats |-> "app", c_new |-> "new"]

None == [k \in {} |-> 0]
Flavors == [app |-> "type", tmp |-> "type", lone |-> "type", base |-> "type",
            domain |-> "attribute", files |-> "attribute"]
Nodes(specified, driver, perms) ==
  [specified |-> specified, driver |-> driver, perms |-> perms]

MCBare == [version |-> 33, flavor |-> [base |-> "type"], attrs |-> {}, permissive |-> {},
           av |-> None, type_rules |-> None, xperms |-> None, names |-> None,
           genfs |-> None]

Rich ==
  [version    |-> 33,
   flavor     |-> Flavors,
   attrs      |-> {<<"app", "domain">>, <<"tmp", "files">>},
   permissive |-> {"app"},
   av         |-> <<"app", "tmp", "file", "auditdeny">> :> (MCBits \ {"write"})
                  @@ <<"domain", "files", "socket", "allowed">> :> {"read", "unnamed"}
                  @@ <<"lone", "tmp", "file", "allowed">> :> {"read"},
   type_rules |-> <<"app", "files", "file", "type_transition">> :> "tmp",
   xperms     |-> <<"domain", "domain", "file", "allowxperm">> :>
                     <<Nodes(DRIVER, 0, {0, 2}), Nodes(FUNCTION, 1, {1, 2})>>
                  @@ <<"app", "app", "socket", "allowxperm">> :>
                     <<Nodes(X!NLMSG, 0, {1})>>
                  @@ <<"app", "tmp", "file", "dontauditxperm">> :>
                     <<Nodes(DRIVER, 0, {1, 2})>>,
   names      |-> <<"app", "files", "file", "sock">> :> "tmp",
   genfs      |-> <<"proc", "/">> :> "c_app" @@ <<"proc", "/net">> :> "c_cats"]

Poor == [MCBare EXCEPT !.flavor = Flavors]
MCPolicies == {Rich, Poor}

Rule(op, s, t, c, p) == [op |-> op, s |-> s, t |-> t, c |-> c, p |-> p]
MCRules ==
  {Rule("allow", <<"app", "ghost", "domain">>, <<"tmp", "files">>, <<"file">>, <<"read">>),
   Rule("allow", <<"app">>, <<"tmp">>, <<"file", "socket">>, <<"send", "write">>),
   Rule("dontaudit", <<"app">>, <<"tmp", "app">>, <<"file">>, <<"read", "*">>),
   Rule("deny", <<"domain", "domain">>, <<"files">>, <<"socket", "ghost">>, <<"read">>),
   Rule("auditallow", <<"lone">>, <<"tmp">>, <<"file">>, <<"*">>),
   Rule("deny", <<"*">>, <<"app", "*">>, <<"*">>, <<"*">>),
   Rule("allow", <<"*">>, <<>>, <<"file">>, <<"read">>),
   Rule("allow", <<"app">>, <<"app">>, <<"*">>, <<"read">>)}

Xp(set) == Sentence(<<"allowxperm", "domain", "domain", "file", "ioctl">>) \o set
Text(names) == Sentence(names)
MCTexts ==
  {Xp(<<W("*")>>), Xp(<<Hex(0)>>), Xp(<<Hex(4)>>), Xp(<<Span(<<3, 5>>)>>),
   Xp(<<W("~")>> \o Braced(<<Hex(1), Span(<<4, 5>>)>>)),
   Xp(Braced(<<Hex(1), W("-"), Hex(7), Hex(8)>>)),
   Xp(Braced(<<Hex(1), W("-"), Hex(2), W("-"), Hex(7)>>)),
   Xp(Braced(<<>>)), Xp(<<W("~"), Hex(1)>>),
   Text(<<"allowxperm", "*", "*", "socket", "ioctl", "*">>),
   Text(<<"type", "new", "{", "domain", "ghost", "}">>), Text(<<"type", "new">>),
   Text(<<"attribute", "extra">>), Text(<<"typeattribute", "lone", "files">>),
   Text(<<"typeattribute", "{", "lone", "ghost", "app", "}", "{", "domain", "files", "}">>),
   Text(<<"permissive", "*">>), Text(<<"permissive", "{", "lone", "tmp", "}">>),
   Text(<<"enforce", "{", "}">>),
   Text(<<"type_transition", "app", "tmp", "file", "lone">>),
   Text(<<"type_transition", "app", "files", "file", "base", "sock">>),
   Text(<<"type_change", "app", "files", "file", "base">>),
   Text(<<"genfscon", "proc", "/", "c_tmp">>), Text(<<"genfscon", "sysfs", "/", "c_new">>),
   Text(<<"allow", "app", "tmp", "file">>),
   Text(<<"allow", "app", "tmp", "file", "read", "write">>),
   Text(<<"allow", "{", "app", "{", "tmp", "}", "file", "read">>),
   Text(<<"grant", "app">>)}
================================================================================
