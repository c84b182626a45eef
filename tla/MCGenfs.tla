-------------------------------- MODULE MCGenfs --------------------------------
(***************************************************************************)
(* Two file systems, the names "/", "/a" and "/aa", each the beginning of  *)
(* the next, and a policy with two entries of one name for two classes.    *)
(* The bound is the number of genfscon statements.                         *)
(***************************************************************************)
EXTENDS Genfs

CONSTANT MaxStatements
VARIABLE statements

E(n, c, x) == [name |-> n, sclass |-> c, context |-> x]

MCPaths == {<<"/">>, <<"/", "a">>, <<"/", "a", "a">>}

MCFiles == {<<>>,
            <<[fstype |-> 2, head |-> <<E(<<"/">>, AnyClass, "x")>>]>>,
            <<[fstype |-> 1, head |-> <<E(<<"/">>, AnyClass, "y"),
                                        E(<<"/", "a">>, 1, "x"),
                                        E(<<"/", "a">>, 2, "y")>>]>>}

MCInit == GenfsInit /\ statements = 0
MCNext == \/ /\ statements < MaxStatements
             /\ statements' = statements + 1
             /\ \E fs \in FsTypes, path \in Paths, ctx \in Contexts :
                   AddGenfscon(fs, path, ctx)
          \/ ReloadGenfs /\ UNCHANGED statements
MCSpec == MCInit /\ [][MCNext]_<<genfs, statements>>
================================================================================
