----------------------------- MODULE FilenameTrans -----------------------------
(***************************************************************************)
(* The filename transitions: sepol_add_filename_trans over the table       *)
(* filename_trans, and what saving and loading makes of it.  The table     *)
(* maps a key (target type, class and file name) to a chain of nodes; a    *)
(* node has one default type and the set of source types that get it.  An  *)
(* access decision takes the first node of the chain with the source.      *)
(* Allocation does not fail here.                                          *)
(***************************************************************************)
EXTENDS Integers, SequencesExt

CONSTANTS Keys,      \* the keys in use
          Types,     \* the type values in use, sources and defaults
          MaxChain,  \* a bound on the nodes of a chain
          Files      \* the policy files a run may start from

VARIABLES filename_trans,        \* key -> its chain, <<>> for an absent key
          filename_trans_count,  \* the number of transitions
          policyvers,            \* the version of the policy
          undefined              \* a node was freed that the table still holds

ftVars == <<filename_trans, filename_trans_count, policyvers, undefined>>

POLICYDB_VERSION_FILENAME_TRANS == 25
POLICYDB_VERSION_COMP_FTRANS    == 33

Datum == [otype : Types, stypes : SUBSET Types]
\* A node for one source.
Node(s, d) == [otype |-> d, stypes |-> {s}]

\* filename_trans_check_datum: in one chain a default and a source occur once.
IsChecked(chain) ==
  \A i, j \in DOMAIN chain :
     i < j => /\ chain[i].otype # chain[j].otype
              /\ chain[i].stypes \cap chain[j].stypes = {}

Entries(chain) == FoldLeft(LAMBDA n, node : n + Cardinality(node.stypes), 0, chain)
EntriesOf(trans) == MapThenSumSet(LAMBDA k : Entries(trans[k]), Keys)

ASSUME TypesAssumption == Types \subseteq Nat \ {0} /\ IsFiniteSet(Types)
ASSUME KeysAssumption == IsFiniteSet(Keys)
ASSUME FilesAssumption ==
  \A f \in Files : /\ f.trans \in [Keys -> Seq(Datum)]
                   /\ \A k \in Keys : IsChecked(f.trans[k])
                   /\ f.policyvers \in Nat
                   /\ f.policyvers < POLICYDB_VERSION_FILENAME_TRANS =>
                        \A k \in Keys : f.trans[k] = <<>>

FtInit == \E f \in Files : /\ filename_trans = f.trans
                           /\ filename_trans_count = EntriesOf(f.trans)
                           /\ policyvers = f.policyvers
                           /\ undefined = FALSE
--------------------------------------------------------------------------------
(***************************************************************************)
(* The walk down a chain: it stops at the first node that has the source   *)
(* or the default, at position 0 when no node has either.                  *)
(***************************************************************************)
First(S) == IF S = {} THEN 0 ELSE Min(S)
WalkByDefault(chain, s, d) == First({i \in DOMAIN chain : chain[i].otype = d})
Walk(chain, s, d) ==
  First({i \in DOMAIN chain : s \in chain[i].stypes \/ chain[i].otype = d})

\* A source that is there gets the new default, with all the others of its node.
UpdateAlone(node, s, d) == Node(s, d)
Update(node, s, d) == [node EXCEPT !.otype = d]

\* What a call adds to filename_trans_count.
CountEveryCall(old) == filename_trans_count + 1
CountUnless(old) == filename_trans_count + (IF old THEN 0 ELSE 1)

\* sepol_add_filename_trans, the names being declared.
AddFilenameTrans(k, s, d) ==
  LET chain == filename_trans[k]
      at    == Walk(chain, s, d)
      old   == at # 0 /\ s \in chain[at].stypes
      Becomes(c) == filename_trans' = [filename_trans EXCEPT ![k] = c]
  IN /\ ~undefined
     /\ \/ /\ old
           /\ Becomes([chain EXCEPT ![at] = Update(@, s, d)])
           /\ UNCHANGED undefined
        \/ /\ at = 0 /\ Len(chain) < MaxChain
           /\ Becomes(Append(chain, Node(s, d)))
           /\ UNCHANGED undefined
        \/ /\ at > 1 /\ ~old
           /\ Becomes([chain EXCEPT ![at].stypes = @ \cup {s}])
           /\ UNCHANGED undefined
        \* The first node is taken for a new one: hashtab_insert refuses its
        \* key, and it is freed.  What later calls find there is undefined, so
        \* nothing is said of them.
        \/ /\ at = 1 /\ ~old
           /\ undefined' = TRUE
           /\ UNCHANGED filename_trans
     /\ filename_trans_count' = IF undefined' THEN filename_trans_count
                                              ELSE CountUnless(old)
     /\ UNCHANGED policyvers
--------------------------------------------------------------------------------
(***************************************************************************)
(* Saving and loading.  Before version 25 the file has no transitions; up  *)
(* to 32 it has one entry for every source, and loading builds the chains  *)
(* again; from 33 on it has the chains, and loading checks them.           *)
(***************************************************************************)
\* policydb_filetrans_insert; InsertOrUpdate would treat a source that is there
\* as a statement does.
InsertOrUpdate(chain, s, d) ==
  LET at == Walk(chain, s, d)
  IN IF at = 0 THEN Append(chain, Node(s, d))
     ELSE IF s \in chain[at].stypes THEN [chain EXCEPT ![at] = Update(@, s, d)]
     ELSE [chain EXCEPT ![at].stypes = @ \cup {s}]
InsertEntry(chain, s, d) ==
  LET at == Walk(chain, s, d)
  IN IF at = 0 THEN Append(chain, Node(s, d))
     ELSE [chain EXCEPT ![at].stypes = @ \cup {s}]

\* The entries of a node are written by source, those of a chain by node: the
\* greatest source is inserted after all the others.
ReadNode(chain, node) ==
  MapThenFoldSet(LAMBDA s, c : InsertEntry(c, s, node.otype), chain,
                 LAMBDA s : s, Max, node.stypes)

ReadEntries(nodes) == FoldLeft(ReadNode, <<>>, nodes)

Reread(chain) ==
  CASE policyvers < POLICYDB_VERSION_FILENAME_TRANS -> <<>>
    [] policyvers >= POLICYDB_VERSION_COMP_FTRANS   -> chain
    [] OTHER                                        -> ReadEntries(chain)

\* The file says how many entries follow; a wrong number makes it unreadable.
FileLoads ==
  CASE policyvers < POLICYDB_VERSION_FILENAME_TRANS -> TRUE
    [] policyvers >= POLICYDB_VERSION_COMP_FTRANS   ->
         \A k \in Keys : IsChecked(filename_trans[k])
    [] OTHER -> filename_trans_count = EntriesOf(filename_trans)

Reload ==
  /\ ~undefined /\ FileLoads
  /\ filename_trans' = [k \in Keys |-> Reread(filename_trans[k])]
  /\ filename_trans_count' = EntriesOf(filename_trans')
  /\ UNCHANGED <<policyvers, undefined>>

FtNext == (\E k \in Keys, s, d \in Types : AddFilenameTrans(k, s, d)) \/ Reload

FtSpec == FtInit /\ [][FtNext]_ftVars
--------------------------------------------------------------------------------
FtTypeOK == /\ filename_trans \in [Keys -> Seq(Datum)]
            /\ filename_trans_count \in Nat
            /\ policyvers \in Nat /\ undefined \in BOOLEAN

\* The default a source gets, None when there is no transition for it.
None == 0
DefaultIn(chain, s) ==
  LET at == First({i \in DOMAIN chain : s \in chain[i].stypes})
  IN IF at = 0 THEN None ELSE chain[at].otype
Default(k, s) == DefaultIn(filename_trans[k], s)

\* The count is the number of sources in the table, those counted twice in an
\* overlapping chain included: it heads the entries of an older policy's file.
CountIsEntries == FtTypeOK /\ filename_trans_count = EntriesOf(filename_trans)

\* After a statement that ended well its source gets its default, even where
\* the source stands in a later node too.
AddedWins ==
  [][\A k \in Keys, s, d \in Types :
        AddFilenameTrans(k, s, d) /\ ~undefined' => Default(k, s)' = d]_ftVars

\* No statement takes a source's transition away, and neither does a reload of
\* a policy whose version has filename transitions.
NothingLost ==
  [][policyvers >= POLICYDB_VERSION_FILENAME_TRANS =>
       \A k \in Keys, s \in Types : Default(k, s) # None => Default(k, s)' # None]_ftVars

\* Loading an older policy's file may resolve overlapping nodes anew, but only
\* once: saving and loading what was loaded gives the same defaults.
ReloadSettles ==
  \A k \in Keys : LET once == ReadEntries(filename_trans[k])
                  IN \A s \in Types :
                        DefaultIn(ReadEntries(once), s) = DefaultIn(once, s)
--------------------------------------------------------------------------------
(***************************************************************************)
(* What the comments and the documentation say.                            *)
(***************************************************************************)
\* "reuse this node": a node with the right default is used again.
NodesAreReused == ~undefined

\* "type_transition source_type target_type class default_type (object_name)":
\* a statement is about its own source.
OneSourceChanges ==
  [][\A k \in Keys, s, d \in Types : AddFilenameTrans(k, s, d) =>
        \A r \in Types \ {s} : Default(k, r)' = Default(k, r)]_ftVars

\* "to_file - Save policy to a file": what is saved can be loaded.
SavedPolicyLoads == ~undefined => FileLoads

\* "just ignore the duplicate": of two entries for a source the first counts.
DuplicatesIgnored ==
  [][Reload /\ policyvers >= POLICYDB_VERSION_FILENAME_TRANS =>
       \A k \in Keys, s \in Types : Default(k, s)' = Default(k, s)]_ftVars

\* "dump monolithic sepolicy": the rules that were added are in it.
TransitionsAreSaved ==
  [][Reload => \A k \in Keys, s \in Types :
                  Default(k, s) # None => Default(k, s)' # None]_ftVars
================================================================================
