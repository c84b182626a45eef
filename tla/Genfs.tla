--------------------------------- MODULE Genfs ---------------------------------
(***************************************************************************)
(* The labels of files on file systems without labels of their own:        *)
(* sepol_add_genfscon over the list genfs, the lists saving and loading    *)
(* makes of it, and the label a lookup (sepol_genfs_sid) finds there.  The *)
(* engine puts what is new at the front; readers count on sorted lists.    *)
(* A context that is not valid in the policy changes nothing, and          *)
(* allocation does not fail here.                                          *)
(***************************************************************************)
EXTENDS Integers, SequencesExt

CONSTANTS FsTypes,   \* the file system types, numbered in the order of strcmp
          Paths,     \* paths and partial paths, sequences of characters
          Classes,   \* the object classes, numbered
          Contexts,  \* the valid contexts
          Files      \* the genfs lists of the policy files a run may start from

VARIABLE genfs  \* the list of file systems, each with the list of its entries

AnyClass == 0
Entry  == [name : Paths, sclass : Classes \cup {AnyClass}, context : Contexts]
Fs     == [fstype : FsTypes, head : Seq(Entry)]

ASSUME NumbersAssumption == FsTypes \subseteq Nat /\ Classes \subseteq Nat \ {AnyClass}
ASSUME PathsAssumption == \A path \in Paths : path \in Seq(ToSet(path))

\* The first position of a list Is holds at, 0 when there is none.
First(list, Is(_)) ==
  LET at == {i \in DOMAIN list : Is(list[i])} IN IF at = {} THEN 0 ELSE Min(at)
--------------------------------------------------------------------------------
(***************************************************************************)
(* Loading: genfs_read sorts the file systems by type, and the entries of  *)
(* each by the length of their names, the longest first.  Two entries for  *)
(* one name and class make the file unreadable.                            *)
(***************************************************************************)
InsertBefore(list, new, Is(_)) ==
  LET at == First(list, Is)
  IN IF at = 0 THEN Append(list, new) ELSE InsertAt(list, at, new)

\* ReadAtEnd keeps the order of the file.
ReadAtEnd(list, new) == Append(list, new)
ReadEntry(list, new) ==
  LET IsShorter(c) == Len(new.name) > Len(c.name)
  IN InsertBefore(list, new, IsShorter)

ReadFs(list, new) ==
  LET IsLater(g) == new.fstype < g.fstype
  IN InsertBefore(list, [new EXCEPT !.head = FoldLeft(ReadEntry, <<>>, @)], IsLater)

Read(list) == FoldLeft(ReadFs, <<>>, list)

SameEntry(c, d) == /\ c.name = d.name
                   /\ c.sclass = d.sclass \/ AnyClass \in {c.sclass, d.sclass}
Readable(list) ==
  /\ \A i, j \in DOMAIN list : list[i].fstype = list[j].fstype => i = j
  /\ \A g \in {list[i] : i \in DOMAIN list} :
       \A i, j \in DOMAIN g.head : SameEntry(g.head[i], g.head[j]) => i = j

ASSUME FilesAssumption == \A f \in Files : f \in Seq(Fs) /\ Readable(f)

GenfsInit == \E f \in Files : genfs = Read(f)
--------------------------------------------------------------------------------
\* The walks of sepol_add_genfscon.  The class of an entry does not matter to
\* it.  FirstFs takes any file system, and NewEntryAlways does not look for the
\* name.
FirstFs(list, fs) == IF list = <<>> THEN 0 ELSE 1
FsAt(list, fs) == LET IsFs(g) == g.fstype = fs IN First(list, IsFs)
NewEntryAlways(head, path) == 0
EntryAt(head, path) == LET IsNamed(c) == c.name = path IN First(head, IsNamed)

WithEntry(head, path, ctx) ==
  LET at == EntryAt(head, path)
  IN IF at = 0
     THEN <<[name |-> path, sclass |-> AnyClass, context |-> ctx]>> \o head
     ELSE [head EXCEPT ![at].context = ctx]

AddGenfscon(fs, path, ctx) ==
  LET at == FsAt(genfs, fs)
  IN genfs' = IF at = 0
              THEN <<[fstype |-> fs, head |-> WithEntry(<<>>, path, ctx)]>> \o genfs
              ELSE [genfs EXCEPT ![at].head = WithEntry(@, path, ctx)]

ReloadGenfs == Readable(genfs) /\ genfs' = Read(genfs)

GenfsNext ==
  \/ \E fs \in FsTypes, path \in Paths, ctx \in Contexts : AddGenfscon(fs, path, ctx)
  \/ ReloadGenfs

GenfsSpec == GenfsInit /\ [][GenfsNext]_genfs
--------------------------------------------------------------------------------
(***************************************************************************)
(* sepol_genfs_sid: the label of a file, looked up in the order the lists  *)
(* have; None when the file is unlabeled.                                  *)
(***************************************************************************)
None == "none"
IsMatch(c, path, class) ==
  c.sclass \in {AnyClass, class} /\ IsPrefix(c.name, path)

Label(list, fs, path, class) ==
  LET IsNotBefore(g) == fs <= g.fstype
      at == First(list, IsNotBefore)
      Matches(c) == IsMatch(c, path, class)
  IN IF at = 0 \/ list[at].fstype # fs THEN None
     ELSE LET i == First(list[at].head, Matches)
          IN IF i = 0 THEN None ELSE list[at].head[i].context

\* All the entries for a file system.
EntriesFor(fs) ==
  UNION {{genfs[i].head[j] : j \in DOMAIN genfs[i].head}
           : i \in {k \in DOMAIN genfs : genfs[k].fstype = fs}}

GenfsTypeOK == genfs \in Seq(Fs)

\* However many statements were applied, the file that is saved can be loaded:
\* no file system and no entry is there twice.
SavedGenfsLoads == GenfsTypeOK /\ Readable(genfs)

\* Once the policy is saved and loaded (the kernel loads it first) the longest
\* name that covers a path decides its label, wherever the engine put it.
LongestNameWins ==
  LET saved == Read(genfs)
  IN \A fs \in FsTypes, path \in Paths, class \in Classes :
       LET matching == {c \in EntriesFor(fs) : IsMatch(c, path, class)}
           label    == Label(saved, fs, path, class)
       IN IF matching = {} THEN label = None
          ELSE \E c \in matching : /\ label = c.context
                                   /\ \A d \in matching : Len(d.name) <= Len(c.name)

\* A statement relabels the files its path covers, those under a longer name
\* and those of a name with entries by class left aside.
StatementLabels ==
  [][\A fs \in FsTypes, name \in Paths, ctx \in Contexts :
        AddGenfscon(fs, name, ctx) =>
          LET saved   == Read(genfs')
              entries == EntriesFor(fs)
          IN (\A c \in entries : c.name = name => c.sclass = AnyClass) =>
               \A path \in Paths, class \in Classes :
                  /\ IsPrefix(name, path)
                  /\ \A c \in entries :
                       IsMatch(c, path, class) => Len(c.name) <= Len(name)
                  => Label(saved, fs, path, class) = ctx]_genfs

\* And no statement relabels any other file.
OthersKeepTheirLabel ==
  [][\A fs \in FsTypes, name \in Paths, ctx \in Contexts :
        AddGenfscon(fs, name, ctx) =>
          LET old == Read(genfs)
              new == Read(genfs')
          IN \A other \in FsTypes, path \in Paths, class \in Classes :
               other # fs \/ ~IsPrefix(name, path) =>
                 Label(new, other, path, class) = Label(old, other, path, class)
    ]_genfs

\* The files a statement names get its label, and they alone.
StatementRelabels == StatementLabels /\ OthersKeepTheirLabel
================================================================================
