# A verification project for ap_policy

`ap_policy` edits a compiled SELinux kernel policy in memory. The command line
program `magiskpolicy` loads a policy from a file or from the kernel, applies
statements such as `allow a b file { read write }` or `genfscon proc /x u:r:t:s0`,
and writes the result to a file or back to the kernel. The library under it is
written in Rust on top of a vendored copy of libsepol, whose data structures it
changes directly, most of the time without libsepol's own functions.

This directory holds TLA+ models of the program, the TLC configurations that check
them on small instances, and the proofs that the TLA+ proof system checks for
every instance. Paths below are relative to the root of the repository, and
`sepol_impl.rs` and so on stand for `crates/policy/src/sepol_impl.rs`.

## 1. The system

### 1.1 Components

| Component | Where | State it keeps | Operations |
|---|---|---|---|
| Command line | `crates/magiskpolicy/src/main.rs` | the parsed options, files and the kernel's policy | `parse_args`, `run` |
| Facade | `lib.rs` | a pointer to a `policydb` | a method per statement; `expand_wildcard` multiplies lists of names |
| Statement parser | `statement.rs` | none between lines | `tokenize_statement`, one `parse_*` per part, `exec_statement` |
| Built-in rules | `rules.rs` | none | `magisk_rules` |
| Engine: types | `sepol_impl.rs` | `symtab[SYM_TYPES]`, `type_attr_map`, `attr_type_map`, `permissive_map`, roles and their caches, constraint expansions | `sepol_add_type`, `sepol_set_type_state`, `sepol_add_typeattribute` |
| Engine: rules | `sepol_impl.rs` | `te_avtab` | `sepol_add_rule`, `sepol_add_xperm_rule`, `sepol_add_type_rule` |
| Engine: filename transitions | `sepol_impl.rs` | `filename_trans`, `filename_trans_count` | `sepol_add_filename_trans` |
| Engine: genfs | `sepol_impl.rs` | the list `genfs` | `sepol_add_genfscon` |
| Engine: files | `sepol_impl.rs` | none | `sepol_db_from_file`, `sepol_db_from_data`, `sepol_db_to_file` |
| Engine: printing | `sepol_impl.rs` | none | `sepol_print_*` |
| Stub engine | `stub.rs` | maps of what was said, the bytes read | the same interface, for builds without libsepol (does not compile) |
| libsepol tables | `libsepol/src/avtab.c`, `policydb.c`, `write.c`, `conditional.c`, `services.c`, `expand.c` | the `policydb` | reading, writing, searching, expanding |
| libsepol containers | `ebitmap.c`, `hashtab.c`, `symtab.c` | bitmaps and maps | insert, search, set, clear |
| The rest of libsepol | `link.c`, `assertion.c`, `cil/`, tests, tools | | never called |

### 1.2 How they interact

`main.rs` calls `SePolicy` once per rule file and statement. `parse_statement`
tokenizes a line, parses it by the first token and calls one method of `SePolicy`
for it (several for a list of extended permissions). A method passes every
combination of its names to one engine function over the C interface in
`sepol.rs`, and **ignores the code that comes back**; a statement that does not
parse is reported and skipped. An empty name stands for `*` all the way down.
The engine functions change the `policydb` in place. Loading builds it with
`policydb_read`; saving serializes it with `policydb_write` into memory and then
writes it to a file.

What the engine does by hand has to agree with what `policydb_read` would build,
with what `policydb_write` expects, and with what access decisions
(`services.c`, and the kernel's own copy of that code) read. That agreement is
the subject of most properties here.

### 1.3 What is hard

Inside one process there is no concurrency: `SePolicy` is changed through `&mut
self`, and nothing shares one. The difficulty is in **long sequences of legal
calls** over tables that are redundant (two maps that are transposes of each
other, caches, counters, nodes that may not be there when they say nothing), in
**what survives saving and loading**, and in the **special cases** of `*`, of
complemented sets and of boundary values. Between processes there is
concurrency: several invocations share policy files and the kernel's policy, may
be killed anywhere, and meet failing and short writes.

What makes each component correct:

* types: the maps stay transposed, values are distinct and within the arrays, role
  caches and constraints say what the tables say, a valid context stays valid,
  a reload gives the same maps back;
* access vector rules: decisions follow from the statements; a missing node and
  a default node are the same thing; a new type starts with nothing;
* the table: chains stay sorted, so that no search misses a node; the counter is right;
* extended permissions: nodes implement sets of commands; other kinds of nodes are
  left alone; a complement forgets what was there;
* filename transitions: the last statement for a source wins, none is lost, the
  counter is right, a saved policy loads;
* genfs: what is saved loads; after a reload the longest name decides; a
  statement labels what it names and nothing else;
* policy files: reader and writer agree about every field of every version; a saved
  policy loads again; only what the version cannot say is lost; decisions stay;
* statements: a list means the product of its known names, whatever else is in it;
  what is printed can be read as a rule file and says what the policy said;
* runs: all rules or no effect; a file whose writers succeeded is whole; a torn
  file is never taken for a policy; live rules accumulate; every run ends.

`PROJECT.json` lists the hazards at their lines with the properties that cover them.

## 2. The modules

| Module | Models | Uses |
|---|---|---|
| `PolicyTypes` | the type table and everything derived from it | |
| `RuleMatrix` | *abstract:* a full matrix of access vectors that statements set and clear | |
| `AvRules` | access vector rules and type rules over `te_avtab` as a partial function, together with the type table; access decisions | extends `PolicyTypes`; implements `RuleMatrix` |
| `NodeSet` | *abstract:* a set of nodes, some keys unique | |
| `Avtab` | the sorted hash chains behind `te_avtab` | implements `NodeSet` |
| `IoctlSets` | *abstract:* a set of ioctl commands per key | |
| `XpermRules` | driver and function nodes of `add_xperm_rule_impl` | implements `IoctlSets` |
| `XpermStatements` | extended permission sets as they are written, turned into calls | extends `XpermRules` |
| `FilenameTrans` | filename transitions, written and read in three formats | |
| `Genfs` | genfs lists, their sorting by `genfs_read`, and lookups | |
| `PolicyFile` | the policy file, section by section, for the versions 15 to 33: `policydb_write`, `policydb_read`, and edits between them | |
| `Statements` | statements as they are written: the parser, the calls a statement becomes, what they do to the policy by names, and `print_rules` | instantiates `XpermRules` for the nodes of a key |
| `Session` | invocations of the program over files and the kernel | |
| `MC...` | model values and bounds for TLC | |
| `FilenameTrans_proofs`, `Genfs_proofs`, `PolicyFile_proofs`, `Session_proofs`, `Statements_proofs` | theorems and proofs | extend their component |
| `AvRules_proofs` | theorems and proofs about `PolicyTypes`, `AvRules` and `Avtab` | extends `AvRules` and `Avtab` |
| `XpermStatements_proofs` | theorems and proofs about `XpermRules` and about `XpermStatements` | extends `XpermStatements` |
| `Lists_proofs` | facts about numbers, finite sets, folds and sums: what stands in for induction | used by all of these but `AvRules_proofs` and `XpermStatements_proofs` |

Definitions keep the names of the source where they can. `PROJECT.json` maps each
definition to the lines it stands for. A definition whose comment calls it a slip
(`EntryZero`, `KeepFunctions`, `ByteIsKind`, ...) is not part of a
specification: it is what the definition next to it would be with a plausible
mistake in it, and each property is known to fail when one of them is put in.

### 2.1 Correspondence of state and actions

**PolicyTypes.** `types` is the hash table `symtab[SYM_TYPES].table` from names to
`type_datum_t` (value, flavor, primary), `nprim` its counter. All bitmaps are sets
of *values* (1 ... `nprim`); the code's offset by one between a bit and a value is
translated once, at each access. `AddType` is `sepol_add_type` with
`symtab_insert`, the two maps that grow, and the loops over the roles;
`SetTypeState` and `SetAllTypesState` are the two branches of
`sepol_set_type_state`; `AddTypeAttribute` is `sepol_add_typeattribute` with
`add_typeattribute_impl` and its walk over the constraints. `ReloadTypes` is what `policydb_read` makes of the file that
`policydb_write` writes: `attr_type_map` and the role caches are not in it and are rebuilt.
The initial states are policy files as a compiler writes them (`CompilerWrote`).

**AvRules.** `avtab` is a partial function from keys to the 32 bit `data`, for
keys of the three access vector effects; `type_rules` are the nodes of the other
three. `AddRule` is `sepol_add_rule` with the whole expansion: `expand_rule` visits
different keys, so the order of visits does not matter and the call is one action
on all of them. A `NewVector` that `is_redundant` is not stored. `AddTypeRule` is
`sepol_add_type_rule` with `avtab_insert`, whose refusal is ignored. `Reload` is
saving and loading, which `avtab_read` refuses when there is no node at all.
Decisions (`Allowed`, `AuditDeny`) are those of `context_struct_compute_av`.

**Avtab.** `htable` maps a chain to the sequence of its nodes, `nel` is the
counter. A node is an address and a key. The three ways in are `add_rule_impl`'s
search followed by `avtab_insert_nonunique`, `avtab_insert`, and
`avtab_insert_nonunique` for a further extended node; `RemoveNode` is
`xperm_remove_node`. The hash is any function of the key without `specified`.

**XpermRules, XpermStatements.** `xperms` maps a key to its nodes in chain order.
A command is a number below `Width * Width` whose driver and function are its two
digits; in the code `Width` is 256. `Extend` and `Complement` are the two
branches of `add_xperm_rule_impl` on the nodes of one key, `AddXpermRule` is
`sepol_add_xperm_rule` with `expand_xperm_rule`. In `XpermStatements` one
statement becomes a list of ranges (`parse_xperms`), and every range one call.

**FilenameTrans.** `filename_trans` maps a key to the chain of its datums, each a
default type and a set of sources. `AddFilenameTrans` is
`sepol_add_filename_trans`, case by case. In one case the code frees a node that the table still
holds; what a later call would find there is undefined, so the
model sets `undefined` and nothing is claimed of what follows. `Reload` writes and
reads the table for the format of the policy's version: none before 25, one entry
per source up to 32, whole chains from 33 on.

**Genfs.** `genfs` is the list of file systems, each with the list of its entries.
`AddGenfscon` is `sepol_add_genfscon`; `ReloadGenfs` is `genfs_read` of what
`genfs_write` wrote, with its two sorted insertions and its two refusals;
`Label` is `sepol_genfs_sid`.

**PolicyFile.** `db` is the `policydb`, with every table a kernel policy has; `file` is
the saved file, a sequence of items with named fields; `compat` is
`avtab_android_m_compat`, the one global of the reader. `Image` is
`policydb_write`: its sections in order, each `Write...` operator one of the `_write`
functions with its version tests, old rules expanded as `expand.c` does. `Read` is
`policydb_read`: `Layout` walks the file by the numbers that precede the lists (`NextSection`),
`Fits` compares each item with the fields that the `_read` function takes in that version, so that
a reader that is out of step shows as `misread`. The code would take the wrong
words and go on, or stop somewhere. What the policies in files may be like is `PolicyOK`:
what `policydb_read` can make of a file of their version. The tables that other modules have in full are edited in the
simplest way (`AddRule` of one permission, for instance): what matters here is
that edits reach states the compiler of the loaded file did not write. Filename transitions are in full:
each has the place of its node in its chain, `AddFilenameTrans` redirects a node or
inserts a source (but for the case that ends `FilenameTrans`), and `Read` inserts the entries of versions 25 to 32
one after the other (`InsertEntry`), and refuses a chain of version 33 in which nodes overlap (`Collides`). The nodes
of `te_avtab` are written in any order as far as it matters (`Orders`): only extended nodes
change how the next one is read.

**Statements.** A text is the sequence of words that `extract_token` leaves. `ParseArguments`
is `exec_statement`, whose `Arguments` table has one row per arm; every `Parse...`
operator is the function of that name. `Calls` is what the methods of
`SePolicy` do with the lists: nested loops, here `Product`. `ReadLine` parses one line,
`Apply` makes one call, `Execute` is the engine behind it, where a call with an
unknown name does nothing (`Resolved`). The policy `pol` is kept by names and
without its tables; rules, types and labels change as in the modules that have the
tables, extended nodes with the operators of `XpermRules` itself. `Dump` turns `print_rules` into a
rule file, for the same policy or for one without rules.

**Session.** `pc` is where an invocation is, `cfg` its `CliConfig` (`Take` is one round of
the loop of `parse_args`, `Taken` the configuration after each number of words), `db` the policy
it holds as a set of rules, `disk` and `live` what the invocations share. Opening
(with `O_TRUNC`), truncating, writing and closing the file are steps of their own, so are the
two ends of reading a file; `seen` collects what a file held between them. Opens,
serialization, writes and closes may fail, and a write may be short; `Kill` ends
a run anywhere. What a reader gets from a file that held two whole policies
while it was read is any subset of the union of their rules.

## 3. What the runs show

### 3.1 Runs that pass

| Run | States | Shows |
|---|---|---|
| `PolicyTypes` | 63,776 | every order of new types and attributes, memberships, permissive states and reloads keeps values, maps, rows, caches, constraints and valid contexts consistent |
| `AvRules` | 9,436 | what is decided follows from the statements: `deny * *` revokes from everybody, only `allow` and `typeattribute` grant, a new type has nothing; no redundant node survives; the sparse table implements the plain matrix |
| `Avtab` | 18,577 | chains stay sorted, searches miss nothing, the counter is right, the table implements a set of nodes |
| `XpermRules` | 132,714 | with statements of every form and with every range, the odd ones included, the nodes of a key implement a set of commands; a plain list adds at least what it lists and takes nothing away, a complement forgets what was there; netlink nodes stay; a `*` reaches attributes only; a reload changes no rule |
| `FilenameTrans` | 2,670 | the counter is right, the last statement wins, no transition is lost, reloads settle |
| `Genfs` | 6,420 | saved lists load, the longest name wins after a reload, statements label what they name and nothing else |
| `Session` | 39,512 | two runs at once, with failures and kills: nothing is published before all rules are in; a file whose writers all succeeded is one of their policies, whole; torn files are refused; live rules accumulate when nobody interferes; every run ends |
| `PolicyFile` | 165,139 | for seventeen versions and every pair of edits, the reader takes each word for what the writer meant (but for one ambiguity of Android M policies); a saved policy is refused for three reasons only; everything the version can say comes back, but for a second default that overlapping nodes give a source; decisions are the same |
| `Statements` | 360,974 | lists of names mean the product of those that are known, whatever else the lists hold; a policy is not changed by its own dump; a dump restores, on a policy without rules, everything that a dump can say |

The abstract specifications are more than restatements: `RuleMatrix` has an entry
for every key at all times, so `ImplementsMatrix` says that creating, changing and
removing nodes is invisible apart from the vectors; `NodeSet` has no order and no
early end of a search; `IoctlSets` has no drivers, only the rounding of ranges to them.

### 3.2 Where the code departs from what is said of it

Three runs check one property each that TLC refutes. The findings in
`PROJECT.json` quote the lines that say otherwise.

| Run | What the code does |
|---|---|
| `XpermComplement` | in `~{ a b }` only `b` is left out: one call resets what the one before has said |
| `FtReuse` | the first node of a chain is not reused; it is freed while the table holds it |
| `FtCollision` | a node that is given another default may collide with its neighbour, and the policy that is saved is refused when it is loaded |

The modules define more properties of this kind, at their ends. No run is spent on
them; adding one to the `.cfg` of its module's run shows the steps.

| Property | What the code does | What says otherwise |
|---|---|---|
| `MatchAllReachesEveryType` (`AvRules`) | `allow * *` reaches attributes only: a type without an attribute gets nothing | `statement.rs:482` |
| `VectorsNamePermissions` (`AvRules`, with an unnamed bit) | `allow` of all permissions followed by `deny` of every named one leaves bits that name nothing | `policydb_validate.c:942` |
| `DefaultsAreTypes` (`AvRules`) | a type rule accepts an attribute as the default | `policydb_validate.c:968` |
| `SavedPolicyLoads` (`AvRules`), `RefusedOnlyFor` (`PolicyFile`) | denying the last rule makes a policy that is saved and cannot be loaded | `main.rs:32` |
| `PermissivesAreTypes` (`PolicyTypes`) | `permissive *` marks attributes too | `policydb_validate.c:1597` |
| `ZeroClearsRules` (`XpermStatements`) | the special value 0 grants every command and clears none | `statement.rs:500` |
| `RangesAreExact` (`XpermStatements`) | a range across drivers covers whole drivers | `statement.rs:498` |
| `OneSourceChanges` (`FilenameTrans`) | a transition for one source redirects the others of its node | `README.md:166` |
| `DuplicatesIgnored` (`FilenameTrans`, versions 25 to 32) | a duplicate entry of a file may be added, and win | `libsepol/src/policydb.c:2681` |
| `TransitionsAreSaved` (`FilenameTrans`, versions before 25) | a policy of that version accepts transitions and loses them when saved | `main.rs:32` |

Other departures show in what a passing property has to leave out; TLC refutes
the property without that clause.

| Clause | What the code does |
|---|---|
| `Ambiguous` in `ReadInStep` (`PolicyFile`) | a version 30 policy of Android M whose first extended node is for functions of driver 1, 2 or 3 is read out of step: the byte is taken for a kind (`libsepol/src/avtab.c:567`) |
| second disjunct of `RefusedOnlyFor` (`PolicyFile`) | `type_transition` accepts a key that a conditional rule has; the saved policy is refused by `cond_insertf` (`libsepol/src/conditional.c:636`) |
| `SavedCollides` in `RefusedOnlyFor` (`PolicyFile`) | from version 33 on, statements that gave two nodes of a chain one default, or one source, make a policy that is saved and refused by `filename_trans_check_datum` (`libsepol/src/policydb.c:2774`): `FtCollision` again, in a whole policy |
| `Transitions` and the sources of `Carried` in `CarriesAll` (`PolicyFile`) | in versions 25 to 32 a source that is in two nodes of a chain may come back with one of its two defaults: the entry that is read later is ignored; sources are kept and nothing is invented |
| `CanWrite` (`PolicyFile`) | a policy older than version 20 in which two type rules for attributes meet cannot be saved ("Type conflict!", `libsepol/src/expand.c:3277`) |
| `Carried` (`PolicyFile`) | permissive types before version 23 and filename transitions before 25 are accepted and lost when saved |
| `IsExact` in `RuleIsProduct` (`Statements`) | `*` inside of braces makes a list of types or classes match all, and `{ }` does too; `statement.rs:479` calls a list in braces one or more entries |
| `AloneIn` in `DumpRestores` | a driver that stands alone in a node is printed as its first command only |
| `HasNetlink` in both dump properties | a node about netlink messages is printed as a rule about ioctls, with the commands of drivers |
| `CommaContexts` in `DumpRestores` | a context with two or more categories has a comma, which cuts the word in two: its `genfscon` line does not parse |
| `RestoredTypes` | a type without attributes is not printed, so that its rules are lost on another policy; `permissive` lines of attributes are not printed |

`allow s t * { p }` does nothing at all: a permission is looked up in a class, and a `*`
is none (`sepol_impl.rs:1166`). `test_tokenize_statement` (`statement.rs:551`)
expects four tokens of a statement from which the tokenizer makes five.

The models keep what the code does in all of these; the passing properties are
stated so that they hold of it (`ComplementForgets` speaks of the
last item only, `AddedWins` of statements that ended well).

One more thing `Session` shows without a run: of two *overlapping* `--live` runs
one loses its rules. Nothing in the repository promises otherwise, so
`LiveKeepsRules` speaks of a run that puts its policy in the place of the one it
loaded. `base` remembers that policy, for this property alone.

### 3.3 Bounds

* `PolicyTypes`: five values, two loaded policies with three each. Two new types
  or attributes give all pairs of old and new type with old and new attribute;
  the alias, the value without a name and the four shapes of constraints are in the
  loaded policies. State space complete under the bound.
* `AvRules`: one class, three bits of which one has no name, two statements
  after loading, drawn from all; two are enough to declare a type and give it a
  rule, or to grant, deny and reload, and each kind of entry (absent, partial, full) occurs.
* `Avtab`: three addresses, keys with two values in each field and one of each kind
  of rule, two chains: chains of length three have a first, a middle and a last
  place. State space complete.
* `XpermRules`: `Width = 2`, so ranges within a driver, across drivers, over
  everything and with swapped ends all exist; a type and an attribute, of which
  statements name the attribute or `*`; two items per list, no bound on statements.
* `FilenameTrans`: one key (chains of different keys share nothing but the
  counter), three types, three nodes per chain, no bound on statements.
* `Genfs`: two file systems, three names each the beginning of the next, two
  contexts, four statements with any number of reloads between them.
* `PolicyFile`: the versions at which something changes and their neighbours, 15 to 17,
  19 to 31 and 33 (18 and 32 change nothing in these sections); two edits between
  loading and saving, any number of saves and loads. The loaded policies have at least one item of
  every section, a conditional of each kind, extended nodes of two drivers, in version 30 the two
  formats of Android M, and in versions 25 and 33 also a chain of three nodes, which
  two edits make collide in either way. Two edits are enough to create a type and use it, or to
  remove the last rule.
* `Statements`: three statements before a dump, from a policy with one of
  everything that is printed, or with hardly anything; `Width = 3`, so that runs
  of one, two and three bits exist in a node.
* `Session`: two invocations, fourteen command lines, every initial content of the
  second file. Races need two.

`MaxStatements`, `MaxEdits`, `MaxItems`, `MaxChain`, `MaxTypes` and the set `Versions` are the names
of the bounds. The configurations that bound statements end in states without a
successor and turn the deadlock check off, as do `FilenameTrans`, which ends where
behaviour is undefined, and `Session`, where all runs may have ended.

### 3.4 Fairness

Only `Session` states fairness, since only it has liveness: `WF_vars(Step(p))`
for each invocation, that is, the operating system goes on running a process that
can go on. No step waits for another run (reads and writes of regular files do
not block, and nothing takes a lock), so each is continuously enabled
until it is taken. Nothing has to be killed: `Kill` is outside of `Step`, and a
run that is not killed ends too. `Start` is part of `Step`, though `EveryRunEnds` does not
need it: it speaks of runs that have started.

## 4. What is proved

`tlapm` checks every proof. The theorems hold for every value of the constants
under the assumptions named in the modules.

**`AvRules_proofs`, about `PolicyTypes`.** Assumptions: `MaxTypes` is a natural number, and every
loaded policy is one a compiler wrote (`LoadedAssumption`).

* `TypeTableCorrect`: `TypesSound`, that is, type correctness and `TableConsistent`, which is
  `ValuesDistinct`, `RowsWellFormed` and `CacheIsRoleTypes`.
* `MapsStayTransposed`: `MapsTransposed`.
* `ReloadIsFaithful`: the action property `ReloadKeepsMaps`.
* `ValidContextsStay`: the action property `ContextsStayValid`.
* `ConstraintsStayExpanded`: `ConstraintsExpanded`.

The first four follow from the inductive invariant `TypeInv`, the conjunction of
`TypeTypeOK`, `ValuesDistinct`, `MapsTransposed`, `RowsWellFormed` and
`CacheIsRoleTypes`. None of the five is inductive alone. That the maps stay transposed
when they grow by a row needs their domains and that no row mentions a value
beyond `nprim` (typing, `ValuesDistinct`); that `AddTypeAttribute` keeps rows
well formed needs that a value is a type's or an attribute's and never both
(`ValuesDistinct`); that reloading gives the same rows back needs that they were
well formed. `LEMMA LoadedFile` establishes the invariant for any file, one lemma
per operation preserves it. A valid context stays valid because each change of a role's
types is in its cache too (`CacheIsRoleTypes`), so that the cache that a reload
computes from them has no fewer.

`ConstraintsExpanded` needs a second invariant, `ConstraintInv`, which adds to `TypeInv` that
expressions name values that have been declared (`ExprsDeclared`). Without it a new
type could get a value that an expression already names, and the expansion would lack it.

**`AvRules_proofs`, about `AvRules`.** Assumptions: those before; the empty name of a
`*` is no name, class or bit, and the statements are the four the parser knows
(`ArgsAssumption`); a loaded policy has rules on declared values only, and no
redundant node (`AvFilesAssumption`).

* `RulesAreSound`: `RulesSound`, that is, `AvTypeOK`, which includes that every value in a key or a default
  has been handed out (`KeysDeclared`), and `NoRedundantNode`.
* `DenyReachesAll`, `OnlyAllowWidens`, `NewTypesAreBare`: the action properties
  `DenyAllRevokes`, `OnlyAllowGrants`, `NewTypeHasNoAccess`.
* `MatrixImplemented`: `AvSpec => ImplementsMatrix`.

The inductive invariant `AvInv` is `TypeInv /\ AvTypeOK /\ NoRedundantNode`. The
rules need the type table's invariant: a statement expands `*` to the declared
values, and that these are within 1 ... `nprim` is `ValuesDistinct`; that `nprim` never
shrinks keeps old keys declared. From `AvInv`: a deny for everybody
visits every key a decision can look at, because a row holds declared values only
(`RowsWellFormed`); a new type has nothing, because its row is itself and, by
`KeysDeclared`, no rule names its value yet. `LEMMA EntryAfterRule` says
what a statement does to *any* key, stored or not: a node made on the way, or removed
for being redundant, makes no difference to a lookup. `OnlyAllowWidens` and the
refinement follow from it; `OnlyAllowWidens` also needs that reloading gives the same rows back
(`ReloadKeepsInv`).

**`AvRules_proofs`, about `Avtab`.** Assumptions: the kinds of rules are disjoint, values are
naturals, and the hash ignores the kind (`HashAssumption`).

* `TableCorrect`: `TableSound`, that is, `AvtabTypeOK`, `ChainInv` and `CountIsNodes`.
* `SearchCorrect`: `SearchFindsAll`.
* `Refinement`: `Spec => ImplementsNodeSet`.

The inductive invariant `TableInv` is `AvtabTypeOK /\ ChainInv /\ CountIsNodes`, where
`ChainInv` is three facts: chains are sorted, each node is in the chain of its
key, and no node is in two places. `SearchFindsAll` is not inductive: whether an insertion
hides a node depends on the order of the whole chain. It
follows from `ChainInv`, because in a sorted chain nothing before a node with the key is past
the key. The counter needs that no node is in two places: removing one position
then takes away exactly one node of a finite set. The refinement uses the
same facts: that the search found nothing means, by `SearchFindsAll`, that no
node anywhere has the key.

**`Session_proofs`.** Assumptions: the rules a command line, a rule file or the program
itself can name are rules there are (`RulesAssumption`); no statement looks like an
option, the value of an option looks like neither, and the paths given are those of `Files`
(`CommandsAssumption`; the program itself takes `--save --apply x` to save
a file called `--apply`, about which `Asked` would be wrong).

* `SavedFilesAreWhole`: `SavedIsWhole`, for any number of runs and files.
* `PublishesAllOrNothing`: `AllOrNothing`, for any number of words, too.
* `TornFilesAreRefused`, `LivePolicyGrows`: `NothingFromTornFiles`, `LiveKeepsRules`.

The parser is a recursive function over the words, and two facts about it need an induction:
that there is a function with these equations (`TakenExists`), and that after
each number of words the configuration has what the words so far ask for, and waits for a
value exactly when the last word wants one (`Follows`, `ParseArgsFollows`). Both
are argued with the least number at which they fail (`LeastNumber` in `Lists_proofs`, from the
library's `WFMin`), which needs no induction rule with a predicate for a parameter.

The inductive invariant `SessionInv` has three parts. `SessionTypeOK` has the types.
`Gathers` says of each run alone what its policy has at each step: before `apply`
no rule file was read, in `apply` all up to the next one were, afterwards everything is
in; and a run that started from the kernel's policy has all of that. `Writers` is about
files: whoever has opened one is in the middle of writing it or has ended, and a file none
of whose writers is between truncating and writing, was short or failed is the policy of one of
them. `SavedIsWhole` alone is not inductive: it says nothing of a file that a run has yet to
close, and closing writes nothing, so `IsWhole` lets runs that have written all but not
closed count as well ended. `QuietSteps` and `WriterSteps` say of
all steps but the writing ones, and of those, that they keep it.

**`XpermStatements_proofs`, about `XpermRules`.** Assumptions: `Width` is positive (`WidthAssumption`); ranges are pairs of
commands, and the empty name of a `*` is no type or class (`SetsAssumption`); a
loaded policy has one node of each kind per key, and none in versions without them
(`FilesAssumption`).

* `NodesStayUnique`: `OneNodeOfEach`.
* `ReloadIsHarmless`, `NetlinksUntouched`: `ReloadKeepsIoctls`, `NetlinkRulesStay`.
* `IoctlSetsImplemented`: `XpermSpec => ImplementsIoctlSets`.

`OneNodeOfEach` is inductive, and the rest follows from what it says of a single key. A node
is of the driver kind or of the kind of a driver's functions; `Stores` says that storing a node
sets the permissions of its kind and leaves the other kinds and the netlink nodes, and
it holds whether the node is new (`InsertNew`) or was there (`StoreInto`). `Extended`
and `Complemented` put this together for the two branches of `add_xperm_rule_impl`, with what
a range is in drivers and functions (`Division`, `RangeOfDriver`). The nodes
a reset leaves come from a recursive function, so `KeptExists` and
`WithoutFunctionsKeeps` argue with the least number at which they fail, as for
the parser. `OneNodeOfEach` is also what lets the model speak of all nodes of a kind at once, where
the code has pointers to the last one of each that it met: of two driver nodes it would
change one and leave the other as it was.

**`XpermStatements_proofs`, about `XpermStatements`.** Assumptions: those before; the rule that statements
are about is of declared types and classes (`TargetAssumption`), and `MaxItems` is a
natural number (`ItemsAssumption`). The theorems are about `StatementSpec`, statements one after the
other; the run has other calls and reloads between them as well.

* `PlainListsOnlyAdd`, `ComplementsForget`: `PlainListsAdd`, `ComplementForgets`.

Both speak of a statement whose calls are done, so the inductive invariant `StatementInv` says it of every
moment in between: the calls that are left are those for the items from some place on (`Remaining`), and
the items before it have been added to what was there (`Added`), or the last of them alone
counts (`Forgotten`). `ApplyDoes` takes what one call does to the rule from
`StatementStep`. That a range is within its rounding
(`RangeInRound`) needs that a larger command has no smaller driver.

**`FilenameTrans_proofs`.** Assumptions: there are finitely many keys and types, whose numbers
are positive (`KeysAssumption`, `TypesAssumption`); the loaded policy passed
`filename_trans_check_datum` (`FilesAssumption`).

* `CountInvariant`: `CountIsEntries`, which is inductive.
* `AddedWinsAlways`, `NothingLostAlways`: `AddedWins`, `NothingLost`.
* `ReloadSettlesAlways`: `ReloadSettles`.

`AddedStep` says what `sepol_add_filename_trans` makes of one chain, when it does not free
a node that the table holds: a node has another default, a node has one more source, or there
is a node more. In each case the sources counted in that chain change by what
is added to the counter; that the same goes for the table needs that two sums over the keys that differ
in one place differ by what differs there (`SumChanges`). The folds of reading are
followed by their steps (`FoldLeftSteps`), and what holds of each step is collected
in a set of pairs of a position and a chain that is closed under it
(`ReadNodeInduction`, `ReadEntriesInduction`). `ReloadSettles` rests on one observation: a
chain that was read has no default in two nodes (`ReadEntriesKeeps`), and a chain without such
is read node by node to one with the same defaults, because each node meets a chain where its
default is not or is last (`InsertedDefault`, `ReadAgain`). Of the chain that is written first this is not
true, which is why the first reload may change a default and the property is about the second.

**`Genfs_proofs`.** Assumptions: file systems and classes are numbers and 0 is no class
(`NumbersAssumption`), paths are sequences (`PathsAssumption`), and the loaded policy was readable
(`FilesAssumption`).

* `SavedGenfsLoadsAlways`: `SavedGenfsLoads`, which is inductive.
* `LongestNameWinsAlways`, `StatementRelabelsAlways`: `LongestNameWins`, `StatementRelabels`.

Reading inserts every element of a list before the first one that it belongs in front of. `Placed`
says where that is; `ReadEntryIs` and `ReadFsIs` that an insertion keeps the order, adds one
element, and keeps the list free of duplicates. `ReadIs` puts them together: the lists that are
read have the entries of the file, the longest names first. Two entries that match a path
with names of one length have one name (`SamePrefix`) and are then one entry
(`LongestIsOne`), so a label depends on the set of matching entries and on no order
(`LabelIs`, `SameLabel`). `Adds` says what a statement does to these sets: an entry of its name
gets the context, or there is a new one, and all the others stay.

**`Statements_proofs`.** Assumptions: `Width` is positive (`WidthAssumption`); the policies a run starts
from are `PolicyOK` (`PoliciesAssumption`): their tables are finite, their rules are between types and classes they
have, none of their names is a keyword or a mark, no vector is the one that stands for no
node, and each key has one node of each kind (which `NodesStayUnique` proves of the engine); classes and permissions are finitely
many, and none of them is a keyword or a mark (`NamesAssumption`); numbers in statements are numbers of commands (`TextsAssumption`);
a rule's lists are names or `*`, and no name is a
keyword or a brace (`RulesAssumption`), which is what an identifier of a policy is.

* `RuleIsProductAlways`: `RuleIsProduct`, for lists of any length, whatever names are in
  them.
* `ReplayChangesNothingAlways`: `ReplayChangesNothing`, for every policy that statements, well
  formed or not, have made of such a policy.

The first property compares a policy with what the words of a statement meant some calls ago, so the proof has
two halves. *What the calls are* (`CallsAre`): a list in braces is read back as its
names, by a recursive function over the words from the opening brace on (`GroupIs`,
`ParseGroup`); the four lists follow each other and the parser stops at each one's
end (`FourParts`, `NextIs`, `FourArguments`); the nested loops over them visit every tuple
(`FourLists`, from the steps of the fold behind `Product`). *What the calls do* (`CallIs`,
`RuleIs`): each sets or clears its permissions of one vector, and leaves
the rest of the policy. The inductive invariant `IInv` joins them: in the middle
of a statement there is a set of tuples whose calls were made, the calls for the other tuples are
still to come, and every vector is what it was when the statement began
but for the calls made (`RuleUnderway`, `Promised`). It has to speak of the set of tuples and
not of the number of calls, because a name listed twice makes one call twice:
the second changes nothing (`SameHit`, `TwoChanges`). At the end all tuples have been called, which is
the product (`AllHits`). No call stops the ones behind it, as a call that fails leaves
the policy as it was (`Execute`, `Resolved`).

The second one is about all kinds of statements, and its inductive invariant `ReplayInv` says three things
of a replay: the policy decides as it did when it was printed (`Decides`), every line that is
still to be read is harmless (`LineOK`), and so is every call that is still to be made
(`Harmless`). A call is harmless if it says what the policy says (`Vain`) or adds commands
that the key grants (`Widening`): then it leaves a policy that decides the same
(`HarmlessIs`). "Changes nothing" would not be inductive in place of "decides the same": a printed range of
driver nodes is read as a rule that may add a node. The invariant needs in turn that the policy
stays `PolicyOK` whatever is called (`ExecutedOK`, one lemma for each statement), and that texts make
only calls that can be made (`TextCalls`), for it has to start from policies that any
statements have changed. That all printed lines are harmless is `PrintedOK`, from one lemma per kind
of line (`AttributeLine`, `TypeLine`, `PermissiveLine`, `VectorLine`, `TypeRuleLine`, `NodeLine`,
`FilenameLine`, `LabelLine`). Each goes through the parser: the words of the line are read as the names
that were printed (`PlainArgs`, `BracedReads`), the runs of a node as the ranges they were
(`RunsAre`, `RunsRead`), and the product of these lists has only tuples of the table (`TuplesHave`). A
line that is refused does no harm, either: a label whose context was cut at a comma is one, and that is why
the proof does not carry over to `DumpRestores`.

**`PolicyFile_proofs`.** Assumption: what a process finds in a file is a policy as `policydb_read` can have made
it, and `avtab_android_m_compat` is set for a version 30 policy only
(`LoadedAssumption`, with `PolicyOK`). `PolicyOK` says that tables are finite, that a field the version lacks has
its default, that a row of `type_attr_map` has attributes only besides the type itself, that the keys of rules are values
below `nprim`, and that two conditional lists share no type rule. It is an
assumption about the first policy; that it stays so is proved.

* `FileInvHolds`: the inductive invariant `FileInv`.
* `ReadsInStep`, `RefusesOnlyFor`, `LoadsAllThatIsCarried`, `LoadsTheSameDecisions`: `ReadInStep`,
  `RefusedOnlyFor`, `CarriesAll`, `SameDecisions`, for policies of every size, every version,
  every order of the extended nodes and every number of statements, saves and loads.

None of the four is inductive: they speak of the last read, and what that gives depends on the
whole file. `FileInv` says what writer and reader take for granted: the policy in
memory satisfies `PolicyOK`, the file is the `Image` of a policy that did when it was saved, and
what was loaded is `Restored(saved)`, the policy as its version can say it. It is
inductive for three reasons.

* `ReadBack`: reading an `Image` is misread by the one ambiguity, refused for the three reasons, or gives
  `Restored`. This goes from the inside out. Each record's reader undoes its writer, whatever the version
  (`ClassIs` to `GenfsIs`). The reader's fold over the sections finds each one where the writer put it, because the
  word in front of it is the number of its items (`BeginsOn`, `LayoutSteps`, `SectionsAre`, `ImageIs`), and every item has
  the fields the reader takes (`ItemFits`). The rules are read node by node, with the memory
  `m` of what Android M looks like going from one to the next (`NewRulesAre`): unless the first extended
  node is mistaken, all of them are read as they were written, in any order. Before version 20, `OldRulesAre` says that the merged
  entries come apart into the nodes of `Expand`, each once, so `avtab_insert` never meets a
  key twice. Filename transitions come
  back as they were from version 33 on (`ChainsRead`), and otherwise as `policydb_filetrans_insert` makes them of the
  entries, followed step by step (`InsertSteps`): each step leaves transitions that are entries, and gives the
  source of the entry one (`InsertStep`). A refusal means that two nodes of a chain that was saved had a
  default or a source in common (`CollisionIs`). `DbRead` puts the tables together.
* `RestoredOK`: what was read is `PolicyOK` again. The expansion of rules gives keys of types only, which needs that
  a value is a type's or an attribute's and never both (`ValuesOK`, `ExpandOK`).
* `EditKeeps`: every statement leaves a policy that is `PolicyOK`, one lemma per statement.

`CarriedAre` and `DecisionsAre` then compare `Restored(d)` with `d`. For the second, a rule for an attribute is found by a type
that is in it before version 20 because `Members` of the attribute are the types whose
row has it (`RowsOK`), so each vector of the expansion is the union, or for `auditdeny` the intersection, of
the vectors that a decision would have joined.

Proving it changed the model in one place: TLC's policies had all been such that `PolicyOK` was true
of them, and the assumption now says so. What it excludes are files that no reader of the version
returns.

Only model-checked:

* `DumpRestores` of `Statements`. For a policy that has none of the rules it is not enough that no line does harm:
  no printed line may be refused but the labels with a comma, every entry of every table needs a line, and
  the lines must come in an order in which the names they use are there. It also needs that the names of files, filesystems and paths can be read as
  identifiers, which a policy in a file need not grant. There is no other obstacle in principle: the
  lemmas about lines in `Statements_proofs` say what a line is read as if it is read.
* `EveryRunEnds`, which is liveness and out of the prover's reach.

## 5. What is not modelled

* **Failing allocations.** The engine checks most of them, and returns half way
  through some operations (`sepol_add_type` after the name is in the table). The
  states this leaves are arrays that are shorter than their counters, and every later access is undefined.
  `add_xperm_rule_impl` leaks an
  allocation per node it makes; that is not visible in any model here.
* **The stub engine** (`stub.rs`) defines `add_type` twice in one type and does
  not compile, so that there is no program to model.
* **Contexts**: `context_from_string` and the validity of a context are part of
  the choice of a model value in `Genfs` and `Statements`; `PolicyTypes` has the part of validity
  that statements can change (`ContextsStayValid`).
* **Inside of records of the policy file**: bitmaps, levels, ranges and the expressions
  of conditions and constraints are values in `PolicyFile`; names are not
  spelled. Files that no writer made are not read there; `Session` has torn files.
  Module and Xen policies are never loaded.
* **Split policies**: `from_split` and `compile_split` return an error, as the
  model has it; the helpers for them are never called.
* **libsepol's containers**: sets and maps in the models.
* **linking, CIL, assertions, tests, tools and build scripts**: never called. They
  are most of the lines of the repository.

## 6. Plan

Done, in order of importance: types, access vector rules, the table,
extended permissions and their statements, filename transitions, genfs, runs,
the policy file, the parser, the product of lists and printing;
proofs of the type table, of the access vector rules and of the table behind them, of
the extended permissions, of filename transitions and genfs, of the runs, of the policy file, and of statements: those
that set access vectors, and those that a policy is printed as.
What a next step would take up:

1. `TypeArrays`: `sepol_add_type` with its allocations and partial failures,
   implementing `PolicyTypes` when none fails.
2. `Ebitmap` and `Symtab`: the containers, implementing sets and maps.
3. The proof of `DumpRestores`, with the lemmas about lines in `Statements_proofs`.
