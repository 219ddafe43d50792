# A TLA+ verification of WolverineOS

WolverineOS keeps a folder recoverable and annotated. `ivault` (C) seals a tree
into content-addressed vaults, compares a tree with a vault, heals it, and keeps
one JSON document of annotations per file. `imeta` (C, with a Python GUI and an
inotify daemon) keeps a `.imeta` sidecar beside every file. Nothing takes a lock,
nothing calls fsync, and every command is a process of its own: what can go
wrong is what happens between two of its system calls.

The modules here are written from the code under `src/`; `PROJECT.json` gives for
each definition the lines it stands for, and lists runs, findings and hazards.

## 1. The system

| component | state | operations | talks to | hard part | what makes it correct |
|---|---|---|---|---|---|
| seal (`seal.c`) | `vaults/<second>/manifest.tsv`, `objects/<xx>/<hash>.blob` | one walk: digest, copy, row per file | reads the tree | edits during the walk, failing calls, kills, two seals in a second | SEALED means: every file left alone has its row, every row its blob |
| storage (`fs.c`, `hash.c`, `manifest.c`) | as above | copy, mkdir, digest, load | called by all | partial copies, rows cut anywhere | a short file is never taken for a whole one |
| verify (`verify.c`) | counters | walk the tree, then the rows not seen | reads tree and manifest | the tree changes during the walk | code 0 only for a tree that is what the vault says |
| restore (`restore.c`) | the tree | per row: compare, copy | blobs to tree | kills inside a copy, things in the way | RESTORE COMPLETE means the sealed bytes are back |
| prune (`prune.c`) | the tree, `state/quarantine/<second>/` | rename, or copy and unlink; `--delete` | tree to quarantine | the two-step move, two prunes in a second | nothing that leaves the tree is lost |
| watch (`watch.c`) | a loop | verify, restore, prune, verify, sleep | calls the three | partial healing, codes that must be counted | it converges; code 0 is the truth |
| timewalker (`timewalker.c`) | none | latest, inspect, recover-file, timeline | reads `vaults/`, appends to the ledger | half-written vaults, seals that come meanwhile | no answer is older than a vault reported before; RECOVERED means the bytes |
| ledger (`ledger.c`) | `state/ledger.tsv` | append, history, audit; diff of two vaults | called by all | rows of overlapping commands, words found by substring; copies and moves in diff | audit counts what was done; NO DIFFERENCE means that nothing is gone |
| memory (`wos_memory.c`) | `.wolverine/memory/files/*.wmeta.json`, `.wolverine/memory/index.wmeta.jsonl` | tag, note, summary, custom of a file or a folder, edit, view, push | its own files | two processes on one temporary file, kills, push during updates; JSON built, cut, searched and checked by hand | no annotation lost; the index is what the documents say |
| sidecars (`bind.c`, `scan.c`, `index.c`, `bind_missing.c`) | `<file>.imeta`, `.imeta/index.tsv` | bind, scan, bind-missing | meet in the index | a stale or short index, `bind` by hand beside the daemon | bind-missing creates, never overwrites |
| daemon (`imeta_watchd.c`) | the inotify queue and its buffer | bind on close and move | binds the files it hears of | overflow, files that changed again, kills | at rest every file it heard of is described |
| GUI (`imeta_gui_v2.py`) | the editor | select, edit, save, bulk tags, bind folder, bind selected | runs `imeta`, writes sidecars | sidecars half written by others | a save goes to the file it was made for |
| doctor, reconcile (`doctor.c`, `reconcile.c`) | none | count; list files without sidecars and sidecars without files | read the index, not the tree | the index is older than the tree | true of the tree the scan saw |
| remember (`memory.c`) | `.imeta/memory.jsonl` | append a line | the GUI offers the lines | - | - |
| command lines (`ivault.c`, `imeta.c`), menus, builds | none | dispatch, append the ledger row | start the rest | - | - |

## 2. The modules

```
VaultBase           paths, contents, digests, manifests
 |- VaultPromise     what a vault promises: a snapshot, once published never changed
 |- Seal             one seal at a time: the vault being written
 |   |- SealPromise  Promise == INSTANCE VaultPromise WITH image <- Image
 |   `- MCSeal       instances
 |- Heal  -  MCHeal  verify, restore and prune against one vault
 |   `- Watch  -  MCWatch        the loop over them (EXTENDS Heal)
 `- VaultDiff        what `diff` says of two manifests
     `- IVault  -  MCIVault      all commands together: processes, vaults, ledger
JsonText, ManifestText           documents and manifests character by character
 `- Texts  -  MCTexts            every text of a bounded length through both
NotesPromise         what the memory promises: annotations made one at a time
WosMemory           processes on documents
 `- MemoryPromise  -  MCMemory   Promise == INSTANCE NotesPromise WITH notes <- Notes, asked <- Asked
Sidecars   -  MCSidecars

proofs              of                       extends
SealProofs          Seal                     Seal
SealPromiseProofs   SealPromise              SealPromise, SealProofs
HealProofs          Heal                     Heal
WatchProofs         Watch                    Watch, HealProofs
DiffProofs          VaultDiff                VaultDiff
IVaultProofs        IVault                   IVault, DiffProofs
MemoryProofs        WosMemory, MemoryPromise MemoryPromise
SidecarProofs       Sidecars                 Sidecars
```

A definition marked "Defect:" in a comment is a deliberately wrong twin of the one
after it. It is used by no specification; replacing the right definition by it
must make TLC refute the property named for it in `PROJECT.json` ("mutants"), which
shows that the property can tell the code from a plausible bug.

**VaultBase.** A path, a content and a digest are opaque. `Torn` stands for the bytes
of any file cut short, `CutHash` for a digest field cut short. `Hash` need not be
injective. `EmptyManifest` is a manifest with its header only, which loads.

**Seal.** `SealStart` is `ivault_seal_path` up to the walk; `EnterFile`, `HashFile`,
`ReuseObject` or `CopyOpen`/`CopyDone`, `WriteRow` are `seal_file`; `SealFinish` and
`FcloseFails` the end. Each failing call is an action (`LstatFails`, `OpendirFails`,
`HashFails`, `ObjectPathFails`, `CopyOpenFails`, `CopyFails`) that counts an error and goes
on, as `walk_path` does by dropping results. The walk takes entries in any order.
A file is read twice, for the digest and for the blob, and an edit meanwhile may
give the old bytes, the new ones or a mixture (`reads`). `manifest` is what is on disk,
`buffer` what stdio holds; a flush may end before, in or after a row. Two kinds of calls nobody checks, and `lost` records that one
failed: a flush of the manifest, after which rows are missing or what is left of one is joined to the next (`AfterFailure`: a
row of any path, with no digest, since the loader takes the line or not), and a readdir (`ReaddirFails`). `Crash` is the
death of the process. `Tick` is the clock: a vault is named after its second, so two
seals of one second share a directory (`OneSealPerSecond = FALSE`), which is also what
a clock set back would do. `origin`, `touched`, `reopened` and `lost` are history variables.

**VaultPromise, SealPromise.** VaultPromise has two actions: a user edits, a seal publishes a snapshot. `Image` in
SealPromise maps a vault to nothing until it is SEALED, then to what restoring it gives; `LeftAlone` says of the
constants of Seal under which conditions the promise is kept.

**Heal.** The tree has files, directories and links; `Above` gives the directories over a
path. A command (`delete` is `prune --delete`) is `Begin` or `LoadFails`, its walk in any order that enters a directory
before what is in it, and its end, which sets `last`, the exit code. The copy of `restore`
and the copy-and-unlink of `prune` are two steps each. `sink` is the file an open copy
writes to: if a user removes that file meanwhile, the copy goes nowhere. Walks do not follow links, but every other call does: a link leads
to the place of the same name in a second tree, `outside`, so that what stands at or behind one (`Far`) is what stands there (`View`).
`mkdir_p` takes a link to a directory for a directory, and restore then compares and writes outside; prune's unlink takes a link, or a file behind one. `Fault` bounds
failing calls. A readdir that fails ends a walk of verify or prune as the last entry would, unseen (`WalkMisses`). Users act between any two steps (`UserPut`); `touched` records where, and what such a readdir left out. An entry's lstat and
what is then done with it are one step. `UserNodes` is what users put at a path: files, nothing, directories, links.

**Watch.** `Call` starts the command of the current stage with Heal's own actions,
`Returned` reads its code, `Following` is the order of the loop, `Sleep` the end of a cycle.

**VaultDiff, IVault.** IVault composes what the other modules take apart: several processes (`Proc`), each
running one command of `ivault` after the other over one target, several vaults and one ledger.
A process is a record `run[r]`: its command, the step it is at (`at`), the manifest it has loaded, what it
has still to visit, the status it will report. `SealBegin`/`HealBegin`/`DiffBegin`/`RecoverBegin`/
`ListBegin`/`WatchBegin` start one; `SealOpen`, `SealLook`, `SealHash`, `SealStore`, `SealEnd` are a seal, which reads a file twice, once
for its digest and once for its blob, `Load`,
`LoadFails` the manifest as every other command reads it, `VerifyVisit`, `PruneVisit`, `RestoreVisit` with
`CopyWrite` the walks, `RecoverOpen` the output of recover-file, `Latest` and `Timeline` the scan of `vaults/`,
`DiffLoad2` with VaultDiff's `NoDifference` the comparison of two loaded manifests; `LedgerAppend` leaves the row
(or fails, which nobody notices) and, in a watch, goes on to what `Following` says. `Kill` ends a process
anywhere. To make all pairs of commands fit into one state space, the target holds plain files only, one
read of a file is one step, what prune takes simply goes, and vaults are numbered by their
stamps, which differ: Seal and Heal have what is left out. The calls of a seal nobody checks may fail here too (`SealStore`, `SealReaddirFails`). `told` is history: for each vault whose seal
reported SEALED, none of those calls having failed, the tree it is of. `Trusted` are the paths whose blob no file that changed during the seal can
have made: two files of one digest share a blob, and the first of them copies it. `Audit` is what `ivault audit` counts over the rows.

**WosMemory.** Names (`at`) and inodes (`node`) are apart because two processes that
`fopen(tmp, "w")` share an inode. `Annotate` starts a command on a file or a folder, that is a set of files;
for each, `Load` is `update_memory_file` up to the write (a document that cannot be read counts as none: it starts from defaults, and the command returns 0), `OpenTmp`, `WriteTmp`, `Rename` are `write_doc_atomic`,
`FileFails` and `RenameFails` count an error and go on, `Return` is the exit code. `EditTemplate` is the template
`edit` creates, `BreakByHand` what a user may then save. `Push...` is `wos_memory_push`, whose readdir may or may
not return what was renamed meanwhile; `PushReadFails` is a document it cannot read, which its code tells (`unread`), and a write of the index
that fails, which nobody looks at, leaves rows out (`lost`). `Shadows` says which field names a value spells, so that `Extracted` is
`extract_json_field`'s search by `strstr`. `spoiled` is history: the documents that two processes wrote at once, or
on which a write or a read failed, or that a user broke, or in which a value spells a later field's name. `replaced` is history
too: the documents in which another command has put another value where a command had put its own. `may` is what a field
of a document may hold: the last annotation that succeeded, and those under way or killed since.

**NotesPromise, MemoryPromise.** NotesPromise has documents that hold a value per field and processes that each ask for one
field of some files to be set: `Ask` begins a command, `Set` makes one of its annotations, `Fail` gives one up, `Answer` ends it
when none is left, `Die` is a kill, `Lose` gives up a document. `Notes` in MemoryPromise is what the documents on disk say, and
`Lost` for a `spoiled` one; `Asked` maps a process to what it has still to rename. So `Rename` is `Set`, a failed write or rename
`Fail`, `Return` `Answer`; reading, the temporary file, push and the template of `edit` do not show.

**JsonText, ManifestText, Texts.** A character is a string of length one, a text a sequence of them, and a
letter stands for each longer word the code handles as a whole: `@` for a literal, `T`, `N`, `S`, `C` for the
names of fields. JsonText has the builders (`Escape`, `Quoted`, `ValuesArray`, `CustomObject`, `Document`), `Cut` for a buffer
that is too small, the parser (`Parses`, by the same descent as `parse_value`), `Extract` for the search of a field and
`Row` for `write_compact_jsonl`, beside a grammar of JSON (`IsJson`) written independently of the parser.
ManifestText has the row a seal prints and the loader with its `strtok`, `atoll` and `fgets`. In Texts a state is
one input, and a step makes it longer by one piece: its behaviours enumerate the inputs.

**Sidecars.** One directory. `bind[b]` is `imeta_bind_file` running in the daemon or in a command:
digest, then `fopen "w"`, then the text; `BindFails` is a call that fails before the sidecar is open, which the daemon logs and nobody tries again,
`BindLoses` an `fprintf` or `fclose` nobody checks. `Post` is inotify: equal neighbours
are merged, a full queue drops. `WatchdCheck/Enter/Read/Event/Loop` is `main`; `Signal` and
`WatchdDies` end it. `Ask` is a command line a user types, from `Script`, whatever the GUI is at; `Press` and `Return` are a button of the GUI,
which runs the commands of a member of `Button` and waits. One command line runs at a time.
`ScanEntry` writes rows that reach the disk now or later, `BindMissing` loads the index once and refuses one of more than `MaxRows` rows, `BindFile` is
`imeta bind`; `CommandDies` is a kill. A scan may fail to open the index, which then stays (`ScanFails`), pass over an entry (`ScanMisses`), or lose rows and
join what is left of them in writes nobody checks (`ScanLoses`); `BindMissingMisreads` is a read of the index that fails and counts as its end. `Unlisted` are the
names scan skips and the others do not. `MissingIn`, `OrphansIn` and `Count` are what reconcile and doctor report of an
index. `Select`, `Annotate`, `Save`, `BulkTag`, `SaveOpen`, `SaveWrite`, `SaveFails` are the GUI. History: `told`, the files whose last finished
write the daemon heard of and did not fail to bind before it had the sidecar open. `raced`, the
files on which two were at work at once - changed while a command was binding them or the GUI was writing to their sidecar, the sidecar written by a command and the GUI at once, or saved
with a digest they no longer have, or while the daemon was `AtHand` (it has an event of the file, or is binding it) - or a write of whose sidecar failed or was killed. `kept`, the
tags the user saved last, forgotten when the daemon hears of the file, or the user binds it by name or saves it while that is under way, or a save fails. `cut`: bind-missing went by less than what a scan of its
own finds. `steady`: the directory is as the last scan saw it, which missed nothing.

## 3. What the runs check

Runs that pass:

| run | properties | bounds | distinct states |
|---|---|---|---|
| SealEdits | TypeOK, SealedCovers, SealedRestores, NoRowInvented | 2 files, 2 contents, 1 second, any number of seals in it, of edits and faults; flushes and readdirs that fail unseen; kills | 7.4 million |
| SealSnapshot | SealIsSnapshot, VaultsStay | 2 seconds, tree at rest during seals; faults, kills | 473 thousand |
| HealCommands | TypeOK, VerifyTruth, RestoreTruth, PruneTruth, QuarantineKeeps | file, directory, file in it, and what links lead to; damaged blobs; 2 edits: files, directories, links, nothing; 1 fault, 2 prune seconds, kills, prune with and without `--delete` | 4.7 million |
| WatchForever | WatchTypeOK, QuarantineKeeps, WatchHeals | the same tree, outside also a file in the place of the directory; endless cycles, 2 edits of the same kinds, 1 fault | 710 thousand |
| WatchCycles | WatchVerdict | two cycles with `--delete`; the same edits, damaged blobs, 1 fault | 3.0 million |
| IVaultCommands | TypeOK, SealTold, VerifyTold, RestoreTold, PruneTold, RecoverTold, DiffTold, ListTold, AuditTold | 2 processes, 2 commands of any kind (a watch is one), 2 files, 2 contents, 2 vaults; 1 edit, also between digest and copy, or failing call, seen or unseen; kills anywhere | 1.5 million |
| MemoryFolders | TypeOK, DocsWhole, AcksKept, FolderTold, IndexCurrent, AnnotatesAtOnce | 2 writers, 2 commands on a folder of 2 files, 2 fields, 1 push; 1 kill, failing call (reads and the writes of the index included) or broken edit; a tag that spells `note` | 4.4 million |
| Texts | JsonTold, WrittenTold, RowTold, ManifestTold | buffers of 10; values, names and manifests of up to 5 characters, documents of up to 6 pieces after several beginnings, every cut of a manifest | 1.1 million |
| SidecarWatchd | TypeOK, SidecarsCurrent, ReportsTold, ToldIsBound | 2 files, one of which scan passes over; 2 edits, queue of 2, buffer of 1, table of 2 rows; 2 of: a start of the daemon, `imeta bind`, `imeta scan`; kills, any number of failing calls | 1.5 million |
| SidecarFolder | SidecarsCurrent, TagsKept | daemon and GUI on 1 file, 2 edits, 1 save; 2 of: a start of the daemon, bind folder, bind selected, `imeta bind` by hand at any time; kills, any number of failing calls; queue of 2, buffer of 1, a table of 1 row | 8.5 million |

The properties, in words:

- *SealedCovers, SealedRestores, NoRowInvented* - a vault reported SEALED has, for every file
  nobody touched, the row of what it held, and for every row a blob with those bytes; in any vault, also of a killed seal, only
  files have rows. A vault of which a flush or a readdir failed unseen (`lost`) is excepted: it may lack rows, and have one
  joined from two, of a path that never existed.
- *SealIsSnapshot* - a seal of a tree at rest implements VaultPromise: all at once, and for ever.
- *VaultsStay* - an action property: once its second is over no step changes the manifest, the blobs or the status of a
  reported vault (a seal of the same second would begin the manifest anew), whatever the seal of a later second reads, fails at or is killed in.
- *VerifyTruth, RestoreTruth, PruneTruth* - what a command reports is true of all paths the
  user left alone since it began, but for verify and prune those a readdir that failed unseen kept from the walk. Nothing can be asked of the others. After a restore that is: the file has the sealed
  digest, or is a copy of a blob that was damaged since, or there is a link at its path or above it (then restore has compared and written
  what the link leads to).
- *QuarantineKeeps* - every file prune took out of the tree is in a quarantine with its bytes,
  except one saved between prune's copy and its unlink (`late`), which only the copy across file
  systems, or after a failed rename, allows.
- *WatchHeals, WatchVerdict* - the loop converges, but where the user put a directory at a sealed path, or a link at or above one, which
  neither restore nor prune removes (`Blocked`); and its exit code is the truth, but for what a readdir that failed kept from the last verify.
- *SealTold, VerifyTold, RestoreTold, PruneTold, RecoverTold* - while other commands seal, restore, prune and
  recover over the same tree: a vault once reported SEALED loads and is complete for ever; what a command
  reports by such a vault is true of the paths nobody else touched since it began; prune by it never takes a sealed
  file. "Reported" leaves out the seals of which a flush or a readdir failed unseen: they say SEALED too. Of vaults whose seal was killed or still runs, nothing of the kind holds (see below).
  That a blob has the sealed bytes, which RestoreTold and RecoverTold rest on, is said of files that share their digest with none that changed during the seal (`Trusted`): such a file
  may be digested with one content and copied with another.
- *DiffTold* - NO DIFFERENCE: what the first seal saw is there unchanged, and what is new has bytes the first
  vault has. DIFFERENCE: the trees did differ. *ListTold* - latest and timeline know every vault reported before.
- *AuditTold* - whoever wrote rows in whatever order, audit counts each seal, verify, restore and prune that left one,
  and each success and failure once - but recover-file's UNRECOVERABLE and a diff, which it counts nowhere.
- *DocsWhole, AcksKept, IndexCurrent* - documents are old or new and never half; a field holds
  the last annotation that succeeded, or one of a command under way or killed since; an index has what was left alone as it is, and nothing of a document
  push could not read (it then does not return 0) or whose row a failed write of the index left out (it may). *FolderTold* - after a command on a folder that returns 0 each of its files
  has the annotation, unless another command has since put another value in that field.
  All but IndexCurrent except `spoiled` documents, among them those an annotation could not read and so began anew.
- *AnnotatesAtOnce* - the memory implements NotesPromise: whatever overlaps, fails or is killed, what the documents say is
  what commands would leave that each made their annotations one at a time, between their beginning and their end, exactly
  once each if they return 0, and on the fields as they are in that moment. A `spoiled` document is `Lost`.
- *JsonTold* - the parser takes what is JSON, and besides \v, \f and any character behind a backslash, and nothing else.
  *WrittenTold* - a document is valid exactly if no value was cut; then it says what the user said, and the next
  command finds each field in it that no earlier value hides. *RowTold* - the row push makes says what the document
  says, on one line. *ManifestTold* - a manifest cut at any byte loads as its complete rows, at most one with a short
  digest, or not at all.
- *SidecarsCurrent, ToldIsBound* - when the daemon is at rest, the sidecar of each file it heard of has the digest of what the
  file holds, also after the GUI has saved it, and it comes to that; unless two were at the file at once or a write of the sidecar failed (`raced`), or the daemon failed to bind it,
  which it does not try again (`told`).
- *TagsKept* - what the user saved stands, whatever the daemon and bind folder do, until the daemon hears of the file again
  or the user binds it by name; except after the first scan of bind folder was killed, failed or lost rows (`cut`): it binds by the
  index that scan left. *ReportsTold* - after a scan that missed nothing, and until something comes or goes, reconcile and
  doctor, which read the index only, say what the directory holds: of the files scan does not pass over, and if the index fits the table.

Two runs end in a violation: they state what the repository says of the program, and the code does
otherwise (`PROJECT.json`, "findings", quotes the sentences).

| run | what happens |
|---|---|
| HealTransient | seal passes over `*.tmp`, `*.swp`, `*~` and `.imeta`, verify does not: seal, then verify, is not clean |
| SidecarStaleIndex | bind-missing run twice without a scan overwrites the sidecars of its first run |

The models show more of the kind under other constants. These are the limits of the properties
above, and each is reproduced by changing the named constants of a run and naming the definition as
its invariant or property (without SYMMETRY in SealEdits and for BadJsonStays):

| start from, and set | TLC refutes | what happens |
|---|---|---|
| SealEdits | LatestIsReported | a killed seal leaves a manifest that loads; `latest` names it (`timewalker.c:25`) |
| SealEdits, `lost` left out of the property | SealedCovers, NoRowInvented | rows lost or joined after an unchecked `fprintf`, SEALED all the same (`seal.c:128`, `manifest.c:57`) |
| SealEdits | SealedIsWhole | a seal repeated within its second reuses the short blob of a killed one (`seal.c:114`) |
| HealCommands, `Far(p)` left out of the property | RestoreTruth | restore follows a link at or above the path and is content, verify says MISSING (`restore.c:44`, `fs.c:77`) |
| HealCommands, `Matches(p)` in place of `Restored(p)` | RestoreTruth | restore copies a damaged blob and reports success (`restore.c:68`) |
| HealCommands, `FreshSecond = FALSE` | QuarantineKeeps | two prunes in a second overwrite each other's quarantine (`prune.c:64`) |
| HealCommands, `late` left out of the property | QuarantineKeeps | an edit between prune's copy and its unlink is lost (`prune.c:70`) |
| WatchForever, `Blocked(p)` left out of the property | WatchHeals | a directory the user put at a sealed path never goes (`fs.c:111`, `prune.c:122`) |
| IVaultCommands, `Trusted` left out of the property | SealTold, RecoverTold | a file that changes between digest and copy leaves a wrong blob, which an untouched file of that digest shares (`seal.c:100`, `seal.c:114`) |
| IVaultCommands, `~lost` left out of `Reported` | SealTold | rows lost unseen, SEALED all the same (`seal.c:128`) |
| IVaultCommands | PruneByReported | prune by a vault whose seal was killed or still runs takes the files it has no row for yet (`prune.c:103`); VIABILITY_PLAN.md:15 says no unexpected data deletion |
| MemoryFolders, `spoiled` left out of the property | AcksKept, DocsWhole, AnnotatesAtOnce | two overlapping annotations succeed and one is lost (`wos_memory.c:482`); a tag that is the word `note` hides and then erases the note (`wos_memory.c:376`); a failing write is renamed into place; a document that cannot be read is replaced by a new one (`wos_memory.c:409`) |
| MemoryFolders, `lost` left out of the property | IndexCurrent | a write of the index fails, push renames what there is and returns 0 (`wos_memory.c:516`) |
| MemoryFolders | OneRowPerFile | push indexes the `.tmp` of a killed command (`wos_memory.c:690`) |
| MemoryFolders | BadJsonStays | a broken document is replaced without a word (`wos_memory.c:413`); README.md:219 says bad JSON is rejected, not hidden |
| Texts | BadJsonRejected | `"\a"`, and a newline behind a backslash, count as JSON (`wos_memory.c:203`) |
| Texts | AnyNameSealed | a name with a tab or a newline is sealed as another path, or the manifest no longer loads (`manifest.c:57`) |
| SidecarFolder, `cut` left out of the property | TagsKept | bind folder goes on after its scan was killed or failed and overwrites sidecars (`imeta_gui_v2.py:453`) |
| SidecarFolder, `kept` left as it is in `Finish` | TagsKept | the daemon binds a file that changed and its annotations are gone (`bind.c:95`) |
| SidecarFolder, `Script <- Shell`, `Faults = FALSE` | TagsKept | `imeta bind-missing` by hand, by an index older than the annotation, overwrites it (`bind_missing.c:192`) |
| SidecarFolder, `raced` left as it is in `SaveOpen` | SidecarsCurrent | the GUI saves the document it loaded, with the digest of then, over the daemon's (`imeta_gui_v2.py:432`) |
| SidecarWatchd, `raced` left out of the property | SidecarsCurrent | `imeta bind` writes an older digest over the daemon's (`bind.c:78`) |
| SidecarWatchd, `told` left as it is in `BindFails` | SidecarsCurrent | the daemon logs a bind that failed and never tries again (`bind.c:78`, `bind.c:97`) |
| SidecarWatchd, `Unlisted` left out of `Seen` | ReportsTold | reconcile calls the sidecar of a file scan passes over an orphan (`scan.c:68`) |
| SidecarWatchd, `steady` left as it is in `ScanLoses` | ReportsTold | a scan whose writes failed returns 0, and reconcile and doctor report what the short index has (`index.c:56`) |
| SidecarWatchd, `Crashes = FALSE`, `QueueMax = 1`, `Faults = FALSE` | EveryFileBound | a file closed while the queue is full is never bound (`imeta_watchd.c:209`) |
| SidecarWatchd | FinishedOnly | a file opened again is bound half-written (`imeta_watchd.c:113`); the header says only after writes are complete |
| SidecarWatchd, `Gui = TRUE`, `MaxSaves = 1` | Paired | the GUI saves one file's document beside another (`imeta_gui_v2.py:235`) |

Written down in the properties above rather than refuted: an annotation longer than its buffer returns 0 and
leaves a document that push refuses and that the next annotation starts anew (WrittenTold, `wos_memory.c:92`); a newline a
user saved behind a backslash splits a row of the index over two lines (RowTold, `wos_memory.c:509`); `diff` of a
vault with a copied file says NO DIFFERENCE (DiffTold, `ledger.c:154`); audit counts UNRECOVERABLE nowhere (AuditTold).

What a passing run assumes is thus always a CONSTANT, or a set of exceptions its property names. In Watch, `FreshSecond` is FALSE: that its
prunes do not share a second follows from `Sleep`. HealCommands and WatchCycles damage blobs and put links:
restore is then content with a file that is not what was sealed, and the second verify of a watch cycle is not.

**Why the bounds are enough.** The interference in each component is between one running
command and whatever else touches the *same* path, blob, document or queue entry; two
paths give a path that is disturbed and one that must not suffer for it. Two contents give
equal and different digests. Two fields give one to write and one to keep. The tree of Heal is the
smallest with a file whose parent can be replaced, so that missing and blocked parents both
occur. One fault and two edits are enough to reach every error path and to have the
outcome of one command disturbed by the next. In Seal the number of edits and faults is not
bounded at all. In IVault no command reads what another keeps in memory: they meet in the tree, the vaults and
the ledger, so each property is about one command and one that interferes, and two commands - each may be a
whole watch cycle of five - after a first vault are every such pair; a second vault lets a command work by the old
one while a new one is being sealed. One trouble is not enough to bring a wrong blob, left by an edit between digest and copy, back by a restore
(the tree must have lost the file too): RecoverTold and SealTold meet `Trusted` in this run, for RestoreTold it is in the proof only. In WosMemory two writers on the same two files, in any order, meet in every step of
`write_doc_atomic`; inodes are one more than names and open files can take. In Texts a buffer of 10 is passed by texts
of 5 characters, nesting goes to depth 3, and each alphabet has every character the code tests for. Queue and buffer
lengths (2 and 1) make overflow, merging and several reads happen;
the table limits (1 row for up to 2, 2 for up to 4) make bind-missing and reconcile refuse an index. In SidecarFolder daemon, GUI and commands meet on one
file; what one does on another file is in SidecarWatchd and, for any number of files, in the proofs. Deadlock is not checked where bounds on
edits, seconds, commands or lengths end a behaviour: the programs may then rest.

**Symmetry** is used only where it is sound, over what no constant tells apart: paths in the runs of
Seal; paths, processes and the two contents with their digests and sizes in IVaultCommands; the writers and
the two files with their documents in MemoryFolders; never with a liveness property.

**Fairness.** `FairWatch` asks that `watch` eventually takes its next step while it has one: it is a
loop with no lock and no wait but a finite `sleep`, and the scheduler does not stop it for ever.
`FairSpec` of Sidecars asks the same of the commands, finite loops that wait for nothing, and of the daemon, a single
loop that waits only in `read` for an event; that it is started (again) is systemd's doing (`imeta-watchd.service`), within `MaxRuns`.
Nothing is asked of users, of the clock, of kills or faults: these are bounded, or (the failing calls of Sidecars) each takes the place of a step
of a command that has an end, and liveness says what holds once they have stopped.

## 4. What is proved

TLAPS proves the type invariant and every safety property that a passing run checks, action properties and refinements
included, but for those of Texts, for every
value of the constants: any numbers of paths, processes, vaults, contents, writers, edits and faults, any lengths of queues,
and any `Hash`, collisions included, where no hypothesis says otherwise. Each inductive invariant was checked with TLC
on the runs of its component before it was proved. The modules of the models name the assumptions on their
constants (`SealAssumption`, `HealAssumption`, ...); a hypothesis beyond them stands in the theorem itself, and TLC refutes the
property without it (DiffTold and the like with two contents of one digest and size).

| theorem | property | hypothesis | without it |
|---|---|---|---|
| SealProofs: TypeCorrect, SealCovers, SealRestores, SealInventsNothing, ReportedVaultsStay | TypeOK, SealedCovers, SealedRestores, NoRowInvented, VaultsStay | - | |
| SealPromiseProofs: SealKeepsPromise | SealIsSnapshot (refinement) | `LeftAlone`: no edits during a seal, one seal per second, no failure of an unchecked call, an injective `Hash` | a seal of a moving tree is no snapshot |
| HealProofs: HealTypeCorrect, VerifyTellsTruth, RestoreTellsTruth, PruneTellsTruth | TypeOK, VerifyTruth, RestoreTruth, PruneTruth | - | |
| HealProofs: RestoreBringsBack | what restore brings back matches the vault, but at and behind links | `VaultIntact` | restore copies a torn blob |
| HealProofs: QuarantineIsKept | QuarantineKeeps | `FreshSecond` | two prunes in a second overwrite each other |
| WatchProofs: WatchTypeCorrect, WatchIsHeal, WatchKeepsQuarantine | WatchTypeOK, Heal's Spec, QuarantineKeeps | - | |
| WatchProofs: WatchTellsTruth | WatchVerdict | `AutoRestore` or `AutoPrune` | a watch that heals nothing ends with 0 whatever it saw |
| DiffProofs: DiffMeans, DiffBothWays | what `diff` says of any two manifests | - | |
| IVaultProofs: VaultTypeCorrect, SealedStays, PruneTellsInVault, ListTellsInVault, AuditTellsInVault | TypeOK, SealTold, PruneTold, ListTold, AuditTold | - | |
| IVaultProofs: VerifyTellsInVault, RestoreTellsInVault, RecoverTellsInVault, DiffTellsInVault | VerifyTold, RestoreTold, RecoverTold, DiffTold | `HashInjective` | bytes of another file with the same digest pass |
| MemoryProofs: MemoryTypeCorrect, DocumentsStayWhole, AcknowledgedStays, FolderTellsTruth, IndexTellsTruth | TypeOK, DocsWhole, AcksKept, FolderTold, IndexCurrent | - | |
| MemoryProofs: MemoryKeepsPromise | AnnotatesAtOnce (refinement) | - | |
| SidecarProofs: SidecarsTypeCorrect, WatchdKeepsCurrent, ReportsTellTruth | TypeOK, SidecarsCurrent, ReportsTold | - | |
| SidecarProofs: AnnotationsStay | TagsKept | each bind-missing follows a scan (`ScansFirst`) | a bind by an old index overwrites the annotation |

*Seal.* SealedCovers speaks of finished seals and is not inductive. Two facts on the running
seal make it so. `CursorInv`: the file the walk is in, if nobody edited it, is a regular file, and
the digest in `curHash` is its digest. `RowsInv`: paths the walk has not finished have no row - the
truncation in `SealStart` is what makes this true in a shared vault - and, as long as no error was
counted, each quiet path it has finished has the row it is due. When the walk is over, `WalkOver`
says that the unvisited quiet paths hold nothing, so the buffer `SealFinish` writes is the
one SealedCovers asks for. For SealedRestores, `BlobInv` adds: vaults no seal has used have no blobs, each row
in the buffer has its blob, and a blob that does not hold what its name says is the one
being copied, or was copied from a file edited since its digest (`Excused`). `HonestInv` says of
the buffer and of what is on disk what NoRowInvented says of every vault: that is all a kill leaves.
The three except the vaults of which a flush or a readdir failed unseen (`lost`), and must (section 3); the invariants speak of a running seal only while none has.
VaultsStay follows from the same `CoverInv`, one case per action: a running seal writes to a vault whose status is still open, and `SealStart`
opens one only in the second of its name.

*SealPromise.* `PromiseInit`, then three cases of a step. `SealFinish` is VaultPromise's Publish (`FinishPublishes`): under
`LeftAlone` no exception of the two invariants applies (`AloneInv`), so what the vault restores is the tree. Every
other step leaves `Image` as it is (`ImageKept`); an edit is VaultPromise's Edit, and no other moves the tree (`LiveKept`).

*Heal, Watch.* `TreeInv` says what hangs together whoever writes: the file an open copy writes to is a file, what hangs below a
touched path is touched. On top of it each command has an invariant on what its walk is through with: compared (`VerifyInv`),
back but for the one being copied and for what is at or behind a link (`RestoreInv`; that blobs are whole is needed only where it is said what "back" means), not unlisted but for the one being unlinked (`PruneInv`), not yet in the
quarantine of this second (`QuarantineInv`). `WatchIsHeal` shows the loop to be a behaviour of Heal, so that what is proved of
the commands holds in it; `WatchTellsTruth` needs no sound blobs, because the second verify of a cycle looks at the
tree again, and `WatchKeepsQuarantine` shows what QuarantineIsKept assumes: `Sleep` keeps the prunes of a watch in different seconds.

*Diff.* NO DIFFERENCE holds exactly if every row of the first stands unchanged in the second and every
row of the second alone has a digest of the first. Two manifests are the same exactly if `diff` finds no difference in
either direction; one direction does not show it.

*IVault.* `Shaped` says which command is at which step with what in hand, `SealsInv` that a seal has its vault to itself and that
nobody was told of it before its end. From these, `ToldStays`: no step of any process changes the manifest or the blobs of a
reported vault. So what a command loaded from a vault it knows stays true (`KnownInv`).
`SealingInv` is the walk of a seal, with `Walked` for each that runs and none of whose calls failed unseen: a row for each finished path that nobody touched, none for the
unfinished, a blob for each row, and a blob that is not of its digest only where a path that changed has that digest in its row; at its end it gives SealTold, with `Trusted`. With that and `StatusInv`, on how a command came to where it is,
each promise needs one invariant on its own walk (`VerifyInv`, `RestoreInv`, `PruneInv`, `DiffInv`, `ListInv`);
`LedgerInv` says of each row whose it is. DiffTold also rests on DiffMeans.

*Memory.* `NamesInv`: a name stands for an inode of its own document, and no inode has two; there is always a free one.
`AloneInv`: a document that nothing has happened to has one writer at most, and its `.tmp` is what that writer
carries; hence DocsWhole. `CarryInv`: what it carries is its annotation and otherwise what AcksKept allows. `DoneInv` says of
each file a command is through with that it has the value and that no writer at work on another field
would take it back (`DoneHas`). `PushInv`: what a push has still to read has no row yet, what it has read has one that is true, what it could not read has none and
`rejected` is set.
FolderTold used to tell a replaced value by its absence from `may`. The attempt to prove it showed that this is wrong:
once a second command has put another value, a third that sets out to write the first value again brings it back into `may`, and
the property fails of a code that did nothing wrong; it takes three commands and two values of one field, which the run does not have.
`replaced` now records each replacement, and FolderTold excepts exactly those. Both `may` and `replaced` speak of documents, not of files,
since a document is named by a hash of the path of its file (`hash_path`, `KeyOf`) and two files may share one: the annotation
of either is then an annotation of both, and nothing further has to be assumed.
AnnotatesAtOnce is shown step by step: a rename is `Set`, a failure `Fail`, and so on, each in a lemma, everything else a `Rest`. The
rename is the point: it puts down what the writer loaded some steps before, and NotesPromise changes one field of what the document says
now. `CopyInv` says that for a document not spoiled the two are the same, because nobody else was at it; for `edit`, that it saves what an
absent document says anyway.

*Sidecars.* `ShapeInv`: who is at work on which sidecar, and that none goes away. `ReportInv`: a scan under way
that has missed nothing has written the rows of what it has looked at, which ReportsTold turns into counts and lists. `CurrentInv` follows each file the
daemon was told of: it is still due (in the queue, in the buffer, or being bound with the digest of now), being saved, described,
saved with the digest of now and opened by nobody since, or half written by a process that holds the right digest. A command that
holds an old digest of a file, and a save of one, are excepted by `raced`; of a save that is not, CurrentInv says that the
sidecar stays empty and the daemon away until its write. Once the daemon waits with nothing queued, only the digest of now is left.
`TagsInv` follows the index in a list of commands that has a bind-missing to come (`Binds`), and unless it was cut: a scan covers every saved sidecar by what it has written or has yet to see, the index it leaves covers
them until bind-missing has loaded it, and bind-missing passes over what is covered. From the daemon they are safe because
it has no event of the file, and an event comes only with a write that also clears `kept` (`UnheardStep`). The
hypothesis of AnnotationsStay is what the GUI's button does: scan, bind-missing, scan.

Only model-checked: JsonTold, WrittenTold, RowTold and ManifestTold (JsonText and ManifestText recurse over their input, which is out
of the prover's reach), WatchHeals and ToldIsBound (liveness and ENABLED are outside what the prover handles), and
the two violations.

## 5. What is not modelled

- Power loss. Nothing calls fsync; a kill is the death of one process.
- A target that contains the working directory, hence its own vaults and quarantine
  (`is_inside_quarantine` never matches, `prune.c:44`); the models keep them apart. A target that
  does not exist yet.
- Paths that spell an event or a status: audit looks for the words anywhere in a row (`ledger.c:83`).
- Two pushes, or two command lines of `imeta` in one directory, at the same time (one beside the GUI's editing and the daemon is modelled);
  two seals in one second at the same time (Seal has them one after the other).
- A readdir that fails in IVault's verify and prune, in push or in the annotation of a folder, and ends their walk as the last entry would: Seal, Heal, IVault's seals
  and the scan of Sidecars have it. A read error of the manifest, which counts as its end, too (`manifest.c:50`): prune would then take files the rest of it lists.
- A directory that a user replaces by a link while verify or prune is inside it. What links lead to is one other tree, in which nobody else is at work.
- The GUI's bulk fields (a variation on bulk tags), its previews and lists; `.wolverine/quarantine`, push's log and
  view, which nothing reads again; remember, which appends a line.
- Sub-directories in Sidecars. In IVault, directories, links and two-step moves, which Heal has.
- FNV-1a's arithmetic: `Hash` is any function. The lengths of path buffers. The parsing of argv and options: a
  command may start at any time with any path and vault.
- Menus, launchers, the log, builds and the demonstration.

## 6. What is left

Every safety property of the models that the prover can reach is proved. The hypotheses that remain are conditions under which the
code keeps the property and without which it does not (section 3). What killed commands leave behind is said by the cases of
the invariants, and as an action property for vaults only (VaultsStay). JsonText and ManifestText, and with them Texts, declare
RECURSIVE operators and stay with TLC, as do the two liveness properties.

## 7. Running

`tlc -config <run>.cfg MC<component>.tla` for a run (`PROJECT.json` names the module of each), `tlapm <module>.tla` for the
proofs: SealProofs, SealPromiseProofs, HealProofs, WatchProofs, DiffProofs, IVaultProofs, MemoryProofs and SidecarProofs. IVaultProofs takes some ten
minutes, the others one or two each.
