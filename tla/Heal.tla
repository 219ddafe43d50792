-------------------------------- MODULE Heal --------------------------------
(***************************************************************************)
(* `ivault verify`, `ivault restore` and `ivault prune`: three walks that  *)
(* compare a tree with one vault and bring the tree back to it, one entry  *)
(* at a time, while the user changes the tree and calls fail.              *)
(*                                                                         *)
(* Here the tree has directories, links and files, since what stands in    *)
(* the place of a file is what the three commands may disagree about.  The *)
(* vault is loaded at the start of each command and never written: it is   *)
(* the one that seal (module Seal) makes of the initial tree.              *)
(***************************************************************************)
EXTENDS VaultBase

CONSTANTS
    Above,          \* the directories on the way from the target to a path
    Dir, Link,      \* a directory; a symbolic link to the same place outside
    Outsides,       \* the trees outside that links may lead to
    NoPath,
    UserNodes,      \* what a user may put at a path
    VaultIntact,    \* no blob was lost or cut short since the seal
    CrossDevice,    \* state/quarantine is on another filesystem
    FreshSecond,    \* assume that no two prunes start in one second
    Crashes,        \* the command may be killed
    MaxStamp, MaxEdits, MaxFaults   \* bounds: seconds, user edits, faults

Stamp    == 1 .. MaxStamp
Commands == {"verify", "restore", "prune", "delete"}   \* delete: prune --delete
Node  == Bytes \union {NoFile, Dir, Link}

(* What is not missing hangs on directories. *)
IsTree(t) == \A p \in Path : t[p] # NoFile => \A q \in Above[p] : t[q] = Dir

ASSUME HealAssumption ==
    /\ Above \in [Path -> SUBSET Path]
    /\ \A p \in Path : p \notin Above[p] /\ \A q \in Above[p] : Above[q] \subseteq Above[p]
    /\ Dir \notin Bytes /\ Link \notin Bytes /\ Dir # Link /\ NoFile \notin {Dir, Link}
    /\ NoPath \notin Path
    /\ Outsides \subseteq {t \in [Path -> Content \union {NoFile, Dir}] : IsTree(t)}
    /\ UserNodes \subseteq Content \union {NoFile, Dir, Link}
    /\ MaxStamp \in Nat \ {0} /\ MaxEdits \in Nat /\ MaxFaults \in Nat
    /\ {VaultIntact, CrossDevice, FreshSecond, Crashes} \subseteq BOOLEAN

Below(p) == {q \in Path : p \in Above[q]}

VARIABLES
    live,       \* the tree under the target
    outside,    \* the tree the links lead to
    vault,      \* manifest rows and blobs
    quarantine, \* state/quarantine/<stamp>/
    now, stamp, \* the clock; the second the running prune started in
    job,        \* the running command
    todo,       \* entries it has still to look at
    seen,       \* verify: ctx->seen
    damage,     \* verify: missing, corrupted or extra was counted
    errors,     \* an error, or an unrecoverable file, was counted
    step, cur,  \* inside a copy or an unlink, and of which path
    sink,       \* the file the copy writes: the one at cur, outside, or none
    last,       \* the last command that returned, and its exit code
    edits, faults,
    touched,    \* history: paths the user changed since the command began, or
                \* that a readdir which failed kept from its walk
    taken,      \* history: what prune moved out of the tree
    late        \* history: paths changed between prune's copy and its unlink

tree    == <<live, outside, vault, quarantine>>
clock   == <<now, stamp>>
copying == <<step, cur, sink>>
history == <<touched, taken, late>>
vars    == <<tree, clock, job, todo, seen, damage, errors, copying, last,
             edits, faults, history>>

NoResult == [cmd |-> "none", rc |-> 0]

Rows    == vault.rows
Blob(p) == vault.objects[Rows[p]]

(* What is at p is what the vault says should be there. *)
Matches(p) == IF p \in Listed(vault) THEN live[p] \in Bytes /\ Hash[live[p]] = Rows[p]
                                     ELSE live[p] \notin Bytes
Clean == \A p \in Path : Matches(p)

TypeOK ==
    /\ live \in [Path -> Node]
    /\ outside \in [Path -> Bytes \union {NoFile, Dir}]
    /\ IsTree(live)
    /\ vault.rows \in [Path -> HashId \union {NoRow}]
    /\ vault.objects \in [HashId -> Bytes \union {NoFile}]
    /\ quarantine \in [Stamp -> [Path -> Bytes \union {NoFile, Dir}]]
    /\ now \in Stamp /\ stamp \in Stamp
    /\ job \in Commands \union {"none"}
    /\ todo \subseteq Path /\ seen \subseteq Path
    /\ damage \in BOOLEAN /\ errors \in BOOLEAN
    /\ sink \in {"none", "live", "outside"}
    /\ step \in {"visit", "copy", "unlink"}
    /\ step = "copy" => job = "restore" /\ cur \in Listed(vault)
    /\ step = "unlink" => job = "prune" /\ cur \in Path
    /\ last \in [cmd : Commands \union {"none"}, rc : 0 .. 2]
    /\ edits \in 0 .. MaxEdits /\ faults \in 0 .. MaxFaults
    /\ touched \subseteq Path
    /\ taken \subseteq Path \X Bytes /\ late \subseteq Path

(* The vault a seal of tree t leaves: a row and a blob for each file. *)
SealOf(t) ==
    LET filed == {p \in Path \ Skipped : t[p] \in Bytes} IN
    [rows    |-> [p \in Path |-> IF p \in filed THEN Hash[t[p]] ELSE NoRow],
     objects |-> [h \in HashId |->
                    IF \E p \in filed : Hash[t[p]] = h
                    THEN CHOOSE b \in Bytes : Hash[b] = h /\ \E p \in filed : t[p] = b
                    ELSE NoFile]]

Init ==
    /\ live \in [Path -> Content \union {NoFile, Dir}]
    /\ IsTree(live) /\ \A p \in Path : live[p] = Dir => Below(p) # {}
    /\ outside \in Outsides
    /\ LET sealed == SealOf(live) IN
       \/ vault = sealed
       \/ /\ ~VaultIntact
          /\ \E p \in Listed(sealed), b \in {Torn, NoFile} :
               vault = [sealed EXCEPT !.objects[sealed.rows[p]] = b]
    /\ quarantine = [s \in Stamp |-> [p \in Path |-> NoFile]]
    /\ now = 1 /\ stamp = 1
    /\ job = "none" /\ todo = {} /\ seen = {} /\ damage = FALSE /\ errors = FALSE
    /\ step = "visit" /\ cur = NoPath /\ sink = "none"
    /\ last = NoResult
    /\ edits = 0 /\ faults = 0 /\ touched = {} /\ taken = {}
    /\ late = {}

-----------------------------------------------------------------------------
(* The user, the clock, and the faults. *)

(* A user replaces whatever is at p, and all below it, by n.  A file that is *)
(* written over stays the same file; otherwise an open one is detached.      *)
UserPut(p, n) ==
    /\ edits < MaxEdits /\ edits' = edits + 1
    /\ n # live[p] /\ \A q \in Above[p] : live[q] = Dir
    /\ live' = [q \in Path |-> IF q = p THEN n ELSE IF q \in Below(p) THEN NoFile ELSE live[q]]
    /\ touched' = touched \union {p} \union Below(p)
    /\ sink' = IF /\ sink = "live" /\ cur \in {p} \union Below(p)
                  /\ ~(cur = p /\ n \in Bytes /\ live[p] \in Bytes)
               THEN "none" ELSE sink
    /\ late' = IF step = "unlink" /\ cur \in {p} \union Below(p)
               THEN late \union {cur} ELSE late
    /\ UNCHANGED <<outside, vault, quarantine, clock, job, todo, seen, damage,
                   errors, step, cur, last, faults, taken>>

Tick ==
    /\ now < MaxStamp /\ now' = now + 1
    /\ UNCHANGED <<tree, stamp, job, todo, seen, damage, errors, copying, last,
                   edits, faults, history>>

Fault   == faults < MaxFaults /\ faults' = faults + 1
NoFault == UNCHANGED faults

-----------------------------------------------------------------------------
(* What the three commands share. *)

(* A command starts: target resolved, manifest loaded, counters at zero. *)
Begin(cmd) ==
    /\ job = "none" /\ job' = cmd
    /\ todo' = IF cmd = "restore" THEN Listed(vault) ELSE Path
    /\ seen' = {} /\ damage' = FALSE /\ errors' = FALSE
    /\ cmd = "prune" /\ FreshSecond =>
         \A p \in Path : quarantine[now][p] = NoFile
    /\ stamp' = now
    /\ touched' = {} /\ last' = NoResult
    /\ UNCHANGED <<tree, now, copying, edits, faults, taken,
                   late>>

(* The target or the manifest cannot be read: exit code 1, nothing done. *)
LoadFails(cmd) ==
    /\ job = "none" /\ Fault
    /\ last' = [cmd |-> cmd, rc |-> 1] /\ touched' = {}
    /\ UNCHANGED <<tree, clock, job, todo, seen, damage, errors, copying, edits,
                   taken, late>>

(* The context of a command is on its stack. *)
Forget ==
    /\ todo' = {} /\ seen' = {} /\ damage' = FALSE /\ errors' = FALSE
    /\ step' = "visit" /\ cur' = NoPath /\ sink' = "none"

Return(rc) ==
    /\ job' = "none" /\ last' = [cmd |-> job, rc |-> rc]
    /\ Forget
    /\ UNCHANGED <<tree, clock, edits, faults, history>>

(* The entries the walk may come to next, and those it is then done with:   *)
(* only a directory has entries below it.  Links are never followed.        *)
AtEntry(cmd, p) == job = cmd /\ step = "visit" /\ p \in todo /\ Above[p] \intersect todo = {}
Passed(p) == IF live[p] = Dir THEN {p} ELSE {p} \union Below(p)

AtPrune(p) == AtEntry("prune", p) \/ AtEntry("delete", p)

(* lstat, opendir or the digest fails in a walk of the tree: an error is    *)
(* counted and what hangs there is not seen.                                *)
WalkFails(p) ==
    /\ AtEntry("verify", p) \/ AtPrune(p)
    /\ Fault \/ (NoFault /\ live[p] = NoFile /\ p \in touched)
    /\ todo' = todo \ ({p} \union Below(p)) /\ errors' = TRUE
    /\ UNCHANGED <<tree, clock, job, seen, damage, copying, last, edits, history>>

(* The target itself cannot be opened: the walk is over. *)
RootFails ==
    /\ job \in Commands \ {"restore"} /\ todo = Path /\ step = "visit" /\ Fault
    /\ todo' = {} /\ errors' = TRUE
    /\ UNCHANGED <<tree, clock, job, seen, damage, copying, last, edits, history>>

(* readdir need not return an entry that came or went during the walk, and  *)
(* an error of it is taken for the end: an entry is left out, and not       *)
(* counted.                                                                 *)
WalkMisses(p) ==
    /\ AtEntry("verify", p) \/ AtPrune(p)
    /\ (NoFault /\ p \in touched) \/ Fault
    /\ todo' = todo \ ({p} \union Below(p))
    /\ touched' = touched \union {p} \union Below(p)
    /\ UNCHANGED <<tree, clock, job, seen, damage, errors, copying, last, edits,
                   taken, late>>

(* The command is killed, wherever it is. *)
Crash ==
    /\ Crashes /\ job # "none"
    /\ job' = "none" /\ Forget
    /\ UNCHANGED <<tree, clock, last, edits, faults, history>>

-----------------------------------------------------------------------------
(* verify *)

(* walk_live: a regular file is seen, and compared with its row; a link or  *)
(* a device is not even seen.                                               *)
VerifyVisit(p) ==
    /\ AtEntry("verify", p)
    /\ seen' = IF live[p] \in Bytes THEN seen \union {p} ELSE seen
    /\ damage' = (damage \/ (live[p] \in Bytes /\ ~Matches(p)))
    /\ todo' = todo \ Passed(p)
    /\ UNCHANGED <<tree, clock, job, errors, copying, last, edits, faults, history>>

(* Defect: files of the vault that the walk has not seen are not counted. *)
VerifyEndUnseen ==
    /\ job = "verify" /\ todo = {}
    /\ Return(IF damage \/ errors THEN 2 ELSE 0)

VerifyEnd ==
    /\ job = "verify" /\ todo = {}
    /\ Return(IF damage \/ errors \/ ~(Listed(vault) \subseteq seen) THEN 2 ELSE 0)

-----------------------------------------------------------------------------
(* restore *)

(* stat and fopen follow a link, at the path itself and on the way to it. *)
Far(p)    == \E q \in Above[p] \union {p} : live[q] = Link
View(p)   == IF Far(p) THEN outside[p] ELSE live[p]
Stands(p) == View(p) \in Bytes /\ Hash[View(p)] = Rows[p]

(* ivault_mkdir_parent_for_file makes the missing directories and takes     *)
(* whatever is there already for one: behind a link to a directory the copy *)
(* goes on outside.  A file in the place of a directory, a link that leads  *)
(* nowhere, or a directory at p stop the copy at its fopen.                 *)
Reachable(p) ==
    /\ View(p) # Dir
    /\ \A q \in Above[p] : View(q) = Dir \/ (View(q) = NoFile /\ live[q] # Link)
    /\ live[p] = Link => \A q \in Above[p] : outside[q] = Dir

(* Defect: ivault_mkdir_parent_for_file is not called. *)
WithoutParents(t, p) == t

WithParents(t, p) == [q \in Path |-> IF q \in Above[p] THEN Dir ELSE t[q]]

RestoreAt(p) == job = "restore" /\ step = "visit" /\ p \in todo

RestoreSkip(p) ==
    /\ RestoreAt(p) /\ Blob(p) # NoFile /\ Stands(p)
    /\ todo' = todo \ {p}
    /\ UNCHANGED <<tree, clock, job, seen, damage, errors, copying, last, edits,
                   faults, history>>

(* No blob, no way to the live path, or a failing call before the live file *)
(* is opened: an error is counted.                                          *)
RestoreFails(p) ==
    /\ RestoreAt(p)
    /\ \/ NoFault /\ Blob(p) = NoFile /\ UNCHANGED <<live, outside>>
       \/ /\ NoFault /\ Blob(p) # NoFile /\ ~Stands(p) /\ ~Reachable(p)
          /\ UNCHANGED <<live, outside>>
       \/ /\ Fault /\ Blob(p) # NoFile /\ Reachable(p)
          /\ IF Far(p) THEN outside' \in {outside, WithParents(outside, p)} /\ UNCHANGED live
                       ELSE live' \in {live, WithParents(live, p)} /\ UNCHANGED outside
    /\ todo' = todo \ {p} /\ errors' = TRUE
    /\ UNCHANGED <<vault, quarantine, clock, job, seen, damage, copying,
                   last, edits, history>>

(* fopen "wb" empties the live file, or the one outside that links lead to. *)
(* A digest that cannot be computed counts as a corrupted file.             *)
RestoreOpen(p) ==
    /\ RestoreAt(p) /\ Blob(p) # NoFile /\ Reachable(p)
    /\ (NoFault /\ ~Stands(p)) \/ (Fault /\ Stands(p))
    /\ IF Far(p)
       THEN /\ outside' = [WithParents(outside, p) EXCEPT ![p] = Torn]
            /\ sink' = "outside" /\ UNCHANGED live
       ELSE /\ live' = [WithParents(live, p) EXCEPT ![p] = Torn]
            /\ sink' = "live" /\ UNCHANGED outside
    /\ step' = "copy" /\ cur' = p
    /\ todo' = todo \ {p}
    /\ UNCHANGED <<vault, quarantine, clock, job, seen, damage, errors, last,
                   edits, history>>

(* The blob is copied as it is: its digest is not computed. *)
RestoreWrite ==
    /\ step = "copy" /\ job = "restore"
    /\ live' = IF sink = "live" THEN [live EXCEPT ![cur] = Blob(cur)] ELSE live
    /\ outside' = IF sink = "outside" THEN [outside EXCEPT ![cur] = Blob(cur)] ELSE outside
    /\ step' = "visit" /\ cur' = NoPath /\ sink' = "none"
    /\ UNCHANGED <<vault, quarantine, clock, job, todo, seen, damage, errors,
                   last, edits, faults, history>>

(* Defect: the result of ivault_copy_file is ignored. *)
RestoreWriteFailsUnchecked ==
    /\ step = "copy" /\ job = "restore" /\ Fault
    /\ step' = "visit" /\ cur' = NoPath /\ sink' = "none"
    /\ UNCHANGED <<tree, clock, job, todo, seen, damage, errors, last, edits, history>>

RestoreWriteFails ==
    /\ step = "copy" /\ job = "restore" /\ Fault
    /\ errors' = TRUE
    /\ step' = "visit" /\ cur' = NoPath /\ sink' = "none"
    /\ UNCHANGED <<tree, clock, job, todo, seen, damage, last, edits, history>>

RestoreEnd ==
    /\ job = "restore" /\ step = "visit" /\ todo = {}
    /\ Return(IF errors THEN 1 ELSE 0)

-----------------------------------------------------------------------------
(* prune *)

Extra(p) == live[p] \in Bytes /\ p \notin Listed(vault)

PruneKeep(p) ==
    /\ AtPrune(p) /\ ~Extra(p)
    /\ todo' = todo \ Passed(p)
    /\ UNCHANGED <<tree, clock, job, seen, damage, errors, copying, last, edits,
                   faults, history>>

PruneDelete(p) ==
    /\ AtEntry("delete", p) /\ Extra(p)
    /\ live' = [live EXCEPT ![p] = NoFile]
    /\ todo' = todo \ Passed(p)
    /\ UNCHANGED <<outside, vault, quarantine, clock, job, seen, damage, errors,
                   copying, last, edits, faults, history>>

(* state/quarantine/<stamp>/p can be written: mkdir_p took every parent, and *)
(* p is not a directory there.                                              *)
Placeable(p) == /\ quarantine[stamp][p] # Dir
                /\ \A q \in Above[p] : quarantine[stamp][q] \in {NoFile, Dir}
Placed(p, b) ==
    [quarantine EXCEPT ![stamp] =
        [q \in Path |-> IF q = p THEN b ELSE IF q \in Above[p] THEN Dir ELSE @[q]]]

PruneRename(p) ==
    /\ AtEntry("prune", p) /\ Extra(p) /\ ~CrossDevice /\ Placeable(p)
    /\ quarantine' = Placed(p, live[p])
    /\ live' = [live EXCEPT ![p] = NoFile]
    /\ taken' = taken \union {<<p, live[p]>>}
    /\ todo' = todo \ Passed(p)
    /\ UNCHANGED <<outside, vault, clock, job, seen, damage, errors, copying,
                   last, edits, faults, touched, late>>

(* rename fails: ivault_copy_file, then unlink. *)
PruneCopy(p) ==
    /\ AtEntry("prune", p) /\ Extra(p) /\ Placeable(p)
    /\ (CrossDevice /\ NoFault) \/ (~CrossDevice /\ Fault)
    /\ quarantine' = Placed(p, live[p])
    /\ step' = "unlink" /\ cur' = p
    /\ todo' = todo \ Passed(p)
    /\ UNCHANGED <<live, outside, vault, clock, job, seen, damage, errors,
                   sink, last, edits, history>>

(* unlink takes what is there now: the file, or a link put there meanwhile; *)
(* and behind a link put above it, a file outside.                          *)
PruneUnlink ==
    /\ step = "unlink" /\ job = "prune"
    /\ \/ /\ live[cur] \in Bytes
          /\ taken' = taken \union {<<cur, live[cur]>>}
          /\ live' = [live EXCEPT ![cur] = NoFile] /\ UNCHANGED outside
       \/ /\ live[cur] = Link
          /\ live' = [live EXCEPT ![cur] = NoFile] /\ UNCHANGED <<outside, taken>>
       \/ /\ live[cur] = NoFile /\ View(cur) \in Bytes
          /\ outside' = [outside EXCEPT ![cur] = NoFile] /\ UNCHANGED <<live, taken>>
    /\ step' = "visit" /\ cur' = NoPath
    /\ UNCHANGED <<vault, quarantine, clock, job, todo, seen, damage, errors,
                   sink, last, edits, faults, touched, late>>

(* A directory, nothing, or a failing call. *)
PruneUnlinkFails ==
    /\ step = "unlink" /\ job = "prune"
    /\ \/ NoFault /\ live[cur] # Link /\ View(cur) \in {NoFile, Dir}
       \/ Fault
    /\ errors' = TRUE
    /\ step' = "visit" /\ cur' = NoPath
    /\ UNCHANGED <<tree, clock, job, todo, seen, damage, sink, last, edits, history>>

(* Defect: a file that could not be moved is not counted. *)
PruneFailsQuietly(p) ==
    /\ AtPrune(p) /\ Extra(p) /\ Fault
    /\ todo' = todo \ Passed(p)
    /\ UNCHANGED <<tree, clock, job, seen, damage, errors, copying, last, edits,
                   history>>

(* Defect: the file is unlinked after a copy that failed. *)
PruneFailsUnlinks(p) ==
    /\ AtEntry("prune", p) /\ Extra(p) /\ Fault /\ Placeable(p)
    /\ quarantine' = Placed(p, Torn)
    /\ live' = [live EXCEPT ![p] = NoFile]
    /\ taken' = taken \union {<<p, live[p]>>}
    /\ todo' = todo \ Passed(p) /\ errors' = TRUE
    /\ UNCHANGED <<outside, vault, clock, job, seen, damage, copying, last, edits,
                   touched, late>>

(* The quarantine has no place for p, or unlink, rename and copy failed: the *)
(* file stays, and the copy may have been cut short.                         *)
PruneFails(p) ==
    /\ AtPrune(p) /\ Extra(p)
    /\ \/ NoFault /\ job = "prune" /\ ~Placeable(p) /\ UNCHANGED quarantine
       \/ Fault /\ UNCHANGED quarantine
       \/ Fault /\ job = "prune" /\ Placeable(p) /\ quarantine' = Placed(p, Torn)
    /\ todo' = todo \ Passed(p) /\ errors' = TRUE
    /\ UNCHANGED <<live, outside, vault, clock, job, seen, damage, copying, last,
                   edits, history>>

PruneEnd ==
    /\ job \in {"prune", "delete"} /\ step = "visit" /\ todo = {}
    /\ Return(IF errors THEN 2 ELSE 0)

-----------------------------------------------------------------------------
User == \E p \in Path, n \in UserNodes : UserPut(p, n)

Working ==
    \/ \E p \in Path : WalkFails(p) \/ WalkMisses(p)
    \/ \E p \in Path : VerifyVisit(p)
    \/ RootFails \/ VerifyEnd
    \/ \E p \in Path : RestoreSkip(p) \/ RestoreFails(p) \/ RestoreOpen(p)
    \/ RestoreWrite \/ RestoreWriteFails \/ RestoreEnd
    \/ \E p \in Path : \/ PruneKeep(p) \/ PruneDelete(p) \/ PruneRename(p)
                       \/ PruneCopy(p) \/ PruneFails(p)
    \/ PruneUnlink \/ PruneUnlinkFails \/ PruneEnd

Next ==
    \/ User \/ Tick
    \/ \E cmd \in Commands : Begin(cmd) \/ LoadFails(cmd)
    \/ Working
    \/ Crash

Spec == Init /\ [][Next]_vars

-----------------------------------------------------------------------------
(* Exit code 0 of verify means that every path the user has left alone since *)
(* verify began is what the vault says, wherever the walk was when the       *)
(* others changed, unless a readdir failed, which nobody checks, and kept it *)
(* from the walk; and without faults and edits, 2 means real damage          *)
(* (ivault_verify_path).                                                     *)
VerifyTruth ==
    last.cmd = "verify" =>
        /\ last.rc = 0 => \A p \in Path \ touched : Matches(p)
        /\ last.rc = 2 /\ faults = 0 /\ touched = {} => ~Clean

(* What restore can bring back at p: the sealed bytes, or else the blob as it *)
(* is, since the copy is not compared with its row.                          *)
Restored(p) == live[p] \in Bytes /\ (Hash[live[p]] = Rows[p] \/ live[p] = Blob(p))

(* "RESTORE COMPLETE" means that every file of the vault the user has left   *)
(* alone since restore began holds the sealed bytes again, or a copy of a    *)
(* blob that was damaged since the seal, also after earlier restores were    *)
(* killed half way through a file (restore_entry).  A path at or above which *)
(* a user put a link is excepted: restore follows the link, and what it      *)
(* compares and writes is outside the tree.                                  *)
RestoreTruth ==
    last = [cmd |-> "restore", rc |-> 0] =>
        \A p \in Listed(vault) \ touched : Far(p) \/ Restored(p)

(* "PRUNE COMPLETE" means that no file the vault does not list is left       *)
(* where the user has put none since prune began, with --delete or without,  *)
(* but for what such a readdir kept from its walk (walk_prune).              *)
PruneTruth ==
    last.cmd \in {"prune", "delete"} /\ last.rc = 0 =>
        \A p \in Path \ (Listed(vault) \union touched) : Matches(p)

(* What a prune without --delete takes out of the tree is in the quarantine, *)
(* under its own path and in the bytes it had, and later prunes leave it     *)
(* there (quarantine_file).  The exception is a file the user saves after    *)
(* it was copied and before it is unlinked, which is lost.                   *)
QuarantineKeeps ==
    \A file \in taken : file[1] \notin late => \E s \in Stamp : quarantine[s][file[1]] = file[2]

(* A statement the code does not keep (run HealTransient).                  *)
(* VIABILITY_PLAN.md: "seal -> verify clean".  While nobody edits the tree   *)
(* and nothing fails, verify answers 0 for the vault just sealed.            *)
SealVerifiesClean ==
    last.cmd = "verify" /\ edits = 0 /\ faults = 0 => last.rc = 0

-----------------------------------------------------------------------------
(* Inductive strengthenings: what a command knows half way. *)

(* A running command has not answered yet, and restore walks the rows; an    *)
(* open live file is a file; what hangs below a path the user changed counts *)
(* as changed.                                                               *)
TreeInv ==
    /\ job # "none" => last = NoResult
    /\ job = "restore" => todo \subseteq Listed(vault)
    /\ sink = "live" => step = "copy" /\ live[cur] \in Bytes
    /\ \A p \in touched : Below(p) \subseteq touched

(* Each path the walk is done with has been compared or was changed, and    *)
(* damage was seen where there is some.                                     *)
VerifyInv ==
    /\ job = "verify" =>
         /\ ~damage /\ ~errors =>
              \A p \in Path \ (touched \union todo) : live[p] \in Bytes => Matches(p)
         /\ \A p \in seen \ touched : live[p] \in Bytes
         /\ touched = {} =>
              /\ damage => ~Clean
              /\ faults = 0 =>
                   /\ ~errors
                   /\ \A p \in Path \ todo : live[p] \in Bytes => p \in seen
    /\ VerifyTruth

(* Each row done with is back, but for those behind links and for the one    *)
(* being copied, which has a blob and whose live file, where no link leads   *)
(* away, is the open one.                                                    *)
RestoreInv ==
    /\ step = "copy" => Blob(cur) # NoFile
    /\ step = "copy" /\ cur \notin touched => sink = "live" \/ Far(cur)
    /\ job = "restore" /\ ~errors =>
         \A p \in Listed(vault) \ (touched \union todo) :
             Far(p) \/ Restored(p) \/ (step = "copy" /\ p = cur)
    /\ RestoreTruth

(* No unlisted file is left behind the walk, but for the one copied across  *)
(* devices and not unlinked yet.                                            *)
PruneInv ==
    /\ job \in {"prune", "delete"} /\ ~errors =>
         \A p \in Path \ (Listed(vault) \union touched \union todo) :
             live[p] \notin Bytes \/ (step = "unlink" /\ p = cur)
    /\ PruneTruth

(* A prune comes to no place in its quarantine twice, and what it is about  *)
(* to unlink is there already.                                              *)
QuarantineInv ==
    /\ job = "prune" => \A p \in todo : quarantine[stamp][p] \notin Bytes
    /\ step = "unlink" /\ cur \notin late => quarantine[stamp][cur] = live[cur]
    /\ QuarantineKeeps

=============================================================================
