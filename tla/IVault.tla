------------------------------- MODULE IVault --------------------------------
(***************************************************************************)
(* The ivault commands as they share one working directory: several        *)
(* processes seal, verify, restore, prune, watch, diff, list and recover   *)
(* at the same time over one target, the vaults below vaults/ and the      *)
(* ledger state/ledger.tsv.  Each command runs in steps (load, one path    *)
(* after the other, append its row) that others come between; a process    *)
(* may be killed after any of them.                                        *)
(*                                                                         *)
(* Modules Seal and Heal look inside one seal, verify, restore and prune;  *)
(* here the target holds plain files, what prune takes just goes (where to *)
(* is module Heal's question), a blob is copied in one step, after the     *)
(* step that takes its digest, and a vault is named by the rank of its     *)
(* time stamp: no two seals take the same.                                 *)
(***************************************************************************)
EXTENDS VaultDiff, Sequences

CONSTANTS
    Proc,       \* processes
    NoPath,
    NoVault,    \* no manifest.tsv in this vault
    NotTold,    \* the seal of this vault has not reported SEALED
    AutoFlags,  \* what watch was asked for: --auto-restore, --auto-prune
    MaxVault, MaxCommands, MaxTroubles   \* bounds; a trouble is a user
                \* edit or a failing call

Vault     == 1 .. MaxVault
Verifying == {"verify", "post"}     \* post: the second verify of a watch cycle
Walking   == Verifying \union {"restore", "prune"}
Commands  == Walking \union {"none", "seal", "inspect", "recover", "diff", "latest",
                             "timeline", "start", "end"}   \* start, end: of watch

LiveFile == Bytes \union {NoFile}
VaultDir == [rows : RowTable, bad : BOOLEAN, blobs : [HashId -> LiveFile]]
Report   == [live : [Path -> LiveFile], quiet : SUBSET Path]

ASSUME IVaultAssumption ==
    /\ NoPath \notin Path /\ NoVault \notin VaultDir /\ NotTold \notin Report
    /\ AutoFlags \subseteq {"restore", "prune"}
    /\ MaxVault \in Nat \ {0} /\ {MaxCommands, MaxTroubles} \subseteq Nat

VARIABLES
    live,       \* the files under the target
    vaults,     \* vaults/<stamp>/: what manifest.tsv shows, and the blobs
    stamps,     \* time stamps taken by seals so far
    ledger,     \* state/ledger.tsv: event and status of each row
    run,        \* what each process is doing
    spent,      \* commands, edits and faults so far
    told,       \* history: for vaults reported SEALED, by a seal of which no
                \* call failed unseen, the tree they are of
    acts        \* history: the commands behind the rows, and whether they
                \* did what they were asked for

disk == <<live, vaults, stamps, ledger>>
vars == <<disk, run, spent, told, acts>>

(* One process: its command and vaults, the step it is at, the manifests it *)
(* loaded or writes (bad: with a line no loader takes), what it has still   *)
(* to visit, the vaults it lists, the file it copies and the size and, once *)
(* it is read, the digest a seal found; the status it will report; and, as  *)
(* history, whether a call of a seal failed unseen, the tree it began with, *)
(* the paths others changed since, and the vaults that were reported before *)
(* it began.                                                                *)
Idle == [cmd |-> "none", watch |-> FALSE, errs |-> FALSE, v |-> 0, w |-> 0,
         at |-> "idle", rows |-> NoRows, bad |-> FALSE, todo |-> {}, found |-> {},
         from |-> NoPath, cur |-> NoPath, size |-> NoRow, hash |-> NoRow, shared |-> FALSE,
         lost |-> FALSE, status |-> "-", before |-> [p \in Path |-> NoFile], touched |-> {},
         known |-> {}]

Good == [none |-> "-", seal |-> "SEALED", verify |-> "CLEAN", post |-> "CLEAN",
         restore |-> "RESTORE_COMPLETE", prune |-> "PRUNE_COMPLETE",
         inspect |-> "INSPECTED", recover |-> "RECOVERED", diff |-> "NO_DIFFERENCE",
         latest |-> "FOUND", timeline |-> "PRINTED", start |-> "STARTED",
         end |-> "WATCH_COMPLETE"]

Bad(cmd) == CASE cmd \in Verifying -> "DAMAGE"
              [] cmd = "diff"      -> "DIFFERENCE_DETECTED"
              [] cmd = "end"       -> "WATCH_ERRORS"
              [] OTHER             -> "ERROR"

NewVault == [rows |-> NoRows, bad |-> FALSE, blobs |-> [h \in HashId |-> NoFile]]

Statuses == {Good[cmd] : cmd \in Commands} \union {Bad(cmd) : cmd \in Commands}
              \union {"MISSING", "UNRECOVERABLE"}     \* of recover-file only

Events == {"SEAL", "VERIFY", "RESTORE", "PRUNE", "INSPECT", "RECOVER_FILE", "DIFF",
           "LATEST", "TIMELINE", "WATCH_START", "WATCH_VERIFY", "WATCH_RESTORE",
           "WATCH_PRUNE", "WATCH_POST_VERIFY", "WATCH_END"}

Places == {"idle", "open", "walk", "store", "load", "load2", "list", "open out", "copy",
           "append"}

Process == [cmd : Commands, watch : BOOLEAN, errs : BOOLEAN,
            v : 0 .. MaxVault, w : 0 .. MaxVault, at : Places,
            rows : RowTable, bad : BOOLEAN, todo : SUBSET Path, found : SUBSET Vault,
            from : Path \union {NoPath}, cur : Path \union {NoPath},
            size : SizeId \union {NoRow}, hash : HashId \union {NoRow},
            shared : BOOLEAN, lost : BOOLEAN, status : Statuses,
            before : [Path -> LiveFile], touched : SUBSET Path, known : SUBSET Vault]

TypeOK ==
    /\ live \in [Path -> LiveFile]
    /\ vaults \in [Vault -> VaultDir \union {NoVault}] /\ stamps \in 0 .. MaxVault
    /\ told \in [Vault -> Report \union {NotTold}]
    /\ \A v \in Vault : told[v] # NotTold => vaults[v] # NoVault
    /\ ledger \in Seq([event : Events, status : Statuses])
    /\ acts \in Seq([cmd : Commands, watch : BOOLEAN, good : BOOLEAN, lost : BOOLEAN])
    /\ Len(ledger) = Len(acts)
    /\ spent \in [commands : Nat, edits : Nat, faults : Nat]
    /\ run \in [Proc -> Process]
    /\ \A r \in Proc :
         /\ run[r].cmd = "none" <=> run[r] = Idle
         /\ run[r].at = "store" => run[r].cmd = "seal" /\ run[r].size \in SizeId
         /\ run[r].at \in {"store", "copy"} => run[r].cur \in Path
         /\ run[r].at = "copy" => run[r].from \in Filed(run[r].rows)
         /\ run[r].cmd = "seal" /\ run[r].at # "open" => vaults[run[r].v] # NoVault

(* What a seal of tree t leaves when nobody comes between. *)
SealOf(t) ==
    [rows  |-> [p \in Path |-> IF p \in Skipped \/ t[p] = NoFile THEN NoRow
                               ELSE [hash |-> Hash[t[p]], size |-> SizeOf[t[p]]]],
     bad   |-> FALSE,
     blobs |-> [h \in HashId |-> IF \E p \in Path \ Skipped : t[p] # NoFile /\ Hash[t[p]] = h
                                 THEN CHOOSE b \in Content : Hash[b] = h ELSE NoFile]]

(* A target, and the vault an earlier seal made of it. *)
Init ==
    /\ live \in [Path -> Content \union {NoFile}]
    /\ vaults = [v \in Vault |-> IF v = 1 THEN SealOf(live) ELSE NoVault] /\ stamps = 1
    /\ told = [v \in Vault |-> IF v = 1 THEN [live |-> live, quiet |-> Path \ Skipped]
                               ELSE NotTold]
    /\ ledger = <<>> /\ acts = <<>>
    /\ run = [r \in Proc |-> Idle]
    /\ spent = [commands |-> 0, edits |-> 0, faults |-> 0]

-----------------------------------------------------------------------------
(* Every command at work on the tree but those of R sees p change under it. *)
Disturb(R, p) ==
    [s \in Proc |->
        IF s \in R \/ run[s].cmd \notin Walking \union {"seal", "recover"} THEN run[s]
        ELSE [run[s] EXCEPT !.touched = @ \union {p},
                            !.shared = @ \/ (run[s].at = "copy" /\ run[s].cur = p)]]

Spend(what) == spent' = [spent EXCEPT ![what] = @ + 1]
Trouble(what) == spent.edits + spent.faults < MaxTroubles /\ Spend(what)
Fault   == Trouble("faults")
NoFault == UNCHANGED spent

UserPut(p, b) ==
    /\ Trouble("edits")
    /\ live[p] # b /\ live' = [live EXCEPT ![p] = b]
    /\ run' = Disturb({}, p)
    /\ UNCHANGED <<vaults, stamps, ledger, told, acts>>

(* What a command keeps when it starts on vault v: all its counters are new. *)
New(cmd, v, at) ==
    [Idle EXCEPT !.cmd = cmd, !.v = v, !.at = at, !.status = Good[cmd],
                 !.before = IF cmd = "prune" THEN live ELSE @,
                 !.known = {u \in Vault : told[u] # NotTold}]

HasManifest == {v \in Vault : vaults[v] # NoVault}

(* Process r goes on as n. *)
Goes(r, n) == run' = [run EXCEPT ![r] = n]

Begin(r, n) ==
    /\ run[r] = Idle /\ spent.commands < MaxCommands /\ Spend("commands")
    /\ Goes(r, n)
    /\ UNCHANGED <<live, vaults, ledger, told, acts>>

(* The stamp is taken first, the vault made after it. *)
SealBegin(r) ==
    /\ stamps < MaxVault /\ stamps' = stamps + 1
    /\ Begin(r, New("seal", stamps + 1, "open"))

HealBegin(r, cmd, v) == Begin(r, New(cmd, v, "load")) /\ UNCHANGED stamps

DiffBegin(r, v, w) ==
    Begin(r, [New("diff", v, "load") EXCEPT !.w = w]) /\ UNCHANGED stamps

(* The output is a path of the target, where others may come across it. *)
RecoverBegin(r, v, p, q) ==
    Begin(r, [New("recover", v, "load") EXCEPT !.from = p, !.cur = q]) /\ UNCHANGED stamps

ListBegin(r, cmd) ==
    Begin(r, [New(cmd, 0, "list") EXCEPT !.found = HasManifest]) /\ UNCHANGED stamps

WatchBegin(r, v) ==
    Begin(r, [New("start", v, "append") EXCEPT !.watch = TRUE]) /\ UNCHANGED stamps

(* The process is killed: rows in its stdio buffer are gone, a file it was  *)
(* writing stays cut short.                                                 *)
Kill(r) ==
    /\ run[r] # Idle
    /\ Goes(r, Idle)
    /\ UNCHANGED <<disk, spent, told, acts>>

-----------------------------------------------------------------------------
(* seal *)

(* Defect: the manifest is made only once there is a row for it. *)
SealOpenNoManifest(r) ==
    /\ run[r].at = "open"
    /\ Goes(r, [run[r] EXCEPT !.at = "walk", !.todo = Path \ Skipped, !.before = live,
                              !.touched = {}])
    /\ UNCHANGED <<disk, spent, told, acts>>

SealOpen(r) ==
    /\ run[r].at = "open"
    /\ vaults' = [vaults EXCEPT ![run[r].v] = NewVault]
    /\ Goes(r, [run[r] EXCEPT !.at = "walk", !.todo = Path \ Skipped, !.before = live,
                              !.touched = {}])
    /\ UNCHANGED <<live, stamps, ledger, spent, told, acts>>

AtEntry(r, cmd, p) == run[r].cmd = cmd /\ run[r].at = "walk" /\ p \in run[r].todo

(* The walk comes to an entry: lstat gives the size that goes into its row. *)
SealLook(r, p) ==
    /\ AtEntry(r, "seal", p)
    /\ \/ /\ live[p] = NoFile
          /\ Goes(r, [run[r] EXCEPT !.todo = @ \ {p}])
       \/ /\ live[p] \in Bytes
          /\ Goes(r, [run[r] EXCEPT !.todo = @ \ {p}, !.at = "store", !.cur = p,
                                    !.size = SizeOf[live[p]]])
    /\ UNCHANGED <<disk, spent, told, acts>>

(* The entry went after readdir returned it, or a call fails. *)
SealMiss(r, p) ==
    /\ AtEntry(r, "seal", p)
    /\ (NoFault /\ p \in run[r].touched /\ live[p] = NoFile) \/ Fault
    /\ Goes(r, [run[r] EXCEPT !.todo = @ \ {p}, !.status = "ERROR"])
    /\ UNCHANGED <<disk, told, acts>>

(* The files below a directory whose readdir fails: nobody looks at errno.  *)
SealReaddirFails(r) ==
    /\ run[r].cmd = "seal" /\ run[r].at = "walk" /\ Fault
    /\ \E S \in SUBSET run[r].todo \ {{}} :
         Goes(r, [run[r] EXCEPT !.todo = @ \ S, !.lost = TRUE])
    /\ UNCHANGED <<disk, told, acts>>

(* What manifest.tsv may show once the row of p is written: stdio flushes    *)
(* where its buffer ends.                                                   *)
Flushed(m, n, full, p) ==
    {m, [m EXCEPT !.rows = full, !.bad = n.bad], [m EXCEPT !.rows = n.rows, !.bad = TRUE],
     [m EXCEPT !.rows = [full EXCEPT ![p].hash = CutHash], !.bad = n.bad]}

(* And once a flush failed, which no fprintf is asked about: rows are gone,  *)
(* and of one that was cut and the next the loader makes one row of any     *)
(* path, without a whole digest, or none.                                   *)
AfterFailure(m, full) ==
    [rows  : {t \in RowTable : \A p \in Path :
                t[p] \in {m.rows[p], full[p]} \union [hash : {CutHash}, size : SizeId]},
     bad   : BOOLEAN,
     blobs : {m.blobs}]

(* seal_file reads the file for its digest, and again for the blob unless   *)
(* there is one of that digest; then it writes the row.                     *)
Stored(n) == [n EXCEPT !.at = "walk", !.cur = NoPath, !.size = NoRow, !.hash = NoRow]

SealHash(r) ==
    /\ run[r].at = "store" /\ run[r].hash = NoRow
    /\ LET b == live[run[r].cur] IN
       Goes(r, IF b = NoFile THEN [Stored(run[r]) EXCEPT !.status = "ERROR"]
               ELSE [run[r] EXCEPT !.hash = Hash[b]])
    /\ UNCHANGED <<disk, spent, told, acts>>

SealStore(r) ==
    /\ run[r].at = "store" /\ run[r].hash # NoRow
    /\ LET v == run[r].v  p == run[r].cur  h == run[r].hash
           full == [run[r].rows EXCEPT ![p] = [hash |-> h, size |-> run[r].size]]
           m == [vaults[v] EXCEPT !.blobs[h] = IF @ = NoFile THEN live[p] ELSE @]
           next == Stored(run[r])
       IN  \/ /\ m.blobs[h] # NoFile /\ NoFault
              /\ \E n \in Flushed(m, run[r], full, p) : vaults' = [vaults EXCEPT ![v] = n]
              /\ Goes(r, [next EXCEPT !.rows = full])
           \/ /\ m.blobs[h] # NoFile /\ Fault
              /\ \E n \in AfterFailure(m, full) :
                   /\ vaults' = [vaults EXCEPT ![v] = n]
                   /\ Goes(r, [next EXCEPT !.rows = n.rows, !.bad = n.bad, !.lost = TRUE])
           \/ /\ m.blobs[h] = NoFile /\ NoFault
              /\ Goes(r, [next EXCEPT !.status = "ERROR"])
              /\ UNCHANGED vaults
    /\ UNCHANGED <<live, stamps, ledger, told, acts>>

Reported(r) == run[r].status = "SEALED" /\ ~run[r].lost
Told(r) == [live |-> run[r].before, quiet |-> Path \ (Skipped \union run[r].touched)]

(* Defect: SEALED is reported before the manifest is closed. *)
SealEndUnclosed(r) ==
    /\ run[r].cmd = "seal" /\ run[r].at = "walk" /\ run[r].todo = {}
    /\ told' = IF Reported(r) THEN [told EXCEPT ![run[r].v] = Told(r)] ELSE told
    /\ Goes(r, [run[r] EXCEPT !.at = "append", !.rows = NoRows, !.bad = FALSE, !.lost = FALSE])
    /\ UNCHANGED <<disk, spent, acts>>

SealEnd(r) ==
    /\ run[r].cmd = "seal" /\ run[r].at = "walk" /\ run[r].todo = {}
    /\ vaults' = [vaults EXCEPT ![run[r].v].rows = run[r].rows, ![run[r].v].bad = run[r].bad]
    /\ told' = IF Reported(r) THEN [told EXCEPT ![run[r].v] = Told(r)] ELSE told
    /\ Goes(r, [run[r] EXCEPT !.at = "append", !.rows = NoRows, !.bad = FALSE, !.lost = FALSE])
    /\ UNCHANGED <<live, stamps, ledger, spent, acts>>

-----------------------------------------------------------------------------
(* Loading the manifest, in every command that names a vault. *)

Loads(v) == vaults[v] # NoVault /\ ~vaults[v].bad

(* What a command goes on with once its manifest is loaded. *)
Loaded(r, m) ==
    LET n == [run[r] EXCEPT !.rows = m.rows] IN
    CASE n.cmd \in Walking ->
           [n EXCEPT !.at = "walk", !.todo = IF n.cmd = "restore" THEN Filed(m.rows) ELSE Path]
      [] n.cmd = "inspect" -> [run[r] EXCEPT !.at = "append"]
      [] n.cmd = "diff"    -> [n EXCEPT !.at = "load2"]
      [] n.cmd = "recover" ->
           IF m.rows[n.from] = NoRow
           THEN [run[r] EXCEPT !.at = "append", !.status = "MISSING"]
           ELSE IF m.blobs[m.rows[n.from].hash] = NoFile
           THEN [run[r] EXCEPT !.at = "append", !.status = "UNRECOVERABLE"]
           ELSE [n EXCEPT !.at = "open out"]

Load(r) ==
    /\ run[r].at = "load" /\ Loads(run[r].v)
    /\ Goes(r, Loaded(r, vaults[run[r].v]))
    /\ UNCHANGED <<disk, spent, told, acts>>

(* Defect: a manifest that does not load counts as one without rows. *)
LoadFailsEmpty(r) ==
    /\ run[r].at = "load"
    /\ (NoFault /\ ~Loads(run[r].v)) \/ Fault
    /\ Goes(r, Loaded(r, NewVault))
    /\ UNCHANGED <<disk, told, acts>>

(* No manifest, a line of it is rejected, or fopen fails.  Without a word   *)
(* in the ledger only for diff.                                             *)
LoadFails(r) ==
    /\ run[r].at = "load"
    /\ (NoFault /\ ~Loads(run[r].v)) \/ Fault
    /\ Goes(r, IF run[r].cmd = "diff" THEN Idle
               ELSE [run[r] EXCEPT !.at = "append", !.status = Bad(run[r].cmd)])
    /\ UNCHANGED <<disk, told, acts>>

DiffLoad2(r) ==
    /\ run[r].at = "load2"
    /\ IF Loads(run[r].w)
       THEN LET m == vaults[run[r].w].rows IN
            Goes(r, [run[r] EXCEPT !.rows = NoRows, !.at = "append",
                       !.status = IF NoDifference(run[r].rows, m) THEN @ ELSE Bad("diff")])
       ELSE Goes(r, Idle)
    /\ UNCHANGED <<disk, spent, told, acts>>

-----------------------------------------------------------------------------
(* The walks of verify and prune, and the entries of restore. *)

Matches(r, p) == IF run[r].rows[p] = NoRow THEN live[p] = NoFile
                 ELSE live[p] \in Bytes /\ Hash[live[p]] = run[r].rows[p].hash

(* Defect: only the files of the vault are looked at. *)
VerifyVisitListed(r, p) ==
    /\ \E cmd \in Verifying : AtEntry(r, cmd, p)
    /\ Goes(r, [run[r] EXCEPT !.todo = @ \ {p},
                  !.status = IF Matches(r, p) \/ run[r].rows[p] = NoRow THEN @ ELSE "DAMAGE"])
    /\ UNCHANGED <<disk, spent, told, acts>>

VerifyVisit(r, p) ==
    /\ \E cmd \in Verifying : AtEntry(r, cmd, p)
    /\ Goes(r, [run[r] EXCEPT !.todo = @ \ {p},
                              !.status = IF Matches(r, p) THEN @ ELSE "DAMAGE"])
    /\ UNCHANGED <<disk, spent, told, acts>>

Write(r, p, b, next) ==
    /\ live' = [live EXCEPT ![p] = b]
    /\ run' = [Disturb({r}, p) EXCEPT ![r] = next]
    /\ UNCHANGED <<vaults, stamps, ledger, told, acts>>

PruneVisit(r, p) ==
    /\ AtEntry(r, "prune", p)
    /\ LET next == [run[r] EXCEPT !.todo = @ \ {p}] IN
       \/ /\ live[p] \in Bytes /\ run[r].rows[p] = NoRow /\ NoFault
          /\ Write(r, p, NoFile, next)
       \/ /\ live[p] = NoFile \/ run[r].rows[p] # NoRow
          /\ Goes(r, next)
          /\ UNCHANGED <<disk, spent, told, acts>>

(* readdir need not return an entry that came or went meanwhile; a call on  *)
(* it may fail.                                                             *)
WalkMisses(r, p) ==
    /\ \E cmd \in Verifying \union {"prune"} : AtEntry(r, cmd, p)
    /\ \/ /\ NoFault /\ p \in run[r].touched
          /\ Goes(r, [run[r] EXCEPT !.todo = @ \ {p},
                        !.status = IF run[r].cmd = "prune" \/ run[r].rows[p] = NoRow
                                   THEN @ ELSE "DAMAGE"])
       \/ Fault /\ Goes(r, [run[r] EXCEPT !.todo = @ \ {p}, !.status = Bad(run[r].cmd)])
    /\ UNCHANGED <<disk, told, acts>>

Blob(r) == vaults[run[r].v].blobs[run[r].rows[run[r].from].hash]

RestoreVisit(r, p) ==
    /\ AtEntry(r, "restore", p) /\ NoFault
    /\ LET blob == vaults[run[r].v].blobs[run[r].rows[p].hash]
           next == [run[r] EXCEPT !.todo = @ \ {p}]
       IN  \/ /\ blob # NoFile /\ ~Matches(r, p)
              /\ Write(r, p, Torn, [next EXCEPT !.at = "copy", !.from = p, !.cur = p])
           \/ /\ blob = NoFile \/ Matches(r, p)
              /\ Goes(r, [next EXCEPT !.status = IF blob = NoFile THEN "ERROR" ELSE @])
              /\ UNCHANGED <<disk, told, acts>>

RecoverOpen(r) ==
    /\ run[r].at = "open out" /\ NoFault
    /\ Write(r, run[r].cur, Torn, [run[r] EXCEPT !.at = "copy"])

AfterCopy(r) ==
    IF run[r].cmd = "recover" THEN [run[r] EXCEPT !.at = "append", !.rows = NoRows]
    ELSE [run[r] EXCEPT !.at = "walk", !.from = NoPath, !.cur = NoPath, !.shared = FALSE]

(* The blob is written into the file that was opened.  Where somebody else  *)
(* has written or removed it meanwhile, either may win, or a mix.           *)
CopyWrite(r) ==
    /\ run[r].at = "copy" /\ NoFault
    /\ LET p == run[r].cur  was == live[run[r].cur] IN
       \E b \in IF ~run[r].shared THEN {Blob(r)}
                ELSE IF was = NoFile THEN {NoFile} ELSE {was, Blob(r), Torn} :
         Write(r, p, b, AfterCopy(r))

(* Defect: the result of ivault_copy_file is ignored. *)
CopyFailsUnchecked(r) ==
    /\ run[r].at = "copy" /\ Fault
    /\ Goes(r, AfterCopy(r))
    /\ UNCHANGED <<disk, told, acts>>

CopyFails(r) ==
    /\ run[r].at = "copy" /\ Fault
    /\ Goes(r, [AfterCopy(r) EXCEPT !.status = "ERROR"])
    /\ UNCHANGED <<disk, told, acts>>

WalkEnd(r) ==
    /\ run[r].cmd \in Walking /\ run[r].at = "walk" /\ run[r].todo = {}
    /\ Goes(r, [run[r] EXCEPT !.at = "append", !.rows = NoRows])
    /\ UNCHANGED <<disk, spent, told, acts>>

-----------------------------------------------------------------------------
(* latest and timeline: readdir returns every vault that was there when it  *)
(* began and some of those made meanwhile; a vault counts once its          *)
(* manifest.tsv is a regular file.                                          *)

Newest(S) == CHOOSE v \in S : \A u \in S : u <= v

(* Defect: the first vault found is kept. *)
LatestFirst(r) ==
    /\ run[r].cmd = "latest" /\ run[r].at = "list"
    /\ \E S \in SUBSET HasManifest :
         /\ run[r].found \subseteq S
         /\ Goes(r, IF S = {} THEN Idle
                    ELSE [run[r] EXCEPT !.at = "append", !.v = CHOOSE v \in S : TRUE, !.found = {}])
    /\ UNCHANGED <<disk, spent, told, acts>>

Latest(r) ==
    /\ run[r].cmd = "latest" /\ run[r].at = "list"
    /\ \E S \in SUBSET HasManifest :
         /\ run[r].found \subseteq S
         /\ Goes(r, IF S = {} THEN Idle
                    ELSE [run[r] EXCEPT !.at = "append", !.v = Newest(S), !.found = {}])
    /\ UNCHANGED <<disk, spent, told, acts>>

(* A vault whose manifest does not load is passed over in silence. *)
Timeline(r) ==
    /\ run[r].cmd = "timeline" /\ run[r].at = "list"
    /\ \E S \in SUBSET HasManifest :
         /\ run[r].found \subseteq S
         /\ Goes(r, [run[r] EXCEPT !.at = "append", !.found = {v \in S : Loads(v)}])
    /\ UNCHANGED <<disk, spent, told, acts>>

-----------------------------------------------------------------------------
(* The row a command leaves in the ledger, and what watch does next. *)

EventOf(n) ==
    IF n.watch
    THEN CASE n.cmd = "start"   -> "WATCH_START"
           [] n.cmd = "verify"  -> "WATCH_VERIFY"
           [] n.cmd = "restore" -> "WATCH_RESTORE"
           [] n.cmd = "prune"   -> "WATCH_PRUNE"
           [] n.cmd = "post"    -> "WATCH_POST_VERIFY"
           [] n.cmd = "end"     -> "WATCH_END"
    ELSE CASE n.cmd = "seal"     -> "SEAL"
           [] n.cmd = "verify"   -> "VERIFY"
           [] n.cmd = "restore"  -> "RESTORE"
           [] n.cmd = "prune"    -> "PRUNE"
           [] n.cmd = "inspect"  -> "INSPECT"
           [] n.cmd = "recover"  -> "RECOVER_FILE"
           [] n.cmd = "diff"     -> "DIFF"
           [] n.cmd = "latest"   -> "LATEST"
           [] n.cmd = "timeline" -> "TIMELINE"

(* ivault_watch_path, one cycle: what comes after the row of step n. *)
Following(n) ==
    LET clean == n.status = Good[n.cmd] IN
    CASE n.cmd = "start" -> "verify"
      [] n.cmd = "verify" -> IF clean \/ AutoFlags = {} THEN "end"
                             ELSE IF "restore" \in AutoFlags THEN "restore" ELSE "prune"
      [] n.cmd = "restore" -> IF "prune" \in AutoFlags THEN "prune" ELSE "post"
      [] n.cmd = "prune"   -> "post"
      [] n.cmd = "post"    -> "end"

Continued(n) ==
    IF ~n.watch \/ n.cmd = "end" THEN Idle
    ELSE LET next == Following(n)
             errs == n.errs \/ (n.cmd \in {"restore", "prune", "post"} /\ n.status # Good[n.cmd])
         IN  IF next = "end"
             THEN [New("end", n.v, "append") EXCEPT
                     !.watch = TRUE, !.status = IF errs THEN Bad("end") ELSE @]
             ELSE [New(next, n.v, "load") EXCEPT !.watch = TRUE, !.errs = errs]

(* ivault_ledger_append: its failures are nobody's business. *)
LedgerAppend(r) ==
    /\ run[r].at = "append"
    /\ \/ /\ NoFault
          /\ ledger' = Append(ledger, [event |-> EventOf(run[r]), status |-> run[r].status])
          /\ acts' = Append(acts, [cmd |-> run[r].cmd, watch |-> run[r].watch,
                                   good |-> run[r].status = Good[run[r].cmd],
                                   lost |-> run[r].status = "UNRECOVERABLE"])
       \/ Fault /\ UNCHANGED <<ledger, acts>>
    /\ Goes(r, Continued(run[r]))
    /\ UNCHANGED <<live, vaults, stamps, told>>

-----------------------------------------------------------------------------
Step(r) ==
    \/ SealBegin(r) \/ SealOpen(r) \/ SealReaddirFails(r)
    \/ SealHash(r) \/ SealStore(r) \/ SealEnd(r)
    \/ \E v \in 1 .. stamps : \/ \E cmd \in {"verify", "restore", "prune", "inspect"} :
                                   HealBegin(r, cmd, v)
                              \/ \E w \in 1 .. stamps : DiffBegin(r, v, w)
                              \/ \E p, q \in Path : RecoverBegin(r, v, p, q)
                              \/ WatchBegin(r, v)
    \/ \E cmd \in {"latest", "timeline"} : ListBegin(r, cmd)
    \/ Load(r) \/ LoadFails(r) \/ DiffLoad2(r)
    \/ \E p \in Path : \/ SealLook(r, p) \/ SealMiss(r, p) \/ VerifyVisit(r, p)
                       \/ PruneVisit(r, p) \/ WalkMisses(r, p) \/ RestoreVisit(r, p)
    \/ RecoverOpen(r) \/ CopyWrite(r) \/ CopyFails(r) \/ WalkEnd(r)
    \/ Latest(r) \/ Timeline(r)
    \/ LedgerAppend(r)
    \/ Kill(r)

Next ==
    \/ \E p \in Path, b \in Content \union {NoFile} : UserPut(p, b)
    \/ \E r \in Proc : Step(r)

Spec == Init /\ [][Next]_vars

-----------------------------------------------------------------------------
(* state/ledger.tsv as `ivault audit` counts it.  Targets, vaults and file  *)
(* names that spell an event or a status are outside the model.             *)

RowsOf(S) == {i \in DOMAIN ledger : ledger[i].event \in S}
RowsThat(S) == {i \in DOMAIN ledger : ledger[i].status \in S}

(* Defect: the word VERIFY is looked for anywhere in the line. *)
AuditAnywhere ==
    [seals    |-> Cardinality(RowsOf({"SEAL"})),
     verifies |-> Cardinality(RowsOf({"VERIFY", "WATCH_VERIFY", "WATCH_POST_VERIFY"})),
     restores |-> Cardinality(RowsOf({"RESTORE"})),
     prunes   |-> Cardinality(RowsOf({"PRUNE"})),
     clean    |-> Cardinality(RowsThat({"CLEAN", "SEALED", "RESTORE_COMPLETE", "PRUNE_COMPLETE"})),
     damage   |-> Cardinality(RowsThat({"DAMAGE", "MISSING"})),
     failed   |-> Cardinality(RowsThat({"ERROR", "WATCH_ERRORS"}))]

(* Events and the clean statuses are looked for as whole fields, the other  *)
(* words anywhere in the line.                                              *)
Audit ==
    [seals    |-> Cardinality(RowsOf({"SEAL"})),
     verifies |-> Cardinality(RowsOf({"VERIFY"})),
     restores |-> Cardinality(RowsOf({"RESTORE"})),
     prunes   |-> Cardinality(RowsOf({"PRUNE"})),
     clean    |-> Cardinality(RowsThat({"CLEAN", "SEALED", "RESTORE_COMPLETE", "PRUNE_COMPLETE"})),
     damage   |-> Cardinality(RowsThat({"DAMAGE", "MISSING"})),
     failed   |-> Cardinality(RowsThat({"ERROR", "WATCH_ERRORS"}))]

-----------------------------------------------------------------------------
Reports(r, cmd, status) == run[r].cmd = cmd /\ run[r].at = "append" /\ run[r].status = status

(* The tree a vault was told to be of, and the paths left alone while it    *)
(* was sealed; Calm: and since process r began.                             *)
Truth(v, p)   == told[v].live[p]
Calm(r, v)    == told[v].quiet \ run[r].touched
KnownVault(r) == run[r].v \in run[r].known

(* The paths whose blob only files left alone during the seal can have made: *)
(* a file that changes between its digest and its copy leaves other bytes   *)
(* under that digest, which files of that content then share.               *)
Trusted(v) ==
    {p \in told[v].quiet : \A q \in Filed(vaults[v].rows) \ told[v].quiet :
        Truth(v, p) # NoFile => vaults[v].rows[q].hash # Hash[Truth(v, p)]}

(* A vault reported SEALED loads, whoever else seals, restores or prunes,   *)
(* and keeps a row and a blob of what each path held that nobody changed    *)
(* while it was sealed, and a right blob if no file changed meanwhile has   *)
(* its digest (ivault_seal_path).  Here and below a vault counts as         *)
(* reported only if no flush and no readdir of its seal failed: the code    *)
(* looks at neither and says SEALED all the same.  Nor does it look whether *)
(* a later readdir or read of the manifest failed or came to its end, which *)
(* the model takes for granted.                                             *)
SealTold ==
    \A v \in Vault : told[v] # NotTold =>
        /\ Loads(v)
        /\ \A p \in told[v].quiet :
             LET b == Truth(v, p) IN
             IF b = NoFile THEN vaults[v].rows[p] = NoRow
             ELSE /\ vaults[v].rows[p] = [hash |-> Hash[b], size |-> SizeOf[b]]
                  /\ vaults[v].blobs[Hash[b]] # NoFile
                  /\ p \in Trusted(v) => Hash[vaults[v].blobs[Hash[b]]] = Hash[b]

(* A verify that began after its vault was reported says CLEAN only if each *)
(* path left alone during the seal and during the verify is again as it was *)
(* then; and says DAMAGE, nothing failing, only if some path is not as it   *)
(* was, or somebody interfered (ivault_verify_path).                        *)
VerifyTold ==
    \A r \in Proc, cmd \in Verifying : KnownVault(r) =>
        /\ Reports(r, cmd, "CLEAN") =>
             \A p \in Calm(r, run[r].v) : live[p] = Truth(run[r].v, p)
        /\ Reports(r, cmd, "DAMAGE") /\ Calm(r, run[r].v) = Path /\ spent.faults = 0 =>
             live # told[run[r].v].live

(* A restore of a reported vault that says RESTORE COMPLETE leaves each     *)
(* file nobody else touches as it was sealed, while other commands work on  *)
(* the same tree (ivault_restore_path); but for files that share a digest   *)
(* with one that changed during the seal.                                   *)
RestoreTold ==
    \A r \in Proc : KnownVault(r) /\ Reports(r, "restore", "RESTORE_COMPLETE") =>
        \A p \in Calm(r, run[r].v) \intersect Trusted(run[r].v) :
            Truth(run[r].v, p) # NoFile => live[p] = Truth(run[r].v, p)

(* A prune by a reported vault takes no file that was there when the vault  *)
(* was sealed, at no moment, and whichever of the calls fails whose result  *)
(* is looked at; and when it says PRUNE COMPLETE it has taken every file    *)
(* that was not (ivault_prune_path).                                        *)
PruneTold ==
    \A r \in Proc : run[r].cmd = "prune" /\ KnownVault(r) =>
        \A p \in Calm(r, run[r].v) :
            /\ Truth(run[r].v, p) # NoFile => live[p] = run[r].before[p]
            /\ (Reports(r, "prune", "PRUNE_COMPLETE") /\ Truth(run[r].v, p) = NoFile) =>
                 live[p] = NoFile

(* recover-file says RECOVERED only when the output holds what the path     *)
(* held when the vault was sealed, but for those same files                 *)
(* (ivault_recover_file).                                                   *)
RecoverTold ==
    \A r \in Proc : (KnownVault(r) /\ Reports(r, "recover", "RECOVERED")) =>
        ((run[r].from \in Trusted(run[r].v) /\ run[r].cur \notin run[r].touched) =>
            live[run[r].cur] = Truth(run[r].v, run[r].from))

(* diff of two reported vaults says NO DIFFERENCE only if every file of the *)
(* first seal was there unchanged at the second, and every other file of    *)
(* the second holds what some file of the first vault held; and says        *)
(* DIFFERENCE only if the trees differed (ivault_diff_vaults).              *)
DiffTold ==
    \A r \in Proc : {run[r].v, run[r].w} \subseteq run[r].known =>
        LET v == run[r].v  w == run[r].w
            both == told[v].quiet \intersect told[w].quiet
        IN  /\ Reports(r, "diff", "NO_DIFFERENCE") => \A p \in both :
                 Truth(v, p) # Truth(w, p) =>
                     /\ Truth(v, p) = NoFile
                     /\ HasHash(vaults[v].rows, Hash[Truth(w, p)])
            /\ Reports(r, "diff", "DIFFERENCE_DETECTED") /\ both = Path =>
                 told[v].live # told[w].live

(* latest never answers an older vault than one reported before it began,   *)
(* and timeline lists each of those (newest_vault, ivault_timeline_print).  *)
ListTold ==
    \A r \in Proc : run[r].at = "append" => \A v \in run[r].known :
        /\ run[r].cmd = "latest" => run[r].v >= v
        /\ run[r].cmd = "timeline" => v \in run[r].found

(* Whoever wrote when, audit counts each seal, verify, restore and prune a  *)
(* user asked for under its own name, each that went well as clean, and     *)
(* each command that did not as damage or as failed, once, but for a        *)
(* recover-file whose blob is lost and a diff (ivault_audit_print).         *)
AuditTold ==
    LET Acts(S)  == {i \in DOMAIN acts : acts[i].cmd \in S}
        Asked(c) == {i \in Acts({c}) : ~acts[i].watch}
        Works    == Walking \union {"seal"}
    IN  /\ Audit.seals = Cardinality(Asked("seal"))
        /\ Audit.verifies = Cardinality(Asked("verify"))
        /\ Audit.restores = Cardinality(Asked("restore"))
        /\ Audit.prunes = Cardinality(Asked("prune"))
        /\ Audit.clean = Cardinality({i \in Acts(Works) : acts[i].good})
        /\ Audit.damage + Audit.failed =
             Cardinality({i \in Acts(Works \union {"inspect", "recover", "end"}) :
                            ~acts[i].good /\ ~acts[i].lost})

(* A statement the code does not keep (README, section 3).                  *)

(* VIABILITY_PLAN.md: "No unexpected data deletion in normal flows."  A      *)
(* prune by a vault whose seal never reported SEALED takes nothing.         *)
PruneByReported ==
    \A r \in Proc : run[r].cmd = "prune" /\ ~KnownVault(r) =>
        \A p \in Path \ run[r].touched : live[p] = run[r].before[p]

=============================================================================
