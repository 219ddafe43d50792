-------------------------------- MODULE Seal --------------------------------
(***************************************************************************)
(* `ivault seal`: the walk that writes one vault, one system call at a     *)
(* time, while the user keeps editing the tree, calls fail and the process *)
(* is killed.                                                              *)
(*                                                                         *)
(* A vault is named after the second in which its seal started, so a vault *)
(* is a Stamp.  status[v] is what the seal of v reported: its exit code and *)
(* the line ivault.c appends to the ledger.  A vault whose seal was killed *)
(* stays "open": nothing was reported.                                     *)
(*                                                                         *)
(* One seal runs at a time.  fsync is never called, so what a power loss   *)
(* leaves on disk is outside the model: Crash is the death of the process. *)
(***************************************************************************)
EXTENDS VaultBase

CONSTANTS
    Special,            \* an entry that is neither a file nor a directory
    NoPath,             \* no file is being sealed
    NoManifest,         \* the vault has no manifest.tsv
    MaxStamp,           \* bound: seconds on the clock
    OneSealPerSecond,   \* assume that no two seals start in one second
    EditsDuringSeal,    \* the user edits files while a seal walks them
    IOFaults,           \* checked system calls may fail
    UnseenFaults,       \* calls nobody checks may fail: a flush of manifest.tsv, readdir
    Crashes             \* the process may be killed

ASSUME SealAssumption ==
    /\ MaxStamp \in Nat
    /\ NoManifest \notin Manifest
    /\ NoPath \notin Path
    /\ Special \notin Bytes /\ Special # NoFile
    /\ {OneSealPerSecond, EditsDuringSeal, IOFaults, UnseenFaults, Crashes}
         \subseteq BOOLEAN

Stamp == 1 .. MaxStamp

VARIABLES
    live,       \* the tree under the target
    now,        \* the second on the clock, as make_timestamp formats it
    manifest,   \* vaults/<stamp>/manifest.tsv on disk
    objects,    \* vaults/<stamp>/objects/<xx>/<hash>.blob on disk
    status,     \* what the seal of each vault reported
    pc, stamp,  \* where the running seal is, and the vault it writes
    visited,    \* directory entries the walk is done with
    cur,        \* the file in seal_file
    curHash,    \* its local `hash`
    reads,      \* what the read under way (hash or copy) may return
    errors,     \* ctx->errors > 0
    buffer,     \* manifest.tsv as the rows written so far would make it
    origin,     \* history: the tree when the seal of each vault started
    touched,    \* history: the paths edited while that seal ran
    reopened,   \* history: the seal started in a vault that already existed
    lost        \* history: a call of that seal failed, and nobody saw it

disk    == <<manifest, objects, status>>
local   == <<pc, stamp, visited, cur, curHash, reads, errors, buffer>>
history == <<origin, touched, reopened, lost>>
vars    == <<live, now, disk, local, history>>

Entry == Bytes \union {NoFile, Special}

TypeOK ==
    /\ live \in [Path -> Entry]
    /\ now \in 1 .. MaxStamp + 1
    /\ manifest \in [Stamp -> Manifest \union {NoManifest}]
    /\ objects \in [Stamp -> [HashId -> Bytes \union {NoFile}]]
    /\ status \in [Stamp -> {"none", "open", "SEALED", "FAILED"}]
    /\ pc \in {"idle", "walk", "hash", "object", "copy", "row"}
    /\ pc # "idle" => stamp \in Stamp /\ manifest[stamp] \in Manifest
    /\ visited \subseteq Path
    /\ cur \in Path \union {NoPath}
    /\ pc \notin {"idle", "walk"} => cur \in Path
    /\ curHash \in HashId \union {NoRow}
    /\ pc \in {"object", "copy", "row"} => curHash \in HashId
    /\ reads \subseteq Bytes
    /\ errors \in BOOLEAN
    /\ buffer \in Manifest
    /\ origin \in [Stamp -> [Path -> Entry]]
    /\ touched \in [Stamp -> SUBSET Path]
    /\ reopened \in [Stamp -> BOOLEAN]
    /\ lost \in [Stamp -> BOOLEAN]

Init ==
    /\ live \in [Path -> Content \union {NoFile, Special}]
    /\ now = 1
    /\ manifest = [v \in Stamp |-> NoManifest]
    /\ objects = [v \in Stamp |-> [h \in HashId |-> NoFile]]
    /\ status = [v \in Stamp |-> "none"]
    /\ pc = "idle" /\ stamp = 0
    /\ visited = {} /\ cur = NoPath /\ curHash = NoRow /\ reads = {}
    /\ errors = FALSE /\ buffer = EmptyManifest
    /\ origin = [v \in Stamp |-> [p \in Path |-> NoFile]]
    /\ touched = [v \in Stamp |-> {}]
    /\ reopened = [v \in Stamp |-> FALSE]
    /\ lost = [v \in Stamp |-> FALSE]

-----------------------------------------------------------------------------
(* The user and the clock. *)

Tick ==
    /\ now <= MaxStamp
    /\ now' = now + 1
    /\ UNCHANGED <<live, disk, local, history>>

(* A user writes or removes one file.  Special entries stay what they are. *)
(* A read already under way may see the old bytes, the new ones, or a mix. *)
Edit(p, e) ==
    /\ EditsDuringSeal \/ pc = "idle"
    /\ live[p] \notin {Special, e}
    /\ live' = [live EXCEPT ![p] = e]
    /\ touched' = IF pc = "idle" THEN touched
                  ELSE [touched EXCEPT ![stamp] = @ \union {p}]
    /\ reads' = IF p = cur /\ e # NoFile THEN reads \union {e, Torn} ELSE reads
    /\ UNCHANGED <<now, disk, pc, stamp, visited, cur, curHash, errors, buffer,
                   origin, reopened, lost>>

-----------------------------------------------------------------------------
(* Defect: manifest.tsv is opened with "a". *)
SealStartAppends ==
    /\ pc = "idle" /\ now \in Stamp
    /\ OneSealPerSecond => status[now] = "none"
    /\ buffer' = IF manifest[now] = NoManifest THEN EmptyManifest ELSE manifest[now]
    /\ manifest' = [manifest EXCEPT ![now] = buffer']
    /\ status' = [status EXCEPT ![now] = "open"]
    /\ pc' = "walk" /\ stamp' = now
    /\ visited' = {} /\ errors' = FALSE
    /\ origin' = [origin EXCEPT ![now] = live]
    /\ touched' = [touched EXCEPT ![now] = {}]
    /\ reopened' = [reopened EXCEPT ![now] = status[now] # "none"]
    /\ lost' = [lost EXCEPT ![now] = FALSE]
    /\ UNCHANGED <<live, now, objects, cur, curHash, reads>>

(* Defect: the vault is named after a coarser clock, so a seal may start in *)
(* the vault of an earlier second.                                          *)
SealStartEarlier ==
    /\ pc = "idle" /\ now \in Stamp
    /\ OneSealPerSecond => status[now] = "none"
    /\ \E v \in 1 .. now :
         /\ manifest' = [manifest EXCEPT ![v] = EmptyManifest]
         /\ status' = [status EXCEPT ![v] = "open"]
         /\ stamp' = v
         /\ origin' = [origin EXCEPT ![v] = live]
         /\ touched' = [touched EXCEPT ![v] = {}]
         /\ reopened' = [reopened EXCEPT ![v] = status[v] # "none"]
         /\ lost' = [lost EXCEPT ![v] = FALSE]
    /\ pc' = "walk"
    /\ visited' = {} /\ errors' = FALSE /\ buffer' = EmptyManifest
    /\ UNCHANGED <<live, now, objects, cur, curHash, reads>>

(* ivault_seal_path up to the walk.  mkdir_p accepts a vault directory that *)
(* exists; fopen "w" truncates its manifest and leaves its objects.         *)
SealStart ==
    /\ pc = "idle" /\ now \in Stamp
    /\ OneSealPerSecond => status[now] = "none"
    /\ manifest' = [manifest EXCEPT ![now] = EmptyManifest]
    /\ status' = [status EXCEPT ![now] = "open"]
    /\ pc' = "walk" /\ stamp' = now
    /\ visited' = {} /\ errors' = FALSE /\ buffer' = EmptyManifest
    /\ origin' = [origin EXCEPT ![now] = live]
    /\ touched' = [touched EXCEPT ![now] = {}]
    /\ reopened' = [reopened EXCEPT ![now] = status[now] # "none"]
    /\ lost' = [lost EXCEPT ![now] = FALSE]
    /\ UNCHANGED <<live, now, objects, cur, curHash, reads>>

(* walk_path: entries in any order; names in Skipped are never entered. *)
Unvisited == Path \ (Skipped \union visited)

(* Defect: the walk goes on, but the error is not counted. *)
CountNoError(S) ==
    /\ pc' = "walk" /\ cur' = NoPath /\ curHash' = NoRow /\ reads' = {}
    /\ visited' = visited \union S
    /\ UNCHANGED <<live, now, disk, stamp, errors, buffer, history>>

(* An error is counted and the walk goes on with the next entry. *)
CountError(S) ==
    /\ errors' = TRUE
    /\ pc' = "walk" /\ cur' = NoPath /\ curHash' = NoRow /\ reads' = {}
    /\ visited' = visited \union S
    /\ UNCHANGED <<live, now, disk, stamp, buffer, history>>

(* readdir returned the name and lstat fails: a fault, or the file is gone. *)
LstatFails(p) ==
    /\ pc = "walk" /\ p \in Unvisited
    /\ IOFaults \/ (live[p] = NoFile /\ p \in touched[stamp])
    /\ CountError({p})

(* A directory cannot be opened: what is below it, S, is never entered. *)
OpendirFails(S) ==
    /\ pc = "walk" /\ IOFaults /\ S # {} /\ S \subseteq Unvisited
    /\ CountError(S)

SkipSpecial(p) ==
    /\ pc = "walk" /\ p \in Unvisited /\ live[p] = Special
    /\ visited' = visited \union {p}
    /\ UNCHANGED <<live, now, disk, pc, stamp, cur, curHash, reads, errors,
                   buffer, history>>

(* readdir answers NULL for an error as it does at the end: the entries S    *)
(* are not seen, and no error is counted.                                   *)
ReaddirFails(S) ==
    /\ pc = "walk" /\ UnseenFaults /\ S # {} /\ S \subseteq Unvisited
    /\ visited' = visited \union S
    /\ lost' = [lost EXCEPT ![stamp] = TRUE]
    /\ UNCHANGED <<live, now, disk, pc, stamp, cur, curHash, reads, errors,
                   buffer, origin, touched, reopened>>

(* lstat says regular file: seal_file starts and opens it for the digest. *)
EnterFile(p) ==
    /\ pc = "walk" /\ p \in Unvisited /\ live[p] \in Bytes
    /\ pc' = "hash" /\ cur' = p /\ reads' = {live[p]}
    /\ visited' = visited \union {p}
    /\ UNCHANGED <<live, now, disk, stamp, curHash, errors, buffer, history>>

HashFile ==
    /\ pc = "hash"
    /\ \E b \in reads : curHash' = Hash[b]
    /\ pc' = "object" /\ reads' = {}
    /\ UNCHANGED <<live, now, disk, stamp, visited, cur, errors, buffer, history>>

HashFails ==
    /\ pc = "hash" /\ (IOFaults \/ live[cur] = NoFile)
    /\ CountError({cur})

(* The shard directory cannot be made. *)
ObjectPathFails ==
    /\ pc = "object" /\ IOFaults
    /\ CountError({cur})

(* ivault_copy_file fails before it opens the blob: the source is gone, say. *)
CopyOpenFails ==
    /\ pc = "object" /\ objects[stamp][curHash] = NoFile
    /\ IOFaults \/ live[cur] = NoFile
    /\ CountError({cur})

(* The blob of this digest is a regular file already: it is not looked at. *)
ReuseObject ==
    /\ pc = "object" /\ objects[stamp][curHash] # NoFile
    /\ pc' = "row"
    /\ UNCHANGED <<live, now, disk, stamp, visited, cur, curHash, reads, errors,
                   buffer, history>>

(* Defect: the source is not checked after its fopen. *)
CopyOpenUnchecked ==
    /\ pc = "object" /\ objects[stamp][curHash] = NoFile
    /\ objects' = [objects EXCEPT ![stamp][curHash] = Torn]
    /\ pc' = "copy" /\ reads' = {live[cur]}
    /\ UNCHANGED <<live, now, manifest, status, stamp, visited, cur, curHash,
                   errors, buffer, history>>

(* ivault_copy_file: the source is opened again, then the blob with "wb". *)
CopyOpen ==
    /\ pc = "object" /\ objects[stamp][curHash] = NoFile /\ live[cur] \in Bytes
    /\ objects' = [objects EXCEPT ![stamp][curHash] = Torn]
    /\ pc' = "copy" /\ reads' = {live[cur]}
    /\ UNCHANGED <<live, now, manifest, status, stamp, visited, cur, curHash,
                   errors, buffer, history>>

CopyDone ==
    /\ pc = "copy"
    /\ \E b \in reads : objects' = [objects EXCEPT ![stamp][curHash] = b]
    /\ pc' = "row" /\ reads' = {}
    /\ UNCHANGED <<live, now, manifest, status, stamp, visited, cur, curHash,
                   errors, buffer, history>>

(* Defect: the result of ivault_copy_file is ignored. *)
CopyFailsUnchecked ==
    /\ pc = "copy" /\ IOFaults
    /\ pc' = "row" /\ reads' = {}
    /\ UNCHANGED <<live, now, disk, stamp, visited, cur, curHash, errors, buffer,
                   history>>

(* fread, fwrite or fclose of the copy fails: the partial blob stays. *)
CopyFails ==
    /\ pc = "copy" /\ IOFaults
    /\ CountError({cur})

(* The row goes to the stdio buffer of manifest.tsv, whose flushes end      *)
(* anywhere: before this row, inside it (the loader rejects the line),      *)
(* inside its digest (the loader takes the short digest), or after it.      *)
Flushed(full) ==
    {buffer, [buffer EXCEPT !.bad = TRUE],
     [full EXCEPT !.rows[cur] = CutHash], full}

(* fprintf is not checked: when a flush fails, rows it held are dropped and  *)
(* the seal goes on.  What did get written may end inside a line, which the *)
(* next row joins: the loader rejects the long line, or takes it for one    *)
(* row, of whatever path, whose digest field is no digest (CutHash).        *)
AfterFailure(full) ==
    {m \in Manifest : \A p \in Path :
        m.rows[p] \in {manifest[stamp].rows[p], full.rows[p], CutHash}}

WriteRow ==
    /\ pc = "row"
    /\ LET full == [buffer EXCEPT !.rows[cur] = curHash]
       IN  \/ buffer' = full /\ UNCHANGED <<manifest, lost>>
           \/ /\ buffer' = full
              /\ \E m \in Flushed(full) : manifest' = [manifest EXCEPT ![stamp] = m]
              /\ UNCHANGED lost
           \/ /\ UnseenFaults
              /\ buffer' \in AfterFailure(full)
              /\ manifest' = [manifest EXCEPT ![stamp] = buffer']
              /\ lost' = [lost EXCEPT ![stamp] = TRUE]
    /\ pc' = "walk" /\ cur' = NoPath /\ curHash' = NoRow /\ reads' = {}
    /\ UNCHANGED <<live, now, objects, status, stamp, visited, errors, origin,
                   touched, reopened>>

(* readdir returns every entry that was there throughout; the last fclose *)
(* writes what is buffered, or fails and leaves some of it unwritten.       *)
WalkOver == {p \in Unvisited : live[p] # NoFile /\ p \notin touched[stamp]} = {}

(* Defect: SEALED is reported whatever ctx.errors says. *)
SealFinishAnyway ==
    /\ pc = "walk" /\ WalkOver
    /\ manifest' = [manifest EXCEPT ![stamp] = buffer]
    /\ status' = [status EXCEPT ![stamp] = "SEALED"]
    /\ pc' = "idle" /\ visited' = {} /\ errors' = FALSE
    /\ buffer' = EmptyManifest
    /\ UNCHANGED <<live, now, objects, stamp, cur, curHash, reads, history>>

SealFinish ==
    /\ pc = "walk" /\ WalkOver
    /\ manifest' = [manifest EXCEPT ![stamp] = buffer]
    /\ status' = [status EXCEPT ![stamp] = IF errors THEN "FAILED" ELSE "SEALED"]
    /\ pc' = "idle" /\ visited' = {} /\ errors' = FALSE
    /\ buffer' = EmptyManifest
    /\ UNCHANGED <<live, now, objects, stamp, cur, curHash, reads, history>>

FcloseFails ==
    /\ pc = "walk" /\ WalkOver /\ IOFaults
    /\ \E m \in {manifest[stamp], buffer, [buffer EXCEPT !.bad = TRUE]} :
         manifest' = [manifest EXCEPT ![stamp] = m]
    /\ status' = [status EXCEPT ![stamp] = "FAILED"]
    /\ pc' = "idle" /\ visited' = {} /\ errors' = FALSE
    /\ buffer' = EmptyManifest
    /\ UNCHANGED <<live, now, objects, stamp, cur, curHash, reads, history>>

(* The process is killed: buffered rows are gone, a blob may stay torn. *)
Crash ==
    /\ Crashes /\ pc # "idle"
    /\ pc' = "idle" /\ visited' = {} /\ errors' = FALSE
    /\ cur' = NoPath /\ curHash' = NoRow /\ reads' = {}
    /\ buffer' = EmptyManifest
    /\ UNCHANGED <<live, now, disk, stamp, history>>

World == Tick \/ \E p \in Path, e \in Content \union {NoFile} : Edit(p, e)

Sealer ==
    \/ SealStart
    \/ \E p \in Path : LstatFails(p) \/ SkipSpecial(p) \/ EnterFile(p)
    \/ \E S \in SUBSET Path : OpendirFails(S) \/ ReaddirFails(S)
    \/ HashFile \/ HashFails \/ ObjectPathFails \/ CopyOpenFails
    \/ ReuseObject \/ CopyOpen \/ CopyDone \/ CopyFails
    \/ WriteRow
    \/ SealFinish \/ FcloseFails

Next == World \/ Sealer \/ Crash

Spec == Init /\ [][Next]_vars

-----------------------------------------------------------------------------
(* What a later `restore` gets for p out of vault v. *)
Recovered(v, p) ==
    IF manifest[v].rows[p] = NoRow THEN NoFile ELSE objects[v][manifest[v].rows[p]]

(* The vault that ivault_timewalker_latest names: the newest with a manifest. *)
WithManifest == {v \in Stamp : manifest[v] # NoManifest}
IsLatest(v)  == v \in WithManifest /\ \A w \in WithManifest : w <= v

Quiet(v) == {p \in Path \ Skipped : p \notin touched[v]}

(* A seal that reports SEALED wrote a manifest that loads, and for every    *)
(* file nobody edited meanwhile the row says what the file held: no file is *)
(* forgotten and no row is invented, whatever happened to other files and   *)
(* in whatever earlier seals shared the vault (walk_path, seal_file);       *)
(* unless a flush of its manifest or a readdir failed, which nobody checks.  *)
SealedCovers ==
    \A v \in Stamp : status[v] = "SEALED" /\ ~lost[v] =>
        /\ ~manifest[v].bad
        /\ \A p \in Quiet(v) :
             manifest[v].rows[p] =
               IF origin[v][p] \in Bytes THEN Hash[origin[v][p]] ELSE NoRow

(* In a vault reported SEALED that no earlier seal had used, every row has  *)
(* its blob, and the blob holds what the row's digest says unless a file    *)
(* with that digest was edited between its digest and its copy: a blob cut  *)
(* short by a failed or killed copy never stands behind a SEALED manifest.  *)
SealedRestores ==
    \A v \in Stamp : status[v] = "SEALED" /\ ~reopened[v] /\ ~lost[v] =>
        \A p \in Listed(manifest[v]) :
            LET h == manifest[v].rows[p] IN
            /\ objects[v][h] # NoFile
            /\ \/ Hash[objects[v][h]] = h
               \/ \E q \in touched[v] : manifest[v].rows[q] = h

(* What a row of p may be when the last rows can be missing or cut short:   *)
(* a path without a file has none.                                          *)
HonestRows(v, p) ==
    {NoRow} \union (IF origin[v][p] \in Bytes THEN {CutHash, Hash[origin[v][p]]} ELSE {})

(* A kill, a failing close or an error leaves a manifest short, and `latest` *)
(* may name its vault; but no row in it is made up.  In a vault of any       *)
(* status, finished or not, also one that earlier seals of the same second  *)
(* left rows and blobs in, only a file has a row, and a whole digest in it  *)
(* is the file's (walk_path, seal_file), unless a call nobody checks failed. *)
NoRowInvented ==
    \A v \in Stamp : status[v] # "none" /\ ~lost[v] =>
        \A p \in Quiet(v) : manifest[v].rows[p] \in HonestRows(v, p)

(* What a seal has reported stays: once its second is over no later seal,    *)
(* whatever it shares with it and wherever it is killed, touches manifest,  *)
(* blobs or report of that vault (ivault_seal_path, seal_file).             *)
VaultsStay ==
    [][\A v \in Stamp : status[v] \in {"SEALED", "FAILED"} /\ now # v =>
         /\ manifest'[v] = manifest[v]
         /\ objects'[v] = objects[v]
         /\ status'[v] = status[v]]_vars

(* Two statements the code does not keep (README, section 3).               *)

(* README: "Crash-safe - logs explain everything".  A vault reported SEALED  *)
(* of a tree nobody edited has, for every row, a blob with that digest.      *)
SealedIsWhole ==
    \A v \in Stamp : status[v] = "SEALED" /\ touched[v] = {} =>
        \A p \in Listed(manifest[v]) :
            LET h == manifest[v].rows[p] IN
            objects[v][h] # NoFile /\ Hash[objects[v][h]] = h

(* README: "Crash-safe - logs explain everything".  Whenever no seal runs,  *)
(* the vault `latest` names is one whose seal was reported, either way.     *)
LatestIsReported ==
    pc = "idle" => \A v \in Stamp : IsLatest(v) => status[v] \in {"SEALED", "FAILED"}

-----------------------------------------------------------------------------
(* Inductive strengthenings: what a running seal knows while no flush of    *)
(* its manifest has failed.                                                 *)

Running == pc # "idle"

(* The row a quiet path must get. *)
DueRow(v, p) == IF origin[v][p] \in Bytes THEN Hash[origin[v][p]] ELSE NoRow

(* What the walk knows about the file it is in. *)
CursorInv ==
    /\ pc \in {"idle", "walk"} => cur = NoPath
    /\ pc \in {"hash", "object", "copy", "row"} =>
         /\ cur \in visited
         /\ cur \notin touched[stamp] => live[cur] \in Bytes
    /\ pc \in {"hash", "copy"} /\ cur \notin touched[stamp] => reads = {live[cur]}
    /\ pc \in {"object", "copy", "row"} /\ cur \notin touched[stamp] =>
         curHash = Hash[live[cur]]

(* The rows written so far are those of the quiet files the walk is done    *)
(* with; a path the walk has not finished has none.                         *)
RowsInv ==
    Running =>
        /\ status[stamp] = "open"
        /\ \A p \in Path : p \notin touched[stamp] => live[p] = origin[stamp][p]
        /\ ~lost[stamp] =>
             /\ ~buffer.bad
             /\ \A p \in Path : p \notin visited \/ p = cur => buffer.rows[p] = NoRow
             /\ ~errors => \A p \in Quiet(stamp) :
                  p \in visited /\ p # cur => buffer.rows[p] = DueRow(stamp, p)

CoverInv == CursorInv /\ RowsInv /\ SealedCovers

(* Why a blob of the running seal may hold something else than its name     *)
(* says: its copy is under way, or it was copied from a file that was       *)
(* edited after its digest was taken.                                       *)
Excused(h) ==
    \/ pc = "copy" /\ curHash = h
    \/ pc = "row" /\ curHash = h /\ cur \in touched[stamp]
    \/ \E q \in touched[stamp] : buffer.rows[q] = h

BlobInv ==
    /\ \A v \in Stamp : status[v] = "none" =>
         \A h \in HashId : objects[v][h] = NoFile
    /\ Running /\ ~lost[stamp] =>
         /\ \A p \in Listed(buffer) : objects[stamp][buffer.rows[p]] # NoFile
         /\ pc \in {"copy", "row"} => objects[stamp][curHash] # NoFile
         /\ ~errors /\ ~reopened[stamp] => \A h \in HashId :
              objects[stamp][h] \in Bytes =>
                Hash[objects[stamp][h]] = h \/ Excused(h)
    /\ SealedRestores

(* The buffer and what is on disk hold honest rows while a seal runs; what   *)
(* is on disk is all that a kill leaves.                                     *)
HonestInv ==
    /\ Running /\ ~lost[stamp] =>
         \A p \in Quiet(stamp) : buffer.rows[p] \in HonestRows(stamp, p)
    /\ NoRowInvented

=============================================================================
