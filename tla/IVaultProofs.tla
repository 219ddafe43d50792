---------------------------- MODULE IVaultProofs -----------------------------
(***************************************************************************)
(* What the ivault commands promise while several of them share one        *)
(* working directory, for every number of processes, paths, contents and   *)
(* vaults, whoever is killed and whatever call fails.                      *)
(*                                                                         *)
(* The argument: what each command has in hand fits where it is (Shaped);  *)
(* a seal has its vault to itself until it reports (SealsInv), so that a   *)
(* vault once reported never changes again (ToldStays), and what a command *)
(* loaded from a vault reported before it began stays true (KnownInv).     *)
(* Each promise then needs only its own walk: the paths it is through with *)
(* and that nobody else touched are as it will say they are.  Of a seal    *)
(* that says so only while none of its calls failed unseen (SealingInv).   *)
(***************************************************************************)
EXTENDS IVault, DiffProofs, FiniteSetTheorems, WellFoundedInduction, TLAPS

-----------------------------------------------------------------------------
(* What makes the properties inductive.                                     *)

(* What a command may say at its end. *)
May(cmd, status) ==
    \/ status = Good[cmd]
    \/ /\ cmd \in Walking \union {"seal", "inspect", "recover", "diff", "end"}
       /\ status = Bad(cmd)
    \/ cmd = "recover" /\ status \in {"MISSING", "UNRECOVERABLE"}

(* The steps of a watch, and those that only a watch has. *)
Watches(n) ==
    /\ n.watch => n.cmd \in Walking \union {"start", "end"}
    /\ n.cmd \in {"start", "post", "end"} => n.watch

(* Which command is at which step, and what it has set by then. *)
Shaped(n) ==
    /\ n.at = "idle" <=> n.cmd = "none"
    /\ n.cmd = "none" => n = Idle
    /\ n.at \in {"open", "store"} => n.cmd = "seal"
    /\ n.at = "store" => n.cur \in Path /\ n.size \in SizeId
    /\ n.at # "store" => n.hash = NoRow
    /\ n.bad => n.lost
    /\ n.at = "open" => n.rows = NoRows
    /\ n.cmd = "seal" /\ n.at # "store" => n.cur = NoPath
    /\ n.at = "load" => n.cmd \in Walking \union {"inspect", "recover", "diff"}
    /\ n.at = "load2" => n.cmd = "diff"
    /\ n.at = "list" => n.cmd \in {"latest", "timeline"}
    /\ n.at = "walk" => n.cmd \in Walking \union {"seal"}
    /\ n.at = "open out" => n.cmd = "recover"
    /\ n.at = "copy" => n.cmd \in {"restore", "recover"}
    /\ May(n.cmd, n.status) /\ Watches(n)
    /\ n.cmd \notin {"none", "latest", "timeline"} => n.v \in 1 .. stamps
    /\ n.cmd = "diff" => n.w \in 1 .. stamps
    /\ n.cmd = "recover" => {n.from, n.cur} \subseteq Path
    /\ n.at \in {"copy", "open out"} => n.from \in Filed(n.rows)
    /\ n.cmd = "restore" => n.todo \subseteq Filed(n.rows) /\ (n.at = "copy" => n.cur = n.from)
    /\ n.shared => n.cur \in n.touched /\ (n.at = "copy" \/ n.cmd = "recover")

ShapeInv ==
    /\ HasManifest \subseteq 1 .. stamps
    /\ \A r \in Proc : Shaped(run[r])
    /\ \A r \in Proc : run[r].at \in {"walk", "copy", "open out", "load2"} =>
                            run[r].v \in HasManifest

(* A seal has its vault to itself, and nobody was told of it before the end. *)
SealsInv ==
    /\ \A r, s \in Proc :
         run[r].cmd = "seal" /\ run[s].cmd = "seal" /\ run[r].v = run[s].v => r = s
    /\ \A r \in Proc :
         run[r].cmd = "seal" /\ run[r].at # "append" => told[run[r].v] = NotTold

DueRow(b) == IF b = NoFile THEN NoRow ELSE [hash |-> Hash[b], size |-> SizeOf[b]]

(* What a seal on its walk has done so far, unless one of its calls failed  *)
(* unseen.  A blob is of its digest, but for those of files that changed.   *)
Walked(n) ==
    /\ \A p \in Path \ n.touched : live[p] = n.before[p]
    /\ n.cur \notin n.todo
    /\ \A p \in n.todo \union {n.cur} : p \in Path => n.rows[p] = NoRow
    /\ n.status = "SEALED" =>
         \A p \in Path \ (Skipped \union n.touched \union n.todo \union {n.cur}) :
             n.rows[p] = DueRow(n.before[p])
    /\ \A p \in Filed(n.rows) : vaults[n.v].blobs[n.rows[p].hash] # NoFile
    /\ n.at = "store" /\ n.cur \notin n.touched =>
         /\ live[n.cur] \in Bytes /\ n.size = SizeOf[live[n.cur]]
         /\ n.hash \in {NoRow, Hash[live[n.cur]]}
    /\ \A h \in HashId : vaults[n.v].blobs[h] # NoFile =>
         \/ Hash[vaults[n.v].blobs[h]] = h
         \/ \E q \in n.touched \intersect Filed(n.rows) : n.rows[q].hash = h

SealingInv ==
    \A r \in Proc :
        run[r].cmd = "seal" /\ run[r].at \in {"walk", "store"} /\ ~run[r].lost => Walked(run[r])

(* The vaults a command knows were reported, and the rows it works by are   *)
(* those of its vault.                                                      *)
KnownInv ==
    \A r \in Proc :
        /\ \A v \in run[r].known : told[v] # NotTold
        /\ KnownVault(r) /\ run[r].cmd # "seal"
             /\ run[r].at \in {"walk", "copy", "open out", "load2"} =>
                run[r].rows = vaults[run[r].v].rows

(* Nothing went wrong before a walk, and one that ends well saw everything. *)
StatusInv ==
    \A r \in Proc :
        /\ run[r].at \in {"load", "load2", "open out"} => run[r].status = Good[run[r].cmd]
        /\ run[r].cmd \in Walking /\ run[r].at = "append" /\ run[r].status = Good[run[r].cmd] =>
             run[r].todo = {}

(* What the paths a walk is through with hold, if nobody else touched them. *)
Past(r) == Calm(r, run[r].v) \ run[r].todo

VerifyInv ==
    \A r \in Proc :
        run[r].cmd \in Verifying /\ run[r].at \in {"walk", "append"} /\ KnownVault(r) =>
            /\ run[r].status = "CLEAN" => \A p \in Past(r) : live[p] = Truth(run[r].v, p)
            /\ run[r].status = "DAMAGE" /\ Calm(r, run[r].v) = Path /\ spent.faults = 0 =>
                 live # told[run[r].v].live

RestoreInv ==
    \A r \in Proc :
        run[r].cmd = "restore" /\ run[r].at # "load" /\ KnownVault(r)
          /\ run[r].status = "RESTORE_COMPLETE" =>
            \A p \in Past(r) \intersect Trusted(run[r].v) :
                Truth(run[r].v, p) # NoFile /\ ~(run[r].at = "copy" /\ run[r].cur = p) =>
                    live[p] = Truth(run[r].v, p)

PruneInv ==
    \A r \in Proc : run[r].cmd = "prune" /\ KnownVault(r) =>
        /\ run[r].at = "load" => \A p \in Path \ run[r].touched : live[p] = run[r].before[p]
        /\ \A p \in Calm(r, run[r].v) : Truth(run[r].v, p) # NoFile => live[p] = run[r].before[p]
        /\ run[r].at # "load" /\ run[r].status = "PRUNE_COMPLETE" =>
             \A p \in Past(r) : Truth(run[r].v, p) = NoFile => live[p] = NoFile

DiffInv ==
    \A r \in Proc :
        run[r].cmd = "diff" /\ run[r].at = "append"
          /\ {run[r].v, run[r].w} \subseteq run[r].known =>
            (run[r].status = "NO_DIFFERENCE" <=>
                NoDifference(vaults[run[r].v].rows, vaults[run[r].w].rows))

ListInv == \A r \in Proc : run[r].at = "list" => run[r].known \subseteq run[r].found

(* Each row of the ledger says what its command did. *)
LedgerInv ==
    \A i \in DOMAIN acts :
        /\ acts[i].cmd \in Commands \ {"none"} /\ Watches(acts[i])
        /\ May(acts[i].cmd, ledger[i].status)
        /\ ledger[i].event = EventOf(acts[i])
        /\ acts[i].good = (ledger[i].status = Good[acts[i].cmd])
        /\ acts[i].lost = (ledger[i].status = "UNRECOVERABLE")

-----------------------------------------------------------------------------
(* Types. *)

LEMMA GoodWords ==
  /\ Good["none"] = "-" /\ Good["seal"] = "SEALED" /\ Good["verify"] = "CLEAN"
  /\ Good["post"] = "CLEAN" /\ Good["restore"] = "RESTORE_COMPLETE"
  /\ Good["prune"] = "PRUNE_COMPLETE" /\ Good["inspect"] = "INSPECTED"
  /\ Good["recover"] = "RECOVERED" /\ Good["diff"] = "NO_DIFFERENCE"
  /\ Good["latest"] = "FOUND" /\ Good["timeline"] = "PRINTED"
  /\ Good["start"] = "STARTED" /\ Good["end"] = "WATCH_COMPLETE"
  BY DEF Good

LEMMA Words ==
  /\ \A cmd \in Commands : Good[cmd] \in Statuses /\ Bad(cmd) \in Statuses
  /\ {"-", "ERROR", "DAMAGE", "MISSING", "UNRECOVERABLE"} \subseteq Statuses
<1>1. \A cmd \in Commands : Good[cmd] \in Statuses /\ Bad(cmd) \in Statuses
  BY DEF Statuses
<1>2. Bad("seal") = "ERROR" /\ Bad("verify") = "DAMAGE"
  BY DEF Bad, Verifying
<1> QED
  BY <1>1, <1>2, GoodWords DEF Statuses, Commands, Walking, Verifying

LEMMA NoRowsTyped == NoRows \in RowTable
  BY DEF NoRows, RowTable

LEMMA IdleTyped == Idle \in Process
  BY Words, NoRowsTyped, IVaultAssumption DEF Idle, Process, Commands, Places, LiveFile

LEMMA NewTyped ==
  ASSUME TypeOK, NEW cmd \in Commands, NEW v \in 0 .. MaxVault, NEW at \in Places
  PROVE  New(cmd, v, at) \in Process
  BY IdleTyped, Words DEF New, Process, TypeOK

(* A process that goes on alone. *)
LEMMA GoesOn ==
  ASSUME run \in [Proc -> Process], NEW r \in Proc, NEW n, Goes(r, n)
  PROVE  /\ run'[r] = n
         /\ \A s \in Proc \ {r} : run'[s] = run[s]
         /\ n \in Process => run' \in [Proc -> Process]
  BY DEF Goes

(* What the others are to a step that changes the tree at p only: they keep *)
(* all they had, and those at work on the tree see it change.               *)
Disturbed(s, n, p) ==
  /\ n \in Process
  /\ n = [run[s] EXCEPT !.touched = n.touched, !.shared = n.shared]
  /\ n.touched \in {run[s].touched, run[s].touched \union {p}}
  /\ run[s].cmd \notin Walking \union {"seal", "recover"} => n = run[s]
  /\ run[s].shared => n.shared
  /\ n.shared => run[s].shared \/ (run[s].at = "copy" /\ run[s].cur = p /\ p \in n.touched)
  /\ run[s].cmd \in Walking \union {"seal", "recover"} =>
       p \in n.touched /\ (run[s].at = "copy" /\ run[s].cur = p => n.shared)

LEMMA DisturbStep ==
  ASSUME run \in [Proc -> Process], NEW R \in SUBSET Proc, NEW p \in Path,
         NEW s \in Proc \ R
  PROVE  Disturbed(s, Disturb(R, p)[s], p)
<1>1. run[s] \in Process
  OBVIOUS
<1>2. CASE run[s].cmd \notin Walking \union {"seal", "recover"}
  <2>1. Disturb(R, p)[s] = run[s]
    BY <1>2 DEF Disturb
  <2>2. run[s] = [run[s] EXCEPT !.touched = run[s].touched, !.shared = run[s].shared]
    BY <1>1 DEF Process
  <2> QED
    BY <1>1, <1>2, <2>1, <2>2 DEF Disturbed
<1>3. CASE run[s].cmd \in Walking \union {"seal", "recover"}
  <2>1. PICK b : b = (run[s].shared \/ (run[s].at = "copy" /\ run[s].cur = p))
    OBVIOUS
  <2>2. Disturb(R, p)[s] = [run[s] EXCEPT !.touched = run[s].touched \union {p}, !.shared = b]
    BY <1>3, <2>1 DEF Disturb
  <2>3. b \in BOOLEAN /\ (b <=> run[s].shared \/ (run[s].at = "copy" /\ run[s].cur = p))
    BY <1>1, <2>1 DEF Process
  <2>4. Disturb(R, p)[s] \in Process
    <3>1. ASSUME NEW x \in SUBSET Path, NEW c \in BOOLEAN
          PROVE  [run[s] EXCEPT !.touched = x, !.shared = c] \in Process
      BY <1>1 DEF Process
    <3>2. run[s].touched \union {p} \in SUBSET Path
      BY <1>1 DEF Process
    <3> QED
      BY <2>2, <2>3, <3>1, <3>2
  <2>5. Disturb(R, p)[s].touched = run[s].touched \union {p} /\ Disturb(R, p)[s].shared = b
    BY <1>1, <2>2 DEF Process
  <2> QED
    BY <1>1, <1>3, <2>2, <2>3, <2>4, <2>5 DEF Disturbed
<1> QED
  BY <1>2, <1>3

LEMMA DisturbTyped ==
  ASSUME run \in [Proc -> Process], NEW r \in Proc, NEW p \in Path, NEW n \in Process
  PROVE  /\ Disturb({}, p) \in [Proc -> Process]
         /\ [Disturb({r}, p) EXCEPT ![r] = n] \in [Proc -> Process]
<1>1. \A s \in Proc : Disturb({}, p)[s] \in Process
  <2>1. \A s \in Proc \ {} : Disturbed(s, Disturb({}, p)[s], p)
    BY DisturbStep
  <2> QED
    BY <2>1 DEF Disturbed
<1>2. \A s \in Proc \ {r} : Disturb({r}, p)[s] \in Process
  <2>1. \A s \in Proc \ {r} : Disturbed(s, Disturb({r}, p)[s], p)
    BY DisturbStep
  <2> QED
    BY <2>1 DEF Disturbed
<1>3. \A s \in Proc : Disturb({r}, p)[s] \in Process
  <2>1. Disturb({r}, p)[r] = run[r]
    BY DEF Disturb
  <2> QED
    BY <1>2, <2>1
<1> QED
  BY <1>1, <1>3 DEF Disturb

(* What every step leaves of a process s that did not take it. *)
Bystands(s) ==
  /\ run'[s] = [run[s] EXCEPT !.touched = run'[s].touched, !.shared = run'[s].shared]
  /\ run[s].touched \subseteq run'[s].touched
  /\ run[s].cmd \notin Walking \union {"seal", "recover"} => run'[s] = run[s]
  /\ run[s].shared => run'[s].shared
  /\ run'[s].shared => run[s].shared \/ (run[s].at = "copy" /\ run[s].cur \in run'[s].touched)
  /\ run[s].cmd \in Walking \union {"seal", "recover"} =>
       \A p \in Path : live'[p] # live[p] =>
         p \in run'[s].touched /\ (run[s].at = "copy" /\ run[s].cur = p => run'[s].shared)

LEMMA OthersStand ==
  ASSUME TypeOK, NEW r \in Proc, NEW n, NEW s \in Proc \ {r}
  PROVE  /\ Goes(r, n) /\ UNCHANGED live => Bystands(s)
         /\ \A p \in Path : \A b : Write(r, p, b, n) => Bystands(s)
<1>1. run \in [Proc -> Process] /\ run[s] \in Process
  BY DEF TypeOK
<1>2. ASSUME Goes(r, n), UNCHANGED live
      PROVE  Bystands(s)
  <2>1. run'[s] = run[s]
    BY <1>2, GoesOn, <1>1
  <2>2. run[s] = [run[s] EXCEPT !.touched = run[s].touched, !.shared = run[s].shared]
    BY <1>1 DEF Process
  <2> QED
    BY <1>2, <2>1, <2>2 DEF Bystands
<1>3. ASSUME NEW p \in Path, NEW b, Write(r, p, b, n)
      PROVE  Bystands(s)
  <2>1. run'[s] = Disturb({r}, p)[s]
    BY <1>3 DEF Write, Disturb
  <2>2. Disturbed(s, run'[s], p)
    BY <1>1, <2>1, DisturbStep
  <2>3. \A q \in Path : live'[q] # live[q] => q = p
    BY <1>3 DEF Write, TypeOK
  <2> QED
    BY <2>2, <2>3 DEF Disturbed, Bystands
<1> QED
  BY <1>2, <1>3

LEMMA UserStands ==
  ASSUME TypeOK, NEW p \in Path, NEW b, UserPut(p, b), NEW s \in Proc
  PROVE  Bystands(s)
<1>1. run \in [Proc -> Process] /\ run[s] \in Process
  BY DEF TypeOK
<1>2. Disturbed(s, run'[s], p)
  BY <1>1, DisturbStep DEF UserPut
<1>3. \A q \in Path : live'[q] # live[q] => q = p
  BY DEF UserPut, TypeOK
<1> QED
  BY <1>2, <1>3 DEF Disturbed, Bystands

-----------------------------------------------------------------------------
(* What a process goes on as, step by step: of its type, and shaped.        *)

Fit(n) == n \in Process /\ Shaped(n)

LEMMA Typed ==
  ASSUME TypeOK, ShapeInv, NEW r \in Proc
  PROVE  run \in [Proc -> Process] /\ run[r] \in Process /\ Shaped(run[r])
  BY DEF TypeOK, ShapeInv

LEMMA IdleFits == Fit(Idle)
  BY IdleTyped, GoodWords DEF Fit, Shaped, May, Watches, Idle, Walking, Verifying

LEMMA NewFits ==
  ASSUME TypeOK, NEW v \in 1 .. stamps
  PROVE  /\ \A cmd \in {"verify", "restore", "prune", "inspect"} : Fit(New(cmd, v, "load"))
         /\ \A w \in 1 .. stamps : Fit([New("diff", v, "load") EXCEPT !.w = w])
         /\ \A p, q \in Path : Fit([New("recover", v, "load") EXCEPT !.from = p, !.cur = q])
         /\ Fit([New("start", v, "append") EXCEPT !.watch = TRUE])
<1>1. v \in 0 .. MaxVault /\ 0 \in 0 .. MaxVault /\ stamps \in 0 .. MaxVault
  BY IVaultAssumption DEF TypeOK
<1>2. ASSUME NEW cmd \in {"verify", "restore", "prune", "inspect"}
      PROVE  Fit(New(cmd, v, "load"))
  <2>1. New(cmd, v, "load") \in Process
    BY <1>1, NewTyped DEF Commands, Walking, Verifying, Places
  <2>2. Shaped(New(cmd, v, "load"))
    BY DEF Shaped, May, Watches, New, Idle, Walking, Verifying
  <2> QED
    BY <2>1, <2>2 DEF Fit
<1>3. ASSUME NEW w \in 1 .. stamps
      PROVE  Fit([New("diff", v, "load") EXCEPT !.w = w])
  <2>1. New("diff", v, "load") \in Process
    BY <1>1, NewTyped DEF Commands, Walking, Verifying, Places
  <2>2. [New("diff", v, "load") EXCEPT !.w = w] \in Process
    <3>1. w \in 0 .. MaxVault
      BY <1>1, IVaultAssumption
    <3> QED
      BY <2>1, <3>1 DEF Process
  <2>3. Shaped([New("diff", v, "load") EXCEPT !.w = w])
    BY DEF Shaped, May, Watches, New, Idle, Walking, Verifying
  <2> QED
    BY <2>2, <2>3 DEF Fit
<1>4. ASSUME NEW p \in Path, NEW q \in Path
      PROVE  Fit([New("recover", v, "load") EXCEPT !.from = p, !.cur = q])
  <2>1. New("recover", v, "load") \in Process
    BY <1>1, NewTyped DEF Commands, Walking, Verifying, Places
  <2>2. [New("recover", v, "load") EXCEPT !.from = p, !.cur = q] \in Process
    BY <1>1, <2>1 DEF Process
  <2>3. Shaped([New("recover", v, "load") EXCEPT !.from = p, !.cur = q])
    BY DEF Shaped, May, Watches, New, Idle, Walking, Verifying
  <2> QED
    BY <2>2, <2>3 DEF Fit
<1>5. Fit([New("start", v, "append") EXCEPT !.watch = TRUE])
  <2>1. New("start", v, "append") \in Process
    BY <1>1, NewTyped DEF Commands, Walking, Verifying, Places
  <2>2. [New("start", v, "append") EXCEPT !.watch = TRUE] \in Process
    BY <1>1, <2>1 DEF Process
  <2>3. Shaped([New("start", v, "append") EXCEPT !.watch = TRUE])
    BY DEF Shaped, May, Watches, New, Idle, Walking, Verifying
  <2> QED
    BY <2>2, <2>3 DEF Fit
<1> QED
  BY <1>2, <1>3, <1>4, <1>5

LEMMA ListFits ==
  ASSUME TypeOK, NEW cmd \in {"latest", "timeline"}
  PROVE  Fit([New(cmd, 0, "list") EXCEPT !.found = HasManifest])
<1>0. 0 \in 0 .. MaxVault
  BY IVaultAssumption
<1>1. New(cmd, 0, "list") \in Process
  BY <1>0, NewTyped DEF Commands, Walking, Verifying, Places
<1>2. [New(cmd, 0, "list") EXCEPT !.found = HasManifest] \in Process
  BY <1>1 DEF Process, HasManifest
<1>3. Shaped([New(cmd, 0, "list") EXCEPT !.found = HasManifest])
  BY DEF Shaped, May, Watches, New, Idle, Walking, Verifying
<1> QED
  BY <1>2, <1>3 DEF Fit

(* The steps of a seal that do not write the vault's rows or blobs. *)
LEMMA SealFits ==
  ASSUME TypeOK, ShapeInv, NEW r \in Proc, NEW p
  PROVE  /\ run[r].at = "open" =>
              Fit([run[r] EXCEPT !.at = "walk", !.todo = Path \ Skipped, !.before = live,
                                 !.touched = {}])
         /\ AtEntry(r, "seal", p) =>
              /\ Fit([run[r] EXCEPT !.todo = @ \ {p}])
              /\ Fit([run[r] EXCEPT !.todo = @ \ {p}, !.status = "ERROR"])
              /\ live[p] \in Bytes =>
                   Fit([run[r] EXCEPT !.todo = @ \ {p}, !.at = "store", !.cur = p,
                                      !.size = SizeOf[live[p]]])
         /\ run[r].cmd = "seal" /\ run[r].at = "walk" =>
              /\ Fit([run[r] EXCEPT !.at = "append", !.rows = NoRows, !.bad = FALSE,
                                    !.lost = FALSE])
              /\ \A S : Fit([run[r] EXCEPT !.todo = @ \ S, !.lost = TRUE])
         /\ run[r].at = "store" =>
              \A h \in HashId : Fit([run[r] EXCEPT !.hash = h])
<1>1. run \in [Proc -> Process] /\ run[r] \in Process /\ Shaped(run[r])
  BY Typed
<1>2. live \in [Path -> LiveFile] /\ run[r].todo \ {p} \in SUBSET Path
  BY <1>1 DEF TypeOK, Process
<1>3. ASSUME run[r].at = "open"
      PROVE  Fit([run[r] EXCEPT !.at = "walk", !.todo = Path \ Skipped, !.before = live,
                                !.touched = {}])
  <2>1. [run[r] EXCEPT !.at = "walk", !.todo = Path \ Skipped, !.before = live,
                       !.touched = {}] \in Process
    BY <1>1, <1>2 DEF Process, Places
  <2>2. Shaped([run[r] EXCEPT !.at = "walk", !.todo = Path \ Skipped, !.before = live,
                              !.touched = {}])
    BY <1>1, <1>3 DEF Process, Shaped, Walking, Verifying, Watches
  <2> QED
    BY <2>1, <2>2 DEF Fit
<1>4. ASSUME AtEntry(r, "seal", p)
      PROVE  Fit([run[r] EXCEPT !.todo = @ \ {p}])
  <2>1. [run[r] EXCEPT !.todo = @ \ {p}] \in Process
    BY <1>1, <1>2, <1>4 DEF Process, Places, AtEntry
  <2>2. Shaped([run[r] EXCEPT !.todo = @ \ {p}])
    BY <1>1, <1>4 DEF Process, Shaped, May, Bad, Watches, Walking, Verifying, AtEntry
  <2> QED
    BY <2>1, <2>2 DEF Fit
<1>5. ASSUME AtEntry(r, "seal", p)
      PROVE  Fit([run[r] EXCEPT !.todo = @ \ {p}, !.status = "ERROR"])
  <2>1. [run[r] EXCEPT !.todo = @ \ {p}, !.status = "ERROR"] \in Process
    BY <1>1, <1>2, Words, <1>5 DEF Process, Places, AtEntry
  <2>2. Shaped([run[r] EXCEPT !.todo = @ \ {p}, !.status = "ERROR"])
    BY <1>1, Words, <1>5 DEF Process, Shaped, May, Bad, Watches, Walking, Verifying, AtEntry
  <2> QED
    BY <2>1, <2>2 DEF Fit
<1>6. ASSUME AtEntry(r, "seal", p), live[p] \in Bytes
      PROVE  Fit([run[r] EXCEPT !.todo = @ \ {p}, !.at = "store", !.cur = p,
                                      !.size = SizeOf[live[p]]])
  <2>1. [run[r] EXCEPT !.todo = @ \ {p}, !.at = "store", !.cur = p,
                                      !.size = SizeOf[live[p]]] \in Process
    BY <1>1, <1>2, SizeAssumption, <1>6 DEF Process, Places, AtEntry
  <2>2. Shaped([run[r] EXCEPT !.todo = @ \ {p}, !.at = "store", !.cur = p,
                                      !.size = SizeOf[live[p]]])
    BY <1>1, SizeAssumption, <1>6 DEF Process, Shaped, May, Bad, Watches, Walking, Verifying,
       AtEntry
  <2> QED
    BY <2>1, <2>2 DEF Fit
<1>7. ASSUME run[r].cmd = "seal", run[r].at = "walk"
      PROVE  Fit([run[r] EXCEPT !.at = "append", !.rows = NoRows, !.bad = FALSE, !.lost = FALSE])
  <2>1. [run[r] EXCEPT !.at = "append", !.rows = NoRows, !.bad = FALSE, !.lost = FALSE]
           \in Process
    BY <1>1, <1>2, NoRowsTyped, <1>7 DEF Process, Places, AtEntry
  <2>2. Shaped([run[r] EXCEPT !.at = "append", !.rows = NoRows, !.bad = FALSE, !.lost = FALSE])
    BY <1>1, NoRowsTyped, <1>7 DEF Process, Shaped, May, Bad, Watches, Walking, Verifying, AtEntry
  <2> QED
    BY <2>1, <2>2 DEF Fit
<1>8. ASSUME run[r].cmd = "seal", run[r].at = "walk", NEW S
      PROVE  Fit([run[r] EXCEPT !.todo = @ \ S, !.lost = TRUE])
  <2>1. run[r].todo \ S \in SUBSET Path
    BY <1>1 DEF Process
  <2>2. [run[r] EXCEPT !.todo = @ \ S, !.lost = TRUE] \in Process
    BY <1>1, <1>8, <2>1 DEF Process
  <2>3. Shaped([run[r] EXCEPT !.todo = @ \ S, !.lost = TRUE])
    BY <1>1, <1>8 DEF Process, Shaped, May, Bad, Watches, Walking, Verifying
  <2> QED
    BY <2>2, <2>3 DEF Fit
<1>9. ASSUME run[r].at = "store", NEW h \in HashId
      PROVE  Fit([run[r] EXCEPT !.hash = h])
  <2>1. [run[r] EXCEPT !.hash = h] \in Process
    BY <1>1 DEF Process
  <2>2. Shaped([run[r] EXCEPT !.hash = h])
    BY <1>1, <1>9 DEF Process, Shaped, May, Bad, Watches, Walking, Verifying
  <2> QED
    BY <2>1, <2>2 DEF Fit
<1> QED
  BY <1>3, <1>4, <1>5, <1>6, <1>7, <1>8, <1>9

(* Loading a manifest, or failing to. *)
LEMMA LoadFits ==
  ASSUME TypeOK, ShapeInv, NEW r \in Proc, run[r].at = "load"
  PROVE  /\ \A m \in VaultDir : Fit(Loaded(r, m))
         /\ run[r].cmd # "diff" =>
              Fit([run[r] EXCEPT !.at = "append", !.status = Bad(run[r].cmd)])
<1>1. run[r] \in Process /\ Shaped(run[r])
  BY Typed
<1>2. run[r].cmd \in Walking \union {"inspect", "recover", "diff"}
  BY <1>1 DEF Shaped
<1>3. ASSUME NEW m \in VaultDir
      PROVE  Fit(Loaded(r, m))
  <2>1. m.rows \in RowTable /\ Filed(m.rows) \in SUBSET Path /\ Path \in SUBSET Path
    BY DEF VaultDir, Filed
  <2>2. CASE run[r].cmd \in Walking
    <3>1. PICK x \in SUBSET Path : x = IF run[r].cmd = "restore" THEN Filed(m.rows) ELSE Path
      BY <2>1
    <3>2. Loaded(r, m) = [run[r] EXCEPT !.rows = m.rows, !.at = "walk", !.todo = x]
      BY <1>1, <2>2, <3>1 DEF Loaded, Process, Walking, Verifying
    <3>3. [run[r] EXCEPT !.rows = m.rows, !.at = "walk", !.todo = x] \in Process
      BY <1>1, <2>1 DEF Process, Places
    <3>4. Shaped([run[r] EXCEPT !.rows = m.rows, !.at = "walk", !.todo = x])
      BY <1>1, <2>1, <2>2, <3>1 DEF Process, Shaped, May, Bad, Watches, Walking, Verifying
    <3> QED
      BY <3>2, <3>3, <3>4 DEF Fit
  <2>3. CASE run[r].cmd = "inspect"
    <3>1. Loaded(r, m) = [run[r] EXCEPT !.at = "append"]
      BY <1>1, <2>3 DEF Loaded, Process, Walking, Verifying
    <3>2. [run[r] EXCEPT !.at = "append"] \in Process
      BY <1>1 DEF Process, Places
    <3>3. Shaped([run[r] EXCEPT !.at = "append"])
      BY <1>1, <2>3 DEF Process, Shaped, May, Bad, Watches, Walking, Verifying
    <3> QED
      BY <3>1, <3>2, <3>3 DEF Fit
  <2>4. CASE run[r].cmd = "diff"
    <3>1. Loaded(r, m) = [run[r] EXCEPT !.rows = m.rows, !.at = "load2"]
      BY <1>1, <2>4 DEF Loaded, Process, Walking, Verifying
    <3>2. [run[r] EXCEPT !.rows = m.rows, !.at = "load2"] \in Process
      BY <1>1, <2>1 DEF Process, Places
    <3>3. Shaped([run[r] EXCEPT !.rows = m.rows, !.at = "load2"])
      BY <1>1, <2>4 DEF Process, Shaped, May, Bad, Watches, Walking, Verifying
    <3> QED
      BY <3>1, <3>2, <3>3 DEF Fit
  <2>5. CASE run[r].cmd = "recover"
    <3>1. \/ /\ m.rows[run[r].from] # NoRow
             /\ Loaded(r, m) = [run[r] EXCEPT !.rows = m.rows, !.at = "open out"]
          \/ Loaded(r, m) = [run[r] EXCEPT !.at = "append", !.status = "MISSING"]
          \/ Loaded(r, m) = [run[r] EXCEPT !.at = "append", !.status = "UNRECOVERABLE"]
      BY <1>1, <2>5 DEF Loaded, Process, Walking, Verifying
    <3>2. \A word \in {"MISSING", "UNRECOVERABLE"} :
            [run[r] EXCEPT !.at = "append", !.status = word] \in Process
      BY <1>1, Words DEF Process, Places
    <3>3. \A word \in {"MISSING", "UNRECOVERABLE"} :
            Shaped([run[r] EXCEPT !.at = "append", !.status = word])
      BY <1>1, <2>5 DEF Process, Shaped, May, Bad, Watches, Walking, Verifying
    <3>4. [run[r] EXCEPT !.rows = m.rows, !.at = "open out"] \in Process
      BY <1>1, <2>1 DEF Process, Places
    <3>5. m.rows[run[r].from] # NoRow =>
            Shaped([run[r] EXCEPT !.rows = m.rows, !.at = "open out"])
      BY <1>1, <2>1, <2>5 DEF Process, Shaped, May, Bad, Watches, Walking, Verifying, Filed
    <3> QED
      BY <3>1, <3>2, <3>3, <3>4, <3>5 DEF Fit
  <2> QED
    BY <1>2, <2>2, <2>3, <2>4, <2>5
<1>4. ASSUME run[r].cmd # "diff"
      PROVE  Fit([run[r] EXCEPT !.at = "append", !.status = Bad(run[r].cmd)])
  <2>1. [run[r] EXCEPT !.at = "append", !.status = Bad(run[r].cmd)] \in Process
    BY <1>1, <1>2, Words, <1>4 DEF Process, Places
  <2>2. Shaped([run[r] EXCEPT !.at = "append", !.status = Bad(run[r].cmd)])
    BY <1>1, <1>2, Words, <1>4 DEF Process, Shaped, May, Bad, Watches, Walking, Verifying
  <2> QED
    BY <2>1, <2>2 DEF Fit
<1> QED
  BY <1>3, <1>4

(* The second manifest of diff, and the list of vaults. *)
LEMMA DiffListFits ==
  ASSUME TypeOK, ShapeInv, NEW r \in Proc
  PROVE  /\ run[r].at = "load2" =>
              \A m \in RowTable :
                Fit([run[r] EXCEPT !.rows = NoRows, !.at = "append",
                       !.status = IF NoDifference(run[r].rows, m) THEN @ ELSE Bad("diff")])
         /\ run[r].cmd = "latest" /\ run[r].at = "list" =>
              \A v \in Vault : Fit([run[r] EXCEPT !.at = "append", !.v = v, !.found = {}])
         /\ run[r].cmd = "timeline" /\ run[r].at = "list" =>
              \A S \in SUBSET Vault :
                Fit([run[r] EXCEPT !.at = "append", !.found = {v \in S : Loads(v)}])
<1>1. run[r] \in Process /\ Shaped(run[r])
  BY Typed
<1>2. Vault \subseteq 0 .. MaxVault
  BY IVaultAssumption DEF Vault
<1>3. ASSUME run[r].at = "load2", NEW m \in RowTable
      PROVE  Fit([run[r] EXCEPT !.rows = NoRows, !.at = "append",
                       !.status = IF NoDifference(run[r].rows, m) THEN @ ELSE Bad("diff")])
  <2>1. PICK st : st = IF NoDifference(run[r].rows, m) THEN run[r].status ELSE Bad("diff")
    OBVIOUS
  <2>2. run[r].cmd = "diff" /\ run[r].status \in Statuses /\ Bad("diff") \in Statuses
    BY <1>1, <1>3, Words DEF Process, Shaped, Commands
  <2>3. st \in Statuses /\ st \in {run[r].status, Bad("diff")}
    BY <2>1, <2>2
  <2> DEFINE n == [run[r] EXCEPT !.rows = NoRows, !.at = "append", !.status = st]
  <2>4. n \in Process
    BY <1>1, <2>3, NoRowsTyped DEF Process, Places
  <2>5. Shaped(n)
    BY <1>1, <1>2, <1>3, <2>2, <2>3, NoRowsTyped DEF Process, Shaped, May, Bad, Watches,
       Walking, Verifying
  <2> QED
    BY <2>1, <2>4, <2>5 DEF Fit
<1>4. ASSUME run[r].cmd = "latest", run[r].at = "list", NEW v \in Vault
      PROVE  Fit([run[r] EXCEPT !.at = "append", !.v = v, !.found = {}])
  <2>1. [run[r] EXCEPT !.at = "append", !.v = v, !.found = {}] \in Process
    BY <1>1, <1>2, <1>4 DEF Process, Places
  <2>2. Shaped([run[r] EXCEPT !.at = "append", !.v = v, !.found = {}])
    BY <1>1, <1>2, <1>4 DEF Process, Shaped, May, Bad, Watches, Walking, Verifying
  <2> QED
    BY <2>1, <2>2 DEF Fit
<1>5. ASSUME run[r].cmd = "timeline", run[r].at = "list", NEW S \in SUBSET Vault
      PROVE  Fit([run[r] EXCEPT !.at = "append", !.found = {v \in S : Loads(v)}])
  <2>1. [run[r] EXCEPT !.at = "append", !.found = {v \in S : Loads(v)}] \in Process
    BY <1>1, <1>2, <1>5 DEF Process, Places
  <2>2. Shaped([run[r] EXCEPT !.at = "append", !.found = {v \in S : Loads(v)}])
    BY <1>1, <1>2, <1>5 DEF Process, Shaped, May, Bad, Watches, Walking, Verifying
  <2> QED
    BY <2>1, <2>2 DEF Fit
<1> QED
  BY <1>3, <1>4, <1>5

(* The walks of verify, restore and prune. *)
LEMMA WalkFits ==
  ASSUME TypeOK, ShapeInv, NEW r \in Proc, run[r].cmd \in Walking, run[r].at = "walk"
  PROVE  /\ \A p \in Path, word \in Statuses : May(run[r].cmd, word) =>
              Fit([run[r] EXCEPT !.todo = @ \ {p}, !.status = word])
         /\ \A p \in run[r].todo : run[r].cmd = "restore" =>
              Fit([run[r] EXCEPT !.todo = @ \ {p}, !.at = "copy", !.from = p, !.cur = p])
         /\ run[r].todo = {} => Fit([run[r] EXCEPT !.at = "append", !.rows = NoRows])
<1>1. run[r] \in Process /\ Shaped(run[r])
  BY Typed
<1>2. \A p : run[r].todo \ {p} \in SUBSET Path
  BY <1>1 DEF Process
<1>3. ASSUME NEW p \in Path, NEW word \in Statuses, May(run[r].cmd, word)
      PROVE  Fit([run[r] EXCEPT !.todo = @ \ {p}, !.status = word])
  <2>1. [run[r] EXCEPT !.todo = @ \ {p}, !.status = word] \in Process
    BY <1>1, <1>2, <1>3 DEF Process, Places
  <2>2. Shaped([run[r] EXCEPT !.todo = @ \ {p}, !.status = word])
    BY <1>1, <1>2, <1>3 DEF Process, Shaped, May, Bad, Watches, Walking, Verifying
  <2> QED
    BY <2>1, <2>2 DEF Fit
<1>4. ASSUME NEW p \in run[r].todo, run[r].cmd = "restore"
      PROVE  Fit([run[r] EXCEPT !.todo = @ \ {p}, !.at = "copy", !.from = p, !.cur = p])
  <2>1. [run[r] EXCEPT !.todo = @ \ {p}, !.at = "copy", !.from = p, !.cur = p] \in Process
    BY <1>1, <1>2, <1>4 DEF Process, Places
  <2>2. Shaped([run[r] EXCEPT !.todo = @ \ {p}, !.at = "copy", !.from = p, !.cur = p])
    BY <1>1, <1>2, <1>4 DEF Process, Shaped, May, Bad, Watches, Walking, Verifying
  <2> QED
    BY <2>1, <2>2 DEF Fit
<1>5. ASSUME run[r].todo = {}
      PROVE  Fit([run[r] EXCEPT !.at = "append", !.rows = NoRows])
  <2>1. [run[r] EXCEPT !.at = "append", !.rows = NoRows] \in Process
    BY <1>1, <1>2, NoRowsTyped, <1>5 DEF Process, Places
  <2>2. Shaped([run[r] EXCEPT !.at = "append", !.rows = NoRows])
    BY <1>1, <1>2, NoRowsTyped, <1>5 DEF Process, Shaped, May, Bad, Watches, Walking, Verifying
  <2> QED
    BY <2>1, <2>2 DEF Fit
<1> QED
  BY <1>3, <1>4, <1>5

(* The copy of a blob, in restore and recover-file. *)
LEMMA CopyFits ==
  ASSUME TypeOK, ShapeInv, NEW r \in Proc
  PROVE  /\ run[r].at = "open out" => Fit([run[r] EXCEPT !.at = "copy"])
         /\ run[r].at = "copy" =>
              Fit(AfterCopy(r)) /\ Fit([AfterCopy(r) EXCEPT !.status = "ERROR"])
<1>1. run[r] \in Process /\ Shaped(run[r])
  BY Typed
<1>2. run[r].at = "copy" => run[r].cmd \in {"restore", "recover"}
  BY <1>1 DEF Shaped
<1>3. ASSUME run[r].at = "open out"
      PROVE  Fit([run[r] EXCEPT !.at = "copy"])
  <2>1. [run[r] EXCEPT !.at = "copy"] \in Process
    BY <1>1, <1>2, <1>3 DEF Process, Places
  <2>2. Shaped([run[r] EXCEPT !.at = "copy"])
    BY <1>1, <1>2, <1>3 DEF Process, Shaped, May, Bad, Watches, Walking, Verifying
  <2> QED
    BY <2>1, <2>2 DEF Fit
<1>4. ASSUME run[r].at = "copy", run[r].cmd = "recover"
      PROVE  Fit(AfterCopy(r)) /\ Fit([AfterCopy(r) EXCEPT !.status = "ERROR"])
  <2>1. AfterCopy(r) = [run[r] EXCEPT !.at = "append", !.rows = NoRows]
    BY <1>4 DEF AfterCopy
  <2>2. AfterCopy(r) \in Process
    BY <1>1, <2>1, NoRowsTyped DEF Process, Places
  <2>3. [AfterCopy(r) EXCEPT !.status = "ERROR"] \in Process
    BY <2>2, Words DEF Process
  <2>4. Shaped(AfterCopy(r))
    BY <1>1, <1>4, <2>1 DEF Process, Shaped, May, Bad, Watches, Walking, Verifying
  <2>5. Shaped([AfterCopy(r) EXCEPT !.status = "ERROR"])
    BY <1>4, <2>1, <2>2, <2>4, <1>1 DEF Process, Shaped, May, Bad, Watches, Walking, Verifying
  <2> QED
    BY <2>2, <2>3, <2>4, <2>5 DEF Fit
<1>5. ASSUME run[r].at = "copy", run[r].cmd = "restore"
      PROVE  Fit(AfterCopy(r)) /\ Fit([AfterCopy(r) EXCEPT !.status = "ERROR"])
  <2>1. AfterCopy(r) = [run[r] EXCEPT !.at = "walk", !.from = NoPath, !.cur = NoPath,
                                      !.shared = FALSE]
    BY <1>5 DEF AfterCopy
  <2>2. AfterCopy(r) \in Process
    BY <1>1, <2>1 DEF Process, Places
  <2>3. [AfterCopy(r) EXCEPT !.status = "ERROR"] \in Process
    BY <2>2, Words DEF Process
  <2>4. Shaped(AfterCopy(r))
    BY <1>1, <1>5, <2>1 DEF Process, Shaped, May, Bad, Watches, Walking, Verifying
  <2>5. Shaped([AfterCopy(r) EXCEPT !.status = "ERROR"])
    BY <1>5, <2>1, <2>2, <2>4, <1>1 DEF Process, Shaped, May, Bad, Watches, Walking, Verifying
  <2> QED
    BY <2>2, <2>3, <2>4, <2>5 DEF Fit
<1> QED
  BY <1>2, <1>3, <1>4, <1>5

(* What comes after a row of the ledger. *)
LEMMA ContinuedFits ==
  ASSUME TypeOK, ShapeInv, NEW r \in Proc, run[r].at = "append"
  PROVE  Fit(Continued(run[r]))
<1>1. run[r] \in Process /\ Shaped(run[r])
  BY Typed
<1>2. CASE ~run[r].watch \/ run[r].cmd = "end"
  BY <1>2, IdleFits DEF Continued
<1>3. CASE run[r].watch /\ run[r].cmd # "end"
  <2>1. /\ run[r].cmd \in Walking \union {"start"} /\ run[r].v \in 1 .. stamps
        /\ run[r].v \in 0 .. MaxVault
    BY <1>1, <1>3 DEF Shaped, Watches, Process, Walking, Verifying
  <2>2. Following(run[r]) \in Walking \union {"end"}
    BY <2>1 DEF Following, Walking, Verifying
  <2>3. CASE Following(run[r]) = "end"
    <3>1. PICK word \in {Good["end"], Bad("end")} :
            Continued(run[r]) = [New("end", run[r].v, "append") EXCEPT !.watch = TRUE,
                                                                      !.status = word]
      <4>1. ASSUME NEW e \in BOOLEAN
            PROVE  [New("end", run[r].v, "append") EXCEPT
                      !.watch = TRUE, !.status = IF e THEN Bad("end") ELSE @] \in
                     {[New("end", run[r].v, "append") EXCEPT !.watch = TRUE, !.status = word] :
                        word \in {Good["end"], Bad("end")}}
        BY DEF New, Idle
      <4> QED
        BY <1>3, <2>3, <4>1 DEF Continued
    <3>2. New("end", run[r].v, "append") \in Process
      BY <2>1, NewTyped DEF Commands, Places
    <3>3. Continued(run[r]) \in Process
      <4>1. word \in Statuses
        BY Words DEF Commands
      <4> QED
        BY <3>1, <3>2, <4>1 DEF Process
    <3>4. Shaped(Continued(run[r]))
      BY <2>1, <3>1 DEF Shaped, May, Watches, New, Idle, Walking, Verifying
    <3> QED
      BY <3>3, <3>4 DEF Fit
  <2>4. CASE Following(run[r]) \in Walking
    <3>1. PICK errs \in BOOLEAN :
            Continued(run[r]) = [New(Following(run[r]), run[r].v, "load") EXCEPT
                                   !.watch = TRUE, !.errs = errs]
      BY <1>3, <2>4, <1>1 DEF Continued, Walking, Verifying, Process
    <3>2. New(Following(run[r]), run[r].v, "load") \in Process
      BY <2>1, <2>4, NewTyped DEF Commands, Places
    <3>3. Continued(run[r]) \in Process
      BY <3>1, <3>2 DEF Process
    <3>4. Shaped(Continued(run[r]))
      BY <2>1, <2>4, <3>1 DEF Shaped, May, Watches, New, Idle, Walking, Verifying
    <3> QED
      BY <3>3, <3>4 DEF Fit
  <2> QED
    BY <2>2, <2>3, <2>4
<1> QED
  BY <1>2, <1>3

-----------------------------------------------------------------------------
(* Every step, as its own process and the others see it. *)

Sound(r) ==
  /\ run' \in [Proc -> Process] /\ Shaped(run[r])'
  /\ \A s \in Proc \ {r} : Bystands(s)

LEMMA FitIsSound ==
  ASSUME TypeOK, NEW r \in Proc, NEW n, Fit(n), stamps' = stamps,
         (Goes(r, n) /\ UNCHANGED live) \/ \E p \in Path : \E b : Write(r, p, b, n)
  PROVE  Sound(r)
<1>1. run \in [Proc -> Process] /\ n \in Process /\ Shaped(n)
  BY DEF TypeOK, Fit
<1>2. \A s \in Proc \ {r} : Bystands(s)
  BY OthersStand
<1>3. run' \in [Proc -> Process] /\ run'[r] = n
  <2>1. CASE Goes(r, n)
    BY <1>1, <2>1, GoesOn
  <2>2. CASE \E p \in Path : \E b : Write(r, p, b, n)
    <3>1. PICK p \in Path : \E b : Write(r, p, b, n)
      BY <2>2
    <3>2. run' = [Disturb({r}, p) EXCEPT ![r] = n]
      BY <3>1 DEF Write
    <3>3. run' \in [Proc -> Process]
      BY <1>1, <3>2, DisturbTyped
    <3> QED
      BY <3>2, <3>3 DEF Disturb
  <2> QED
    BY <2>1, <2>2
<1>4. Shaped(run[r])'
  BY <1>1, <1>3 DEF Shaped
<1> QED
  BY <1>2, <1>3, <1>4 DEF Sound

LEMMA BeginsSound ==
  ASSUME TypeOK, ShapeInv, NEW r \in Proc,
         \/ SealBegin(r)
         \/ \E v \in 1 .. stamps : \/ \E cmd \in {"verify", "restore", "prune", "inspect"} :
                                        HealBegin(r, cmd, v)
                                   \/ \E w \in 1 .. stamps : DiffBegin(r, v, w)
                                   \/ \E p, q \in Path : RecoverBegin(r, v, p, q)
                                   \/ WatchBegin(r, v)
         \/ \E cmd \in {"latest", "timeline"} : ListBegin(r, cmd)
  PROVE  Sound(r)
<1>1. CASE SealBegin(r)
  <2>1. Goes(r, New("seal", stamps + 1, "open")) /\ UNCHANGED live /\ stamps' = stamps + 1
    BY <1>1 DEF SealBegin, Begin
  <2>2. stamps \in Nat /\ stamps + 1 \in 0 .. MaxVault /\ stamps + 1 \in 1 .. stamps'
    BY <1>1, <2>1, IVaultAssumption DEF SealBegin, TypeOK
  <2>3. New("seal", stamps + 1, "open") \in Process
    BY <2>2, NewTyped DEF Commands, Places
  <2>4. run' \in [Proc -> Process] /\ run'[r] = New("seal", stamps + 1, "open")
    BY <2>1, <2>3, Typed, GoesOn
  <2>5. Shaped(run[r])'
    <3>1. PICK n : n = New("seal", stamps + 1, "open")
      OBVIOUS
    <3>2. /\ n.cmd = "seal" /\ n.at = "open" /\ n.v = stamps + 1
          /\ n.status = Good["seal"] /\ n.watch = FALSE /\ n.shared = FALSE
          /\ n.rows = NoRows /\ n.cur = NoPath /\ n.hash = NoRow /\ n.bad = FALSE
      BY <3>1 DEF New, Idle
    <3>3. Shaped(n)'
      BY <2>2, <3>2 DEF Shaped, May, Watches, Walking, Verifying
    <3> QED
      BY <2>4, <3>1, <3>3
  <2>6. \A s \in Proc \ {r} : Bystands(s)
    BY <2>1, OthersStand
  <2> QED
    BY <2>4, <2>5, <2>6 DEF Sound
<1>2. ASSUME NEW v \in 1 .. stamps, NEW cmd \in {"verify", "restore", "prune", "inspect"},
             HealBegin(r, cmd, v)
      PROVE  Sound(r)
  <2>1. Fit(New(cmd, v, "load"))
    BY NewFits
  <2> QED
    BY <1>2, <2>1, FitIsSound DEF HealBegin, Begin
<1>3. ASSUME NEW v \in 1 .. stamps, NEW w \in 1 .. stamps, DiffBegin(r, v, w)
      PROVE  Sound(r)
  <2>1. Fit([New("diff", v, "load") EXCEPT !.w = w])
    BY NewFits
  <2> QED
    BY <1>3, <2>1, FitIsSound DEF DiffBegin, Begin
<1>4. ASSUME NEW v \in 1 .. stamps, NEW p \in Path, NEW q \in Path, RecoverBegin(r, v, p, q)
      PROVE  Sound(r)
  <2>1. Fit([New("recover", v, "load") EXCEPT !.from = p, !.cur = q])
    BY NewFits
  <2> QED
    BY <1>4, <2>1, FitIsSound DEF RecoverBegin, Begin
<1>5. ASSUME NEW v \in 1 .. stamps, WatchBegin(r, v)
      PROVE  Sound(r)
  <2>1. Fit([New("start", v, "append") EXCEPT !.watch = TRUE])
    BY NewFits
  <2> QED
    BY <1>5, <2>1, FitIsSound DEF WatchBegin, Begin
<1>6. ASSUME NEW cmd \in {"latest", "timeline"}, ListBegin(r, cmd)
      PROVE  Sound(r)
  <2>1. Fit([New(cmd, 0, "list") EXCEPT !.found = HasManifest])
    BY ListFits
  <2> QED
    BY <1>6, <2>1, FitIsSound DEF ListBegin, Begin
<1> QED
  BY <1>1, <1>2, <1>3, <1>4, <1>5, <1>6

(* A store: the row the file gets is a row of its own, the rest is as a     *)
(* walk leaves it.                                                          *)
(* A seal that is through with a file: its rows from then on, whether one   *)
(* of them is broken, whether a flush failed, and what it will report.      *)
After(n, t, b, l, st) ==
  [n EXCEPT !.at = "walk", !.cur = NoPath, !.size = NoRow, !.hash = NoRow, !.rows = t,
            !.bad = b, !.lost = l, !.status = st]

LEMMA AfterIs ==
  ASSUME NEW n \in Process, Shaped(n), n.cmd = "seal", NEW t \in RowTable,
         NEW b \in BOOLEAN, NEW l \in BOOLEAN, b => l, NEW st \in {n.status, "ERROR"}
  PROVE  /\ Fit(After(n, t, b, l, st))
         /\ After(n, t, b, l, st).at = "walk" /\ After(n, t, b, l, st).cur = NoPath
         /\ After(n, t, b, l, st).hash = NoRow
         /\ After(n, t, b, l, st).rows = t /\ After(n, t, b, l, st).status = st
         /\ After(n, t, b, l, st).lost = l
         /\ After(n, t, b, l, st).v = n.v /\ After(n, t, b, l, st).todo = n.todo
         /\ After(n, t, b, l, st).before = n.before
         /\ After(n, t, b, l, st).touched = n.touched
<1>1. After(n, t, b, l, st) \in Process
  BY Words DEF After, Process, Places
<1>2. May(n.cmd, st)
  BY DEF May, Bad, Shaped, Verifying
<1>3. /\ After(n, t, b, l, st).at = "walk" /\ After(n, t, b, l, st).cur = NoPath
      /\ After(n, t, b, l, st).hash = NoRow
      /\ After(n, t, b, l, st).rows = t /\ After(n, t, b, l, st).status = st
      /\ After(n, t, b, l, st).lost = l /\ After(n, t, b, l, st).bad = b
      /\ After(n, t, b, l, st).v = n.v /\ After(n, t, b, l, st).todo = n.todo
      /\ After(n, t, b, l, st).before = n.before
      /\ After(n, t, b, l, st).touched = n.touched /\ After(n, t, b, l, st).cmd = n.cmd
      /\ After(n, t, b, l, st).watch = n.watch /\ After(n, t, b, l, st).shared = n.shared
  BY DEF After, Process
<1>4. Shaped(After(n, t, b, l, st))
  <2> HIDE DEF After
  <2> QED
    BY <1>2, <1>3 DEF Shaped, Watches, Walking, Verifying
<1> QED
  BY <1>1, <1>3, <1>4 DEF Fit

LEMMA StoreTyped ==
  ASSUME TypeOK, ShapeInv, NEW r \in Proc, run[r].at = "store"
  PROVE  /\ run[r] \in Process /\ Shaped(run[r]) /\ run[r].cmd = "seal"
         /\ run[r].v \in Vault /\ run[r].cur \in Path /\ run[r].size \in SizeId
         /\ vaults[run[r].v] \in VaultDir /\ live[run[r].cur] \in LiveFile
         /\ \A h \in HashId :
              /\ [hash |-> h, size |-> run[r].size] \in FileRow
              /\ [run[r].rows EXCEPT ![run[r].cur] = [hash |-> h, size |-> run[r].size]]
                   \in RowTable
<1>1. run[r] \in Process /\ Shaped(run[r])
  BY Typed
<1>2. run[r].cmd = "seal" /\ run[r].cur \in Path /\ run[r].size \in SizeId
      /\ run[r].v \in 1 .. stamps
  BY <1>1 DEF Shaped, TypeOK
<1>3. run[r].v \in Vault /\ live[run[r].cur] \in LiveFile
  BY <1>2, IVaultAssumption DEF TypeOK, Vault
<1>4. vaults[run[r].v] \in VaultDir
  BY <1>2, <1>3 DEF TypeOK
<1>5. ASSUME NEW row \in FileRow
      PROVE  [run[r].rows EXCEPT ![run[r].cur] = row] \in RowTable
  BY <1>1, <1>2 DEF RowTable, Process
<1> QED
  BY <1>1, <1>2, <1>3, <1>4, <1>5 DEF FileRow

(* What the step that makes the blob and the row comes to. *)
StoreMakes(r, full, m) ==
  LET v == run[r].v  h == run[r].hash IN
  /\ vaults' = [vaults EXCEPT ![v] = m]
  /\ \A k \in HashId : m.blobs[k] = IF k = h /\ vaults[v].blobs[k] = NoFile
                                    THEN live[run[r].cur] ELSE vaults[v].blobs[k]
  /\ m.blobs[h] # NoFile
  /\ \/ Goes(r, After(run[r], full, run[r].bad, run[r].lost, run[r].status))
     \/ \E t \in RowTable, b \in BOOLEAN : Goes(r, After(run[r], t, b, TRUE, run[r].status))

LEMMA StoreIs ==
  ASSUME TypeOK, ShapeInv, NEW r \in Proc, SealStore(r)
  PROVE  LET row  == [hash |-> run[r].hash, size |-> run[r].size]
             full == [run[r].rows EXCEPT ![run[r].cur] = row]
         IN  /\ run[r].hash \in HashId /\ row \in FileRow /\ full \in RowTable
             /\ UNCHANGED <<live, stamps, told>>
             /\ \/ /\ UNCHANGED vaults
                   /\ Goes(r, After(run[r], run[r].rows, run[r].bad, run[r].lost, "ERROR"))
                \/ \E m \in VaultDir : StoreMakes(r, full, m)
<1> DEFINE row  == [hash |-> run[r].hash, size |-> run[r].size]
           full == [run[r].rows EXCEPT ![run[r].cur] = row]
           v == run[r].v  h == run[r].hash  p == run[r].cur
           m == [vaults[v] EXCEPT !.blobs[h] = IF @ = NoFile THEN live[p] ELSE @]
<1>1. /\ run[r] \in Process /\ Shaped(run[r]) /\ v \in Vault /\ p \in Path
      /\ vaults[v] \in VaultDir /\ live[p] \in LiveFile /\ h \in HashId
      /\ row \in FileRow /\ full \in RowTable
  <2>1. run[r].at = "store" /\ h # NoRow
    BY DEF SealStore
  <2>2. h \in HashId
    BY <2>1, StoreTyped DEF Process
  <2> QED
    BY <2>1, <2>2, StoreTyped
<1>2. UNCHANGED <<live, stamps, told>>
  BY DEF SealStore
<1>3. /\ m \in VaultDir /\ m.rows = vaults[v].rows
      /\ \A k \in HashId : m.blobs[k] = IF k = h /\ vaults[v].blobs[k] = NoFile
                                        THEN live[p] ELSE vaults[v].blobs[k]
  <2>1. PICK c \in LiveFile : c = live[p]
    BY <1>1
  <2>2. PICK w \in VaultDir : w = vaults[v]
    BY <1>1
  <2>3. PICK d : d = IF w.blobs[h] = NoFile THEN c ELSE w.blobs[h]
    OBVIOUS
  <2>4. m = [w EXCEPT !.blobs = [w.blobs EXCEPT ![h] = d]]
    BY <2>1, <2>2, <2>3
  <2>5. d \in LiveFile
    BY <1>1, <2>1, <2>3 DEF VaultDir
  <2> HIDE DEF h
  <2>6. [w.blobs EXCEPT ![h] = d] \in [HashId -> LiveFile]
    BY <2>5 DEF VaultDir
  <2>7. m \in VaultDir /\ m.blobs = [w.blobs EXCEPT ![h] = d] /\ m.rows = w.rows
    BY <2>4, <2>6 DEF VaultDir
  <2>8. \A k \in HashId : m.blobs[k] = IF k = h THEN d ELSE w.blobs[k]
    BY <2>7 DEF VaultDir
  <2> HIDE DEF m
  <2> QED
    BY <2>1, <2>2, <2>3, <2>7, <2>8
<1>4. Stored(run[r]) = [run[r] EXCEPT !.at = "walk", !.cur = NoPath, !.size = NoRow,
                                      !.hash = NoRow]
  BY DEF Stored
<1>5. /\ [Stored(run[r]) EXCEPT !.status = "ERROR"] =
           After(run[r], run[r].rows, run[r].bad, run[r].lost, "ERROR")
      /\ \A t : [Stored(run[r]) EXCEPT !.rows = t] =
           After(run[r], t, run[r].bad, run[r].lost, run[r].status)
      /\ \A t, b : [Stored(run[r]) EXCEPT !.rows = t, !.bad = b, !.lost = TRUE] =
           After(run[r], t, b, TRUE, run[r].status)
  BY <1>1 DEF Stored, After, Process
<1>6. CASE m.blobs[h] = NoFile
  <2>1. Goes(r, [Stored(run[r]) EXCEPT !.status = "ERROR"]) /\ UNCHANGED vaults
    BY <1>6 DEF SealStore
  <2> QED
    BY <1>1, <1>2, <1>5, <2>1
<1>7. ASSUME m.blobs[h] # NoFile, NEW n \in Flushed(m, run[r], full, p),
             vaults' = [vaults EXCEPT ![v] = n], Goes(r, [Stored(run[r]) EXCEPT !.rows = full])
      PROVE  n \in VaultDir /\ StoreMakes(r, full, n)
  <2>1. [full EXCEPT ![p].hash = CutHash] \in RowTable
    <3>1. full[p] = row
      BY <1>1 DEF Process, RowTable
    <3>2. [full[p] EXCEPT !.hash = CutHash] \in FileRow
      BY <1>1, <3>1, HashAssumption DEF FileRow
    <3> HIDE DEF full, row
    <3>3. [full EXCEPT ![p] = [full[p] EXCEPT !.hash = CutHash]] \in RowTable
      BY <1>1, <3>2 DEF RowTable
    <3> QED
      BY <3>3
  <2>2. run[r].rows \in RowTable /\ run[r].bad \in BOOLEAN
    BY <1>1 DEF Process
  <2>3. n \in VaultDir /\ n.blobs = m.blobs
    <3> HIDE DEF m, full, row
    <3> QED
      BY <1>1, <1>3, <1>7, <2>1, <2>2 DEF Flushed, VaultDir
  <2>4. Goes(r, After(run[r], full, run[r].bad, run[r].lost, run[r].status))
    BY <1>5, <1>7
  <2> HIDE DEF m, full, row
  <2> QED
    BY <1>3, <1>7, <2>3, <2>4 DEF StoreMakes
<1>8. ASSUME m.blobs[h] # NoFile, NEW n \in AfterFailure(m, full),
             vaults' = [vaults EXCEPT ![v] = n],
             Goes(r, [Stored(run[r]) EXCEPT !.rows = n.rows, !.bad = n.bad, !.lost = TRUE])
      PROVE  n \in VaultDir /\ StoreMakes(r, full, n)
  <2>1. n \in VaultDir /\ n.blobs = m.blobs /\ n.rows \in RowTable /\ n.bad \in BOOLEAN
    <3> HIDE DEF m, full, row
    <3> QED
      BY <1>3, <1>8 DEF AfterFailure, VaultDir
  <2>2. Goes(r, After(run[r], n.rows, n.bad, TRUE, run[r].status))
    BY <1>5, <1>8
  <2> HIDE DEF m, full, row
  <2> QED
    BY <1>3, <1>8, <2>1, <2>2 DEF StoreMakes
<1>9. CASE m.blobs[h] # NoFile
  <2>1. \/ \E n \in Flushed(m, run[r], full, p) :
             /\ vaults' = [vaults EXCEPT ![v] = n]
             /\ Goes(r, [Stored(run[r]) EXCEPT !.rows = full])
        \/ \E n \in AfterFailure(m, full) :
             /\ vaults' = [vaults EXCEPT ![v] = n]
             /\ Goes(r, [Stored(run[r]) EXCEPT !.rows = n.rows, !.bad = n.bad, !.lost = TRUE])
    BY <1>9 DEF SealStore
  <2>2. \E n \in VaultDir : StoreMakes(r, full, n)
    <3> HIDE DEF m, full, row
    <3> QED
      BY <1>7, <1>8, <1>9, <2>1
  <2> QED
    BY <1>1, <1>2, <2>2
<1> QED
  BY <1>6, <1>9

LEMMA SealsSound ==
  ASSUME TypeOK, ShapeInv, NEW r \in Proc, NEW p,
      \/ SealOpen(r) \/ SealLook(r, p) \/ SealMiss(r, p) \/ SealReaddirFails(r)
      \/ SealHash(r) \/ SealStore(r) \/ SealEnd(r)
  PROVE  Sound(r)
<1>1. CASE SealOpen(r)
  <2>1. Fit([run[r] EXCEPT !.at = "walk", !.todo = Path \ Skipped, !.before = live,
                           !.touched = {}])
    BY <1>1, SealFits DEF SealOpen
  <2> QED
    BY <1>1, <2>1, FitIsSound DEF SealOpen
<1>2. CASE SealLook(r, p)
  <2>1. CASE live[p] = NoFile
    <3>1. Fit([run[r] EXCEPT !.todo = @ \ {p}])
      BY <1>2, SealFits DEF SealLook
    <3> QED
      BY <1>2, <2>1, <3>1, FitIsSound, BytesAssumption DEF SealLook, disk
  <2>2. CASE live[p] \in Bytes
    <3>1. Fit([run[r] EXCEPT !.todo = @ \ {p}, !.at = "store", !.cur = p,
                             !.size = SizeOf[live[p]]])
      BY <1>2, <2>2, SealFits DEF SealLook
    <3> QED
      BY <1>2, <2>2, <3>1, FitIsSound, BytesAssumption DEF SealLook, disk
  <2> QED
    BY <1>2, <2>1, <2>2 DEF SealLook
<1>3. CASE SealMiss(r, p)
  <2>1. Fit([run[r] EXCEPT !.todo = @ \ {p}, !.status = "ERROR"])
    BY <1>3, SealFits DEF SealMiss
  <2> QED
    BY <1>3, <2>1, FitIsSound DEF SealMiss, disk
<1>4. CASE SealStore(r)
  <2>1. run[r] \in Process /\ Shaped(run[r]) /\ run[r].cmd = "seal"
    BY <1>4, StoreTyped DEF SealStore
  <2>2. UNCHANGED <<live, stamps>>
    BY <1>4, StoreIs
  <2>3. \E t \in RowTable, b \in BOOLEAN, l \in BOOLEAN, st \in {run[r].status, "ERROR"} :
          (b => l) /\ Goes(r, After(run[r], t, b, l, st))
    <3>1. /\ run[r].rows \in RowTable /\ run[r].bad \in BOOLEAN /\ run[r].lost \in BOOLEAN
          /\ run[r].bad => run[r].lost
      BY <2>1 DEF Process, Shaped
    <3> QED
      BY <1>4, <3>1, StoreIs DEF StoreMakes
  <2> QED
    BY <2>1, <2>2, <2>3, AfterIs, FitIsSound
<1>5. CASE SealEnd(r)
  <2>1. Fit([run[r] EXCEPT !.at = "append", !.rows = NoRows, !.bad = FALSE, !.lost = FALSE])
    BY <1>5, SealFits DEF SealEnd
  <2> QED
    BY <1>5, <2>1, FitIsSound DEF SealEnd
<1>6. CASE SealReaddirFails(r)
  <2>1. \A S : Fit([run[r] EXCEPT !.todo = @ \ S, !.lost = TRUE])
    BY <1>6, SealFits DEF SealReaddirFails
  <2> QED
    BY <1>6, <2>1, FitIsSound DEF SealReaddirFails, disk
<1>7. CASE SealHash(r)
  <2>1. run[r] \in Process /\ Shaped(run[r]) /\ run[r].cmd = "seal"
        /\ live[run[r].cur] \in LiveFile
    BY <1>7, StoreTyped DEF SealHash
  <2>2. CASE live[run[r].cur] = NoFile
    <3>1. [Stored(run[r]) EXCEPT !.status = "ERROR"] =
            After(run[r], run[r].rows, run[r].bad, run[r].lost, "ERROR")
      BY <2>1 DEF Stored, After, Process
    <3>2. Fit(After(run[r], run[r].rows, run[r].bad, run[r].lost, "ERROR"))
      BY <2>1, AfterIs DEF Process, Shaped
    <3> QED
      BY <1>7, <2>2, <3>1, <3>2, FitIsSound DEF SealHash, disk
  <2>3. CASE live[run[r].cur] # NoFile
    <3>1. Hash[live[run[r].cur]] \in HashId
      BY <2>1, <2>3, HashAssumption DEF LiveFile
    <3>2. Fit([run[r] EXCEPT !.hash = Hash[live[run[r].cur]]])
      BY <1>7, <3>1, SealFits DEF SealHash
    <3> QED
      BY <1>7, <2>3, <3>2, FitIsSound DEF SealHash, disk
  <2> QED
    BY <2>2, <2>3
<1> QED
  BY <1>1, <1>2, <1>3, <1>4, <1>5, <1>6, <1>7

LEMMA LoadsSound ==
  ASSUME TypeOK, ShapeInv, NEW r \in Proc, Load(r) \/ LoadFails(r) \/ DiffLoad2(r)
  PROVE  Sound(r)
<1>1. run[r] \in Process /\ Shaped(run[r])
  BY Typed
<1>2. CASE Load(r)
  <2>1. run[r].v \in Vault /\ vaults[run[r].v] # NoVault
    <3>1. run[r].cmd \in Walking \union {"inspect", "recover", "diff"}
      BY <1>1, <1>2 DEF Load, Shaped
    <3>2. run[r].v \in 1 .. stamps
      BY <1>1, <3>1 DEF Shaped, Walking, Verifying
    <3> QED
      BY <1>2, <3>2, IVaultAssumption DEF TypeOK, Vault, Load, Loads
  <2>2. vaults[run[r].v] \in VaultDir
    BY <2>1 DEF TypeOK
  <2>3. Fit(Loaded(r, vaults[run[r].v]))
    BY <1>2, <2>2, LoadFits DEF Load
  <2> QED
    BY <1>2, <2>3, FitIsSound DEF Load, disk
<1>3. CASE LoadFails(r)
  <2>1. Goes(r, IF run[r].cmd = "diff" THEN Idle
                ELSE [run[r] EXCEPT !.at = "append", !.status = Bad(run[r].cmd)])
    BY <1>3 DEF LoadFails
  <2>2. Fit(IF run[r].cmd = "diff" THEN Idle
            ELSE [run[r] EXCEPT !.at = "append", !.status = Bad(run[r].cmd)])
    BY <1>3, IdleFits, LoadFits DEF LoadFails
  <2> QED
    BY <1>3, <2>1, <2>2, FitIsSound DEF LoadFails, disk
<1>4. CASE DiffLoad2(r)
  <2>1. UNCHANGED live /\ stamps' = stamps /\ run[r].at = "load2"
    BY <1>4 DEF DiffLoad2, disk
  <2>2. CASE Loads(run[r].w)
    <3>1. run[r].w \in Vault /\ vaults[run[r].w] # NoVault
      BY <1>1, <2>1, <2>2, IVaultAssumption DEF Shaped, TypeOK, Vault, Loads
    <3>2. vaults[run[r].w].rows \in RowTable
      BY <3>1 DEF TypeOK, VaultDir
    <3>3. Goes(r, [run[r] EXCEPT !.rows = NoRows, !.at = "append",
                     !.status = IF NoDifference(run[r].rows, vaults[run[r].w].rows)
                                THEN @ ELSE Bad("diff")])
      BY <1>4, <2>2 DEF DiffLoad2
    <3>4. Fit([run[r] EXCEPT !.rows = NoRows, !.at = "append",
                 !.status = IF NoDifference(run[r].rows, vaults[run[r].w].rows)
                            THEN @ ELSE Bad("diff")])
      BY <2>1, <3>2, DiffListFits
    <3> QED
      BY <2>1, <3>3, <3>4, FitIsSound
  <2>3. CASE ~Loads(run[r].w)
    <3>1. Goes(r, Idle)
      BY <1>4, <2>3 DEF DiffLoad2
    <3> QED
      BY <2>1, <3>1, IdleFits, FitIsSound
  <2> QED
    BY <2>2, <2>3
<1> QED
  BY <1>2, <1>3, <1>4

LEMMA WalksSound ==
  ASSUME TypeOK, ShapeInv, NEW r \in Proc, NEW p \in Path,
         VerifyVisit(r, p) \/ PruneVisit(r, p) \/ WalkMisses(r, p) \/ RestoreVisit(r, p)
  PROVE  Sound(r)
<1>1. run[r] \in Process /\ Shaped(run[r])
  BY Typed
<1>2. run[r].cmd \in Walking /\ run[r].at = "walk"
  BY DEF VerifyVisit, PruneVisit, WalkMisses, RestoreVisit, AtEntry, Walking, Verifying
<1>3. \A word \in {run[r].status, Bad(run[r].cmd)} :
        Fit([run[r] EXCEPT !.todo = @ \ {p}, !.status = word])
  <2>1. run[r].cmd \in Commands /\ run[r].status \in Statuses
    BY <1>1 DEF Process
  <2>2. May(run[r].cmd, run[r].status) /\ May(run[r].cmd, Bad(run[r].cmd))
    BY <1>1, <1>2 DEF Shaped, May
  <2> QED
    BY <1>2, <2>1, <2>2, Words, WalkFits
<1>4. [run[r] EXCEPT !.todo = @ \ {p}] =
        [run[r] EXCEPT !.todo = @ \ {p}, !.status = run[r].status]
  BY <1>1 DEF Process
<1>5. CASE VerifyVisit(r, p)
  <2>1. run[r].cmd \in Verifying /\ Bad(run[r].cmd) = "DAMAGE"
    BY <1>5 DEF VerifyVisit, AtEntry, Bad, Verifying
  <2>2. PICK word : word = IF Matches(r, p) THEN run[r].status ELSE "DAMAGE"
    OBVIOUS
  <2>3. Goes(r, [run[r] EXCEPT !.todo = @ \ {p}, !.status = word])
    BY <1>5, <2>2 DEF VerifyVisit
  <2>4. word \in {run[r].status, Bad(run[r].cmd)}
    BY <2>1, <2>2
  <2> QED
    BY <1>3, <1>5, <2>3, <2>4, FitIsSound DEF VerifyVisit, disk
<1>6. CASE PruneVisit(r, p)
  <2>1. Fit([run[r] EXCEPT !.todo = @ \ {p}])
    BY <1>3, <1>4
  <2>2. \/ Write(r, p, NoFile, [run[r] EXCEPT !.todo = @ \ {p}])
        \/ Goes(r, [run[r] EXCEPT !.todo = @ \ {p}]) /\ UNCHANGED live
    BY <1>6 DEF PruneVisit, disk
  <2>3. stamps' = stamps
    BY <1>6 DEF PruneVisit, disk, Write
  <2> QED
    BY <2>1, <2>2, <2>3, FitIsSound
<1>7. CASE WalkMisses(r, p)
  <2>1. PICK word \in {run[r].status, Bad(run[r].cmd)} :
          Goes(r, [run[r] EXCEPT !.todo = @ \ {p}, !.status = word])
    <3>1. Goes(r, [run[r] EXCEPT !.todo = @ \ {p}, !.status = Bad(run[r].cmd)]) \/
          Goes(r, [run[r] EXCEPT !.todo = @ \ {p},
                     !.status = IF run[r].cmd = "prune" \/ run[r].rows[p] = NoRow
                                THEN @ ELSE "DAMAGE"])
      BY <1>7 DEF WalkMisses
    <3>2. PICK word : word = IF run[r].cmd = "prune" \/ run[r].rows[p] = NoRow
                             THEN run[r].status ELSE "DAMAGE"
      OBVIOUS
    <3>3. run[r].cmd \in Verifying \union {"prune"}
      BY <1>7 DEF WalkMisses, AtEntry
    <3>4. word \in {run[r].status, Bad(run[r].cmd)}
      BY <3>2, <3>3 DEF Bad, Verifying
    <3> QED
      BY <3>1, <3>2, <3>4
  <2> QED
    BY <1>3, <1>7, <2>1, FitIsSound DEF WalkMisses, disk
<1>8. CASE RestoreVisit(r, p)
  <2>1. run[r].cmd = "restore" /\ p \in run[r].todo /\ stamps' = stamps
    BY <1>8 DEF RestoreVisit, AtEntry, Write, disk
  <2>2. CASE Write(r, p, Torn, [run[r] EXCEPT !.todo = @ \ {p}, !.at = "copy", !.from = p,
                                              !.cur = p])
    <3>1. Fit([run[r] EXCEPT !.todo = @ \ {p}, !.at = "copy", !.from = p, !.cur = p])
      BY <1>2, <2>1, WalkFits
    <3> QED
      BY <2>1, <2>2, <3>1, FitIsSound
  <2>3. CASE \E word \in {run[r].status, "ERROR"} : UNCHANGED live
                /\ Goes(r, [run[r] EXCEPT !.todo = @ \ {p}, !.status = word])
    <3>1. Bad(run[r].cmd) = "ERROR"
      BY <2>1 DEF Bad, Verifying
    <3> QED
      BY <1>3, <2>1, <2>3, <3>1, FitIsSound
  <2>4. \/ Write(r, p, Torn, [run[r] EXCEPT !.todo = @ \ {p}, !.at = "copy", !.from = p,
                                            !.cur = p])
        \/ \E word \in {run[r].status, "ERROR"} : UNCHANGED live
                /\ Goes(r, [run[r] EXCEPT !.todo = @ \ {p}, !.status = word])
    BY <1>1, <1>8 DEF RestoreVisit, disk, Process
  <2> QED
    BY <2>2, <2>3, <2>4
<1> QED
  BY <1>5, <1>6, <1>7, <1>8

LEMMA WalkEndSound ==
  ASSUME TypeOK, ShapeInv, NEW r \in Proc, WalkEnd(r)
  PROVE  Sound(r)
<1>1. Fit([run[r] EXCEPT !.at = "append", !.rows = NoRows])
  BY WalkFits DEF WalkEnd
<1> QED
  BY <1>1, FitIsSound DEF WalkEnd, disk

LEMMA CopiesSound ==
  ASSUME TypeOK, ShapeInv, NEW r \in Proc, RecoverOpen(r) \/ CopyWrite(r) \/ CopyFails(r)
  PROVE  Sound(r)
<1>1. run[r] \in Process /\ Shaped(run[r])
  BY Typed
<1>2. run[r].at \in {"open out", "copy"} => run[r].cur \in Path
  BY <1>1 DEF Shaped, TypeOK
<1>3. CASE RecoverOpen(r)
  <2>1. Fit([run[r] EXCEPT !.at = "copy"])
    BY <1>3, CopyFits DEF RecoverOpen
  <2> QED
    BY <1>2, <1>3, <2>1, FitIsSound DEF RecoverOpen, Write
<1>4. CASE CopyWrite(r)
  <2>1. Fit(AfterCopy(r)) /\ run[r].cur \in Path
    BY <1>2, <1>4, CopyFits DEF CopyWrite
  <2>2. PICK b : Write(r, run[r].cur, b, AfterCopy(r))
    BY <1>4 DEF CopyWrite
  <2>3. stamps' = stamps
    BY <2>2 DEF Write
  <2> QED
    BY <2>1, <2>2, <2>3, FitIsSound
<1>5. CASE CopyFails(r)
  <2>1. Fit([AfterCopy(r) EXCEPT !.status = "ERROR"])
    BY <1>5, CopyFits DEF CopyFails
  <2> QED
    BY <1>5, <2>1, FitIsSound DEF CopyFails, disk
<1> QED
  BY <1>3, <1>4, <1>5

(* The newest of some vaults is one of them, and none of them is newer. *)
LEMMA NewestIs ==
  ASSUME NEW S \in SUBSET Vault, S # {}
  PROVE  Newest(S) \in S /\ \A u \in S : u <= Newest(S)
<1> DEFINE T == {MaxVault - v : v \in S}
<1>1. MaxVault \in Nat /\ \A v \in S : v \in Nat /\ MaxVault - v \in Nat
  BY IVaultAssumption DEF Vault
<1>2. T \in SUBSET Nat /\ T # {}
  BY <1>1
<1>3. PICK t \in T : \A y \in T : ~(<<y, t>> \in OpToRel(<, Nat))
  <2> HIDE DEF T
  <2> QED
    BY <1>2, NatLessThanWellFounded, WFMin
<1>4. PICK v \in S : t = MaxVault - v
  BY <1>3
<1>5. ASSUME NEW u \in S
      PROVE  u <= v
  <2>1. ~(<<MaxVault - u, t>> \in OpToRel(<, Nat))
    BY <1>3
  <2>2. ~(MaxVault - u < t)
    BY <1>1, <1>4, <2>1 DEF OpToRel
  <2> QED
    BY <1>1, <1>4, <2>2
<1>6. v \in S /\ \A u \in S : u <= v
  BY <1>5
<1> QED
  BY <1>6 DEF Newest

LEMMA ListsSound ==
  ASSUME TypeOK, ShapeInv, NEW r \in Proc,
         Latest(r) \/ Timeline(r) \/ LedgerAppend(r) \/ Kill(r)
  PROVE  Sound(r)
<1>1. CASE Latest(r)
  <2>1. PICK S \in SUBSET HasManifest :
          Goes(r, IF S = {} THEN Idle
                  ELSE [run[r] EXCEPT !.at = "append", !.v = Newest(S), !.found = {}])
    BY <1>1 DEF Latest
  <2>2. S # {} => Newest(S) \in Vault
    BY NewestIs DEF HasManifest
  <2>3. Fit(IF S = {} THEN Idle
            ELSE [run[r] EXCEPT !.at = "append", !.v = Newest(S), !.found = {}])
    BY <1>1, <2>2, IdleFits, DiffListFits DEF Latest
  <2> QED
    BY <1>1, <2>1, <2>3, FitIsSound DEF Latest, disk
<1>2. CASE Timeline(r)
  <2>1. PICK S \in SUBSET HasManifest :
          Goes(r, [run[r] EXCEPT !.at = "append", !.found = {v \in S : Loads(v)}])
    BY <1>2 DEF Timeline
  <2>2. Fit([run[r] EXCEPT !.at = "append", !.found = {v \in S : Loads(v)}])
    BY <1>2, DiffListFits DEF Timeline, HasManifest
  <2> QED
    BY <1>2, <2>1, <2>2, FitIsSound DEF Timeline, disk
<1>3. CASE LedgerAppend(r)
  <2>1. Fit(Continued(run[r]))
    BY <1>3, ContinuedFits DEF LedgerAppend
  <2> QED
    BY <1>3, <2>1, FitIsSound DEF LedgerAppend
<1>4. CASE Kill(r)
  BY <1>4, IdleFits, FitIsSound DEF Kill, disk
<1> QED
  BY <1>1, <1>2, <1>3, <1>4

LEMMA StepIsSound ==
  ASSUME TypeOK, ShapeInv, NEW r \in Proc, Step(r)
  PROVE  Sound(r)
<1>1. PICK p : p = NoPath
  OBVIOUS
<1>2. CASE \/ SealOpen(r) \/ SealReaddirFails(r) \/ SealHash(r)
           \/ SealStore(r) \/ SealEnd(r)
  BY <1>1, <1>2, SealsSound
<1>3. CASE \E q \in Path : \/ SealLook(r, q) \/ SealMiss(r, q) \/ VerifyVisit(r, q)
                           \/ PruneVisit(r, q) \/ WalkMisses(r, q) \/ RestoreVisit(r, q)
  BY <1>3, SealsSound, WalksSound
<1> QED
  BY <1>2, <1>3, BeginsSound, LoadsSound, WalkEndSound, CopiesSound, ListsSound DEF Step

-----------------------------------------------------------------------------
(* What only some steps change. *)

LEMMA WhoChanges ==
  ASSUME Next
  PROVE  /\ UNCHANGED <<vaults, told>> \/ \E r \in Proc : SealOpen(r) \/ SealStore(r) \/ SealEnd(r)
         /\ stamps' = stamps \/ \E r \in Proc : SealBegin(r)
         /\ UNCHANGED <<ledger, acts>> \/ \E r \in Proc : LedgerAppend(r)
<1> DEFINE Goal == /\ UNCHANGED <<vaults, told>> \/
                        \E r \in Proc : SealOpen(r) \/ SealStore(r) \/ SealEnd(r)
                   /\ stamps' = stamps \/ \E r \in Proc : SealBegin(r)
                   /\ UNCHANGED <<ledger, acts>> \/ \E r \in Proc : LedgerAppend(r)
<1>1. ASSUME NEW p, NEW b, UserPut(p, b)
      PROVE  Goal
  BY <1>1 DEF UserPut
<1>2. ASSUME NEW r \in Proc, NEW v, NEW w, NEW p, NEW q, NEW cmd,
             \/ SealBegin(r) \/ HealBegin(r, cmd, v) \/ DiffBegin(r, v, w)
             \/ RecoverBegin(r, v, p, q) \/ WatchBegin(r, v) \/ ListBegin(r, cmd)
      PROVE  Goal
  BY <1>2 DEF SealBegin, HealBegin, DiffBegin, RecoverBegin, WatchBegin, ListBegin, Begin
<1>3. ASSUME NEW r \in Proc, NEW p,
             \/ SealOpen(r) \/ SealLook(r, p) \/ SealMiss(r, p) \/ SealReaddirFails(r)
             \/ SealHash(r) \/ SealStore(r) \/ SealEnd(r)
             \/ Load(r) \/ LoadFails(r) \/ DiffLoad2(r)
      PROVE  Goal
  BY <1>3 DEF SealOpen, SealLook, SealMiss, SealReaddirFails, SealHash, SealStore, SealEnd, Load,
     LoadFails, DiffLoad2, disk
<1>4. ASSUME NEW r \in Proc, NEW p,
             \/ VerifyVisit(r, p) \/ PruneVisit(r, p) \/ WalkMisses(r, p) \/ RestoreVisit(r, p)
             \/ RecoverOpen(r) \/ CopyWrite(r) \/ CopyFails(r) \/ WalkEnd(r)
      PROVE  Goal
  BY <1>4 DEF VerifyVisit, PruneVisit, WalkMisses, RestoreVisit, RecoverOpen, CopyWrite,
              CopyFails, WalkEnd, Write, disk
<1>5. ASSUME NEW r \in Proc, Latest(r) \/ Timeline(r) \/ LedgerAppend(r) \/ Kill(r)
      PROVE  Goal
  BY <1>5 DEF Latest, Timeline, LedgerAppend, Kill, disk
<1> HIDE DEF Goal
<1>6. ASSUME NEW r \in Proc, Step(r)
      PROVE  Goal
  BY <1>2, <1>3, <1>4, <1>5, <1>6 DEF Step
<1>7. Goal
  BY <1>1, <1>6 DEF Next
<1> QED
  BY <1>7 DEF Goal

(* A seal that works on its vault: which, and what it makes of it. *)
LEMMA VaultTyped ==
  ASSUME TypeOK, ShapeInv, NEW r \in Proc, SealOpen(r) \/ SealStore(r) \/ SealEnd(r)
  PROVE  /\ run[r].cmd = "seal" /\ run[r].v \in Vault /\ run[r].v \in 1 .. stamps
         /\ stamps' = stamps
         /\ \E m \in VaultDir : vaults' = [vaults EXCEPT ![run[r].v] = m]
            \/ (vaults' = vaults /\ vaults[run[r].v] = m)
         /\ told' = told \/ (SealEnd(r) /\ told' = [told EXCEPT ![run[r].v] = Told(r)])
         /\ Told(r) \in Report
<1>1. run[r] \in Process /\ Shaped(run[r])
  BY Typed
<1>2. run[r].cmd = "seal" /\ run[r].v \in Vault /\ run[r].v \in 1 .. stamps /\ stamps' = stamps
  <2>1. run[r].cmd = "seal" /\ stamps' = stamps
    BY <1>1 DEF SealOpen, SealStore, SealEnd, Shaped
  <2>2. run[r].v \in 1 .. stamps
    BY <1>1, <2>1 DEF Shaped
  <2>3. run[r].v \in Vault
    BY <2>2, IVaultAssumption DEF Vault, TypeOK
  <2> QED
    BY <2>1, <2>2, <2>3
<1>3. told' = told \/ (SealEnd(r) /\ told' = [told EXCEPT ![run[r].v] = Told(r)])
  BY DEF SealOpen, SealStore, SealEnd
<1>4. Told(r) \in Report
  BY <1>1 DEF Told, Report, Process
<1>5. NewVault \in VaultDir
  BY NoRowsTyped DEF NewVault, VaultDir, LiveFile
<1>6. CASE SealOpen(r)
  BY <1>2, <1>3, <1>4, <1>5, <1>6 DEF SealOpen
<1>7. run[r].at # "open" => vaults[run[r].v] \in VaultDir
  BY <1>2 DEF TypeOK
<1>8. CASE SealStore(r)
  <2>1. vaults[run[r].v] \in VaultDir
    BY <1>8, StoreTyped DEF SealStore
  <2>2. UNCHANGED vaults \/ \E m \in VaultDir : vaults' = [vaults EXCEPT ![run[r].v] = m]
    BY <1>8, StoreIs DEF StoreMakes
  <2> QED
    BY <1>2, <1>3, <1>4, <2>1, <2>2
<1>9. CASE SealEnd(r)
  <2>1. vaults[run[r].v] \in VaultDir
    BY <1>7, <1>9 DEF SealEnd
  <2>2. [vaults[run[r].v] EXCEPT !.rows = run[r].rows, !.bad = run[r].bad] \in VaultDir
    BY <1>1, <2>1 DEF VaultDir, Process
  <2>3. vaults' = [vaults EXCEPT ![run[r].v] =
                     [vaults[run[r].v] EXCEPT !.rows = run[r].rows, !.bad = run[r].bad]]
    BY <1>2, <1>9 DEF SealEnd, TypeOK
  <2> QED
    BY <1>2, <1>3, <1>4, <2>2, <2>3
<1> QED
  BY <1>6, <1>8, <1>9

-----------------------------------------------------------------------------
(* What a step may have been, as the process that took it sees it.          *)

(* It begins something, and all it keeps is new. *)
Fresh(r) ==
  /\ UNCHANGED <<live, vaults, told>>
  /\ run'[r].touched = {} /\ run'[r].known = {u \in Vault : told[u] # NotTold}
  /\ run'[r].cmd = "prune" => run'[r].before = live
  /\ \/ run'[r].cmd = "seal" /\ run'[r].at = "open" /\ run'[r].v = stamps + 1
        /\ stamps' = stamps + 1
     \/ /\ run'[r].cmd \in Walking \union {"inspect", "recover", "diff"} /\ run'[r].at = "load"
        /\ run'[r].status = Good[run'[r].cmd]
     \/ run'[r].cmd \in {"latest", "timeline"} /\ run'[r].at = "list"
        /\ run'[r].found = HasManifest
     \/ run'[r].cmd \in {"start", "end"} /\ run'[r].at = "append"

Middle(r) ==
  \/ SealOpen(r) \/ SealReaddirFails(r) \/ SealHash(r) \/ SealStore(r) \/ SealEnd(r)
  \/ Load(r) \/ LoadFails(r) \/ DiffLoad2(r)
  \/ \E p \in Path : \/ SealLook(r, p) \/ SealMiss(r, p) \/ VerifyVisit(r, p)
                     \/ PruneVisit(r, p) \/ WalkMisses(r, p) \/ RestoreVisit(r, p)
  \/ RecoverOpen(r) \/ CopyWrite(r) \/ CopyFails(r) \/ WalkEnd(r)
  \/ Latest(r) \/ Timeline(r)

LEMMA NewIs ==
  ASSUME NEW cmd, NEW v, NEW at
  PROVE  LET n == New(cmd, v, at) IN
         /\ n.cmd = cmd /\ n.v = v /\ n.at = at /\ n.status = Good[cmd] /\ n.touched = {}
         /\ n.known = {u \in Vault : told[u] # NotTold}
         /\ cmd = "prune" => n.before = live
<1> DEFINE b == IF cmd = "prune" THEN live ELSE Idle.before
           k == {u \in Vault : told[u] # NotTold}
<1>1. New(cmd, v, at) =
        [Idle EXCEPT !.cmd = cmd, !.v = v, !.at = at, !.status = Good[cmd],
                     !.before = b, !.known = k]
  BY DEF New
<1>2. cmd = "prune" => b = live
  OBVIOUS
<1> HIDE DEF b, k
<1>3. /\ New(cmd, v, at).cmd = cmd /\ New(cmd, v, at).v = v /\ New(cmd, v, at).at = at
      /\ New(cmd, v, at).status = Good[cmd] /\ New(cmd, v, at).touched = {}
      /\ New(cmd, v, at).known = k /\ New(cmd, v, at).before = b
  BY <1>1 DEF Idle
<1> QED
  BY <1>2, <1>3 DEF k

LEMMA BeginsFresh ==
  ASSUME TypeOK, NEW r \in Proc,
         \/ SealBegin(r)
         \/ \E v \in 1 .. stamps : \/ \E cmd \in {"verify", "restore", "prune", "inspect"} :
                                        HealBegin(r, cmd, v)
                                   \/ \E w \in 1 .. stamps : DiffBegin(r, v, w)
                                   \/ \E p, q \in Path : RecoverBegin(r, v, p, q)
                                   \/ WatchBegin(r, v)
         \/ \E cmd \in {"latest", "timeline"} : ListBegin(r, cmd)
  PROVE  Fresh(r)
<1>1. run \in [Proc -> Process]
  BY DEF TypeOK
<1>2. CASE SealBegin(r)
  <2>1. run'[r] = New("seal", stamps + 1, "open")
    BY <1>1, <1>2, GoesOn DEF SealBegin, Begin
  <2> QED
    BY <1>2, <2>1 DEF SealBegin, Begin, Fresh, New, Idle
<1>3. ASSUME NEW v \in 1 .. stamps, NEW cmd \in {"verify", "restore", "prune", "inspect"},
             HealBegin(r, cmd, v)
      PROVE  Fresh(r)
  <2>1. run'[r] = New(cmd, v, "load")
    BY <1>1, <1>3, GoesOn DEF HealBegin, Begin
  <2>2. UNCHANGED <<live, vaults, told>>
    BY <1>3 DEF HealBegin, Begin
  <2> QED
    BY <2>1, <2>2, NewIs DEF Fresh, Walking, Verifying
<1>4. ASSUME NEW v \in 1 .. stamps, NEW w \in 1 .. stamps, DiffBegin(r, v, w)
      PROVE  Fresh(r)
  <2>1. run'[r] = [New("diff", v, "load") EXCEPT !.w = w]
    BY <1>1, <1>4, GoesOn DEF DiffBegin, Begin
  <2>2. UNCHANGED <<live, vaults, told>>
    BY <1>4 DEF DiffBegin, Begin
  <2>3. /\ run'[r].cmd = "diff" /\ run'[r].at = "load" /\ run'[r].touched = {}
        /\ run'[r].known = {u \in Vault : told[u] # NotTold}
        /\ run'[r].status = Good["diff"]
    BY <2>1 DEF New, Idle
  <2> QED
    BY <2>2, <2>3 DEF Fresh
<1>5. ASSUME NEW v \in 1 .. stamps, NEW p \in Path, NEW q \in Path, RecoverBegin(r, v, p, q)
      PROVE  Fresh(r)
  <2>1. run'[r] = [New("recover", v, "load") EXCEPT !.from = p, !.cur = q]
    BY <1>1, <1>5, GoesOn DEF RecoverBegin, Begin
  <2>2. UNCHANGED <<live, vaults, told>>
    BY <1>5 DEF RecoverBegin, Begin
  <2>3. /\ run'[r].cmd = "recover" /\ run'[r].at = "load" /\ run'[r].touched = {}
        /\ run'[r].known = {u \in Vault : told[u] # NotTold}
        /\ run'[r].status = Good["recover"]
    BY <2>1 DEF New, Idle
  <2> QED
    BY <2>2, <2>3 DEF Fresh
<1>6. ASSUME NEW v \in 1 .. stamps, WatchBegin(r, v)
      PROVE  Fresh(r)
  <2>1. run'[r] = [New("start", v, "append") EXCEPT !.watch = TRUE]
    BY <1>1, <1>6, GoesOn DEF WatchBegin, Begin
  <2>2. UNCHANGED <<live, vaults, told>>
    BY <1>6 DEF WatchBegin, Begin
  <2>3. /\ run'[r].cmd = "start" /\ run'[r].at = "append" /\ run'[r].touched = {}
        /\ run'[r].known = {u \in Vault : told[u] # NotTold}
    BY <2>1 DEF New, Idle
  <2> QED
    BY <2>2, <2>3 DEF Fresh
<1>7. ASSUME NEW cmd \in {"latest", "timeline"}, ListBegin(r, cmd)
      PROVE  Fresh(r)
  <2>1. run'[r] = [New(cmd, 0, "list") EXCEPT !.found = HasManifest]
    BY <1>1, <1>7, GoesOn DEF ListBegin, Begin
  <2> QED
    BY <1>7, <2>1 DEF ListBegin, Begin, Fresh, New, Idle
<1> QED
  BY <1>2, <1>3, <1>4, <1>5, <1>6, <1>7

LEMMA AppendGoesOn ==
  ASSUME TypeOK, ShapeInv, NEW r \in Proc, LedgerAppend(r)
  PROVE  run'[r] = Idle \/ Fresh(r)
<1>1. run \in [Proc -> Process] /\ run[r] \in Process /\ Shaped(run[r])
  BY Typed
<1>2. run'[r] = Continued(run[r]) /\ UNCHANGED <<live, vaults, told>> /\ run[r].at = "append"
  BY <1>1, GoesOn DEF LedgerAppend
<1>3. CASE ~run[r].watch \/ run[r].cmd = "end"
  BY <1>2, <1>3 DEF Continued
<1>4. CASE run[r].watch /\ run[r].cmd # "end"
  <2>1. run[r].cmd \in Walking \union {"start"}
    BY <1>1, <1>4 DEF Shaped, Watches
  <2>2. Following(run[r]) \in Walking \union {"end"}
    BY <2>1 DEF Following, Walking, Verifying
  <2>3. CASE Following(run[r]) = "end"
    <3>1. /\ run'[r].cmd = "end" /\ run'[r].at = "append" /\ run'[r].touched = {}
          /\ run'[r].known = {u \in Vault : told[u] # NotTold}
      BY <1>2, <1>4, <2>3 DEF Continued, New, Idle
    <3> QED
      BY <1>2, <3>1 DEF Fresh
  <2>4. CASE Following(run[r]) \in Walking
    <3>1. PICK errs : run'[r] = [New(Following(run[r]), run[r].v, "load") EXCEPT
                                   !.watch = TRUE, !.errs = errs]
      BY <1>2, <1>4, <2>4 DEF Continued, Walking, Verifying
    <3>2. /\ run'[r].cmd \in Walking /\ run'[r].at = "load" /\ run'[r].touched = {}
          /\ run'[r].known = {u \in Vault : told[u] # NotTold}
          /\ run'[r].status = Good[run'[r].cmd]
          /\ run'[r].cmd = "prune" => run'[r].before = live
      BY <2>4, <3>1 DEF New, Idle
    <3> QED
      BY <1>2, <3>2 DEF Fresh
  <2> QED
    BY <2>2, <2>3, <2>4
<1> QED
  BY <1>3, <1>4

LEMMA StepKinds ==
  ASSUME TypeOK, ShapeInv, NEW r \in Proc, Step(r)
  PROVE  run'[r] = Idle \/ Fresh(r) \/ Middle(r)
<1>1. CASE Kill(r)
  BY <1>1, GoesOn DEF Kill, TypeOK
<1>2. CASE LedgerAppend(r)
  BY <1>2, AppendGoesOn
<1>3. CASE Middle(r)
  BY <1>3
<1> QED
  BY <1>1, <1>2, <1>3, BeginsFresh DEF Step, Middle

(* What a process that stands by keeps. *)
LEMMA StandsKeeps ==
  ASSUME NEW s \in Proc, run[s] \in Process, Bystands(s)
  PROVE  /\ run'[s].cmd = run[s].cmd /\ run'[s].at = run[s].at /\ run'[s].v = run[s].v
         /\ run'[s].w = run[s].w /\ run'[s].watch = run[s].watch /\ run'[s].from = run[s].from
         /\ run'[s].cur = run[s].cur /\ run'[s].todo = run[s].todo
         /\ run'[s].rows = run[s].rows /\ run'[s].status = run[s].status
         /\ run'[s].found = run[s].found /\ run'[s].size = run[s].size
         /\ run'[s].before = run[s].before /\ run'[s].known = run[s].known
         /\ run'[s].hash = run[s].hash /\ run'[s].bad = run[s].bad
         /\ run'[s].lost = run[s].lost
<1>1. PICK t, c : t = run'[s].touched /\ c = run'[s].shared
  OBVIOUS
<1>2. PICK n : n = run'[s]
  OBVIOUS
<1>3. PICK m \in Process : m = run[s]
  OBVIOUS
<1>4. n = [m EXCEPT !.touched = t, !.shared = c]
  BY <1>1, <1>2, <1>3 DEF Bystands
<1>5. /\ n.cmd = m.cmd /\ n.at = m.at /\ n.v = m.v /\ n.w = m.w /\ n.watch = m.watch
      /\ n.from = m.from /\ n.cur = m.cur /\ n.todo = m.todo /\ n.rows = m.rows
      /\ n.status = m.status /\ n.found = m.found /\ n.size = m.size /\ n.before = m.before
      /\ n.known = m.known /\ n.hash = m.hash /\ n.bad = m.bad /\ n.lost = m.lost
  BY <1>4 DEF Process
<1> QED
  BY <1>2, <1>3, <1>5

(* A process that stands by stays shaped. *)
LEMMA StandsShaped ==
  ASSUME TypeOK, NEW s \in Proc, run[s] \in Process, run'[s] \in Process, Shaped(run[s]),
         Bystands(s), stamps' \in {stamps, stamps + 1}
  PROVE  Shaped(run[s])'
<1>1. \A v \in 1 .. stamps : v \in 1 .. stamps'
  BY IVaultAssumption DEF TypeOK
<1>2. /\ run'[s].cmd = run[s].cmd /\ run'[s].at = run[s].at /\ run'[s].v = run[s].v
      /\ run'[s].w = run[s].w /\ run'[s].watch = run[s].watch /\ run'[s].from = run[s].from
      /\ run'[s].cur = run[s].cur /\ run'[s].todo = run[s].todo /\ run'[s].rows = run[s].rows
      /\ run'[s].status = run[s].status /\ run'[s].size = run[s].size
      /\ run'[s].hash = run[s].hash /\ run'[s].bad = run[s].bad /\ run'[s].lost = run[s].lost
  BY StandsKeeps
<1>3. run[s].cmd = "none" => run'[s] = Idle
  BY DEF Shaped, Bystands, Walking, Verifying
<1>4. run'[s].shared =>
        run'[s].cur \in run'[s].touched /\ (run'[s].at = "copy" \/ run'[s].cmd = "recover")
  BY <1>2 DEF Bystands, Shaped
<1> QED
  BY <1>1, <1>2, <1>3, <1>4 DEF Shaped, Watches

(* Every process, at every step. *)
LEMMA Everyone ==
  ASSUME TypeOK, ShapeInv, Next, NEW s \in Proc
  PROVE  /\ run' \in [Proc -> Process] /\ Shaped(run[s])'
         /\ run[s] \in Process /\ run'[s] \in Process /\ Shaped(run[s])
         /\ Bystands(s) \/ (Step(s) /\ (run'[s] = Idle \/ Fresh(s) \/ Middle(s)))
         /\ ~Step(s) => Bystands(s)
<1>1. run \in [Proc -> Process] /\ run[s] \in Process /\ Shaped(run[s])
  BY Typed
<1>2. CASE \E p \in Path, b \in Content \union {NoFile} : UserPut(p, b)
  <2>1. PICK p \in Path, b \in Content \union {NoFile} : UserPut(p, b)
    BY <1>2
  <2>2. Bystands(s) /\ stamps' = stamps
    BY <2>1, UserStands DEF UserPut
  <2>3. run' \in [Proc -> Process]
    BY <1>1, <2>1, DisturbTyped DEF UserPut
  <2>4. Shaped(run[s])'
    BY <1>1, <2>2, <2>3, StandsShaped
  <2> QED
    BY <1>1, <2>2, <2>3, <2>4
<1>3. CASE \E r \in Proc : Step(r)
  <2>1. PICK r \in Proc : Step(r)
    BY <1>3
  <2>2. Sound(r)
    BY <2>1, StepIsSound
  <2>3. CASE s = r
    BY <1>1, <2>1, <2>2, <2>3, StepKinds DEF Sound
  <2>4. CASE s # r
    <3>1. Bystands(s) /\ run' \in [Proc -> Process]
      BY <2>2, <2>4 DEF Sound
    <3>2. stamps' \in {stamps, stamps + 1}
      BY WhoChanges DEF SealBegin
    <3>3. Shaped(run[s])'
      BY <1>1, <3>1, <3>2, StandsShaped
    <3> QED
      BY <1>1, <3>1, <3>3
  <2> QED
    BY <2>3, <2>4
<1> QED
  BY <1>2, <1>3 DEF Next

(* What a process keeps from its first step on. *)
Keeps(m, n) ==
  /\ n.cmd = m.cmd /\ n.w = m.w /\ n.watch = m.watch /\ n.known = m.known
  /\ m.cmd # "latest" => n.v = m.v
  /\ m.at # "open" => n.before = m.before /\ n.touched = m.touched
  /\ m.cmd # "seal" /\ m.at \in {"walk", "copy", "open out"} /\ n.at # "append" =>
       n.rows = m.rows
  /\ m.cmd = "recover" => n.from = m.from /\ n.cur = m.cur /\ n.shared = m.shared

LEMMA WriteOn ==
  ASSUME run \in [Proc -> Process], NEW r \in Proc, NEW p, NEW b, NEW n, Write(r, p, b, n)
  PROVE  run'[r] = n
  BY DEF Write, Disturb

LEMMA SealKeeps ==
  ASSUME TypeOK, ShapeInv, NEW r \in Proc, NEW p,
         \/ SealOpen(r) \/ SealStore(r) \/ SealEnd(r) \/ SealLook(r, p) \/ SealMiss(r, p)
         \/ SealReaddirFails(r) \/ SealHash(r)
  PROVE  Keeps(run[r], run'[r])
<1>1. run \in [Proc -> Process] /\ run[r] \in Process /\ Shaped(run[r])
  BY Typed
<1>0. run[r].cmd = "seal"
  BY <1>1 DEF SealOpen, SealReaddirFails, SealHash, SealStore, SealEnd, SealLook, SealMiss, AtEntry,
         Shaped
<1>2. CASE SealOpen(r)
  <2>1. run'[r] = [run[r] EXCEPT !.at = "walk", !.todo = Path \ Skipped, !.before = live,
                                 !.touched = {}]
    BY <1>1, <1>2, GoesOn DEF SealOpen
  <2> QED
    BY <1>0, <1>1, <1>2, <2>1 DEF SealOpen, Keeps, Process
<1>3. CASE SealStore(r)
  <2>1. \E t, b, l, st : Goes(r, After(run[r], t, b, l, st))
    BY <1>3, StoreIs DEF StoreMakes
  <2>2. \E t, b, l, st : run'[r] = After(run[r], t, b, l, st)
    BY <1>1, <2>1, GoesOn
  <2> QED
    BY <1>0, <1>1, <2>2 DEF After, Keeps, Process
<1>4. CASE SealEnd(r)
  <2>1. run'[r] = [run[r] EXCEPT !.at = "append", !.rows = NoRows, !.bad = FALSE, !.lost = FALSE]
    BY <1>1, <1>4, GoesOn DEF SealEnd
  <2> QED
    BY <1>0, <1>1, <2>1 DEF Keeps, Process
<1>7. CASE SealReaddirFails(r)
  <2>1. \E S : run'[r] = [run[r] EXCEPT !.todo = @ \ S, !.lost = TRUE]
    BY <1>1, <1>7, GoesOn DEF SealReaddirFails
  <2> QED
    BY <1>0, <1>1, <2>1 DEF Keeps, Process
<1>8. CASE SealHash(r)
  <2>1. \/ run'[r] = [run[r] EXCEPT !.hash = Hash[live[run[r].cur]]]
        \/ run'[r] = [run[r] EXCEPT !.at = "walk", !.cur = NoPath, !.size = NoRow,
                                    !.hash = NoRow, !.status = "ERROR"]
    <3>1. [Stored(run[r]) EXCEPT !.status = "ERROR"] =
            [run[r] EXCEPT !.at = "walk", !.cur = NoPath, !.size = NoRow,
                           !.hash = NoRow, !.status = "ERROR"]
      BY <1>1 DEF Stored, Process
    <3> QED
      BY <1>1, <1>8, <3>1, GoesOn DEF SealHash
  <2> QED
    BY <1>0, <1>1, <2>1 DEF Keeps, Process
<1>5. CASE SealLook(r, p)
  <2>1. \/ run'[r] = [run[r] EXCEPT !.todo = run[r].todo \ {p}]
        \/ run'[r] = [run[r] EXCEPT !.todo = run[r].todo \ {p}, !.at = "store", !.cur = p,
                                    !.size = SizeOf[live[p]]]
    BY <1>1, <1>5, GoesOn DEF SealLook
  <2> QED
    BY <1>0, <1>1, <2>1 DEF Keeps, Process
<1>6. CASE SealMiss(r, p)
  <2>1. run'[r] = [run[r] EXCEPT !.todo = run[r].todo \ {p}, !.status = "ERROR"]
    BY <1>1, <1>6, GoesOn DEF SealMiss
  <2> QED
    BY <1>0, <1>1, <2>1 DEF Keeps, Process
<1> QED
  BY <1>2, <1>3, <1>4, <1>5, <1>6, <1>7, <1>8

(* What a manifest that loads, or does not, makes of each command. *)
LEMMA LoadedIs ==
  ASSUME TypeOK, ShapeInv, NEW r \in Proc, run[r].at = "load", NEW m
  PROVE  /\ run[r].cmd \in Walking =>
              Loaded(r, m) = [run[r] EXCEPT !.rows = m.rows, !.at = "walk",
                                !.todo = IF run[r].cmd = "restore" THEN Filed(m.rows) ELSE Path]
         /\ run[r].cmd = "inspect" => Loaded(r, m) = [run[r] EXCEPT !.at = "append"]
         /\ run[r].cmd = "diff" => Loaded(r, m) = [run[r] EXCEPT !.rows = m.rows, !.at = "load2"]
         /\ run[r].cmd = "recover" =>
              \/ Loaded(r, m) = [run[r] EXCEPT !.at = "append", !.status = "MISSING"]
              \/ Loaded(r, m) = [run[r] EXCEPT !.at = "append", !.status = "UNRECOVERABLE"]
              \/ /\ Loaded(r, m) = [run[r] EXCEPT !.rows = m.rows, !.at = "open out"]
                 /\ m.rows[run[r].from] # NoRow
         /\ run[r].cmd \in Walking \union {"inspect", "diff", "recover"}
<1>1. run[r] \in Process /\ Shaped(run[r])
  BY Typed
<1>2. run[r].cmd \in Walking \union {"inspect", "recover", "diff"}
  BY <1>1 DEF Shaped
<1>3. ASSUME run[r].cmd \in Walking
      PROVE  Loaded(r, m) = [run[r] EXCEPT !.rows = m.rows, !.at = "walk",
                               !.todo = IF run[r].cmd = "restore" THEN Filed(m.rows) ELSE Path]
  <2>1. PICK x : x = IF run[r].cmd = "restore" THEN Filed(m.rows) ELSE Path
    OBVIOUS
  <2>2. Loaded(r, m) = [run[r] EXCEPT !.rows = m.rows, !.at = "walk", !.todo = x]
    BY <1>1, <1>3, <2>1 DEF Loaded, Process, Walking, Verifying
  <2> QED
    BY <2>1, <2>2
<1>4. run[r].cmd = "inspect" => Loaded(r, m) = [run[r] EXCEPT !.at = "append"]
  BY <1>1 DEF Loaded, Process, Walking, Verifying
<1>5. run[r].cmd = "diff" => Loaded(r, m) = [run[r] EXCEPT !.rows = m.rows, !.at = "load2"]
  BY <1>1 DEF Loaded, Process, Walking, Verifying
<1>6. run[r].cmd = "recover" =>
              \/ Loaded(r, m) = [run[r] EXCEPT !.at = "append", !.status = "MISSING"]
              \/ Loaded(r, m) = [run[r] EXCEPT !.at = "append", !.status = "UNRECOVERABLE"]
              \/ /\ Loaded(r, m) = [run[r] EXCEPT !.rows = m.rows, !.at = "open out"]
                 /\ m.rows[run[r].from] # NoRow
  BY <1>1 DEF Loaded, Process, Walking, Verifying
<1> QED
  BY <1>2, <1>3, <1>4, <1>5, <1>6

LEMMA LoadKeeps ==
  ASSUME TypeOK, ShapeInv, NEW r \in Proc, Load(r) \/ LoadFails(r) \/ DiffLoad2(r)
  PROVE  run'[r] = Idle \/ Keeps(run[r], run'[r])
<1>1. run \in [Proc -> Process] /\ run[r] \in Process /\ Shaped(run[r])
  BY Typed
<1>2. CASE Load(r)
  <2>1. run'[r] = Loaded(r, vaults[run[r].v]) /\ run[r].at = "load"
    BY <1>1, <1>2, GoesOn DEF Load
  <2>2. PICK m : m = vaults[run[r].v]
    OBVIOUS
  <2>3. PICK x : x = IF run[r].cmd = "restore" THEN Filed(m.rows) ELSE Path
    OBVIOUS
  <2>4. /\ run[r].cmd \in Walking =>
             Loaded(r, m) = [run[r] EXCEPT !.rows = m.rows, !.at = "walk", !.todo = x]
        /\ run[r].cmd = "inspect" => Loaded(r, m) = [run[r] EXCEPT !.at = "append"]
        /\ run[r].cmd = "diff" => Loaded(r, m) = [run[r] EXCEPT !.rows = m.rows, !.at = "load2"]
        /\ run[r].cmd = "recover" =>
              \/ Loaded(r, m) = [run[r] EXCEPT !.at = "append", !.status = "MISSING"]
              \/ Loaded(r, m) = [run[r] EXCEPT !.at = "append", !.status = "UNRECOVERABLE"]
              \/ Loaded(r, m) = [run[r] EXCEPT !.rows = m.rows, !.at = "open out"]
        /\ run[r].cmd \in Walking \union {"inspect", "diff", "recover"}
    BY <2>1, <2>3, LoadedIs
  <2>5. PICK n : n = Loaded(r, m)
    OBVIOUS
  <2>6. CASE run[r].cmd \in Walking
    <3>1. n = [run[r] EXCEPT !.rows = m.rows, !.at = "walk", !.todo = x]
      BY <2>4, <2>5, <2>6
    <3> QED
      BY <1>1, <2>1, <2>2, <2>5, <3>1 DEF Keeps, Process
  <2>7. CASE run[r].cmd \in {"inspect", "diff", "recover"}
    <3>1. \/ n = [run[r] EXCEPT !.at = "append"]
          \/ n = [run[r] EXCEPT !.rows = m.rows, !.at = "load2"]
          \/ n = [run[r] EXCEPT !.at = "append", !.status = "MISSING"]
          \/ n = [run[r] EXCEPT !.at = "append", !.status = "UNRECOVERABLE"]
          \/ n = [run[r] EXCEPT !.rows = m.rows, !.at = "open out"]
      BY <2>4, <2>5, <2>7
    <3>2. run[r].at = "load"
      BY <2>1
    <3>3. Keeps(run[r], n)
      BY <1>1, <3>1, <3>2 DEF Keeps, Process
    <3> QED
      BY <2>1, <2>2, <2>5, <3>3
  <2> QED
    BY <2>4, <2>6, <2>7
<1>3. CASE LoadFails(r)
  <2>1. run'[r] = IF run[r].cmd = "diff" THEN Idle
                  ELSE [run[r] EXCEPT !.at = "append", !.status = Bad(run[r].cmd)]
    BY <1>1, <1>3, GoesOn DEF LoadFails
  <2> QED
    BY <1>1, <2>1 DEF Keeps, Process
<1>4. CASE DiffLoad2(r)
  <2>1. PICK word : word = IF NoDifference(run[r].rows, vaults[run[r].w].rows) THEN run[r].status
                           ELSE Bad("diff")
    OBVIOUS
  <2>2. run'[r] = Idle \/
        run'[r] = [run[r] EXCEPT !.rows = NoRows, !.at = "append", !.status = word]
    BY <1>1, <1>4, <2>1, GoesOn DEF DiffLoad2
  <2> QED
    BY <1>1, <1>4, <2>2 DEF Keeps, Process, DiffLoad2
<1> QED
  BY <1>2, <1>3, <1>4

LEMMA WalkKeeps ==
  ASSUME TypeOK, ShapeInv, NEW r \in Proc, NEW p,
         \/ VerifyVisit(r, p) \/ PruneVisit(r, p) \/ WalkMisses(r, p) \/ RestoreVisit(r, p)
         \/ WalkEnd(r)
  PROVE  Keeps(run[r], run'[r])
<1>1. run \in [Proc -> Process] /\ run[r] \in Process /\ Shaped(run[r])
  BY Typed
<1>2. CASE VerifyVisit(r, p)
  <2>1. PICK word : word = IF Matches(r, p) THEN run[r].status ELSE "DAMAGE"
    OBVIOUS
  <2>2. run'[r] = [run[r] EXCEPT !.todo = run[r].todo \ {p}, !.status = word]
    BY <1>1, <1>2, <2>1, GoesOn DEF VerifyVisit
  <2> QED
    BY <1>1, <2>2 DEF Keeps, Process
<1>3. CASE PruneVisit(r, p)
  <2>1. run'[r] = [run[r] EXCEPT !.todo = run[r].todo \ {p}]
    BY <1>1, <1>3, GoesOn, WriteOn DEF PruneVisit
  <2> QED
    BY <1>1, <2>1 DEF Keeps, Process
<1>4. CASE WalkMisses(r, p)
  <2>1. PICK word : word = IF run[r].cmd = "prune" \/ run[r].rows[p] = NoRow
                           THEN run[r].status ELSE "DAMAGE"
    OBVIOUS
  <2>2. \/ run'[r] = [run[r] EXCEPT !.todo = run[r].todo \ {p}, !.status = word]
        \/ run'[r] = [run[r] EXCEPT !.todo = run[r].todo \ {p}, !.status = Bad(run[r].cmd)]
    BY <1>1, <1>4, <2>1, GoesOn DEF WalkMisses
  <2> QED
    BY <1>1, <2>2 DEF Keeps, Process
<1>5. CASE RestoreVisit(r, p)
  <2>1. PICK word : word = IF vaults[run[r].v].blobs[run[r].rows[p].hash] = NoFile THEN "ERROR"
                           ELSE run[r].status
    OBVIOUS
  <2> DEFINE next == [run[r] EXCEPT !.todo = run[r].todo \ {p}]
  <2>2. \/ run'[r] = [next EXCEPT !.at = "copy", !.from = p, !.cur = p]
        \/ run'[r] = [next EXCEPT !.status = word]
    <3>1. next.status = run[r].status
      BY <1>1 DEF Process
    <3> QED
      BY <1>1, <1>5, <2>1, <3>1, GoesOn, WriteOn DEF RestoreVisit
  <2>3. /\ [next EXCEPT !.at = "copy", !.from = p, !.cur = p] =
             [run[r] EXCEPT !.todo = run[r].todo \ {p}, !.at = "copy", !.from = p, !.cur = p]
        /\ [next EXCEPT !.status = word] =
             [run[r] EXCEPT !.todo = run[r].todo \ {p}, !.status = word]
    BY <1>1 DEF Process
  <2>4. \/ run'[r] = [run[r] EXCEPT !.todo = run[r].todo \ {p}, !.at = "copy", !.from = p,
                                    !.cur = p]
        \/ run'[r] = [run[r] EXCEPT !.todo = run[r].todo \ {p}, !.status = word]
    BY <2>2, <2>3
  <2>5. run[r].cmd = "restore"
    BY <1>5 DEF RestoreVisit, AtEntry
  <2> QED
    BY <1>1, <2>4, <2>5 DEF Keeps, Process
<1>6. CASE WalkEnd(r)
  <2>1. run'[r] = [run[r] EXCEPT !.at = "append", !.rows = NoRows]
    BY <1>1, <1>6, GoesOn DEF WalkEnd
  <2> QED
    BY <1>1, <2>1 DEF Keeps, Process
<1> QED
  BY <1>2, <1>3, <1>4, <1>5, <1>6

LEMMA CopyKeeps ==
  ASSUME TypeOK, ShapeInv, NEW r \in Proc, RecoverOpen(r) \/ CopyWrite(r) \/ CopyFails(r)
  PROVE  Keeps(run[r], run'[r])
<1>1. run \in [Proc -> Process] /\ run[r] \in Process /\ Shaped(run[r])
  BY Typed
<1>2. CASE RecoverOpen(r)
  <2>1. run'[r] = [run[r] EXCEPT !.at = "copy"]
    BY <1>1, <1>2, WriteOn DEF RecoverOpen
  <2> QED
    BY <1>1, <2>1 DEF Keeps, Process
<1>3. CASE CopyWrite(r) \/ CopyFails(r)
  <2>1. run'[r] = AfterCopy(r) \/ run'[r] = [AfterCopy(r) EXCEPT !.status = "ERROR"]
    BY <1>1, <1>3, GoesOn, WriteOn DEF CopyWrite, CopyFails
  <2>2. CASE run[r].cmd = "recover"
    <3>1. AfterCopy(r) = [run[r] EXCEPT !.at = "append", !.rows = NoRows]
      BY <2>2 DEF AfterCopy
    <3>2. Keeps(run[r], AfterCopy(r)) /\ Keeps(run[r], [AfterCopy(r) EXCEPT !.status = "ERROR"])
      BY <1>1, <2>2, <3>1 DEF Keeps, Process
    <3> QED
      BY <2>1, <3>2
  <2>3. CASE run[r].cmd # "recover"
    <3>1. AfterCopy(r) = [run[r] EXCEPT !.at = "walk", !.from = NoPath, !.cur = NoPath,
                                        !.shared = FALSE]
      BY <2>3 DEF AfterCopy
    <3>2. Keeps(run[r], AfterCopy(r)) /\ Keeps(run[r], [AfterCopy(r) EXCEPT !.status = "ERROR"])
      BY <1>1, <2>3, <3>1 DEF Keeps, Process
    <3> QED
      BY <2>1, <3>2
  <2> QED
    BY <2>2, <2>3
<1> QED
  BY <1>2, <1>3

LEMMA ListKeeps ==
  ASSUME TypeOK, ShapeInv, NEW r \in Proc, Latest(r) \/ Timeline(r)
  PROVE  run'[r] = Idle \/ Keeps(run[r], run'[r])
<1>1. run \in [Proc -> Process] /\ run[r] \in Process /\ Shaped(run[r])
  BY Typed
<1>2. CASE Latest(r)
  <2>1. PICK S : run'[r] = IF S = {} THEN Idle
                           ELSE [run[r] EXCEPT !.at = "append", !.v = Newest(S), !.found = {}]
    BY <1>1, <1>2, GoesOn DEF Latest
  <2> QED
    BY <1>1, <1>2, <2>1 DEF Latest, Keeps, Process
<1>3. CASE Timeline(r)
  <2>1. PICK S : run'[r] = [run[r] EXCEPT !.at = "append", !.found = {v \in S : Loads(v)}]
    BY <1>1, <1>3, GoesOn DEF Timeline
  <2> QED
    BY <1>1, <2>1 DEF Keeps, Process
<1> QED
  BY <1>2, <1>3

LEMMA MiddleKeeps ==
  ASSUME TypeOK, ShapeInv, NEW r \in Proc, Middle(r)
  PROVE  run'[r] = Idle \/ Keeps(run[r], run'[r])
<1>1. PICK p : p = NoPath
  OBVIOUS
<1> QED
  BY <1>1, SealKeeps, LoadKeeps, WalkKeeps, CopyKeeps, ListKeeps DEF Middle

-----------------------------------------------------------------------------
(* The types, the shapes and the seals, kept by every step.                 *)

LEMMA WhoWrites ==
  ASSUME NEW r \in Proc, Step(r)
  PROVE  \/ UNCHANGED live
         \/ \E p \in Path : PruneVisit(r, p) \/ RestoreVisit(r, p)
         \/ RecoverOpen(r) \/ CopyWrite(r)
<1>1. ASSUME NEW v, NEW w, NEW p, NEW q, NEW cmd,
             \/ SealBegin(r) \/ HealBegin(r, cmd, v) \/ DiffBegin(r, v, w)
             \/ RecoverBegin(r, v, p, q) \/ WatchBegin(r, v) \/ ListBegin(r, cmd)
      PROVE  UNCHANGED live
  BY <1>1 DEF SealBegin, HealBegin, DiffBegin, RecoverBegin, WatchBegin, ListBegin, Begin
<1>2. ASSUME NEW p,
             \/ SealOpen(r) \/ SealLook(r, p) \/ SealMiss(r, p) \/ SealReaddirFails(r)
             \/ SealHash(r) \/ SealStore(r) \/ SealEnd(r)
             \/ Load(r) \/ LoadFails(r) \/ DiffLoad2(r)
             \/ VerifyVisit(r, p) \/ WalkMisses(r, p) \/ CopyFails(r) \/ WalkEnd(r)
      PROVE  UNCHANGED live
  BY <1>2 DEF SealOpen, SealLook, SealMiss, SealReaddirFails, SealHash, SealStore, SealEnd, Load,
     LoadFails, DiffLoad2,
              VerifyVisit, WalkMisses, CopyFails, WalkEnd, disk
<1>3. ASSUME Latest(r) \/ Timeline(r) \/ LedgerAppend(r) \/ Kill(r)
      PROVE  UNCHANGED live
  BY <1>3 DEF Latest, Timeline, LedgerAppend, Kill, disk
<1> QED
  BY <1>1, <1>2, <1>3 DEF Step

LEMMA WhoSpends ==
  ASSUME Next
  PROVE  UNCHANGED spent \/ \E what \in {"commands", "edits", "faults"} : Spend(what)
<1>1. ASSUME NEW p, NEW b, UserPut(p, b)
      PROVE  Spend("edits")
  BY <1>1 DEF UserPut, Trouble
<1>2. ASSUME NEW r \in Proc, NEW v, NEW w, NEW p, NEW q, NEW cmd,
             \/ SealBegin(r) \/ HealBegin(r, cmd, v) \/ DiffBegin(r, v, w)
             \/ RecoverBegin(r, v, p, q) \/ WatchBegin(r, v) \/ ListBegin(r, cmd)
      PROVE  Spend("commands")
  BY <1>2 DEF SealBegin, HealBegin, DiffBegin, RecoverBegin, WatchBegin, ListBegin, Begin
<1>3. ASSUME NEW r \in Proc, NEW p,
             \/ SealOpen(r) \/ SealLook(r, p) \/ SealMiss(r, p) \/ SealReaddirFails(r)
             \/ SealHash(r) \/ SealStore(r) \/ SealEnd(r)
             \/ Load(r) \/ LoadFails(r) \/ DiffLoad2(r)
      PROVE  UNCHANGED spent \/ Spend("faults")
  BY <1>3 DEF SealOpen, SealLook, SealMiss, SealReaddirFails, SealHash, SealStore, SealEnd, Load,
     LoadFails, DiffLoad2,
              NoFault, Fault, Trouble
<1>4. ASSUME NEW r \in Proc, NEW p,
             \/ VerifyVisit(r, p) \/ PruneVisit(r, p) \/ WalkMisses(r, p) \/ RestoreVisit(r, p)
             \/ RecoverOpen(r) \/ CopyWrite(r) \/ CopyFails(r) \/ WalkEnd(r)
      PROVE  UNCHANGED spent \/ Spend("faults")
  BY <1>4 DEF VerifyVisit, PruneVisit, WalkMisses, RestoreVisit, RecoverOpen, CopyWrite,
              CopyFails, WalkEnd, NoFault, Fault, Trouble
<1>5. ASSUME NEW r \in Proc, Latest(r) \/ Timeline(r) \/ LedgerAppend(r) \/ Kill(r)
      PROVE  UNCHANGED spent \/ Spend("faults")
  BY <1>5 DEF Latest, Timeline, LedgerAppend, Kill, NoFault, Fault, Trouble
<1>6. ASSUME NEW r \in Proc, Step(r)
      PROVE  UNCHANGED spent \/ \E what \in {"commands", "faults"} : Spend(what)
  BY <1>2, <1>3, <1>4, <1>5, <1>6 DEF Step
<1> QED
  BY <1>1, <1>6 DEF Next

LEMMA LiveTyped ==
  ASSUME TypeOK, ShapeInv, Next
  PROVE  live' \in [Path -> LiveFile]
<1>1. live \in [Path -> LiveFile]
  BY DEF TypeOK
<1>2. Torn \in LiveFile /\ NoFile \in LiveFile /\ Content \subseteq LiveFile
  BY DEF LiveFile, Bytes
<1>3. ASSUME NEW r \in Proc, NEW p, NEW b \in LiveFile, NEW n, Write(r, p, b, n)
      PROVE  live' \in [Path -> LiveFile]
  BY <1>1, <1>3 DEF Write
<1>4. ASSUME NEW p, NEW b \in Content \union {NoFile}, UserPut(p, b)
      PROVE  live' \in [Path -> LiveFile]
  BY <1>1, <1>2, <1>4 DEF UserPut
<1>5. ASSUME NEW r \in Proc, CopyWrite(r)
      PROVE  live' \in [Path -> LiveFile]
  <2>1. run[r] \in Process /\ Shaped(run[r]) /\ run[r].at = "copy"
    BY <1>5, Typed DEF CopyWrite
  <2>2. run[r].cur \in Path /\ run[r].from \in Filed(run[r].rows) /\ run[r].v \in HasManifest
    BY <2>1 DEF TypeOK, ShapeInv
  <2>3. run[r].rows[run[r].from].hash \in HashId
    BY <2>1, <2>2 DEF Process, RowTable, FileRow, Filed
  <2>4. vaults[run[r].v] \in VaultDir
    BY <2>2 DEF TypeOK, HasManifest
  <2>5. Blob(r) \in LiveFile
    BY <2>3, <2>4 DEF Blob, VaultDir
  <2>6. live[run[r].cur] \in LiveFile
    BY <1>1, <2>2
  <2>7. PICK b \in {Blob(r), NoFile, live[run[r].cur], Torn} :
          Write(r, run[r].cur, b, AfterCopy(r))
    BY <1>5 DEF CopyWrite
  <2> QED
    BY <1>2, <1>3, <2>5, <2>6, <2>7
<1>6. ASSUME NEW r \in Proc, NEW p, PruneVisit(r, p) \/ RestoreVisit(r, p) \/ RecoverOpen(r)
      PROVE  live' \in [Path -> LiveFile]
  <2>1. UNCHANGED live \/ \E q, n : Write(r, q, NoFile, n) \/ Write(r, q, Torn, n)
    BY <1>6 DEF PruneVisit, RestoreVisit, RecoverOpen, disk
  <2> QED
    BY <1>1, <1>2, <1>3, <2>1
<1> QED
  BY <1>1, <1>4, <1>5, <1>6, WhoWrites DEF Next

(* A vault of which a seal was reported stays as it is, and its report too. *)
LEMMA ToldStays ==
  ASSUME TypeOK, ShapeInv, SealsInv, Next
  PROVE  /\ HasManifest \subseteq HasManifest'
         /\ HasManifest' \subseteq 1 .. stamps'
         /\ \A v \in Vault : told[v] # NotTold => told'[v] = told[v] /\ vaults'[v] = vaults[v]
         /\ \A v \in Vault : told'[v] # told[v] =>
              \E r \in Proc : /\ SealEnd(r) /\ run[r].v = v /\ Reported(r)
                              /\ told'[v] = Told(r)
         /\ vaults' \in [Vault -> VaultDir \union {NoVault}]
         /\ told' \in [Vault -> Report \union {NotTold}]
         /\ \A v \in Vault : told'[v] # NotTold => vaults'[v] # NoVault
<1> DEFINE Goal ==
         /\ HasManifest \subseteq HasManifest'
         /\ HasManifest' \subseteq 1 .. stamps
         /\ \A v \in Vault : told[v] # NotTold => told'[v] = told[v] /\ vaults'[v] = vaults[v]
         /\ \A v \in Vault : told'[v] # told[v] =>
              \E r \in Proc : /\ SealEnd(r) /\ run[r].v = v /\ Reported(r)
                              /\ told'[v] = Told(r)
         /\ vaults' \in [Vault -> VaultDir \union {NoVault}]
         /\ told' \in [Vault -> Report \union {NotTold}]
         /\ \A v \in Vault : told'[v] # NotTold => vaults'[v] # NoVault
<1>1. /\ vaults \in [Vault -> VaultDir \union {NoVault}]
      /\ told \in [Vault -> Report \union {NotTold}]
      /\ \A v \in Vault : told[v] # NotTold => vaults[v] # NoVault
      /\ HasManifest \subseteq 1 .. stamps
  BY DEF TypeOK, ShapeInv
<1>2. ASSUME UNCHANGED <<vaults, told>>
      PROVE  Goal
  BY <1>1, <1>2 DEF HasManifest
<1>3. ASSUME NEW r \in Proc, SealOpen(r) \/ SealStore(r) \/ SealEnd(r)
      PROVE  Goal
  <2>1. PICK m \in VaultDir : \/ vaults' = [vaults EXCEPT ![run[r].v] = m]
                              \/ vaults' = vaults /\ vaults[run[r].v] = m
    BY <1>3, VaultTyped
  <2>2. /\ run[r].cmd = "seal" /\ run[r].v \in Vault /\ run[r].v \in 1 .. stamps
        /\ told' = told \/ (SealEnd(r) /\ told' = [told EXCEPT ![run[r].v] = Told(r)])
        /\ Told(r) \in Report
    BY <1>3, VaultTyped
  <2>3. told[run[r].v] = NotTold
    BY <1>3, <2>2 DEF SealsInv, SealOpen, SealStore, SealEnd
  <2>4. m # NoVault
    BY IVaultAssumption
  <2>5. \A v \in Vault : vaults'[v] = IF v = run[r].v THEN m ELSE vaults[v]
    BY <1>1, <2>1, <2>2
  <2>6. vaults' \in [Vault -> VaultDir \union {NoVault}]
    BY <1>1, <2>1, <2>2
  <2>7. told' \in [Vault -> Report \union {NotTold}]
    BY <1>1, <2>2
  <2>8. \A v \in Vault : v # run[r].v => told'[v] = told[v]
    BY <1>1, <2>2
  <2>9. told'[run[r].v] # told[run[r].v] =>
          SealEnd(r) /\ Reported(r) /\ told'[run[r].v] = Told(r)
    BY <1>1, <2>2, <2>3 DEF SealEnd
  <2>10. \A v \in HasManifest : v \in HasManifest'
    BY <2>4, <2>5 DEF HasManifest
  <2>11. \A v \in HasManifest' : v \in 1 .. stamps
    BY <1>1, <2>2, <2>5 DEF HasManifest
  <2>12. \A v \in Vault : told'[v] # NotTold => vaults'[v] # NoVault
    BY <1>1, <2>4, <2>5, <2>8
  <2> QED
    BY <1>3, <2>2, <2>3, <2>5, <2>6, <2>7, <2>8, <2>9, <2>10, <2>11, <2>12
<1> HIDE DEF Goal
<1>4. Goal
  BY <1>2, <1>3, WhoChanges DEF Goal
<1>5. \A v \in 1 .. stamps : v \in 1 .. stamps'
  <2>1. stamps' \in {stamps, stamps + 1}
    BY WhoChanges DEF SealBegin
  <2> QED
    BY <2>1, IVaultAssumption DEF TypeOK
<1> QED
  BY <1>4, <1>5 DEF Goal

(* The vault a command was given is one. *)
LEMMA VaultOf ==
  ASSUME TypeOK, ShapeInv, NEW s \in Proc
  PROVE  /\ run[s].cmd \notin {"none", "latest", "timeline"} =>
              run[s].v \in 1 .. stamps /\ run[s].v \in Vault
         /\ run[s].cmd = "diff" => run[s].w \in 1 .. stamps /\ run[s].w \in Vault
<1>1. Shaped(run[s])
  BY Typed
<1>2. /\ run[s].cmd \notin {"none", "latest", "timeline"} => run[s].v \in 1 .. stamps
      /\ run[s].cmd = "diff" => run[s].w \in 1 .. stamps
  BY <1>1 DEF Shaped
<1>3. \A v \in 1 .. stamps : v \in Vault
  BY IVaultAssumption DEF TypeOK, Vault
<1> QED
  BY <1>2, <1>3

(* Who works by a vault, or seals into it, has it on disk. *)
LEMMA HasIts ==
  ASSUME TypeOK, ShapeInv, SealsInv, Next, NEW s \in Proc
  PROVE  /\ run'[s].at \in {"walk", "copy", "open out", "load2"} => run'[s].v \in HasManifest'
         /\ run'[s].cmd = "seal" /\ run'[s].at # "open" => vaults'[run'[s].v] # NoVault
<1>1. /\ run[s] \in Process /\ run'[s] \in Process /\ Shaped(run[s]) /\ Shaped(run[s])'
      /\ Bystands(s) \/ (Step(s) /\ (run'[s] = Idle \/ Fresh(s) \/ Middle(s)))
  BY Everyone
<1>2. HasManifest \subseteq HasManifest' /\ HasManifest' \subseteq Vault
  BY ToldStays DEF HasManifest
<1>3. /\ run[s].at \in {"walk", "copy", "open out", "load2"} => run[s].v \in HasManifest
      /\ run[s].cmd = "seal" /\ run[s].at # "open" => run[s].v \in HasManifest
  <2>1. run[s].cmd = "seal" => run[s].v \in Vault
    BY VaultOf
  <2> QED
    BY <2>1 DEF TypeOK, ShapeInv, HasManifest
<1>4. CASE Bystands(s)
  BY <1>1, <1>2, <1>3, <1>4, StandsKeeps DEF HasManifest
<1>5. CASE run'[s] = Idle
  BY <1>5 DEF Idle
<1>6. CASE Fresh(s)
  BY <1>6 DEF Fresh, Walking, Verifying
<1>7. CASE Middle(s) /\ run'[s] # Idle
  <2>1. Keeps(run[s], run'[s])
    BY <1>7, MiddleKeeps
  <2>2. CASE run[s].cmd = "latest"
    BY <1>1, <2>1, <2>2 DEF Keeps, Shaped, Walking, Verifying
  <2>3. CASE run[s].cmd # "latest" /\ run[s].v \in HasManifest
    BY <1>2, <2>1, <2>3 DEF Keeps, HasManifest
  <2>4. CASE SealOpen(s)
    <3>1. PICK m \in VaultDir : \/ vaults' = [vaults EXCEPT ![run[s].v] = m]
                                \/ vaults' = vaults /\ vaults[run[s].v] = m
      BY <2>4, VaultTyped
    <3>2. run[s].v \in Vault /\ run[s].cmd = "seal"
      BY <2>4, VaultTyped
    <3>3. run[s].v \in HasManifest'
      BY <3>1, <3>2, IVaultAssumption DEF HasManifest, TypeOK
    <3> QED
      BY <2>1, <3>2, <3>3 DEF Keeps, HasManifest
  <2>5. CASE Load(s)
    <3>1. run[s].cmd \in Walking \union {"inspect", "recover", "diff"} /\ run[s].at = "load"
      BY <1>1, <2>5 DEF Load, Shaped
    <3>2. run[s].v \in 1 .. stamps
      BY <1>1, <3>1 DEF Shaped, Walking, Verifying
    <3>3. run[s].v \in Vault
      BY <3>2, IVaultAssumption DEF TypeOK, Vault
    <3>4. run[s].v \in HasManifest
      BY <2>5, <3>3 DEF Load, Loads, HasManifest
    <3> QED
      BY <2>3, <3>1, <3>4 DEF Walking, Verifying
  <2>6. CASE LoadFails(s)
    <3>1. run'[s].at = "append" /\ run'[s].cmd # "seal"
      <4>1. run'[s] = [run[s] EXCEPT !.at = "append", !.status = Bad(run[s].cmd)]
        BY <1>7, <2>6, GoesOn DEF LoadFails, TypeOK
      <4>2. run[s].cmd # "seal"
        BY <1>1, <2>6 DEF LoadFails, Shaped, Walking, Verifying
      <4> QED
        BY <1>1, <4>1, <4>2 DEF Process
    <3> QED
      BY <3>1
  <2>7. \/ run[s].at \in {"walk", "copy", "open out", "load2", "store"} /\ run[s].cmd # "latest"
        \/ run[s].cmd = "latest" \/ SealOpen(s) \/ Load(s) \/ LoadFails(s) \/ Timeline(s)
    BY <1>1, <1>7 DEF Middle, SealReaddirFails, SealHash, SealStore, SealEnd, DiffLoad2,
       SealLook, SealMiss, VerifyVisit,
         PruneVisit, WalkMisses, RestoreVisit, RecoverOpen, CopyWrite, CopyFails, WalkEnd, Latest,
         AtEntry, Shaped, Walking, Verifying
  <2>8. CASE Timeline(s)
    BY <1>1, <2>1, <2>8 DEF Timeline, Keeps, Shaped, Walking, Verifying
  <2>9. run[s].at = "store" => run[s].cmd = "seal"
    BY <1>1 DEF Shaped
  <2> QED
    BY <1>3, <2>2, <2>3, <2>4, <2>5, <2>6, <2>7, <2>8, <2>9
<1> QED
  BY <1>1, <1>4, <1>5, <1>6, <1>7

(* Each row names its event. *)
LEMMA EventTyped ==
  ASSUME NEW n, n.cmd \in Commands \ {"none"}, Watches(n), n.watch \in BOOLEAN
  PROVE  EventOf(n) \in Events
<1>1. CASE n.watch
  <2>1. n.cmd \in Walking \union {"start", "end"}
    BY <1>1 DEF Watches
  <2> QED
    BY <1>1, <2>1 DEF EventOf, Events, Walking, Verifying
<1>2. CASE ~n.watch
  <2>1. n.cmd \in Commands \ {"none", "start", "post", "end"}
    BY <1>2 DEF Watches
  <2> QED
    BY <1>2, <2>1 DEF EventOf, Events, Commands, Walking, Verifying
<1> QED
  BY <1>1, <1>2

Row == [event : Events, status : Statuses]
Act == [cmd : Commands, watch : BOOLEAN, good : BOOLEAN, lost : BOOLEAN]

RowOf(n) == [event |-> EventOf(n), status |-> n.status]
ActOf(n) == [cmd |-> n.cmd, watch |-> n.watch, good |-> n.status = Good[n.cmd],
             lost |-> n.status = "UNRECOVERABLE"]

LEMMA AppendIs ==
  ASSUME TypeOK, ShapeInv, NEW r \in Proc, LedgerAppend(r)
  PROVE  /\ UNCHANGED <<ledger, acts>> \/
              (ledger' = Append(ledger, RowOf(run[r])) /\ acts' = Append(acts, ActOf(run[r])))
         /\ RowOf(run[r]) \in Row /\ ActOf(run[r]) \in Act
         /\ run[r].cmd \in Commands \ {"none"} /\ Watches(run[r]) /\ May(run[r].cmd, run[r].status)
<1>1. run[r] \in Process /\ Shaped(run[r]) /\ run[r].at = "append"
  BY Typed DEF LedgerAppend
<1>2. /\ run[r].cmd \in Commands \ {"none"} /\ Watches(run[r])
      /\ May(run[r].cmd, run[r].status)
      /\ run[r].watch \in BOOLEAN /\ run[r].status \in Statuses
  BY <1>1 DEF Process, Shaped
<1>3. EventOf(run[r]) \in Events
  BY <1>2, EventTyped
<1>4. RowOf(run[r]) \in Row
  BY <1>2, <1>3 DEF RowOf, Row
<1>5. PICK g \in BOOLEAN, l \in BOOLEAN :
        /\ g = (run[r].status = Good[run[r].cmd]) /\ l = (run[r].status = "UNRECOVERABLE")
  OBVIOUS
<1>6. ActOf(run[r]) = [cmd |-> run[r].cmd, watch |-> run[r].watch, good |-> g, lost |-> l]
  BY <1>5 DEF ActOf
<1>7. ActOf(run[r]) \in Act
  BY <1>2, <1>6 DEF Act
<1>8. UNCHANGED <<ledger, acts>> \/
        (ledger' = Append(ledger, RowOf(run[r])) /\ acts' = Append(acts, ActOf(run[r])))
  BY DEF LedgerAppend, RowOf, ActOf
<1> QED
  BY <1>2, <1>4, <1>7, <1>8

LEMMA LedgerTyped ==
  ASSUME TypeOK, ShapeInv, Next
  PROVE  /\ ledger' \in Seq(Row) /\ acts' \in Seq(Act) /\ Len(ledger') = Len(acts')
<1>1. ledger \in Seq(Row) /\ acts \in Seq(Act) /\ Len(ledger) = Len(acts)
  BY DEF TypeOK, Row, Act
<1>2. ASSUME NEW r \in Proc, LedgerAppend(r)
      PROVE  ledger' \in Seq(Row) /\ acts' \in Seq(Act) /\ Len(ledger') = Len(acts')
  <2>1. PICK row \in Row, act \in Act :
          UNCHANGED <<ledger, acts>> \/ (ledger' = Append(ledger, row) /\ acts' = Append(acts, act))
    BY <1>2, AppendIs
  <2>2. CASE UNCHANGED <<ledger, acts>>
    BY <1>1, <2>2
  <2>3. CASE ledger' = Append(ledger, row) /\ acts' = Append(acts, act)
    BY <1>1, <2>3
  <2> QED
    BY <2>1, <2>2, <2>3
<1> QED
  BY <1>1, <1>2, WhoChanges

LEMMA SealsStep ==
  ASSUME TypeOK, ShapeInv, SealsInv, Next
  PROVE  SealsInv'
<1>1. ASSUME NEW s \in Proc, run'[s].cmd = "seal"
      PROVE  \/ run[s].cmd = "seal" /\ run'[s].v = run[s].v
             \/ Fresh(s) /\ Step(s) /\ run'[s].v = stamps + 1
  <2>1. /\ run[s] \in Process /\ run'[s] \in Process /\ Shaped(run[s])
        /\ Bystands(s) \/ (Step(s) /\ (run'[s] = Idle \/ Fresh(s) \/ Middle(s)))
    BY Everyone
  <2>2. CASE Bystands(s)
    BY <1>1, <2>1, <2>2, StandsKeeps
  <2>3. CASE Fresh(s) /\ Step(s)
    BY <1>1, <2>3 DEF Fresh, Walking, Verifying
  <2>4. CASE Middle(s)
    <3>1. Keeps(run[s], run'[s])
      BY <1>1, <2>4, MiddleKeeps DEF Idle
    <3> QED
      BY <1>1, <3>1 DEF Keeps
  <2> QED
    BY <1>1, <2>1, <2>2, <2>3, <2>4 DEF Idle
<1>2. stamps \in Nat
  BY IVaultAssumption DEF TypeOK
<1>3. \A s \in Proc : run[s].cmd = "seal" => run[s].v \in 1 .. stamps /\ run[s].v # stamps + 1
  BY <1>2, VaultOf
<1>4. ASSUME NEW r \in Proc, NEW s \in Proc, r # s, Step(r), run'[r].cmd = "seal",
             run'[s].cmd = "seal", run'[r].v = run'[s].v
      PROVE  FALSE
  <2>1. Bystands(s) /\ run[s] \in Process
    BY <1>4, StepIsSound, Typed DEF Sound
  <2>2. run[s].cmd = "seal" /\ run'[s].v = run[s].v
    BY <1>4, <2>1, StandsKeeps
  <2> QED
    BY <1>1, <1>3, <1>4, <2>2 DEF SealsInv
<1>5. ASSUME NEW r \in Proc, NEW s \in Proc, run'[r].cmd = "seal", run'[s].cmd = "seal",
             run'[r].v = run'[s].v
      PROVE  r = s
  <2>1. CASE Step(r) \/ Step(s)
    BY <1>4, <1>5, <2>1
  <2>2. CASE ~Step(r) /\ ~Step(s)
    BY <1>1, <1>5, <2>2 DEF SealsInv
  <2> QED
    BY <2>1, <2>2
<1>6. ASSUME NEW s \in Proc, run'[s].cmd = "seal", run'[s].at # "append"
      PROVE  told'[run'[s].v] = NotTold
  <2>1. CASE run[s].cmd = "seal" /\ run'[s].v = run[s].v
    <3>1. run[s].at # "append"
      <4>1. run[s] \in Process
        BY Typed
      <4>2. CASE Bystands(s)
        BY <1>6, <4>1, <4>2, StandsKeeps
      <4>3. CASE Fresh(s) /\ Step(s)
        <5>1. run'[s].v = stamps + 1
          BY <1>6, <4>3 DEF Fresh, Walking, Verifying
        <5> QED
          BY <1>3, <2>1, <5>1
      <4>4. CASE Middle(s)
        BY <4>4, <2>1 DEF Middle, SealOpen, SealReaddirFails, SealHash, SealStore, SealEnd, Load,
           LoadFails, DiffLoad2,
             SealLook, SealMiss, VerifyVisit, PruneVisit, WalkMisses, RestoreVisit, RecoverOpen,
             CopyWrite, CopyFails, WalkEnd, Latest, Timeline, AtEntry
      <4> QED
        BY <1>6, <4>2, <4>3, <4>4, Everyone DEF Idle
    <3>2. told[run[s].v] = NotTold /\ run[s].v \in Vault
      BY <2>1, <3>1, VaultOf DEF SealsInv
    <3>3. ASSUME told'[run[s].v] # NotTold
          PROVE  FALSE
      <4>1. PICK r \in Proc : SealEnd(r) /\ run[r].v = run[s].v
        BY <3>2, <3>3, ToldStays
      <4>2. r = s
        BY <2>1, <4>1 DEF SealEnd, SealsInv
      <4>3. run'[s].at = "append"
        <5>1. run'[s] = [run[s] EXCEPT !.at = "append", !.rows = NoRows, !.bad = FALSE,
                                       !.lost = FALSE]
          BY <4>1, <4>2, GoesOn DEF SealEnd, TypeOK
        <5>2. run[s] \in Process
          BY Typed
        <5> QED
          BY <5>1, <5>2 DEF Process
      <4> QED
        BY <1>6, <4>3
    <3> QED
      BY <2>1, <3>3
  <2>2. CASE Fresh(s) /\ run'[s].v = stamps + 1
    <3>1. UNCHANGED <<told, vaults>> /\ stamps' = stamps + 1
      BY <1>6, <2>2 DEF Fresh, Walking, Verifying
    <3>2. run'[s].v \in Vault
      <4>1. stamps + 1 <= MaxVault
        <5>1. PICK r \in Proc : SealBegin(r)
          BY <1>2, <3>1, WhoChanges
        <5>2. stamps < MaxVault
          BY <5>1 DEF SealBegin
        <5> QED
          BY <1>2, <5>2, IVaultAssumption
      <4> QED
        BY <1>2, <2>2, <4>1, IVaultAssumption DEF Vault
    <3>3. stamps + 1 \notin HasManifest
      <4>1. \A v \in 1 .. stamps : v # stamps + 1
        BY <1>2
      <4> QED
        BY <4>1 DEF ShapeInv
    <3> QED
      BY <2>2, <3>1, <3>2, <3>3 DEF TypeOK, HasManifest
  <2> QED
    BY <1>1, <1>6, <2>1, <2>2
<1> QED
  BY <1>5, <1>6 DEF SealsInv

(* The types, the shapes and the seals, together. *)
Base == TypeOK /\ ShapeInv /\ SealsInv

LEMMA BaseStep ==
  ASSUME Base, Next
  PROVE  Base'
<1>1. TypeOK /\ ShapeInv /\ SealsInv
  BY DEF Base
<1>2. SealsInv'
  BY <1>1, SealsStep
<1>3. /\ HasManifest' \subseteq 1 .. stamps'
      /\ vaults' \in [Vault -> VaultDir \union {NoVault}]
      /\ told' \in [Vault -> Report \union {NotTold}]
      /\ \A v \in Vault : told'[v] # NotTold => vaults'[v] # NoVault
  BY <1>1, ToldStays
<1>4. \A s \in Proc : /\ Shaped(run[s])' /\ run'[s] \in Process
                      /\ run'[s].at \in {"walk", "copy", "open out", "load2"} =>
                           run'[s].v \in HasManifest'
                      /\ run'[s].cmd = "seal" /\ run'[s].at # "open" => vaults'[run'[s].v] # NoVault
  BY <1>1, Everyone, HasIts
<1>5. ShapeInv'
  BY <1>3, <1>4 DEF ShapeInv
<1>6. run' \in [Proc -> Process]
  <2>1. CASE \E r \in Proc : Step(r)
    BY <1>1, <2>1, StepIsSound DEF Sound
  <2>2. CASE \E p \in Path, b \in Content \union {NoFile} : UserPut(p, b)
    <3>1. PICK p \in Path : run' = Disturb({}, p)
      BY <2>2 DEF UserPut
    <3>2. run \in [Proc -> Process]
      BY <1>1 DEF TypeOK
    <3>3. \A s \in Proc \ {} : Disturbed(s, Disturb({}, p)[s], p)
      BY <3>2, DisturbStep
    <3>4. \A s \in Proc : Disturb({}, p)[s] \in Process
      BY <3>3 DEF Disturbed
    <3> QED
      BY <3>1, <3>4 DEF Disturb
  <2> QED
    BY <2>1, <2>2 DEF Next
<1>7. stamps' \in 0 .. MaxVault
  <2>1. stamps' = stamps \/ (stamps < MaxVault /\ stamps' = stamps + 1)
    BY <1>1, WhoChanges DEF SealBegin
  <2>2. stamps \in 0 .. MaxVault /\ MaxVault \in Nat
    BY <1>1, IVaultAssumption DEF TypeOK
  <2> QED
    BY <2>1, <2>2
<1>8. spent' \in [commands : Nat, edits : Nat, faults : Nat]
  <2>1. spent \in [commands : Nat, edits : Nat, faults : Nat]
    BY <1>1 DEF TypeOK
  <2> QED
    BY <2>1, WhoSpends DEF Spend
<1>9. /\ ledger' \in Seq([event : Events, status : Statuses])
      /\ acts' \in Seq([cmd : Commands, watch : BOOLEAN, good : BOOLEAN, lost : BOOLEAN])
      /\ Len(ledger') = Len(acts')
  BY <1>1, LedgerTyped DEF Row, Act
<1>10. live' \in [Path -> LiveFile]
  BY <1>1, LiveTyped
<1>11. ASSUME NEW s \in Proc
       PROVE  /\ run'[s].cmd = "none" <=> run'[s] = Idle
              /\ run'[s].at = "store" => run'[s].cmd = "seal" /\ run'[s].size \in SizeId
              /\ run'[s].at \in {"store", "copy"} => run'[s].cur \in Path
              /\ run'[s].at = "copy" => run'[s].from \in Filed(run'[s].rows)
  <2>1. Shaped(run[s])'
    BY <1>4
  <2>2. PICK n : n = run'[s]
    OBVIOUS
  <2>3. /\ n.cmd = "none" => n = Idle
        /\ n.at = "store" => n.cmd = "seal" /\ n.cur \in Path /\ n.size \in SizeId
        /\ n.at = "copy" => n.from \in Filed(n.rows) /\ n.cmd \in {"restore", "recover"}
        /\ n.at = "copy" /\ n.cmd = "restore" => n.cur = n.from
        /\ n.cmd = "recover" => n.cur \in Path
    BY <2>1, <2>2 DEF Shaped
  <2>4. Filed(n.rows) \subseteq Path
    BY DEF Filed
  <2>5. n = Idle => n.cmd = "none"
    BY DEF Idle
  <2> QED
    BY <2>2, <2>3, <2>4, <2>5
<1>12. TypeOK'
  BY <1>3, <1>4, <1>6, <1>7, <1>8, <1>9, <1>10, <1>11 DEF TypeOK
<1> QED
  BY <1>2, <1>5, <1>12 DEF Base

-----------------------------------------------------------------------------
(* What a command can do, by its name. *)

LEMMA ByCommand ==
  ASSUME TypeOK, ShapeInv, NEW r \in Proc, Middle(r)
  PROVE  /\ run[r].cmd = "seal" => \/ SealOpen(r) \/ SealStore(r) \/ SealEnd(r)
                                   \/ SealReaddirFails(r) \/ SealHash(r)
                                   \/ \E p \in Path : SealLook(r, p) \/ SealMiss(r, p)
         /\ run[r].cmd \in Verifying => \/ Load(r) \/ LoadFails(r) \/ WalkEnd(r)
                                        \/ \E p \in Path : VerifyVisit(r, p) \/ WalkMisses(r, p)
         /\ run[r].cmd = "restore" => \/ Load(r) \/ LoadFails(r) \/ WalkEnd(r)
                                      \/ CopyWrite(r) \/ CopyFails(r)
                                      \/ \E p \in Path : RestoreVisit(r, p)
         /\ run[r].cmd = "prune" => \/ Load(r) \/ LoadFails(r) \/ WalkEnd(r)
                                    \/ \E p \in Path : PruneVisit(r, p) \/ WalkMisses(r, p)
         /\ run[r].cmd = "recover" => \/ Load(r) \/ LoadFails(r) \/ RecoverOpen(r)
                                      \/ CopyWrite(r) \/ CopyFails(r)
         /\ run[r].cmd = "diff" => Load(r) \/ LoadFails(r) \/ DiffLoad2(r)
         /\ run[r].cmd = "inspect" => Load(r) \/ LoadFails(r)
         /\ run[r].cmd = "latest" => Latest(r)
         /\ run[r].cmd = "timeline" => Timeline(r)
         /\ run[r].cmd \notin {"none", "start", "end"}
<1>1. Shaped(run[r])
  BY Typed
<1>2. /\ SealOpen(r) \/ SealReaddirFails(r) \/ SealHash(r) \/ SealStore(r) => run[r].cmd = "seal"
      /\ SealEnd(r) => run[r].cmd = "seal"
      /\ \A p \in Path : SealLook(r, p) \/ SealMiss(r, p) => run[r].cmd = "seal"
  BY <1>1 DEF SealOpen, SealReaddirFails, SealHash, SealStore, SealEnd, SealLook, SealMiss, AtEntry,
         Shaped
<1>3. Load(r) \/ LoadFails(r) => run[r].cmd \in Walking \union {"inspect", "recover", "diff"}
  BY <1>1 DEF Load, LoadFails, Shaped
<1>4. /\ DiffLoad2(r) => run[r].cmd = "diff"
      /\ RecoverOpen(r) => run[r].cmd = "recover"
      /\ CopyWrite(r) \/ CopyFails(r) => run[r].cmd \in {"restore", "recover"}
  BY <1>1 DEF DiffLoad2, RecoverOpen, CopyWrite, CopyFails, Shaped
<1>5. \A p \in Path : /\ VerifyVisit(r, p) => run[r].cmd \in Verifying
                      /\ PruneVisit(r, p) => run[r].cmd = "prune"
                      /\ RestoreVisit(r, p) => run[r].cmd = "restore"
                      /\ WalkMisses(r, p) => run[r].cmd \in Verifying \union {"prune"}
  BY DEF VerifyVisit, PruneVisit, RestoreVisit, WalkMisses, AtEntry
<1>6. /\ WalkEnd(r) => run[r].cmd \in Walking
      /\ Latest(r) => run[r].cmd = "latest"
      /\ Timeline(r) => run[r].cmd = "timeline"
  BY DEF WalkEnd, Latest, Timeline
<1> QED
  BY <1>2, <1>3, <1>4, <1>5, <1>6 DEF Middle, Walking, Verifying

LEMMA IdleIs ==
  /\ Idle.cmd = "none" /\ Idle.at = "idle" /\ Idle.known = {} /\ Idle.touched = {}
  /\ Idle.v = 0 /\ Idle.w = 0
  BY DEF Idle

(* A process after a step of its own: at the beginning of a command, or one *)
(* step further in the same.                                                *)
LEMMA Actor ==
  ASSUME TypeOK, ShapeInv, Next, NEW s \in Proc, Step(s), run'[s].cmd # "none"
  PROVE  Fresh(s) \/ (Middle(s) /\ Keeps(run[s], run'[s]))
<1>1. run'[s] # Idle
  BY DEF Idle
<1> QED
  BY <1>1, StepKinds, MiddleKeeps

(* Nobody else writes into the vault a seal works on. *)
LEMMA OwnVault ==
  ASSUME TypeOK, ShapeInv, SealsInv, Next, NEW s \in Proc, ~Step(s), run[s].cmd = "seal"
  PROVE  vaults'[run[s].v] = vaults[run[s].v]
<1>1. CASE UNCHANGED vaults
  BY <1>1
<1>2. ASSUME NEW r \in Proc, SealOpen(r) \/ SealStore(r) \/ SealEnd(r)
      PROVE  vaults'[run[s].v] = vaults[run[s].v]
  <2>1. r # s
    BY <1>2 DEF Step
  <2>2. run[r].cmd = "seal" /\ run[r].v # run[s].v
    BY <1>2, <2>1, VaultTyped DEF SealsInv
  <2>3. PICK m : \/ vaults' = [vaults EXCEPT ![run[r].v] = m]
                 \/ vaults' = vaults
    BY <1>2, VaultTyped
  <2>4. run[s].v \in Vault
    BY VaultOf
  <2> QED
    BY <2>2, <2>3, <2>4 DEF TypeOK
<1> QED
  BY <1>1, <1>2, WhoChanges

-----------------------------------------------------------------------------
(* The vaults a command knows, and the rows it goes by. *)

LEMMA KnownStep ==
  ASSUME Base, KnownInv, Next
  PROVE  KnownInv'
<1>1. TypeOK /\ ShapeInv /\ SealsInv
  BY DEF Base
<1> SUFFICES ASSUME NEW s \in Proc
             PROVE  /\ \A v \in run'[s].known : told'[v] # NotTold
                    /\ run'[s].v \in run'[s].known /\ run'[s].cmd # "seal"
                         /\ run'[s].at \in {"walk", "copy", "open out", "load2"} =>
                            run'[s].rows = vaults'[run'[s].v].rows
  BY DEF KnownInv, KnownVault
<1>2. /\ run[s] \in Process /\ Shaped(run[s]) /\ run'[s] \in Process /\ Shaped(run[s])'
      /\ ~Step(s) => Bystands(s)
  BY <1>1, Everyone
<1>3. /\ run[s].known \subseteq Vault /\ \A v \in run[s].known : told[v] # NotTold
      /\ run[s].v \in run[s].known /\ run[s].cmd # "seal"
           /\ run[s].at \in {"walk", "copy", "open out", "load2"} =>
              run[s].rows = vaults[run[s].v].rows
  BY <1>2 DEF KnownInv, KnownVault, Process
<1>4. \A v \in run[s].known : told'[v] = told[v] /\ vaults'[v] = vaults[v]
  BY <1>1, <1>3, ToldStays
<1>5. CASE ~Step(s)
  <2>1. /\ run'[s].v = run[s].v /\ run'[s].known = run[s].known /\ run'[s].cmd = run[s].cmd
        /\ run'[s].at = run[s].at /\ run'[s].rows = run[s].rows
    BY <1>2, <1>5, StandsKeeps
  <2> QED
    BY <1>3, <1>4, <2>1
<1>6. CASE run'[s].cmd = "none"
  <2>1. run'[s] = Idle
    BY <1>2, <1>6 DEF Shaped
  <2> QED
    BY <2>1, IdleIs
<1>7. CASE Fresh(s)
  <2>1. /\ run'[s].known = {u \in Vault : told[u] # NotTold} /\ told' = told
        /\ run'[s].cmd = "seal" \/ run'[s].at \notin {"walk", "copy", "open out", "load2"}
    BY <1>7 DEF Fresh
  <2> QED
    BY <2>1
<1>8. CASE Middle(s) /\ Keeps(run[s], run'[s])
  <2>1. /\ run'[s].cmd = run[s].cmd /\ run'[s].known = run[s].known
        /\ run[s].cmd # "latest" => run'[s].v = run[s].v
        /\ run[s].cmd # "seal" /\ run[s].at \in {"walk", "copy", "open out"}
             /\ run'[s].at # "append" => run'[s].rows = run[s].rows
    BY <1>8 DEF Keeps
  <2>2. ASSUME run'[s].v \in run'[s].known, run'[s].cmd # "seal",
               run'[s].at \in {"walk", "copy", "open out", "load2"}
        PROVE  run'[s].rows = vaults'[run'[s].v].rows
    <3>1. run[s].cmd # "latest" /\ run[s].cmd # "timeline"
      BY <1>2, <2>1, <2>2 DEF Shaped, Walking, Verifying
    <3>2. run[s].v \in run[s].known /\ vaults'[run'[s].v] = vaults[run[s].v]
      BY <1>4, <2>1, <2>2, <3>1
    <3>3. CASE run[s].at \in {"walk", "copy", "open out"}
      BY <1>3, <2>1, <2>2, <3>2, <3>3
    <3>4. CASE Load(s)
      <4>1. PICK m : m = vaults[run[s].v]
        OBVIOUS
      <4>2. run'[s] = Loaded(s, m) /\ run[s].at = "load"
        BY <1>1, <3>4, <4>1, GoesOn DEF Load, TypeOK
      <4>3. CASE run[s].cmd \in Walking
        <5>1. PICK x : x = IF run[s].cmd = "restore" THEN Filed(m.rows) ELSE Path
          OBVIOUS
        <5>2. run'[s] = [run[s] EXCEPT !.rows = m.rows, !.at = "walk", !.todo = x]
          BY <1>1, <4>2, <4>3, <5>1, LoadedIs
        <5>3. run'[s].rows = m.rows
          BY <1>2, <5>2 DEF Process
        <5> QED
          BY <3>2, <4>1, <5>3
      <4>4. CASE run[s].cmd \notin Walking
        <5>1. \/ run'[s] = [run[s] EXCEPT !.rows = m.rows, !.at = "load2"]
              \/ run'[s] = [run[s] EXCEPT !.rows = m.rows, !.at = "open out"]
              \/ run'[s] = [run[s] EXCEPT !.at = "append"]
              \/ run'[s] = [run[s] EXCEPT !.at = "append", !.status = "MISSING"]
              \/ run'[s] = [run[s] EXCEPT !.at = "append", !.status = "UNRECOVERABLE"]
          BY <1>1, <4>2, <4>4, LoadedIs
        <5>2. run'[s].rows = m.rows \/ run'[s].at = "append"
          BY <1>2, <5>1 DEF Process
        <5> QED
          BY <2>2, <3>2, <4>1, <5>2
      <4> QED
        BY <4>3, <4>4
    <3>5. CASE LoadFails(s)
      <4>1. run'[s] = Idle \/ run'[s] = [run[s] EXCEPT !.at = "append", !.status = Bad(run[s].cmd)]
        BY <1>1, <3>5, GoesOn DEF LoadFails, TypeOK
      <4>2. run'[s].at \in {"idle", "append"}
        BY <1>2, <4>1, IdleIs DEF Process
      <4> QED
        BY <2>2, <4>2
    <3>6. CASE DiffLoad2(s)
      <4>1. PICK word : word = IF NoDifference(run[s].rows, vaults[run[s].w].rows)
                               THEN run[s].status ELSE Bad("diff")
        OBVIOUS
      <4>2. run'[s] = Idle \/
            run'[s] = [run[s] EXCEPT !.rows = NoRows, !.at = "append", !.status = word]
        BY <1>1, <3>6, <4>1, GoesOn DEF DiffLoad2, TypeOK
      <4>3. run'[s].at \in {"idle", "append"}
        BY <1>2, <4>2, IdleIs DEF Process
      <4> QED
        BY <2>2, <4>3
    <3>7. \/ run[s].at \in {"walk", "copy", "open out"} \/ Load(s) \/ LoadFails(s) \/ DiffLoad2(s)
      <4>1. run[s].cmd \in Commands \ {"none", "seal", "latest", "timeline", "start", "end"}
        BY <1>1, <1>2, <1>8, <2>1, <2>2, <3>1, ByCommand DEF Process
      <4>2. /\ WalkEnd(s) => run[s].at = "walk"
            /\ CopyWrite(s) \/ CopyFails(s) => run[s].at = "copy"
            /\ RecoverOpen(s) => run[s].at = "open out"
            /\ \A p \in Path : VerifyVisit(s, p) \/ WalkMisses(s, p) \/ PruneVisit(s, p)
                             \/ RestoreVisit(s, p) => run[s].at = "walk"
        BY DEF WalkEnd, CopyWrite, CopyFails, RecoverOpen, VerifyVisit, WalkMisses, PruneVisit,
               RestoreVisit, AtEntry
      <4>3. run[s].cmd # "inspect"
        BY <1>2, <2>1, <2>2 DEF Shaped, Walking, Verifying
      <4> QED
        BY <1>1, <1>8, <4>1, <4>2, <4>3, ByCommand DEF Commands, Walking
    <3> QED
      BY <3>3, <3>4, <3>5, <3>6, <3>7
  <2> QED
    BY <1>3, <1>4, <2>1, <2>2
<1> QED
  BY <1>1, <1>5, <1>6, <1>7, <1>8, Actor

-----------------------------------------------------------------------------
(* The seals.                                                               *)

(* What a store makes of the vault: its blobs, whatever of the manifest is  *)
(* on disk by then.                                                         *)
LEMMA SealingStep ==
  ASSUME Base, SealingInv, Next
  PROVE  SealingInv'
<1>1. TypeOK /\ ShapeInv /\ SealsInv /\ TypeOK'
  BY BaseStep DEF Base
<1> SUFFICES ASSUME NEW s \in Proc, run'[s].cmd = "seal", run'[s].at \in {"walk", "store"},
                    ~run'[s].lost
             PROVE  /\ \A p \in Path \ run'[s].touched : live'[p] = run'[s].before[p]
                    /\ run'[s].cur \notin run'[s].todo
                    /\ \A p \in run'[s].todo \union {run'[s].cur} :
                         p \in Path => run'[s].rows[p] = NoRow
                    /\ run'[s].status = "SEALED" =>
                         \A p \in Path \ (Skipped \union run'[s].touched \union run'[s].todo
                                            \union {run'[s].cur}) :
                             run'[s].rows[p] = DueRow(run'[s].before[p])
                    /\ \A p \in Filed(run'[s].rows) :
                         vaults'[run'[s].v].blobs[run'[s].rows[p].hash] # NoFile
                    /\ run'[s].at = "store" /\ run'[s].cur \notin run'[s].touched =>
                         /\ live'[run'[s].cur] \in Bytes
                         /\ run'[s].size = SizeOf[live'[run'[s].cur]]
                         /\ run'[s].hash \in {NoRow, Hash[live'[run'[s].cur]]}
                    /\ \A h \in HashId : vaults'[run'[s].v].blobs[h] # NoFile =>
                         \/ Hash[vaults'[run'[s].v].blobs[h]] = h
                         \/ \E q \in run'[s].touched \intersect Filed(run'[s].rows) :
                              run'[s].rows[q].hash = h
  BY DEF SealingInv, Walked
<1>2. /\ run[s] \in Process /\ Shaped(run[s]) /\ run'[s] \in Process
      /\ ~Step(s) => Bystands(s)
      /\ run \in [Proc -> Process]
  BY <1>1, Everyone DEF TypeOK
<1>3. run[s].cmd = "seal" /\ run[s].at \in {"walk", "store"} /\ ~run[s].lost => Walked(run[s])
  BY DEF SealingInv
<1>4. CASE ~Step(s)
  <2>1. /\ run'[s].v = run[s].v /\ run'[s].cmd = run[s].cmd /\ run'[s].status = run[s].status
        /\ run'[s].at = run[s].at /\ run'[s].rows = run[s].rows /\ run'[s].todo = run[s].todo
        /\ run'[s].cur = run[s].cur /\ run'[s].size = run[s].size
        /\ run'[s].before = run[s].before /\ run'[s].hash = run[s].hash
        /\ run'[s].lost = run[s].lost
    BY <1>2, <1>4, StandsKeeps
  <2>2. /\ run[s].touched \subseteq run'[s].touched
        /\ \A p \in Path : live'[p] # live[p] => p \in run'[s].touched
    BY <1>2, <1>4, <2>1 DEF Bystands
  <2>3. vaults'[run[s].v] = vaults[run[s].v]
    BY <1>1, <1>4, <2>1, OwnVault
  <2>4. Walked(run[s]) /\ (run[s].at = "store" => run[s].cur \in Path)
    BY <1>3, <2>1, <1>2 DEF Shaped
  <2> QED
    BY <2>1, <2>2, <2>3, <2>4 DEF Walked
<1>5. CASE Step(s)
  <2>1. Middle(s) /\ Keeps(run[s], run'[s])
    BY <1>1, <1>5, Actor DEF Fresh, Walking, Verifying
  <2>2. run[s].cmd = "seal" /\ run'[s].v = run[s].v
    BY <2>1 DEF Keeps
  <2>3. CASE SealOpen(s)
    <3>1. /\ run'[s] = [run[s] EXCEPT !.at = "walk", !.todo = Path \ Skipped, !.before = live,
                                      !.touched = {}]
          /\ run[s].at = "open" /\ live' = live
          /\ vaults' = [vaults EXCEPT ![run[s].v] = NewVault]
      BY <1>2, <2>3, GoesOn DEF SealOpen
    <3>2. /\ run'[s].at = "walk" /\ run'[s].todo = Path \ Skipped /\ run'[s].before = live
          /\ run'[s].touched = {} /\ run'[s].rows = NoRows /\ run'[s].cur = NoPath
      BY <1>2, <2>2, <3>1 DEF Process, Shaped
    <3>3. Filed(NoRows) = {} /\ \A p \in Path : NoRows[p] = NoRow
      BY DEF Filed, NoRows
    <3>4. \A h \in HashId : vaults'[run'[s].v].blobs[h] = NoFile
      <4>1. run[s].v \in Vault
        BY <1>1, <2>2, VaultOf
      <4>2. vaults'[run[s].v] = NewVault
        BY <1>1, <3>1, <4>1 DEF TypeOK
      <4> QED
        BY <2>2, <4>2 DEF NewVault
    <3> QED
      BY <3>1, <3>2, <3>3, <3>4, IVaultAssumption
  <2>4. ASSUME NEW row \in FileRow, row = [hash |-> run[s].hash, size |-> run[s].size],
               NEW full \in RowTable, full = [run[s].rows EXCEPT ![run[s].cur] = row],
               run[s].hash \in HashId, NEW m \in VaultDir, StoreMakes(s, full, m),
               SealStore(s), UNCHANGED live
        PROVE  /\ \A p \in Path \ run'[s].touched : live'[p] = run'[s].before[p]
               /\ run'[s].at = "walk" /\ run'[s].cur \notin run'[s].todo
               /\ \A p \in run'[s].todo \union {run'[s].cur} :
                    p \in Path => run'[s].rows[p] = NoRow
               /\ run'[s].status = "SEALED" =>
                    \A p \in Path \ (Skipped \union run'[s].touched \union run'[s].todo
                                       \union {run'[s].cur}) :
                        run'[s].rows[p] = DueRow(run'[s].before[p])
               /\ \A p \in Filed(run'[s].rows) :
                    vaults'[run'[s].v].blobs[run'[s].rows[p].hash] # NoFile
               /\ \A h \in HashId : vaults'[run'[s].v].blobs[h] # NoFile =>
                    \/ Hash[vaults'[run'[s].v].blobs[h]] = h
                    \/ \E q \in run'[s].touched \intersect Filed(run'[s].rows) :
                         run'[s].rows[q].hash = h
    <3> DEFINE c == run[s].cur  h == run[s].hash  v == run[s].v  b == live[c]
    <3>1. /\ run[s].at = "store" /\ h # NoRow /\ c \in Path /\ v \in Vault
          /\ live[c] \in LiveFile /\ vaults[v] \in VaultDir
      BY <1>1, <2>4, StoreTyped DEF SealStore
    <3>2. run'[s] = After(run[s], full, run[s].bad, run[s].lost, run[s].status)
      <4>1. CASE Goes(s, After(run[s], full, run[s].bad, run[s].lost, run[s].status))
        BY <1>2, <4>1, GoesOn
      <4>2. ASSUME NEW t \in RowTable, NEW x \in BOOLEAN,
                   Goes(s, After(run[s], t, x, TRUE, run[s].status))
            PROVE  FALSE
        <5>1. run'[s] = After(run[s], t, x, TRUE, run[s].status)
          BY <1>2, <4>2, GoesOn
        <5>2. run'[s].lost
          BY <1>2, <5>1 DEF After, Process
        <5> QED
          BY <5>2
      <4> QED
        BY <2>4, <4>1, <4>2 DEF StoreMakes
    <3>3. /\ run'[s].at = "walk" /\ run'[s].todo = run[s].todo /\ run'[s].cur = NoPath
          /\ run'[s].status = run[s].status /\ run'[s].before = run[s].before
          /\ run'[s].touched = run[s].touched /\ run'[s].lost = run[s].lost
          /\ run'[s].rows = full
      <4>1. /\ run[s].bad \in BOOLEAN /\ run[s].lost \in BOOLEAN
            /\ run[s].bad => run[s].lost
        BY <1>2 DEF Process, Shaped
      <4> QED
        BY <1>2, <2>2, <2>4, <3>2, <4>1, AfterIs
    <3>4. Walked(run[s])
      BY <1>3, <2>2, <3>1, <3>3
    <3>5. \A p \in Path : run'[s].rows[p] = IF p = c THEN row ELSE run[s].rows[p]
      BY <1>2, <2>4, <3>1, <3>3 DEF Process, RowTable
    <3>6. /\ vaults'[v] = m
          /\ \A k \in HashId : m.blobs[k] = IF k = h /\ vaults[v].blobs[k] = NoFile
                                            THEN b ELSE vaults[v].blobs[k]
          /\ m.blobs[h] # NoFile
      BY <1>1, <2>4, <3>1 DEF StoreMakes, TypeOK
    <3>7. row.hash = h /\ row.size = run[s].size /\ row # NoRow
      BY <2>4, RowAssumption
    <3>8. c \in run[s].touched \/ (b = run[s].before[c] /\ h = Hash[b] /\ b \in Bytes
                                    /\ run[s].size = SizeOf[b])
      BY <3>1, <3>4 DEF Walked
    <3>9. run[s].rows \in RowTable /\ run[s].todo \subseteq Path
      BY <1>2 DEF Process
    <3> HIDE DEF c, h, v, b
    <3>10. \A p \in Path \ run'[s].touched : live'[p] = run'[s].before[p]
      BY <2>4, <3>3, <3>4 DEF Walked
    <3>11. c \notin run[s].todo /\ run[s].rows[c] = NoRow
           /\ \A p \in run[s].todo : p \in Path => run[s].rows[p] = NoRow
      BY <3>1, <3>4 DEF Walked, c
    <3>12. /\ run'[s].cur \notin run'[s].todo
           /\ \A p \in run'[s].todo \union {run'[s].cur} : p \in Path => run'[s].rows[p] = NoRow
      BY <3>3, <3>5, <3>9, <3>11, IVaultAssumption
    <3>13. ASSUME run'[s].status = "SEALED",
                  NEW p \in Path \ (Skipped \union run'[s].touched \union run'[s].todo
                                     \union {run'[s].cur})
           PROVE  run'[s].rows[p] = DueRow(run'[s].before[p])
      <4>1. CASE p # c
        <5>1. run[s].rows[p] = DueRow(run[s].before[p])
          BY <3>3, <3>4, <3>13, <4>1 DEF Walked, c
        <5> QED
          BY <3>3, <3>5, <4>1, <5>1
      <4>2. CASE p = c
        <5>1. b = run[s].before[c] /\ h = Hash[b] /\ b \in Bytes /\ run[s].size = SizeOf[b]
          BY <3>3, <3>8, <3>13, <4>2
        <5>2. row = [hash |-> Hash[b], size |-> SizeOf[b]] /\ b # NoFile
          BY <2>4, <5>1, BytesAssumption DEF h
        <5> QED
          BY <3>3, <3>5, <4>2, <5>1, <5>2 DEF DueRow
      <4> QED
        BY <4>1, <4>2
    <3>14. ASSUME NEW p \in Filed(run'[s].rows)
           PROVE  vaults'[run'[s].v].blobs[run'[s].rows[p].hash] # NoFile
      <4>1. p \in Path
        BY <3>14 DEF Filed
      <4>2. CASE p # c
        <5>1. run'[s].rows[p] = run[s].rows[p] /\ p \in Filed(run[s].rows)
          BY <3>5, <3>14, <4>1, <4>2 DEF Filed
        <5>2. vaults[v].blobs[run[s].rows[p].hash] # NoFile
          BY <3>4, <5>1 DEF Walked, v
        <5>3. run[s].rows[p].hash \in HashId
          BY <3>9, <4>1, <5>1 DEF RowTable, FileRow, Filed
        <5> QED
          BY <2>2, <3>6, <5>1, <5>2, <5>3 DEF v
      <4>3. CASE p = c
        BY <2>2, <3>5, <3>6, <3>7, <4>1, <4>3 DEF v
      <4> QED
        BY <4>2, <4>3
    <3>15. ASSUME NEW k \in HashId, m.blobs[k] # NoFile
           PROVE  \/ Hash[m.blobs[k]] = k
                  \/ \E q \in run'[s].touched \intersect Filed(run'[s].rows) :
                       run'[s].rows[q].hash = k
      <4>1. CASE m.blobs[k] = vaults[v].blobs[k]
        <5>1. CASE Hash[vaults[v].blobs[k]] = k
          BY <4>1, <5>1
        <5>2. ASSUME NEW q \in run[s].touched \intersect Filed(run[s].rows),
                     run[s].rows[q].hash = k
              PROVE  \E p \in run'[s].touched \intersect Filed(run'[s].rows) :
                       run'[s].rows[p].hash = k
          <6>1. q \in Path /\ run[s].rows[q] # NoRow /\ q # c
            BY <3>11, <5>2 DEF Filed
          <6> QED
            BY <3>3, <3>5, <5>2, <6>1 DEF Filed
        <5> QED
          BY <3>4, <3>15, <4>1, <5>1, <5>2 DEF Walked, v
      <4>2. CASE m.blobs[k] # vaults[v].blobs[k]
        <5>1. k = h /\ m.blobs[k] = b
          BY <3>6, <4>2
        <5>2. CASE c \in run[s].touched
          <6>1. c \in run'[s].touched \intersect Filed(run'[s].rows) /\ run'[s].rows[c].hash = k
            BY <3>1, <3>3, <3>5, <3>7, <5>1, <5>2 DEF Filed, c
          <6> QED
            BY <6>1
        <5>3. CASE c \notin run[s].touched
          BY <3>8, <5>1, <5>3
        <5> QED
          BY <5>2, <5>3
      <4> QED
        BY <4>1, <4>2
    <3>16. vaults'[run'[s].v] = m
      BY <2>2, <3>6 DEF v
    <3> QED
      BY <3>3, <3>10, <3>12, <3>13, <3>14, <3>15, <3>16
  <2>5. ASSUME run'[s] = After(run[s], run[s].rows, run[s].bad, run[s].lost, "ERROR"),
               run[s].at = "store", UNCHANGED <<live, vaults>>
        PROVE  Walked(run[s]) /\ run'[s].at = "walk" /\ run'[s].todo = run[s].todo
               /\ run'[s].cur = NoPath /\ run'[s].status = "ERROR"
               /\ run'[s].before = run[s].before /\ run'[s].touched = run[s].touched
               /\ run'[s].rows = run[s].rows
    <3>1. /\ run'[s].at = "walk" /\ run'[s].todo = run[s].todo
          /\ run'[s].cur = NoPath /\ run'[s].status = "ERROR"
          /\ run'[s].before = run[s].before /\ run'[s].touched = run[s].touched
          /\ run'[s].rows = run[s].rows /\ run'[s].lost = run[s].lost
      <4>1. /\ run[s].bad \in BOOLEAN /\ run[s].lost \in BOOLEAN /\ run[s].rows \in RowTable
            /\ run[s].bad => run[s].lost
        BY <1>2 DEF Process, Shaped
      <4> QED
        BY <1>2, <2>2, <2>5, <4>1, AfterIs
    <3> QED
      BY <1>3, <2>2, <2>5, <3>1
  <2>13. CASE SealStore(s)
    <3>1. PICK row, full : row = [hash |-> run[s].hash, size |-> run[s].size]
                           /\ full = [run[s].rows EXCEPT ![run[s].cur] = row]
      OBVIOUS
    <3>2. /\ run[s].hash \in HashId /\ row \in FileRow /\ full \in RowTable
          /\ UNCHANGED live /\ run[s].at = "store"
          /\ \/ /\ UNCHANGED vaults
                /\ Goes(s, After(run[s], run[s].rows, run[s].bad, run[s].lost, "ERROR"))
             \/ \E m \in VaultDir : StoreMakes(s, full, m)
      BY <1>1, <2>13, <3>1, StoreIs DEF SealStore
    <3>3. CASE /\ UNCHANGED vaults
               /\ Goes(s, After(run[s], run[s].rows, run[s].bad, run[s].lost, "ERROR"))
      <4>1. run'[s] = After(run[s], run[s].rows, run[s].bad, run[s].lost, "ERROR")
        BY <1>2, <3>3, GoesOn
      <4>2. run[s].todo \subseteq Path
        BY <1>2 DEF Process
      <4>3. /\ Walked(run[s]) /\ run'[s].at = "walk" /\ run'[s].todo = run[s].todo
            /\ run'[s].cur = NoPath /\ run'[s].status = "ERROR"
            /\ run'[s].before = run[s].before /\ run'[s].touched = run[s].touched
            /\ run'[s].rows = run[s].rows
        BY <2>5, <3>2, <3>3, <4>1
      <4> QED
        BY <2>2, <3>2, <3>3, <4>2, <4>3, IVaultAssumption DEF Walked
    <3>4. ASSUME NEW m \in VaultDir, StoreMakes(s, full, m)
          PROVE  /\ \A p \in Path \ run'[s].touched : live'[p] = run'[s].before[p]
                 /\ run'[s].at = "walk" /\ run'[s].cur \notin run'[s].todo
                 /\ \A p \in run'[s].todo \union {run'[s].cur} :
                      p \in Path => run'[s].rows[p] = NoRow
                 /\ run'[s].status = "SEALED" =>
                      \A p \in Path \ (Skipped \union run'[s].touched \union run'[s].todo
                                         \union {run'[s].cur}) :
                          run'[s].rows[p] = DueRow(run'[s].before[p])
                 /\ \A p \in Filed(run'[s].rows) :
                      vaults'[run'[s].v].blobs[run'[s].rows[p].hash] # NoFile
                 /\ \A h \in HashId : vaults'[run'[s].v].blobs[h] # NoFile =>
                      \/ Hash[vaults'[run'[s].v].blobs[h]] = h
                      \/ \E q \in run'[s].touched \intersect Filed(run'[s].rows) :
                           run'[s].rows[q].hash = h
      BY <2>4, <2>13, <3>1, <3>2, <3>4
    <3> QED
      BY <3>2, <3>3, <3>4
  <2>14. CASE SealHash(s)
    <3>1. /\ run[s].at = "store" /\ UNCHANGED <<live, vaults>> /\ run[s].cur \in Path
          /\ live[run[s].cur] \in LiveFile
      BY <1>1, <2>14, StoreTyped DEF SealHash, disk
    <3>2. run[s].todo \subseteq Path
      BY <1>2 DEF Process
    <3>3. CASE live[run[s].cur] = NoFile
      <4>1. [Stored(run[s]) EXCEPT !.status = "ERROR"] =
              After(run[s], run[s].rows, run[s].bad, run[s].lost, "ERROR")
        BY <1>2 DEF Stored, After, Process
      <4>2. run'[s] = After(run[s], run[s].rows, run[s].bad, run[s].lost, "ERROR")
        BY <1>2, <2>14, <3>3, <4>1, GoesOn DEF SealHash
      <4>3. /\ Walked(run[s]) /\ run'[s].at = "walk" /\ run'[s].todo = run[s].todo
            /\ run'[s].cur = NoPath /\ run'[s].status = "ERROR"
            /\ run'[s].before = run[s].before /\ run'[s].touched = run[s].touched
            /\ run'[s].rows = run[s].rows
        BY <2>5, <3>1, <4>2
      <4> QED
        BY <2>2, <3>1, <3>2, <4>3, IVaultAssumption DEF Walked
    <3>4. CASE live[run[s].cur] # NoFile
      <4>1. run'[s] = [run[s] EXCEPT !.hash = Hash[live[run[s].cur]]]
        BY <1>2, <2>14, <3>4, GoesOn DEF SealHash
      <4>2. /\ run'[s].at = run[s].at /\ run'[s].todo = run[s].todo /\ run'[s].cur = run[s].cur
            /\ run'[s].status = run[s].status /\ run'[s].before = run[s].before
            /\ run'[s].touched = run[s].touched /\ run'[s].rows = run[s].rows
            /\ run'[s].lost = run[s].lost /\ run'[s].size = run[s].size
            /\ run'[s].hash = Hash[live[run[s].cur]]
        BY <1>2, <4>1 DEF Process
      <4>3. Walked(run[s])
        BY <1>3, <2>2, <3>1, <4>2
      <4> QED
        BY <2>2, <3>1, <4>2, <4>3 DEF Walked
    <3> QED
      BY <3>3, <3>4
  <2>15. ~SealReaddirFails(s)
    <3>1. ASSUME SealReaddirFails(s)
          PROVE  FALSE
      <4>1. \E S : run'[s] = [run[s] EXCEPT !.todo = @ \ S, !.lost = TRUE]
        BY <1>2, <3>1, GoesOn DEF SealReaddirFails
      <4>2. run'[s].lost
        BY <1>2, <4>1 DEF Process
      <4> QED
        BY <4>2
    <3> QED
      BY <3>1
  <2>6. ASSUME NEW q \in Path, SealMiss(s, q)
        PROVE  /\ Walked(run[s]) /\ live' = live /\ vaults' = vaults
               /\ run'[s].at = "walk" /\ run'[s].todo = run[s].todo \ {q}
               /\ run'[s].cur = run[s].cur
               /\ run'[s].status = "ERROR" /\ run'[s].before = run[s].before
               /\ run'[s].touched = run[s].touched /\ run'[s].rows = run[s].rows
    <3>1. /\ run'[s] = [run[s] EXCEPT !.todo = run[s].todo \ {q}, !.status = "ERROR"]
          /\ live' = live /\ vaults' = vaults /\ run[s].at = "walk"
      BY <1>2, <2>6, GoesOn DEF SealMiss, AtEntry, disk
    <3>2. run'[s].lost = run[s].lost
      BY <1>2, <3>1 DEF Process
    <3>3. Walked(run[s])
      BY <1>3, <2>2, <3>1, <3>2
    <3> QED
      BY <1>2, <3>1, <3>3 DEF Process
  <2>7. CASE \E q \in Path : SealMiss(s, q)
    BY <2>2, <2>6, <2>7 DEF Walked
  <2>8. ASSUME NEW q \in Path, SealLook(s, q)
        PROVE  /\ Walked(run[s]) /\ live' = live /\ vaults' = vaults
               /\ q \in run[s].todo /\ run'[s].todo = run[s].todo \ {q}
               /\ run[s].at = "walk" /\ run[s].cur = NoPath
               /\ run'[s].status = run[s].status /\ run'[s].before = run[s].before
               /\ run'[s].touched = run[s].touched /\ run'[s].rows = run[s].rows
               /\ \/ live[q] = NoFile /\ run'[s].at = "walk" /\ run'[s].cur = NoPath
                  \/ /\ live[q] \in Bytes /\ run'[s].at = "store" /\ run'[s].cur = q
                     /\ run'[s].size = SizeOf[live[q]] /\ run'[s].hash = NoRow
    <3>1. /\ live' = live /\ vaults' = vaults /\ run[s].at = "walk"
          /\ q \in run[s].todo /\ run[s].cur = NoPath /\ run[s].hash = NoRow
      BY <1>2, <2>2, <2>8 DEF SealLook, AtEntry, disk, Shaped
    <3>2. \/ live[q] = NoFile /\ run'[s] = [run[s] EXCEPT !.todo = run[s].todo \ {q}]
          \/ /\ live[q] \in Bytes
             /\ run'[s] = [run[s] EXCEPT !.todo = run[s].todo \ {q}, !.at = "store", !.cur = q,
                                         !.size = SizeOf[live[q]]]
      BY <1>2, <2>8, GoesOn DEF SealLook
    <3>3. run'[s].lost = run[s].lost
      BY <1>2, <3>2 DEF Process
    <3>4. Walked(run[s])
      BY <1>3, <2>2, <3>1, <3>3
    <3> QED
      BY <1>2, <3>1, <3>2, <3>4 DEF Process
  <2>9. ASSUME NEW q \in Path, SealLook(s, q), live[q] = NoFile, run'[s].cur = NoPath,
               run'[s].at = "walk"
        PROVE  \A p \in Path :
                 (/\ p \notin Skipped \union run'[s].touched \union run'[s].todo
                  /\ run'[s].status = "SEALED") => run'[s].rows[p] = DueRow(run'[s].before[p])
    <3>1. CASE q \in run[s].touched
      BY <2>8, <2>9, <3>1, IVaultAssumption DEF Walked
    <3>2. CASE q \notin run[s].touched
      <4>1. run[s].rows[q] = NoRow /\ run[s].before[q] = NoFile
        BY <2>8, <2>9, <3>2 DEF Walked
      <4>2. run[s].rows[q] = DueRow(run[s].before[q])
        BY <4>1 DEF DueRow
      <4> QED
        BY <2>8, <2>9, <4>2, IVaultAssumption DEF Walked
    <3> QED
      BY <3>1, <3>2
  <2>10. CASE \E q \in Path : SealLook(s, q)
    <3>1. PICK q \in Path : SealLook(s, q)
      BY <2>10
    <3>2. run[s].todo \subseteq Path
      BY <1>2 DEF Process
    <3>3. CASE live[q] = NoFile /\ run'[s].at = "walk" /\ run'[s].cur = NoPath
      BY <2>2, <2>8, <2>9, <3>1, <3>2, <3>3, IVaultAssumption DEF Walked
    <3>4. CASE run'[s].at = "store" /\ run'[s].cur = q /\ live[q] \in Bytes
               /\ run'[s].size = SizeOf[live[q]] /\ run'[s].hash = NoRow
      <4>1. /\ Walked(run[s]) /\ live' = live /\ vaults' = vaults /\ q \in run[s].todo
            /\ run'[s].todo = run[s].todo \ {q} /\ run[s].cur = NoPath
            /\ run'[s].status = run[s].status /\ run'[s].before = run[s].before
            /\ run'[s].touched = run[s].touched /\ run'[s].rows = run[s].rows
        BY <2>8, <3>1
      <4> QED
        BY <2>2, <3>2, <3>4, <4>1, IVaultAssumption DEF Walked
    <3> QED
      BY <2>8, <3>1, <3>3, <3>4
  <2>11. ~SealEnd(s)
    <3>1. ASSUME SealEnd(s)
          PROVE  FALSE
      <4>1. run'[s] = [run[s] EXCEPT !.at = "append", !.rows = NoRows, !.bad = FALSE,
                                     !.lost = FALSE]
        BY <1>2, <3>1, GoesOn DEF SealEnd
      <4>2. run'[s].at = "append"
        BY <1>2, <4>1 DEF Process
      <4> QED
        BY <4>2
    <3> QED
      BY <3>1
  <2>12. \/ SealOpen(s) \/ SealHash(s) \/ SealStore(s)
         \/ \E p \in Path : SealLook(s, p) \/ SealMiss(s, p)
    BY <1>1, <2>1, <2>2, <2>11, <2>15, ByCommand
  <2> QED
    BY <2>3, <2>7, <2>10, <2>12, <2>13, <2>14
<1> QED
  BY <1>4, <1>5

(* What SEALED is reported of: the rows and the blobs of the walk. *)
LEMMA SealToldStep ==
  ASSUME Base, SealingInv, SealTold, Next
  PROVE  SealTold'
<1>1. TypeOK /\ ShapeInv /\ SealsInv
  BY DEF Base
<1> SUFFICES ASSUME NEW v \in Vault, told'[v] # NotTold
             PROVE  /\ vaults'[v] # NoVault /\ ~vaults'[v].bad
                    /\ \A p \in told'[v].quiet :
                         IF told'[v].live[p] = NoFile THEN vaults'[v].rows[p] = NoRow
                         ELSE /\ vaults'[v].rows[p] = [hash |-> Hash[told'[v].live[p]],
                                                       size |-> SizeOf[told'[v].live[p]]]
                              /\ vaults'[v].blobs[Hash[told'[v].live[p]]] # NoFile
                              /\ \/ \E q \in Filed(vaults'[v].rows) \ told'[v].quiet :
                                      vaults'[v].rows[q].hash = Hash[told'[v].live[p]]
                                 \/ Hash[vaults'[v].blobs[Hash[told'[v].live[p]]]] =
                                      Hash[told'[v].live[p]]
  BY DEF SealTold, Loads, Truth, Trusted
<1>2. CASE told'[v] = told[v]
  <2>1. vaults'[v] = vaults[v] /\ told[v] # NotTold
    BY <1>1, <1>2, ToldStays
  <2>2. vaults[v] # NoVault /\ ~vaults[v].bad
    BY <2>1 DEF SealTold, Loads
  <2>3. ASSUME NEW p \in told[v].quiet
        PROVE  IF told[v].live[p] = NoFile THEN vaults[v].rows[p] = NoRow
               ELSE /\ vaults[v].rows[p] = [hash |-> Hash[told[v].live[p]],
                                             size |-> SizeOf[told[v].live[p]]]
                    /\ vaults[v].blobs[Hash[told[v].live[p]]] # NoFile
                    /\ \/ \E q \in Filed(vaults[v].rows) \ told[v].quiet :
                            vaults[v].rows[q].hash = Hash[told[v].live[p]]
                       \/ Hash[vaults[v].blobs[Hash[told[v].live[p]]]] = Hash[told[v].live[p]]
    <3>1. \/ p \in Trusted(v)
          \/ \E q \in Filed(vaults[v].rows) \ told[v].quiet :
               vaults[v].rows[q].hash = Hash[told[v].live[p]]
      BY DEF Trusted, Truth
    <3>2. IF told[v].live[p] = NoFile THEN vaults[v].rows[p] = NoRow
          ELSE /\ vaults[v].rows[p] = [hash |-> Hash[told[v].live[p]],
                                        size |-> SizeOf[told[v].live[p]]]
               /\ vaults[v].blobs[Hash[told[v].live[p]]] # NoFile
               /\ p \in Trusted(v) =>
                    Hash[vaults[v].blobs[Hash[told[v].live[p]]]] = Hash[told[v].live[p]]
      BY <2>1 DEF SealTold, Truth
    <3> QED
      BY <3>1, <3>2
  <2> DEFINE Holds(t, m) ==
               /\ m # NoVault /\ ~m.bad
               /\ \A p \in t.quiet :
                    IF t.live[p] = NoFile THEN m.rows[p] = NoRow
                    ELSE /\ m.rows[p] = [hash |-> Hash[t.live[p]], size |-> SizeOf[t.live[p]]]
                         /\ m.blobs[Hash[t.live[p]]] # NoFile
                         /\ \/ \E q \in Filed(m.rows) \ t.quiet :
                                 m.rows[q].hash = Hash[t.live[p]]
                            \/ Hash[m.blobs[Hash[t.live[p]]]] = Hash[t.live[p]]
  <2>4. Holds(told[v], vaults[v])
    BY <2>2, <2>3
  <2>5. Holds(told'[v], vaults'[v])
    <3> HIDE DEF Holds
    <3> QED
      BY <1>2, <2>1, <2>4
  <2> QED
    BY <2>5
<1>3. CASE told'[v] # told[v]
  <2>1. PICK r \in Proc : /\ SealEnd(r) /\ run[r].v = v /\ Reported(r)
                          /\ told'[v] = Told(r)
    BY <1>1, <1>3, ToldStays
  <2>2. run[r] \in Process /\ Shaped(run[r]) /\ Walked(run[r])
    BY <1>1, <2>1, Typed DEF SealEnd, SealingInv, Reported
  <2>3. vaults[v] \in VaultDir
    BY <1>1, <2>1 DEF SealEnd, TypeOK
  <2>4. vaults'[v] = [vaults[v] EXCEPT !.rows = run[r].rows, !.bad = FALSE]
    <3>1. run[r].bad = FALSE
      BY <2>1, <2>2 DEF Reported, Shaped, Process
    <3> QED
      BY <1>1, <2>1, <3>1 DEF SealEnd, TypeOK
  <2>5. /\ vaults'[v].rows = run[r].rows /\ ~vaults'[v].bad
        /\ vaults'[v].blobs = vaults[v].blobs /\ vaults'[v] # NoVault
    <3>1. PICK w \in VaultDir : w = vaults[v]
      BY <2>3
    <3>2. PICK m \in RowTable : m = run[r].rows
      BY <2>2 DEF Process
    <3>3. [w EXCEPT !.rows = m, !.bad = FALSE] \in VaultDir
      BY DEF VaultDir
    <3>4. /\ [w EXCEPT !.rows = m, !.bad = FALSE].rows = m
          /\ ~[w EXCEPT !.rows = m, !.bad = FALSE].bad
          /\ [w EXCEPT !.rows = m, !.bad = FALSE].blobs = w.blobs
      BY DEF VaultDir
    <3> QED
      BY <2>4, <3>1, <3>2, <3>3, <3>4, IVaultAssumption
  <2>6. /\ told'[v].live = run[r].before
        /\ told'[v].quiet = Path \ (Skipped \union run[r].touched)
        /\ run[r].todo = {} /\ run[r].cur = NoPath /\ NoPath \notin Path
    BY <2>1, <2>2, IVaultAssumption DEF Told, SealEnd, Shaped
  <2>7. \A p \in told'[v].quiet : run[r].rows[p] = DueRow(run[r].before[p])
    BY <2>1, <2>2, <2>6 DEF Walked, Reported
  <2>8. \A p \in Filed(run[r].rows) : vaults[v].blobs[run[r].rows[p].hash] # NoFile
    BY <2>1, <2>2 DEF Walked
  <2>9. ASSUME NEW p \in told'[v].quiet
        PROVE  IF run[r].before[p] = NoFile THEN run[r].rows[p] = NoRow
               ELSE /\ run[r].rows[p] = [hash |-> Hash[run[r].before[p]],
                                         size |-> SizeOf[run[r].before[p]]]
                    /\ vaults[v].blobs[Hash[run[r].before[p]]] # NoFile
                    /\ \/ \E q \in Filed(run[r].rows) \ told'[v].quiet :
                            run[r].rows[q].hash = Hash[run[r].before[p]]
                       \/ Hash[vaults[v].blobs[Hash[run[r].before[p]]]] =
                            Hash[run[r].before[p]]
    <3>1. p \in Path /\ run[r].before[p] \in LiveFile
      BY <2>2, <2>6 DEF Process
    <3>2. CASE run[r].before[p] = NoFile
      BY <2>7, <3>2 DEF DueRow
    <3>3. CASE run[r].before[p] # NoFile
      <4>1. run[r].before[p] \in Bytes
        BY <3>1, <3>3 DEF LiveFile
      <4>2. Hash[run[r].before[p]] \in HashId /\ SizeOf[run[r].before[p]] \in SizeId
        BY <4>1, HashAssumption, SizeAssumption
      <4>3. run[r].rows[p] = [hash |-> Hash[run[r].before[p]], size |-> SizeOf[run[r].before[p]]]
        BY <2>7, <3>3 DEF DueRow
      <4>4. run[r].rows[p] # NoRow /\ run[r].rows[p].hash = Hash[run[r].before[p]]
        BY <4>2, <4>3, RowAssumption DEF FileRow
      <4>5. p \in Filed(run[r].rows)
        BY <3>1, <4>4 DEF Filed
      <4>6. vaults[v].blobs[Hash[run[r].before[p]]] # NoFile
        BY <2>8, <4>4, <4>5
      <4>7. \/ \E q \in Filed(run[r].rows) \ told'[v].quiet :
                 run[r].rows[q].hash = Hash[run[r].before[p]]
            \/ Hash[vaults[v].blobs[Hash[run[r].before[p]]]] = Hash[run[r].before[p]]
        BY <2>1, <2>2, <2>6, <4>2, <4>6 DEF Walked
      <4> QED
        BY <3>3, <4>3, <4>6, <4>7
    <3> QED
      BY <3>2, <3>3
  <2> QED
    BY <2>5, <2>6, <2>9
<1> QED
  BY <1>2, <1>3

LEMMA InitSeal ==
  ASSUME Init
  PROVE  /\ vaults \in [Vault -> VaultDir \union {NoVault}]
         /\ told \in [Vault -> Report \union {NotTold}]
         /\ live \in [Path -> LiveFile]
         /\ HasManifest \subseteq {1} /\ 1 \in Vault
         /\ \A v \in Vault : told[v] # NotTold => vaults[v] # NoVault
         /\ SealTold
<1>1. live \in [Path -> Content \union {NoFile}] /\ 1 \in Vault
  BY IVaultAssumption DEF Init, Vault
<1>2. live \in [Path -> LiveFile] /\ Path \ Skipped \subseteq Path
  BY <1>1 DEF LiveFile, Bytes
<1>3. PICK m : m = SealOf(live)
  OBVIOUS
<1>4. /\ m.rows = [p \in Path |-> IF p \in Skipped \/ live[p] = NoFile THEN NoRow
                                  ELSE [hash |-> Hash[live[p]], size |-> SizeOf[live[p]]]]
      /\ m.bad = FALSE
      /\ m.blobs = [h \in HashId |->
                      IF \E p \in Path \ Skipped : live[p] # NoFile /\ Hash[live[p]] = h
                      THEN CHOOSE b \in Content : Hash[b] = h ELSE NoFile]
      /\ m = [rows |-> m.rows, bad |-> m.bad, blobs |-> m.blobs]
  BY <1>3 DEF SealOf
<1>5. ASSUME NEW p \in Path, live[p] # NoFile
      PROVE  /\ live[p] \in Content /\ live[p] \in Bytes
             /\ [hash |-> Hash[live[p]], size |-> SizeOf[live[p]]] \in FileRow
  <2>1. live[p] \in Content /\ live[p] \in Bytes
    BY <1>1, <1>5 DEF Bytes
  <2> QED
    BY <2>1, HashAssumption, SizeAssumption DEF FileRow
<1>6. m.rows \in RowTable
  BY <1>4, <1>5 DEF RowTable
<1>7. ASSUME NEW h \in HashId
      PROVE  /\ m.blobs[h] \in LiveFile
             /\ m.blobs[h] # NoFile => Hash[m.blobs[h]] = h
             /\ (\E p \in Path \ Skipped : live[p] # NoFile /\ Hash[live[p]] = h) =>
                  m.blobs[h] # NoFile
  <2>1. CASE \E p \in Path \ Skipped : live[p] # NoFile /\ Hash[live[p]] = h
    <3>1. PICK p \in Path \ Skipped : live[p] # NoFile /\ Hash[live[p]] = h
      BY <2>1
    <3>2. \E b \in Content : Hash[b] = h
      BY <1>5, <3>1
    <3>3. m.blobs[h] \in Content /\ Hash[m.blobs[h]] = h
      BY <1>4, <2>1, <3>2
    <3> QED
      BY <3>3, BytesAssumption DEF LiveFile, Bytes
  <2>2. CASE ~ \E p \in Path \ Skipped : live[p] # NoFile /\ Hash[live[p]] = h
    BY <1>4, <2>2 DEF LiveFile
  <2> QED
    BY <2>1, <2>2
<1>8. m.blobs \in [HashId -> LiveFile]
  BY <1>4, <1>7
<1>9. m \in VaultDir
  BY <1>4, <1>6, <1>8 DEF VaultDir
<1>10. m # NoVault
  BY <1>9, IVaultAssumption
<1>11. vaults = [v \in Vault |-> IF v = 1 THEN m ELSE NoVault]
  BY <1>3 DEF Init
<1>12. told = [v \in Vault |-> IF v = 1 THEN [live |-> live, quiet |-> Path \ Skipped]
                               ELSE NotTold]
  BY DEF Init
<1>13. [live |-> live, quiet |-> Path \ Skipped] \in Report
  BY <1>2 DEF Report
<1>14. \A v \in Vault : (vaults[v] # NoVault => v = 1) /\ (told[v] # NotTold => v = 1)
  BY <1>11, <1>12
<1>15. vaults[1] = m /\ told[1].live = live /\ told[1].quiet = Path \ Skipped
  BY <1>1, <1>11, <1>12
<1>17. ASSUME NEW p \in Path \ Skipped
       PROVE  IF live[p] = NoFile THEN m.rows[p] = NoRow
              ELSE /\ m.rows[p] = [hash |-> Hash[live[p]], size |-> SizeOf[live[p]]]
                   /\ m.blobs[Hash[live[p]]] # NoFile
                   /\ Hash[m.blobs[Hash[live[p]]]] = Hash[live[p]]
  <2>1. CASE live[p] = NoFile
    BY <1>4, <2>1
  <2>2. CASE live[p] # NoFile
    <3>1. Hash[live[p]] \in HashId
      BY <1>5, <2>2, HashAssumption
    <3>2. /\ m.blobs[Hash[live[p]]] # NoFile
          /\ Hash[m.blobs[Hash[live[p]]]] = Hash[live[p]]
      BY <1>7, <2>2, <3>1
    <3>3. m.rows[p] = [hash |-> Hash[live[p]], size |-> SizeOf[live[p]]]
      BY <1>4, <2>2
    <3> QED
      BY <2>2, <3>2, <3>3
  <2> QED
    BY <2>1, <2>2
<1>18. SealTold
  <2> SUFFICES ASSUME NEW v \in Vault, told[v] # NotTold, NEW p \in told[v].quiet
               PROVE  LET b == Truth(v, p) IN
                      IF b = NoFile THEN vaults[v].rows[p] = NoRow
                      ELSE /\ vaults[v].rows[p] = [hash |-> Hash[b], size |-> SizeOf[b]]
                           /\ vaults[v].blobs[Hash[b]] # NoFile
                           /\ Hash[vaults[v].blobs[Hash[b]]] = Hash[b]
    <3>1. \A v \in Vault : told[v] # NotTold => Loads(v)
      BY <1>4, <1>10, <1>14, <1>15 DEF Loads
    <3> QED
      BY <3>1 DEF SealTold
  <2>1. v = 1
    BY <1>14
  <2> QED
    BY <1>15, <1>17, <2>1 DEF Truth
<1>19. /\ vaults \in [Vault -> VaultDir \union {NoVault}]
       /\ told \in [Vault -> Report \union {NotTold}]
  BY <1>9, <1>11, <1>12, <1>13
<1>20. HasManifest \subseteq {1}
  BY <1>14 DEF HasManifest
<1>21. \A v \in Vault : told[v] # NotTold => vaults[v] # NoVault
  BY <1>10, <1>14, <1>15
<1> QED
  BY <1>1, <1>2, <1>18, <1>19, <1>20, <1>21

LEMMA InitBase ==
  ASSUME Init
  PROVE  Base /\ KnownInv /\ SealingInv
<1>1. /\ stamps = 1 /\ ledger = <<>> /\ acts = <<>> /\ run = [r \in Proc |-> Idle]
      /\ spent = [commands |-> 0, edits |-> 0, faults |-> 0]
  BY DEF Init
<1>2. \A r \in Proc : run[r] = Idle /\ run[r].cmd = "none" /\ run[r].at = "idle"
                        /\ run[r].known = {}
  BY <1>1, IdleIs
<1>3. Idle \in Process /\ Shaped(Idle)
  BY IdleFits DEF Fit
<1>4. 1 \in 1 .. stamps /\ stamps \in 0 .. MaxVault
  BY <1>1, IVaultAssumption
<1>5. ShapeInv
  BY <1>2, <1>3, <1>4, InitSeal DEF ShapeInv
<1>6. SealsInv /\ KnownInv /\ SealingInv
  BY <1>2 DEF SealsInv, KnownInv, KnownVault, SealingInv
<1>7. run \in [Proc -> Process]
  BY <1>1, <1>3
<1>8. /\ ledger \in Seq([event : Events, status : Statuses])
      /\ acts \in Seq([cmd : Commands, watch : BOOLEAN, good : BOOLEAN, lost : BOOLEAN])
      /\ Len(ledger) = Len(acts)
  BY <1>1
<1>9. spent \in [commands : Nat, edits : Nat, faults : Nat]
  BY <1>1
<1>10. TypeOK
  BY <1>2, <1>4, <1>7, <1>8, <1>9, InitSeal DEF TypeOK
<1> QED
  BY <1>5, <1>6, <1>10 DEF Base

-----------------------------------------------------------------------------
(* The steps of each command, as what they make of its fields.              *)

LEMMA Faulty ==
  ASSUME TypeOK
  PROVE  /\ Fault => spent'.faults # 0
         /\ Next /\ spent'.faults = 0 => spent.faults = 0
<1>1. spent \in [commands : Nat, edits : Nat, faults : Nat]
  BY DEF TypeOK
<1>2. PICK n \in Nat : n = spent.faults
  BY <1>1
<1>3. n + 1 # 0 /\ n + 1 \in Nat
  OBVIOUS
<1>4. Spend("faults") => spent'.faults = n + 1
  BY <1>1, <1>2 DEF Spend
<1>5. Spend("commands") \/ Spend("edits") => spent'.faults = spent.faults
  BY <1>1 DEF Spend
<1>6. Fault => spent'.faults # 0
  BY <1>3, <1>4 DEF Fault, Trouble
<1>7. Next /\ spent'.faults = 0 => spent.faults = 0
  BY <1>3, <1>4, <1>5, WhoSpends
<1> QED
  BY <1>6, <1>7

(* What every walk begins and ends with. *)
LEMMA LoadMoves ==
  ASSUME TypeOK, ShapeInv, NEW s \in Proc, run[s].cmd \in Walking
  PROVE  /\ Load(s) => /\ UNCHANGED live /\ run[s].at = "load" /\ Loads(run[s].v)
                       /\ run'[s].at = "walk" /\ run'[s].status = run[s].status
                       /\ run'[s].rows = vaults[run[s].v].rows
                       /\ run'[s].todo = IF run[s].cmd = "restore"
                                         THEN Filed(vaults[run[s].v].rows) ELSE Path
         /\ LoadFails(s) => /\ UNCHANGED live /\ run[s].at = "load"
                            /\ run'[s].at = "append" /\ run'[s].status = Bad(run[s].cmd)
                            /\ ~Loads(run[s].v) \/ spent'.faults # 0
         /\ WalkEnd(s) => /\ UNCHANGED live /\ run[s].at = "walk" /\ run[s].todo = {}
                          /\ run'[s].at = "append" /\ run'[s].status = run[s].status
                          /\ run'[s].todo = {}
<1>1. run \in [Proc -> Process] /\ run[s] \in Process
  BY Typed
<1>2. ASSUME Load(s)
      PROVE  /\ UNCHANGED live /\ run[s].at = "load" /\ Loads(run[s].v)
             /\ run'[s].at = "walk" /\ run'[s].status = run[s].status
             /\ run'[s].rows = vaults[run[s].v].rows
             /\ run'[s].todo = IF run[s].cmd = "restore"
                               THEN Filed(vaults[run[s].v].rows) ELSE Path
  <2>1. PICK m : m = vaults[run[s].v]
    OBVIOUS
  <2>2. /\ UNCHANGED live /\ run[s].at = "load" /\ Loads(run[s].v)
        /\ run'[s] = Loaded(s, m)
    BY <1>1, <1>2, <2>1, GoesOn DEF Load, disk
  <2>3. PICK x : x = IF run[s].cmd = "restore" THEN Filed(m.rows) ELSE Path
    OBVIOUS
  <2>4. run'[s] = [run[s] EXCEPT !.rows = m.rows, !.at = "walk", !.todo = x]
    BY <2>2, <2>3, LoadedIs
  <2>5. run'[s].at = "walk" /\ run'[s].status = run[s].status
        /\ run'[s].rows = m.rows /\ run'[s].todo = x
    BY <1>1, <2>4 DEF Process
  <2> QED
    BY <2>1, <2>2, <2>3, <2>5
<1>3. ASSUME LoadFails(s)
      PROVE  /\ UNCHANGED live /\ run[s].at = "load"
             /\ run'[s].at = "append" /\ run'[s].status = Bad(run[s].cmd)
             /\ ~Loads(run[s].v) \/ spent'.faults # 0
  <2>1. run[s].cmd # "diff"
    BY DEF Walking, Verifying
  <2>2. /\ UNCHANGED live /\ run[s].at = "load"
        /\ ~Loads(run[s].v) \/ Fault
        /\ run'[s] = [run[s] EXCEPT !.at = "append", !.status = Bad(run[s].cmd)]
    BY <1>1, <1>3, <2>1, GoesOn DEF LoadFails, disk
  <2>3. run'[s].at = "append" /\ run'[s].status = Bad(run[s].cmd)
    BY <1>1, <2>2 DEF Process
  <2> QED
    BY <2>2, <2>3, Faulty
<1>4. ASSUME WalkEnd(s)
      PROVE  /\ UNCHANGED live /\ run[s].at = "walk" /\ run[s].todo = {}
             /\ run'[s].at = "append" /\ run'[s].status = run[s].status
             /\ run'[s].todo = {}
  <2>1. /\ UNCHANGED live /\ run[s].at = "walk" /\ run[s].todo = {}
        /\ run'[s] = [run[s] EXCEPT !.at = "append", !.rows = NoRows]
    BY <1>1, <1>4, GoesOn DEF WalkEnd, disk
  <2> QED
    BY <1>1, <2>1 DEF Process
<1> QED
  BY <1>2, <1>3, <1>4

(* One entry of the walk of verify. *)
LEMMA VerifyMoves ==
  ASSUME TypeOK, ShapeInv, NEW s \in Proc, NEW p \in Path, VerifyVisit(s, p)
  PROVE  /\ UNCHANGED live /\ run[s].at = "walk" /\ run'[s].at = "walk"
         /\ run'[s].todo = run[s].todo \ {p}
         /\ \/ Matches(s, p) /\ run'[s].status = run[s].status
            \/ ~Matches(s, p) /\ run'[s].status = "DAMAGE"
<1>1. run \in [Proc -> Process] /\ run[s] \in Process
  BY Typed
<1>2. PICK word : word = IF Matches(s, p) THEN run[s].status ELSE "DAMAGE"
  OBVIOUS
<1>3. /\ UNCHANGED live /\ run[s].at = "walk"
      /\ run'[s] = [run[s] EXCEPT !.todo = run[s].todo \ {p}, !.status = word]
  BY <1>1, <1>2, GoesOn DEF VerifyVisit, AtEntry, disk
<1>4. run'[s].at = "walk" /\ run'[s].todo = run[s].todo \ {p} /\ run'[s].status = word
  BY <1>1, <1>3 DEF Process
<1> QED
  BY <1>2, <1>3, <1>4

LEMMA MissMoves ==
  ASSUME TypeOK, ShapeInv, NEW s \in Proc, NEW p \in Path, WalkMisses(s, p)
  PROVE  /\ UNCHANGED live /\ run[s].at = "walk" /\ run'[s].at = "walk"
         /\ run'[s].todo = run[s].todo \ {p}
         /\ \/ p \in run[s].touched /\ run'[s].status \in {run[s].status, Bad(run[s].cmd)}
            \/ spent'.faults # 0 /\ run'[s].status = Bad(run[s].cmd)
<1>1. run \in [Proc -> Process] /\ run[s] \in Process
  BY Typed
<1>2. PICK word : word = IF run[s].cmd = "prune" \/ run[s].rows[p] = NoRow
                         THEN run[s].status ELSE "DAMAGE"
  OBVIOUS
<1>3. UNCHANGED live /\ run[s].at = "walk" /\ run[s].cmd \in Verifying \union {"prune"}
  BY DEF WalkMisses, AtEntry, disk
<1>4. \/ /\ p \in run[s].touched
         /\ run'[s] = [run[s] EXCEPT !.todo = run[s].todo \ {p}, !.status = word]
      \/ /\ Fault
         /\ run'[s] = [run[s] EXCEPT !.todo = run[s].todo \ {p}, !.status = Bad(run[s].cmd)]
  BY <1>1, <1>2, GoesOn DEF WalkMisses
<1>5. run'[s].at = "walk" /\ run'[s].todo = run[s].todo \ {p}
  BY <1>1, <1>3, <1>4 DEF Process
<1>6. \/ p \in run[s].touched /\ run'[s].status = word
      \/ Fault /\ run'[s].status = Bad(run[s].cmd)
  BY <1>1, <1>4 DEF Process
<1>7. word \in {run[s].status, Bad(run[s].cmd)}
  <2>1. run[s].cmd # "prune" => Bad(run[s].cmd) = "DAMAGE"
    BY <1>3 DEF Bad, Verifying
  <2> QED
    BY <1>2, <2>1
<1> QED
  BY <1>3, <1>5, <1>6, <1>7, Faulty

(* One entry of the walk of prune. *)
LEMMA PruneMoves ==
  ASSUME TypeOK, ShapeInv, NEW s \in Proc, NEW p \in Path, PruneVisit(s, p)
  PROVE  /\ run[s].at = "walk" /\ run'[s].at = "walk" /\ run'[s].todo = run[s].todo \ {p}
         /\ run'[s].status = run[s].status
         /\ \/ /\ live[p] \in Bytes /\ run[s].rows[p] = NoRow
               /\ live' = [live EXCEPT ![p] = NoFile]
            \/ (live[p] = NoFile \/ run[s].rows[p] # NoRow) /\ UNCHANGED live
<1>1. run \in [Proc -> Process] /\ run[s] \in Process
  BY Typed
<1> DEFINE next == [run[s] EXCEPT !.todo = run[s].todo \ {p}]
<1>2. run[s].at = "walk"
  BY DEF PruneVisit, AtEntry
<1>3. \/ /\ live[p] \in Bytes /\ run[s].rows[p] = NoRow /\ Write(s, p, NoFile, next)
      \/ (live[p] = NoFile \/ run[s].rows[p] # NoRow) /\ UNCHANGED live /\ Goes(s, next)
  BY DEF PruneVisit, disk
<1>4. run'[s] = next
  <2> HIDE DEF next
  <2> QED
    BY <1>1, <1>3, GoesOn, WriteOn
<1>5. run'[s].at = "walk" /\ run'[s].todo = run[s].todo \ {p} /\ run'[s].status = run[s].status
  BY <1>1, <1>2, <1>4 DEF Process
<1> HIDE DEF next
<1> QED
  BY <1>2, <1>3, <1>5 DEF Write

(* One entry of restore, and the copy of its blob. *)
LEMMA RestoreMoves ==
  ASSUME TypeOK, ShapeInv, NEW s \in Proc, NEW p \in Path, RestoreVisit(s, p)
  PROVE  /\ run[s].at = "walk" /\ p \in run[s].todo /\ run'[s].todo = run[s].todo \ {p}
         /\ \/ /\ run'[s].at = "copy" /\ run'[s].cur = p /\ run'[s].status = run[s].status
               /\ live' = [live EXCEPT ![p] = Torn]
            \/ /\ run'[s].at = "walk" /\ UNCHANGED live
               /\ \/ Matches(s, p) /\ run'[s].status = run[s].status
                  \/ run'[s].status = "ERROR"
<1>1. run \in [Proc -> Process] /\ run[s] \in Process
  BY Typed
<1>2. PICK blob : blob = vaults[run[s].v].blobs[run[s].rows[p].hash]
  OBVIOUS
<1>3. PICK word : word = IF blob = NoFile THEN "ERROR" ELSE run[s].status
  OBVIOUS
<1> DEFINE copy == [run[s] EXCEPT !.todo = run[s].todo \ {p}, !.at = "copy", !.from = p, !.cur = p]
           next == [run[s] EXCEPT !.todo = run[s].todo \ {p}, !.status = word]
<1>4. run[s].at = "walk" /\ p \in run[s].todo
  BY DEF RestoreVisit, AtEntry
<1>5. \/ Write(s, p, Torn, copy)
      \/ (blob = NoFile \/ Matches(s, p)) /\ UNCHANGED live /\ Goes(s, next)
  BY <1>2, <1>3 DEF RestoreVisit, disk
<1>6. CASE Write(s, p, Torn, copy)
  <2>1. run'[s] = copy /\ live' = [live EXCEPT ![p] = Torn]
    <3> HIDE DEF copy
    <3> QED
      BY <1>1, <1>6, WriteOn DEF Write
  <2>2. /\ run'[s].at = "copy" /\ run'[s].cur = p /\ run'[s].status = run[s].status
        /\ run'[s].todo = run[s].todo \ {p}
    BY <1>1, <2>1 DEF Process
  <2> QED
    BY <1>4, <2>1, <2>2
<1>7. CASE (blob = NoFile \/ Matches(s, p)) /\ UNCHANGED live /\ Goes(s, next)
  <2>1. run'[s] = next
    <3> HIDE DEF next
    <3> QED
      BY <1>1, <1>7, GoesOn
  <2>2. /\ run'[s].at = "walk" /\ run'[s].status = word
        /\ run'[s].todo = run[s].todo \ {p}
    BY <1>1, <1>4, <2>1 DEF Process
  <2> QED
    BY <1>3, <1>4, <1>7, <2>2
<1> QED
  BY <1>5, <1>6, <1>7

LEMMA CopyMoves ==
  ASSUME TypeOK, ShapeInv, NEW s \in Proc
  PROVE  /\ CopyWrite(s) =>
              /\ run[s].at = "copy" /\ run[s].cmd \in {"restore", "recover"}
              /\ run'[s].at = IF run[s].cmd = "recover" THEN "append" ELSE "walk"
              /\ run'[s].status = run[s].status /\ run'[s].todo = run[s].todo
              /\ \E b : /\ live' = [live EXCEPT ![run[s].cur] = b]
                        /\ ~run[s].shared => b = Blob(s)
         /\ CopyFails(s) =>
              /\ run[s].at = "copy" /\ run[s].cmd \in {"restore", "recover"}
              /\ run'[s].status = "ERROR" /\ UNCHANGED live
              /\ run'[s].at = IF run[s].cmd = "recover" THEN "append" ELSE "walk"
<1>1. run \in [Proc -> Process] /\ run[s] \in Process /\ Shaped(run[s])
  BY Typed
<1>2. PICK n : n = AfterCopy(s)
  OBVIOUS
<1>3. /\ run[s].cmd = "recover" => n = [run[s] EXCEPT !.at = "append", !.rows = NoRows]
      /\ run[s].cmd # "recover" =>
           n = [run[s] EXCEPT !.at = "walk", !.from = NoPath, !.cur = NoPath, !.shared = FALSE]
  BY <1>2 DEF AfterCopy
<1>4. /\ n.at = IF run[s].cmd = "recover" THEN "append" ELSE "walk"
      /\ n.status = run[s].status /\ n.todo = run[s].todo
      /\ [n EXCEPT !.status = "ERROR"].at = n.at /\ [n EXCEPT !.status = "ERROR"].status = "ERROR"
  BY <1>1, <1>3 DEF Process
<1>5. run[s].at = "copy" => run[s].cmd \in {"restore", "recover"}
  BY <1>1 DEF Shaped
<1>6. ASSUME CopyWrite(s)
      PROVE  /\ run[s].at = "copy" /\ run'[s] = n
             /\ \E b : /\ live' = [live EXCEPT ![run[s].cur] = b]
                       /\ ~run[s].shared => b = Blob(s)
  <2>1. run[s].at = "copy"
    BY <1>6 DEF CopyWrite
  <2>2. PICK b : /\ ~run[s].shared => b = Blob(s)
                 /\ Write(s, run[s].cur, b, n)
    BY <1>2, <1>6 DEF CopyWrite
  <2>3. run'[s] = n
    BY <1>1, <2>2, WriteOn
  <2> QED
    BY <2>1, <2>2, <2>3 DEF Write
<1>7. ASSUME CopyFails(s)
      PROVE  /\ run[s].at = "copy" /\ run'[s] = [n EXCEPT !.status = "ERROR"] /\ UNCHANGED live
  BY <1>1, <1>2, <1>7, GoesOn DEF CopyFails, disk
<1> QED
  BY <1>4, <1>5, <1>6, <1>7

(* How the other commands come to the steps before a walk, and to their end. *)
LEMMA OtherMoves ==
  ASSUME TypeOK, ShapeInv, NEW s \in Proc, run[s].cmd \in {"inspect", "recover", "diff"},
         Middle(s), run'[s].cmd # "none"
  PROVE  /\ run'[s].at \in {"append", "copy"} \/ (Load(s) /\ run'[s].status = run[s].status)
         /\ run'[s].at # "load"
<1>1. run \in [Proc -> Process] /\ run[s] \in Process
  BY Typed
<1>2. ASSUME Load(s)
      PROVE  /\ run'[s].at \in {"append", "copy"} \/ run'[s].status = run[s].status
             /\ run'[s].at # "load"
  <2>1. PICK m : m = vaults[run[s].v]
    OBVIOUS
  <2>2. run[s].at = "load" /\ run'[s] = Loaded(s, m)
    BY <1>1, <1>2, <2>1, GoesOn DEF Load
  <2>3. \/ run'[s] = [run[s] EXCEPT !.rows = m.rows, !.at = "load2"]
        \/ run'[s] = [run[s] EXCEPT !.rows = m.rows, !.at = "open out"]
        \/ run'[s] = [run[s] EXCEPT !.at = "append"]
        \/ run'[s] = [run[s] EXCEPT !.at = "append", !.status = "MISSING"]
        \/ run'[s] = [run[s] EXCEPT !.at = "append", !.status = "UNRECOVERABLE"]
    BY <2>2, LoadedIs
  <2> QED
    BY <1>1, <2>3 DEF Process
<1>3. ASSUME LoadFails(s)
      PROVE  run'[s].at = "append"
  <2>1. run'[s] = Idle \/ run'[s] = [run[s] EXCEPT !.at = "append", !.status = Bad(run[s].cmd)]
    BY <1>1, <1>3, GoesOn DEF LoadFails
  <2> QED
    BY <1>1, <2>1, IdleIs DEF Process
<1>4. ASSUME DiffLoad2(s)
      PROVE  run'[s].at = "append"
  <2>1. PICK word : word = IF NoDifference(run[s].rows, vaults[run[s].w].rows)
                           THEN run[s].status ELSE Bad("diff")
    OBVIOUS
  <2>2. run'[s] = Idle \/
        run'[s] = [run[s] EXCEPT !.rows = NoRows, !.at = "append", !.status = word]
    BY <1>1, <1>4, <2>1, GoesOn DEF DiffLoad2
  <2> QED
    BY <1>1, <2>2, IdleIs DEF Process
<1>5. ASSUME RecoverOpen(s)
      PROVE  run'[s].at = "copy"
  <2>1. run'[s] = [run[s] EXCEPT !.at = "copy"]
    BY <1>1, <1>5, WriteOn DEF RecoverOpen
  <2> QED
    BY <1>1, <2>1 DEF Process
<1>6. (CopyWrite(s) \/ CopyFails(s)) /\ run[s].cmd = "recover" => run'[s].at = "append"
  BY CopyMoves
<1>7. run[s].cmd \in {"inspect", "recover", "diff"}
  OBVIOUS
<1> QED
  BY <1>2, <1>3, <1>4, <1>5, <1>6, <1>7, ByCommand

(* Where the steps of a walk lead. *)
LEMMA WalkArrives ==
  ASSUME TypeOK, ShapeInv, NEW s \in Proc, run[s].cmd \in Walking, Middle(s)
  PROVE  /\ run'[s].at \in {"walk", "copy", "append"}
         /\ run'[s].at = "append" => WalkEnd(s) \/ LoadFails(s)
         /\ run'[s].at = "walk" /\ run[s].at = "load" => Load(s)
<1>1. \/ Load(s) \/ LoadFails(s) \/ WalkEnd(s)
      \/ run[s].cmd = "restore" /\ (CopyWrite(s) \/ CopyFails(s))
      \/ \E p \in Path : \/ VerifyVisit(s, p) \/ PruneVisit(s, p) \/ WalkMisses(s, p)
                         \/ RestoreVisit(s, p)
  BY ByCommand DEF Walking
<1>2. CASE \E p \in Path : \/ VerifyVisit(s, p) \/ PruneVisit(s, p) \/ WalkMisses(s, p)
                           \/ RestoreVisit(s, p)
  BY <1>2, VerifyMoves, PruneMoves, MissMoves, RestoreMoves
<1>3. CASE Load(s) \/ LoadFails(s) \/ WalkEnd(s)
  BY <1>3, LoadMoves
<1>4. CASE run[s].cmd = "restore" /\ (CopyWrite(s) \/ CopyFails(s))
  BY <1>4, CopyMoves
<1> QED
  BY <1>1, <1>2, <1>3, <1>4

LEMMA StatusStep ==
  ASSUME Base, StatusInv, Next
  PROVE  StatusInv'
<1>1. TypeOK /\ ShapeInv /\ SealsInv
  BY DEF Base
<1> SUFFICES ASSUME NEW s \in Proc
             PROVE  /\ run'[s].at \in {"load", "load2", "open out"} =>
                         run'[s].status = Good[run'[s].cmd]
                    /\ run'[s].cmd \in Walking /\ run'[s].at = "append"
                         /\ run'[s].status = Good[run'[s].cmd] => run'[s].todo = {}
  BY DEF StatusInv
<1>2. /\ run[s] \in Process /\ Shaped(run[s]) /\ run'[s] \in Process /\ Shaped(run[s])'
      /\ ~Step(s) => Bystands(s)
  BY <1>1, Everyone
<1>3. /\ run[s].at \in {"load", "load2", "open out"} => run[s].status = Good[run[s].cmd]
      /\ run[s].cmd \in Walking /\ run[s].at = "append"
           /\ run[s].status = Good[run[s].cmd] => run[s].todo = {}
  BY DEF StatusInv
<1>4. CASE ~Step(s)
  <2>1. /\ run'[s].status = run[s].status /\ run'[s].cmd = run[s].cmd
        /\ run'[s].at = run[s].at /\ run'[s].todo = run[s].todo
    BY <1>2, <1>4, StandsKeeps
  <2> QED
    BY <1>3, <2>1
<1>5. CASE run'[s].cmd = "none"
  <2>1. run'[s].at = "idle"
    BY <1>2, <1>5 DEF Shaped
  <2> QED
    BY <1>5, <2>1 DEF Walking, Verifying
<1>6. CASE Fresh(s)
  BY <1>6 DEF Fresh, Walking, Verifying
<1>7. CASE Middle(s) /\ Keeps(run[s], run'[s]) /\ run'[s].cmd # "none"
  <2>1. run'[s].cmd = run[s].cmd
    BY <1>7 DEF Keeps
  <2>2. CASE run[s].cmd \in Walking
    <3>1. /\ run'[s].at \in {"walk", "copy", "append"}
          /\ run'[s].at = "append" => WalkEnd(s) \/ LoadFails(s)
      BY <1>1, <1>7, <2>2, WalkArrives
    <3>2. Bad(run[s].cmd) # Good[run[s].cmd]
      BY <2>2, GoodWords DEF Bad, Walking, Verifying
    <3>3. LoadFails(s) => run'[s].status = Bad(run[s].cmd)
      BY <1>1, <2>2, LoadMoves
    <3>4. WalkEnd(s) => run'[s].todo = {}
      BY <1>1, <2>2, LoadMoves
    <3> QED
      BY <2>1, <3>1, <3>2, <3>3, <3>4
  <2>3. CASE run[s].cmd \in {"inspect", "recover", "diff"}
    <3>1. /\ run'[s].at \in {"append", "copy"} \/ (Load(s) /\ run'[s].status = run[s].status)
          /\ run'[s].at # "load"
      BY <1>1, <1>7, <2>3, OtherMoves
    <3>2. Load(s) => run[s].at = "load"
      BY DEF Load
    <3>3. run'[s].cmd \notin Walking
      BY <2>1, <2>3 DEF Walking, Verifying
    <3> QED
      BY <1>3, <2>1, <3>1, <3>2, <3>3
  <2>4. CASE run[s].cmd \notin Walking \union {"inspect", "recover", "diff"}
    <3>1. run'[s].at \notin {"load", "load2", "open out"}
      BY <1>2, <2>1, <2>4 DEF Shaped
    <3> QED
      BY <2>1, <2>4, <3>1
  <2> QED
    BY <2>2, <2>3, <2>4
<1> QED
  BY <1>1, <1>4, <1>5, <1>6, <1>7, Actor


-----------------------------------------------------------------------------
(* What every command relies on: types and shapes, seals that have their    *)
(* vaults to themselves, what SEALED promised, and how each command came to *)
(* where it is.                                                             *)
IInv == Base /\ KnownInv /\ SealingInv /\ SealTold /\ StatusInv

LEMMA IInvStutters ==
  ASSUME IInv, UNCHANGED vars
  PROVE  IInv'
<1>1. /\ live' = live /\ vaults' = vaults /\ stamps' = stamps /\ ledger' = ledger
      /\ run' = run /\ spent' = spent /\ told' = told /\ acts' = acts
  BY DEF vars, disk
<1>2. TypeOK'
  BY <1>1 DEF IInv, Base, TypeOK
<1>3. HasManifest' = HasManifest
  BY <1>1 DEF HasManifest
<1>4. ASSUME NEW r \in Proc, Shaped(run[r])
      PROVE  Shaped(run[r])'
  <2>1. run[r] \in Process /\ run'[r] = run[r] /\ TypeOK
    BY <1>1 DEF IInv, Base, TypeOK
  <2>2. Bystands(r)
    <3>1. run[r] = [run[r] EXCEPT !.touched = run[r].touched, !.shared = run[r].shared]
      BY <2>1 DEF Process
    <3> QED
      BY <1>1, <2>1, <3>1 DEF Bystands
  <2>3. stamps' \in {stamps, stamps + 1}
    BY <1>1
  <2> QED
    BY <1>4, <2>1, <2>2, <2>3, StandsShaped
<1>5. ShapeInv'
  BY <1>1, <1>3, <1>4 DEF IInv, Base, ShapeInv
<1>6. SealsInv'
  BY <1>1 DEF IInv, Base, SealsInv
<1>7. KnownInv' /\ SealTold' /\ StatusInv'
  BY <1>1, <1>3 DEF IInv, KnownInv, KnownVault, SealTold, Loads, Truth, Trusted, StatusInv
<1>8. SealingInv'
  BY <1>1 DEF IInv, SealingInv, Walked
<1> QED
  BY <1>2, <1>5, <1>6, <1>7, <1>8 DEF IInv, Base

LEMMA IInvStep ==
  ASSUME IInv, [Next]_vars
  PROVE  IInv'
<1>1. CASE Next
  BY <1>1, BaseStep, KnownStep, SealingStep, SealToldStep, StatusStep DEF IInv
<1>2. CASE UNCHANGED vars
  BY <1>2, IInvStutters
<1> QED
  BY <1>1, <1>2

LEMMA IInvInit == Init => IInv
<1>1. Init => StatusInv
  BY IdleIs DEF Init, StatusInv, Walking, Verifying
<1> QED
  BY <1>1, InitSeal, InitBase DEF IInv

(* Whatever commands run at once, and whenever one of them is killed, the   *)
(* target, the vaults, the ledger and what each command has in hand are of  *)
(* their types, and a seal past its first step has its vault on disk.       *)
THEOREM VaultTypeCorrect == Spec => []TypeOK
<1>1. IInv => TypeOK
  BY DEF IInv, Base
<1> QED
  BY <1>1, IInvInit, IInvStep, PTL DEF Spec

(* A vault that ivault_seal_path reported SEALED, no flush and no readdir   *)
(* of it having failed unseen, loads from then on, and keeps a row and a    *)
(* blob of what each path held that nobody changed while it was sealed, the *)
(* blob right unless a file that did change meanwhile has the same digest:  *)
(* no other command at work takes that away.                                *)
THEOREM SealedStays == Spec => []SealTold
<1>1. IInv => SealTold
  BY DEF IInv
<1> QED
  BY <1>1, IInvInit, IInvStep, PTL DEF Spec

-----------------------------------------------------------------------------
(* What the manifest of a reported vault tells of a path left alone; its    *)
(* blob too, when no two contents share a digest.                           *)

LEMMA TellsRow ==
  ASSUME Base, SealTold, NEW v \in Vault, told[v] # NotTold, NEW p \in told[v].quiet
  PROVE  /\ p \in Path /\ Loads(v) /\ Truth(v, p) \in LiveFile
         /\ Truth(v, p) = NoFile <=> vaults[v].rows[p] = NoRow
         /\ Truth(v, p) # NoFile => /\ vaults[v].rows[p].hash = Hash[Truth(v, p)]
                                    /\ vaults[v].rows[p].size = SizeOf[Truth(v, p)]
                                    /\ vaults[v].blobs[Hash[Truth(v, p)]] # NoFile
<1>1. told[v] \in Report /\ Loads(v)
  BY DEF Base, TypeOK, SealTold
<1>2. p \in Path /\ told[v].live[p] \in LiveFile
  BY <1>1 DEF Report
<1>3. PICK b \in LiveFile : b = Truth(v, p)
  BY <1>2 DEF Truth
<1>4. IF b = NoFile THEN vaults[v].rows[p] = NoRow
      ELSE /\ vaults[v].rows[p] = [hash |-> Hash[b], size |-> SizeOf[b]]
           /\ vaults[v].blobs[Hash[b]] # NoFile
  BY <1>3 DEF SealTold
<1>5. CASE b = NoFile
  BY <1>1, <1>2, <1>3, <1>4, <1>5
<1>6. CASE b # NoFile
  <2>1. Hash[b] \in HashId /\ SizeOf[b] \in SizeId
    BY <1>3, <1>6, HashAssumption, SizeAssumption DEF LiveFile
  <2>2. [hash |-> Hash[b], size |-> SizeOf[b]] \in FileRow
    BY <2>1 DEF FileRow
  <2>3. vaults[v].rows[p] # NoRow /\ vaults[v].rows[p].hash = Hash[b]
        /\ vaults[v].rows[p].size = SizeOf[b]
    BY <1>4, <1>6, <2>2, RowAssumption
  <2> QED
    BY <1>1, <1>2, <1>3, <1>4, <1>6, <2>3
<1> QED
  BY <1>5, <1>6

LEMMA TellsOf ==
  ASSUME Base, SealTold, HashInjective,
         NEW v \in Vault, told[v] # NotTold, NEW p \in told[v].quiet
  PROVE  /\ p \in Path /\ Loads(v) /\ Truth(v, p) \in LiveFile
         /\ Truth(v, p) = NoFile <=> vaults[v].rows[p] = NoRow
         /\ Truth(v, p) # NoFile => /\ vaults[v].rows[p].hash = Hash[Truth(v, p)]
                                    /\ p \in Trusted(v) =>
                                         vaults[v].blobs[vaults[v].rows[p].hash] = Truth(v, p)
<1>1. vaults[v] \in VaultDir /\ Loads(v)
  BY TellsRow, IVaultAssumption DEF Base, TypeOK, Loads
<1>2. PICK b : b = Truth(v, p)
  OBVIOUS
<1>3. /\ p \in Path /\ b \in LiveFile
      /\ b = NoFile <=> vaults[v].rows[p] = NoRow
      /\ b # NoFile => vaults[v].rows[p].hash = Hash[b] /\ vaults[v].blobs[Hash[b]] # NoFile
  BY <1>2, TellsRow
<1>4. ASSUME b # NoFile, p \in Trusted(v)
      PROVE  vaults[v].blobs[Hash[b]] = b
  <2>1. b \in Bytes /\ Hash[b] \in HashId
    BY <1>3, <1>4, HashAssumption DEF LiveFile
  <2>2. vaults[v].blobs[Hash[b]] \in LiveFile /\ vaults[v].blobs[Hash[b]] # NoFile
    BY <1>1, <1>3, <1>4, <2>1 DEF VaultDir
  <2>3. Hash[vaults[v].blobs[Hash[b]]] = Hash[b]
    BY <1>2, <1>4 DEF SealTold
  <2> QED
    BY <2>1, <2>2, <2>3 DEF HashInjective, LiveFile
<1> QED
  BY <1>1, <1>2, <1>3, <1>4

(* A path matches its row exactly if it is again as it was sealed. *)
LEMMA MatchesTells ==
  ASSUME Base, SealTold, HashInjective, NEW s \in Proc,
         run[s].v \in Vault, told[run[s].v] # NotTold,
         run[s].rows = vaults[run[s].v].rows, NEW p \in told[run[s].v].quiet
  PROVE  Matches(s, p) <=> live[p] = Truth(run[s].v, p)
<1>1. PICK v \in Vault : v = run[s].v
  OBVIOUS
<1>2. PICK b : b = Truth(v, p)
  OBVIOUS
<1>3. /\ p \in Path /\ b \in LiveFile
      /\ b = NoFile <=> run[s].rows[p] = NoRow
      /\ b # NoFile => run[s].rows[p].hash = Hash[b]
  BY <1>1, <1>2, TellsOf
<1>4. live[p] \in LiveFile
  BY <1>3 DEF Base, TypeOK
<1>5. CASE b = NoFile
  BY <1>1, <1>2, <1>3, <1>5 DEF Matches
<1>6. CASE b # NoFile
  <2>1. b \in Bytes
    BY <1>3, <1>6 DEF LiveFile
  <2>2. Matches(s, p) <=> live[p] \in Bytes /\ Hash[live[p]] = Hash[b]
    BY <1>3, <1>6 DEF Matches
  <2>3. live[p] \in Bytes /\ Hash[live[p]] = Hash[b] <=> live[p] = b
    BY <2>1 DEF HashInjective
  <2> QED
    BY <1>1, <1>2, <2>2, <2>3
<1> QED
  BY <1>5, <1>6

(* A process that knows its vault to be reported, over one step of anyone. *)
LEMMA KnownKeeps ==
  ASSUME Base, KnownInv, Next, NEW s \in Proc, run[s].v \in run[s].known
  PROVE  /\ run[s].v \in Vault /\ told[run[s].v] # NotTold
         /\ told'[run[s].v] = told[run[s].v] /\ vaults'[run[s].v] = vaults[run[s].v]
<1>1. run[s].known \subseteq Vault /\ told[run[s].v] # NotTold
  BY Typed DEF Base, Process, KnownInv
<1> QED
  BY <1>1, ToldStays DEF Base

(* One that stands by sees the tree change only where it is marked as       *)
(* touched, and goes on as it was.                                          *)
LEMMA Alone ==
  ASSUME Base, Next, NEW s \in Proc, ~Step(s), run[s].cmd \in Walking \union {"seal", "recover"}
  PROVE  /\ \A p \in Path \ run'[s].touched : live'[p] = live[p]
         /\ run[s].touched \subseteq run'[s].touched
         /\ run'[s].touched \subseteq Path
<1>1. Bystands(s) /\ run'[s] \in Process
  BY Everyone DEF Base
<1> QED
  BY <1>1 DEF Bystands, Process

-----------------------------------------------------------------------------
(* verify *)

LEMMA VerifyStep ==
  ASSUME Base, KnownInv, SealTold, StatusInv, HashInjective, VerifyInv, Next
  PROVE  VerifyInv'
<1>1. TypeOK /\ ShapeInv /\ SealsInv
  BY DEF Base
<1> SUFFICES ASSUME NEW s \in Proc, run'[s].cmd \in Verifying, run'[s].at \in {"walk", "append"},
                    run'[s].v \in run'[s].known
             PROVE  LET v == run'[s].v
                        calm == told'[v].quiet \ run'[s].touched
                    IN  /\ run'[s].status = "CLEAN" =>
                             \A p \in calm \ run'[s].todo : live'[p] = told'[v].live[p]
                        /\ run'[s].status = "DAMAGE" /\ calm = Path /\ spent'.faults = 0 =>
                             live' # told'[v].live
  BY DEF VerifyInv, KnownVault, Past, Calm, Truth
<1>2. /\ run[s] \in Process /\ Shaped(run[s]) /\ run'[s] \in Process /\ Shaped(run[s])'
      /\ ~Step(s) => Bystands(s)
  BY <1>1, Everyone
<1>3. run'[s].cmd # "none" /\ run'[s].cmd \in Walking
  BY DEF Walking, Verifying
<1>4. ~Fresh(s)
  BY <1>3 DEF Fresh, Verifying
<1>5. /\ run'[s].cmd = run[s].cmd /\ run'[s].v = run[s].v /\ run'[s].known = run[s].known
      /\ ~Step(s) \/ (Middle(s) /\ Keeps(run[s], run'[s]))
  <2>1. CASE ~Step(s)
    BY <1>2, <2>1, StandsKeeps
  <2>2. CASE Step(s)
    <3>1. Middle(s) /\ Keeps(run[s], run'[s])
      BY <1>1, <1>3, <1>4, <2>2, Actor
    <3> QED
      BY <3>1 DEF Keeps, Verifying
  <2> QED
    BY <2>1, <2>2
<1>6. PICK v \in Vault : v = run[s].v /\ v \in run[s].known
  BY <1>5, KnownKeeps
<1>7. told[v] # NotTold /\ told'[v] = told[v] /\ vaults'[v] = vaults[v] /\ told[v] \in Report
  BY <1>1, <1>6, KnownKeeps DEF TypeOK
<1>8. run[s].at \in {"walk", "append"} =>
        /\ run[s].status = "CLEAN" =>
             \A p \in (told[v].quiet \ run[s].touched) \ run[s].todo : live[p] = told[v].live[p]
        /\ run[s].status = "DAMAGE" /\ told[v].quiet \ run[s].touched = Path
             /\ spent.faults = 0 => live # told[v].live
  BY <1>5, <1>6 DEF VerifyInv, KnownVault, Past, Calm, Truth
<1>9. /\ live \in [Path -> LiveFile] /\ live' \in [Path -> LiveFile]
      /\ told[v].quiet \subseteq Path
  BY <1>1, <1>7, LiveTyped DEF TypeOK, Report
<1>10. spent'.faults = 0 => spent.faults = 0
  BY <1>1, Faulty
<1>11. CASE ~Step(s)
  <2>1. /\ run'[s].at = run[s].at /\ run'[s].todo = run[s].todo /\ run'[s].status = run[s].status
        /\ run[s].touched \subseteq run'[s].touched
        /\ \A p \in Path \ run'[s].touched : live'[p] = live[p]
    BY <1>2, <1>3, <1>5, <1>11, StandsKeeps, Alone
  <2>2. told[v].quiet \ run'[s].touched = Path =>
          live' = live /\ told[v].quiet \ run[s].touched = Path
    BY <1>9, <2>1
  <2> QED
    BY <1>5, <1>6, <1>7, <1>8, <1>9, <1>10, <2>1, <2>2
<1>12. CASE Middle(s) /\ Keeps(run[s], run'[s])
  <2>1. \/ Load(s) \/ LoadFails(s) \/ WalkEnd(s)
        \/ \E p \in Path : VerifyVisit(s, p) \/ WalkMisses(s, p)
    BY <1>1, <1>5, <1>12, ByCommand
  <2>2. run[s].at # "open" /\ run[s].cmd \in Walking /\ run[s].cmd \in Verifying
    BY <1>2, <1>3, <1>5 DEF Shaped, Verifying
  <2>3. run'[s].touched = run[s].touched
    BY <1>12, <2>2 DEF Keeps
  <2>4. Good[run[s].cmd] = "CLEAN" /\ Bad(run[s].cmd) = "DAMAGE"
    BY <2>2, GoodWords DEF Bad, Verifying
  <2>5. CASE Load(s)
    <3>1. run'[s].status = "CLEAN" /\ run'[s].todo = Path
      BY <1>1, <2>2, <2>4, <2>5, LoadMoves DEF StatusInv, Verifying
    <3> QED
      BY <1>9, <3>1, <1>5, <1>6, <1>7
  <2>6. CASE LoadFails(s)
    <3>1. run'[s].status = "DAMAGE" /\ (~Loads(v) \/ spent'.faults # 0)
      BY <1>1, <1>6, <2>2, <2>4, <2>6, LoadMoves
    <3>2. run'[s].status = "DAMAGE" /\ Loads(v)
      BY <1>1, <1>7, <2>2, <2>4, <2>6, LoadMoves DEF SealTold
    <3> QED
      BY <3>1, <3>2
  <2>7. CASE WalkEnd(s)
    <3>1. /\ UNCHANGED live /\ run[s].at = "walk" /\ run'[s].todo = run[s].todo
          /\ run'[s].status = run[s].status
      BY <1>1, <2>2, <2>7, LoadMoves
    <3> QED
      BY <1>5, <1>6, <1>7, <1>8, <1>10, <2>3, <3>1
  <2>8. ASSUME NEW p \in Path, VerifyVisit(s, p) \/ WalkMisses(s, p)
        PROVE  LET calm == told[v].quiet \ run[s].touched
               IN  /\ run'[s].status = "CLEAN" =>
                        \A q \in calm \ run'[s].todo : live'[q] = told[v].live[q]
                   /\ run'[s].status = "DAMAGE" /\ calm = Path /\ spent'.faults = 0 =>
                        live' # told[v].live
    <3>1. /\ UNCHANGED live /\ run[s].at = "walk" /\ run'[s].todo = run[s].todo \ {p}
      BY <1>1, <2>8, VerifyMoves, MissMoves
    <3>2. run[s].rows = vaults[v].rows
      BY <1>6, <2>2, <3>1 DEF KnownInv, KnownVault, Verifying
    <3>3. p \in told[v].quiet => (Matches(s, p) <=> live[p] = told[v].live[p])
      BY <1>6, <1>7, <3>2, MatchesTells DEF Truth
    <3>4. CASE VerifyVisit(s, p)
      <4>1. \/ Matches(s, p) /\ run'[s].status = run[s].status
            \/ ~Matches(s, p) /\ run'[s].status = "DAMAGE"
        BY <1>1, <3>4, VerifyMoves
      <4> QED
        BY <1>8, <1>9, <1>10, <3>1, <3>3, <4>1
    <3>5. CASE WalkMisses(s, p)
      <4>1. \/ p \in run[s].touched /\ run'[s].status \in {run[s].status, "DAMAGE"}
            \/ spent'.faults # 0 /\ run'[s].status = "DAMAGE"
        BY <1>1, <2>4, <3>5, MissMoves
      <4> QED
        BY <1>8, <1>9, <1>10, <3>1, <4>1
    <3> QED
      BY <2>8, <3>4, <3>5
  <2> QED
    BY <1>5, <1>6, <1>7, <2>1, <2>3, <2>5, <2>6, <2>7, <2>8
<1> QED
  BY <1>5, <1>11, <1>12

(* A verify that began after its vault was reported says CLEAN only if each *)
(* path left alone during the seal and the verify is again as it was then,  *)
(* and DAMAGE, nothing failing and nobody interfering, only if some path is *)
(* not (ivault_verify_path); for digests that tell contents apart.          *)
THEOREM VerifyTellsInVault == ASSUME HashInjective PROVE Spec => []VerifyTold
<1>1. Init => VerifyInv
  BY IdleIs DEF Init, VerifyInv, Verifying
<1>2. ASSUME IInv, VerifyInv, [Next]_vars
      PROVE  VerifyInv'
  <2>1. CASE Next
    BY <1>2, <2>1, VerifyStep DEF IInv
  <2>2. CASE UNCHANGED vars
    BY <1>2, <2>2 DEF vars, disk, VerifyInv, KnownVault, Past, Calm, Truth
  <2> QED
    BY <1>2, <2>1, <2>2
<1>3. ASSUME IInv, VerifyInv
      PROVE  VerifyTold
  <2> SUFFICES ASSUME NEW r \in Proc, NEW cmd \in Verifying, run[r].cmd = cmd,
                      run[r].at = "append", KnownVault(r)
               PROVE  /\ run[r].status = "CLEAN" =>
                           \A p \in Calm(r, run[r].v) : live[p] = Truth(run[r].v, p)
                      /\ run[r].status = "DAMAGE" /\ Calm(r, run[r].v) = Path
                           /\ spent.faults = 0 => live # told[run[r].v].live
    BY DEF VerifyTold, Reports
  <2>1. run[r].status = "CLEAN" => run[r].todo = {}
    BY <1>3, GoodWords DEF IInv, StatusInv, Verifying, Walking
  <2> QED
    BY <1>3, <2>1 DEF VerifyInv, Past
<1> QED
  BY <1>1, <1>2, <1>3, IInvInit, IInvStep, PTL DEF Spec

-----------------------------------------------------------------------------
(* restore and recover-file *)

(* The blob a copy writes is what its path held when the vault was sealed. *)
LEMMA BlobTells ==
  ASSUME Base, KnownInv, SealTold, HashInjective, NEW s \in Proc,
         run[s].at = "copy", run[s].v \in run[s].known, run[s].v \in Vault,
         told[run[s].v] # NotTold, run[s].from \in Trusted(run[s].v)
  PROVE  Blob(s) = Truth(run[s].v, run[s].from)
<1>1. Shaped(run[s])
  BY Typed DEF Base
<1>2. run[s].cmd # "seal" /\ run[s].from \in Filed(run[s].rows)
  BY <1>1 DEF Shaped
<1>3. run[s].rows = vaults[run[s].v].rows
  BY <1>2 DEF KnownInv, KnownVault
<1>4. vaults[run[s].v].rows[run[s].from] # NoRow
  BY <1>2, <1>3 DEF Filed
<1>5. PICK v \in Vault : v = run[s].v
  OBVIOUS
<1>6. PICK p : p = run[s].from
  OBVIOUS
<1>7. vaults[v].blobs[vaults[v].rows[p].hash] = Truth(v, p)
  <2>1. p \in told[v].quiet /\ p \in Trusted(v)
    BY <1>5, <1>6 DEF Trusted
  <2> QED
    BY <1>4, <1>5, <1>6, <2>1, TellsOf
<1> QED
  BY <1>3, <1>5, <1>6, <1>7 DEF Blob

LEMMA RestoreStep ==
  ASSUME Base, KnownInv, SealTold, StatusInv, HashInjective, RestoreInv, Next
  PROVE  RestoreInv'
<1>1. TypeOK /\ ShapeInv /\ SealsInv
  BY DEF Base
<1> SUFFICES ASSUME NEW s \in Proc, run'[s].cmd = "restore", run'[s].at # "load",
                    run'[s].v \in run'[s].known, run'[s].status = "RESTORE_COMPLETE",
                    NEW u, u = run'[s].v, NEW p \in Trusted(u)',
                    p \in (told'[run'[s].v].quiet \ run'[s].touched) \ run'[s].todo,
                    told'[run'[s].v].live[p] # NoFile,
                    ~(run'[s].at = "copy" /\ run'[s].cur = p)
             PROVE  live'[p] = told'[run'[s].v].live[p]
  BY DEF RestoreInv, KnownVault, Past, Calm, Truth, Trusted
<1>2. /\ run[s] \in Process /\ Shaped(run[s]) /\ run'[s] \in Process /\ Shaped(run[s])'
      /\ ~Step(s) => Bystands(s)
  BY <1>1, Everyone
<1>3. run'[s].cmd # "none" /\ run'[s].cmd \in Walking
  BY DEF Walking
<1>4. ~Fresh(s)
  BY DEF Fresh
<1>5. /\ run'[s].cmd = run[s].cmd /\ run'[s].v = run[s].v /\ run'[s].known = run[s].known
      /\ ~Step(s) \/ (Middle(s) /\ Keeps(run[s], run'[s]))
  <2>1. CASE ~Step(s)
    BY <1>2, <2>1, StandsKeeps
  <2>2. CASE Step(s)
    <3>1. Middle(s) /\ Keeps(run[s], run'[s])
      BY <1>1, <1>3, <1>4, <2>2, Actor
    <3> QED
      BY <3>1 DEF Keeps
  <2> QED
    BY <2>1, <2>2
<1>6. PICK v \in Vault : v = run[s].v /\ v \in run[s].known
  BY <1>5, KnownKeeps
<1>7. told[v] # NotTold /\ told'[v] = told[v] /\ vaults'[v] = vaults[v] /\ told[v] \in Report
  BY <1>1, <1>6, KnownKeeps DEF TypeOK
<1>8. /\ p \in told[v].quiet /\ p \in Path /\ p \notin run'[s].touched /\ p \notin run'[s].todo
      /\ told[v].live[p] # NoFile /\ p \in Trusted(v)
  <2>1. Trusted(u)' = Trusted(v)
    BY <1>5, <1>6, <1>7 DEF Trusted, Truth
  <2> QED
    BY <1>5, <1>6, <1>7, <2>1 DEF Report
<1>9. (/\ run[s].at # "load" /\ run[s].status = "RESTORE_COMPLETE" /\ p \notin run[s].touched
       /\ p \notin run[s].todo /\ ~(run[s].at = "copy" /\ run[s].cur = p)) =>
          live[p] = told[v].live[p]
  BY <1>5, <1>6, <1>8 DEF RestoreInv, KnownVault, Past, Calm, Truth
<1>10. live \in [Path -> LiveFile]
  BY <1>1 DEF TypeOK
<1>11. CASE ~Step(s)
  <2>1. /\ run'[s].at = run[s].at /\ run'[s].todo = run[s].todo /\ run'[s].status = run[s].status
        /\ run[s].touched \subseteq run'[s].touched /\ run'[s].cur = run[s].cur
        /\ \A q \in Path \ run'[s].touched : live'[q] = live[q]
    BY <1>2, <1>3, <1>5, <1>11, StandsKeeps, Alone
  <2> QED
    BY <1>5, <1>6, <1>7, <1>8, <1>9, <2>1
<1>12. CASE Middle(s) /\ Keeps(run[s], run'[s])
  <2>1. \/ Load(s) \/ LoadFails(s) \/ WalkEnd(s) \/ CopyWrite(s) \/ CopyFails(s)
        \/ \E q \in Path : RestoreVisit(s, q)
    BY <1>1, <1>5, <1>12, ByCommand
  <2>2. run[s].at # "open" /\ run[s].cmd = "restore" /\ run[s].cmd \in Walking
    BY <1>2, <1>3, <1>5 DEF Shaped
  <2>3. run'[s].touched = run[s].touched
    BY <1>12, <2>2 DEF Keeps
  <2>4. Bad("restore") = "ERROR"
    BY DEF Bad, Verifying
  <2>5. CASE Load(s)
    <3>1. run'[s].todo = Filed(vaults[v].rows)
      BY <1>1, <1>6, <2>2, <2>5, LoadMoves
    <3>2. vaults[v].rows[p] # NoRow
      BY <1>7, <1>8, TellsOf DEF Truth
    <3> QED
      BY <1>8, <3>1, <3>2 DEF Filed
  <2>6. CASE LoadFails(s)
    <3>1. run'[s].status = "ERROR"
      BY <1>1, <2>2, <2>4, <2>6, LoadMoves
    <3> QED
      BY <3>1
  <2>7. CASE WalkEnd(s)
    <3>1. /\ UNCHANGED live /\ run[s].at = "walk" /\ run'[s].todo = run[s].todo
          /\ run'[s].status = run[s].status
      BY <1>1, <2>2, <2>7, LoadMoves
    <3> QED
      BY <1>5, <1>6, <1>7, <1>8, <1>9, <2>3, <3>1
  <2>8. CASE CopyFails(s)
    <3>1. run'[s].status = "ERROR"
      BY <1>1, <2>8, CopyMoves
    <3> QED
      BY <3>1
  <2>9. CASE CopyWrite(s)
    <3>1. /\ run[s].at = "copy" /\ run'[s].status = run[s].status /\ run'[s].todo = run[s].todo
          /\ \E b : /\ live' = [live EXCEPT ![run[s].cur] = b]
                    /\ ~run[s].shared => b = Blob(s)
      BY <1>1, <2>9, CopyMoves
    <3>2. CASE run[s].cur # p
      <4>1. live'[p] = live[p]
        BY <1>8, <1>10, <3>1, <3>2
      <4> QED
        BY <1>5, <1>6, <1>7, <1>8, <1>9, <2>3, <3>1, <3>2, <4>1
    <3>3. CASE run[s].cur = p
      <4>1. run[s].from = p /\ ~run[s].shared
        BY <1>2, <1>8, <2>2, <2>3, <3>1, <3>3 DEF Shaped
      <4>2. Blob(s) = told[v].live[p]
        BY <1>6, <1>7, <1>8, <3>1, <4>1, BlobTells DEF Truth
      <4>3. live'[p] = Blob(s)
        BY <1>8, <1>10, <3>1, <3>3, <4>1
      <4> QED
        BY <1>5, <1>6, <1>7, <4>2, <4>3
    <3> QED
      BY <3>2, <3>3
  <2>10. ASSUME NEW q \in Path, RestoreVisit(s, q)
         PROVE  live'[p] = told[v].live[p]
    <3>1. run[s].at = "walk" /\ q \in run[s].todo /\ run'[s].todo = run[s].todo \ {q}
      BY <1>1, <2>10, RestoreMoves
    <3>2. \/ /\ run'[s].at = "copy" /\ run'[s].cur = q /\ run'[s].status = run[s].status
             /\ live' = [live EXCEPT ![q] = Torn]
          \/ /\ run'[s].at = "walk" /\ UNCHANGED live
             /\ Matches(s, q) /\ run'[s].status = run[s].status
      BY <1>1, <2>10, RestoreMoves
    <3>3. CASE p # q
      <4>1. live'[p] = live[p] /\ p \notin run[s].todo /\ run[s].status = "RESTORE_COMPLETE"
        BY <1>8, <1>10, <3>1, <3>2, <3>3
      <4> QED
        BY <1>8, <1>9, <2>3, <3>1, <4>1
    <3>4. CASE p = q
      <4>1. UNCHANGED live /\ Matches(s, p)
        BY <3>2, <3>4
      <4>2. run[s].rows = vaults[v].rows
        BY <1>6, <2>2, <3>1 DEF KnownInv, KnownVault
      <4>3. live[p] = told[v].live[p]
        BY <1>6, <1>7, <1>8, <4>1, <4>2, MatchesTells DEF Truth
      <4> QED
        BY <4>1, <4>3
    <3> QED
      BY <3>3, <3>4
  <2> QED
    BY <1>5, <1>6, <1>7, <2>1, <2>5, <2>6, <2>7, <2>8, <2>9, <2>10
<1> QED
  BY <1>5, <1>11, <1>12

(* A restore of a vault reported as SealedStays has it that says RESTORE    *)
(* COMPLETE leaves each file nobody else touches as it was sealed, while    *)
(* other commands work on the same tree (ivault_restore_path), but for      *)
(* files that share a digest with one that changed during the seal; for     *)
(* digests that tell contents apart.                                        *)
THEOREM RestoreTellsInVault == ASSUME HashInjective PROVE Spec => []RestoreTold
<1>1. Init => RestoreInv
  BY IdleIs DEF Init, RestoreInv
<1>2. ASSUME IInv, RestoreInv, [Next]_vars
      PROVE  RestoreInv'
  <2>1. CASE Next
    BY <1>2, <2>1, RestoreStep DEF IInv
  <2>2. CASE UNCHANGED vars
    BY <1>2, <2>2 DEF vars, disk, RestoreInv, KnownVault, Past, Calm, Truth, Trusted
  <2> QED
    BY <1>2, <2>1, <2>2
<1>3. ASSUME IInv, RestoreInv
      PROVE  RestoreTold
  <2> SUFFICES ASSUME NEW r \in Proc, KnownVault(r), run[r].cmd = "restore",
                      run[r].at = "append", run[r].status = "RESTORE_COMPLETE"
               PROVE  \A p \in Calm(r, run[r].v) \intersect Trusted(run[r].v) :
                         Truth(run[r].v, p) # NoFile => live[p] = Truth(run[r].v, p)
    BY DEF RestoreTold, Reports
  <2>1. run[r].todo = {}
    BY <1>3, GoodWords DEF IInv, StatusInv, Walking
  <2> QED
    BY <1>3, <2>1 DEF RestoreInv, Past
<1> QED
  BY <1>1, <1>2, <1>3, IInvInit, IInvStep, PTL DEF Spec

-----------------------------------------------------------------------------
(* prune *)

LEMMA PruneStep ==
  ASSUME Base, KnownInv, SealTold, StatusInv, PruneInv, Next
  PROVE  PruneInv'
<1>1. TypeOK /\ ShapeInv /\ SealsInv
  BY DEF Base
<1> SUFFICES ASSUME NEW s \in Proc, run'[s].cmd = "prune", run'[s].v \in run'[s].known
             PROVE  LET v == run'[s].v
                        calm == told'[v].quiet \ run'[s].touched
                    IN  /\ run'[s].at = "load" =>
                             \A p \in Path \ run'[s].touched : live'[p] = run'[s].before[p]
                        /\ \A p \in calm : told'[v].live[p] # NoFile =>
                                              live'[p] = run'[s].before[p]
                        /\ run'[s].at # "load" /\ run'[s].status = "PRUNE_COMPLETE" =>
                             \A p \in calm \ run'[s].todo :
                                told'[v].live[p] = NoFile => live'[p] = NoFile
  BY DEF PruneInv, KnownVault, Past, Calm, Truth
<1>2. /\ run[s] \in Process /\ Shaped(run[s]) /\ run'[s] \in Process /\ Shaped(run[s])'
      /\ ~Step(s) => Bystands(s)
  BY <1>1, Everyone
<1>3. run'[s].cmd # "none" /\ run'[s].cmd \in Walking
  BY DEF Walking
<1>4. CASE Fresh(s)
  <2>1. /\ run'[s].before = live /\ live' = live /\ told' = told /\ run'[s].at = "load"
        /\ run'[s].known \subseteq Vault /\ told[run'[s].v] # NotTold
    BY <1>4 DEF Fresh
  <2>2. told'[run'[s].v].quiet \subseteq Path
    BY <1>1, <2>1 DEF TypeOK, Report
  <2> QED
    BY <2>1, <2>2
<1>5. CASE ~Fresh(s)
  <2>1. /\ run'[s].cmd = run[s].cmd /\ run'[s].v = run[s].v /\ run'[s].known = run[s].known
        /\ ~Step(s) \/ (Middle(s) /\ Keeps(run[s], run'[s]))
    <3>1. CASE ~Step(s)
      BY <1>2, <3>1, StandsKeeps
    <3>2. CASE Step(s)
      <4>1. Middle(s) /\ Keeps(run[s], run'[s])
        BY <1>1, <1>3, <1>5, <3>2, Actor
      <4> QED
        BY <4>1 DEF Keeps
    <3> QED
      BY <3>1, <3>2
  <2>2. PICK v \in Vault : v = run[s].v /\ v \in run[s].known
    BY <2>1, KnownKeeps
  <2>3. told[v] # NotTold /\ told'[v] = told[v] /\ told[v] \in Report
    BY <1>1, <2>2, KnownKeeps DEF TypeOK
  <2>4. /\ run[s].at = "load" => \A p \in Path \ run[s].touched : live[p] = run[s].before[p]
        /\ \A p \in told[v].quiet \ run[s].touched : told[v].live[p] # NoFile =>
                              live[p] = run[s].before[p]
        /\ run[s].at # "load" /\ run[s].status = "PRUNE_COMPLETE" =>
             \A p \in (told[v].quiet \ run[s].touched) \ run[s].todo :
                told[v].live[p] = NoFile => live[p] = NoFile
    BY <2>1, <2>2 DEF PruneInv, KnownVault, Past, Calm, Truth
  <2>5. live \in [Path -> LiveFile] /\ told[v].quiet \subseteq Path
    BY <1>1, <2>3 DEF TypeOK, Report
  <2>6. CASE ~Step(s)
    <3>1. /\ run'[s].at = run[s].at /\ run'[s].todo = run[s].todo
          /\ run'[s].status = run[s].status /\ run'[s].before = run[s].before
          /\ run[s].touched \subseteq run'[s].touched
          /\ \A q \in Path \ run'[s].touched : live'[q] = live[q]
      BY <1>2, <1>3, <2>1, <2>6, StandsKeeps, Alone
    <3> QED
      BY <2>1, <2>2, <2>3, <2>4, <2>5, <3>1
  <2>7. CASE Middle(s) /\ Keeps(run[s], run'[s])
    <3>1. \/ Load(s) \/ LoadFails(s) \/ WalkEnd(s)
          \/ \E q \in Path : PruneVisit(s, q) \/ WalkMisses(s, q)
      BY <1>1, <2>1, <2>7, ByCommand
    <3>2. run[s].at # "open" /\ run[s].cmd = "prune" /\ run[s].cmd \in Walking
      BY <1>2, <1>3, <2>1 DEF Shaped
    <3>3. run'[s].touched = run[s].touched /\ run'[s].before = run[s].before
      BY <2>7, <3>2 DEF Keeps
    <3>4. Bad("prune") = "ERROR"
      BY DEF Bad, Verifying
    <3>5. CASE Load(s)
      <4>1. run'[s].todo = Path /\ UNCHANGED live /\ run'[s].at = "walk"
        BY <1>1, <3>2, <3>5, LoadMoves
      <4> QED
        BY <2>1, <2>2, <2>3, <2>4, <2>5, <3>3, <4>1
    <3>6. CASE LoadFails(s)
      <4>1. run'[s].status = "ERROR" /\ UNCHANGED live /\ run'[s].at = "append"
        BY <1>1, <3>2, <3>4, <3>6, LoadMoves
      <4> QED
        BY <2>1, <2>2, <2>3, <2>4, <3>3, <4>1
    <3>7. CASE WalkEnd(s)
      <4>1. /\ UNCHANGED live /\ run[s].at = "walk" /\ run'[s].todo = run[s].todo
            /\ run'[s].status = run[s].status /\ run'[s].at = "append"
        BY <1>1, <3>2, <3>7, LoadMoves
      <4> QED
        BY <2>1, <2>2, <2>3, <2>4, <3>3, <4>1
    <3>8. ASSUME NEW q \in Path, PruneVisit(s, q) \/ WalkMisses(s, q)
          PROVE  /\ run'[s].at = "walk"
                 /\ \A p \in told[v].quiet \ run[s].touched : told[v].live[p] # NoFile =>
                                              live'[p] = run[s].before[p]
                 /\ run'[s].status = "PRUNE_COMPLETE" =>
                      \A p \in (told[v].quiet \ run[s].touched) \ run'[s].todo :
                        told[v].live[p] = NoFile => live'[p] = NoFile
      <4>1. run[s].at = "walk" /\ run'[s].at = "walk" /\ run'[s].todo = run[s].todo \ {q}
        BY <1>1, <3>8, PruneMoves, MissMoves
      <4>2. run[s].rows = vaults[v].rows
        BY <2>2, <3>2, <4>1 DEF KnownInv, KnownVault
      <4>3. q \in told[v].quiet => (told[v].live[q] = NoFile <=> run[s].rows[q] = NoRow)
        BY <2>3, <4>2, TellsRow DEF Truth
      <4>4. CASE PruneVisit(s, q)
        <5>1. /\ run'[s].status = run[s].status
              /\ \/ run[s].rows[q] = NoRow /\ live' = [live EXCEPT ![q] = NoFile]
                 \/ (live[q] = NoFile \/ run[s].rows[q] # NoRow) /\ UNCHANGED live
          BY <1>1, <4>4, PruneMoves
        <5>2. CASE run[s].rows[q] = NoRow /\ live' = [live EXCEPT ![q] = NoFile]
          <6>1. \A p \in Path : live'[p] = IF p = q THEN NoFile ELSE live[p]
            BY <2>5, <5>2
          <6>2. ASSUME NEW p \in told[v].quiet \ run[s].touched, told[v].live[p] # NoFile
                PROVE  live'[p] = run[s].before[p]
            BY <2>4, <2>5, <4>3, <5>2, <6>1, <6>2
          <6> QED
            BY <2>4, <2>5, <4>1, <5>1, <6>1, <6>2
        <5>3. CASE (live[q] = NoFile \/ run[s].rows[q] # NoRow) /\ UNCHANGED live
          BY <2>4, <2>5, <4>1, <4>3, <5>1, <5>3
        <5> QED
          BY <5>1, <5>2, <5>3
      <4>5. CASE WalkMisses(s, q)
        <5>1. /\ UNCHANGED live
              /\ \/ q \in run[s].touched /\ run'[s].status \in {run[s].status, "ERROR"}
                 \/ run'[s].status = "ERROR"
          BY <1>1, <3>2, <3>4, <4>5, MissMoves
        <5> QED
          BY <2>4, <4>1, <5>1
      <4> QED
        BY <3>8, <4>4, <4>5
    <3> QED
      BY <2>1, <2>2, <2>3, <3>1, <3>3, <3>5, <3>6, <3>7, <3>8
  <2> QED
    BY <2>1, <2>6, <2>7
<1> QED
  BY <1>4, <1>5

(* A prune by a vault that reported SEALED, no flush and no readdir of its  *)
(* seal having failed unseen, takes no file that was there when the vault   *)
(* was sealed, at no moment and whatever else fails; and when it says PRUNE *)
(* COMPLETE it has taken every file that was not (ivault_prune_path).       *)
THEOREM PruneTellsInVault == Spec => []PruneTold
<1>1. Init => PruneInv
  BY IdleIs DEF Init, PruneInv
<1>2. ASSUME IInv, PruneInv, [Next]_vars
      PROVE  PruneInv'
  <2>1. CASE Next
    BY <1>2, <2>1, PruneStep DEF IInv
  <2>2. CASE UNCHANGED vars
    BY <1>2, <2>2 DEF vars, disk, PruneInv, KnownVault, Past, Calm, Truth
  <2> QED
    BY <1>2, <2>1, <2>2
<1>3. ASSUME IInv, PruneInv
      PROVE  PruneTold
  <2> SUFFICES ASSUME NEW r \in Proc, run[r].cmd = "prune", KnownVault(r),
                      NEW p \in Calm(r, run[r].v)
               PROVE  /\ Truth(run[r].v, p) # NoFile => live[p] = run[r].before[p]
                      /\ (/\ run[r].at = "append" /\ run[r].status = "PRUNE_COMPLETE"
                          /\ Truth(run[r].v, p) = NoFile) => live[p] = NoFile
    BY DEF PruneTold, Reports
  <2>1. run[r].at = "append" /\ run[r].status = "PRUNE_COMPLETE" => run[r].todo = {}
    BY <1>3, GoodWords DEF IInv, StatusInv, Walking
  <2> QED
    BY <1>3, <2>1 DEF PruneInv, Past
<1> QED
  BY <1>1, <1>2, <1>3, IInvInit, IInvStep, PTL DEF Spec

-----------------------------------------------------------------------------
(* recover-file *)

LEMMA RecoverStep ==
  ASSUME Base, KnownInv, SealTold, HashInjective, RecoverTold, Next
  PROVE  RecoverTold'
<1>1. TypeOK /\ ShapeInv /\ SealsInv
  BY DEF Base
<1> SUFFICES ASSUME NEW s \in Proc, run'[s].cmd = "recover", run'[s].at = "append",
                    run'[s].v \in run'[s].known, run'[s].status = "RECOVERED",
                    NEW u, u = run'[s].v, run'[s].from \in Trusted(u)',
                    run'[s].cur \notin run'[s].touched
             PROVE  live'[run'[s].cur] = told'[run'[s].v].live[run'[s].from]
  BY DEF RecoverTold, KnownVault, Reports, Truth, Trusted
<1>2. /\ run[s] \in Process /\ Shaped(run[s]) /\ run'[s] \in Process /\ Shaped(run[s])'
      /\ ~Step(s) => Bystands(s)
  BY <1>1, Everyone
<1>3. ~Fresh(s)
  BY DEF Fresh
<1>4. /\ run'[s].cmd = run[s].cmd /\ run'[s].v = run[s].v /\ run'[s].known = run[s].known
      /\ run'[s].from = run[s].from /\ run'[s].cur = run[s].cur
      /\ ~Step(s) \/ (Middle(s) /\ Keeps(run[s], run'[s]))
  <2>1. CASE ~Step(s)
    BY <1>2, <2>1, StandsKeeps
  <2>2. CASE Step(s)
    <3>1. Middle(s) /\ Keeps(run[s], run'[s])
      BY <1>1, <1>3, <2>2, Actor
    <3> QED
      BY <3>1 DEF Keeps
  <2> QED
    BY <2>1, <2>2
<1>5. PICK v \in Vault : v = run[s].v /\ v \in run[s].known
  BY <1>4, KnownKeeps
<1>6. told[v] # NotTold /\ told'[v] = told[v] /\ vaults'[v] = vaults[v]
  BY <1>5, KnownKeeps
<1>7. run[s].from \in Trusted(v) /\ run[s].cur \in Path
  <2>1. Trusted(u)' = Trusted(v)
    BY <1>4, <1>5, <1>6 DEF Trusted, Truth
  <2> QED
    BY <1>2, <1>4, <1>5, <2>1 DEF Shaped
<1>8. live \in [Path -> LiveFile]
  BY <1>1 DEF TypeOK
<1>9. CASE ~Step(s)
  <2>1. /\ run'[s].at = run[s].at /\ run'[s].status = run[s].status
        /\ run[s].touched \subseteq run'[s].touched
        /\ \A q \in Path \ run'[s].touched : live'[q] = live[q]
    BY <1>2, <1>4, <1>9, StandsKeeps, Alone
  <2>2. live[run[s].cur] = told[v].live[run[s].from]
    BY <1>4, <1>5, <1>6, <1>7, <2>1 DEF RecoverTold, KnownVault, Reports, Truth
  <2> QED
    BY <1>4, <1>5, <1>6, <1>7, <2>1, <2>2
<1>10. CASE Middle(s) /\ Keeps(run[s], run'[s])
  <2>1. CASE CopyWrite(s)
    <3>1. /\ run[s].at = "copy"
          /\ \E b : /\ live' = [live EXCEPT ![run[s].cur] = b]
                    /\ ~run[s].shared => b = Blob(s)
      BY <1>1, <2>1, CopyMoves
    <3>2. run'[s].touched = run[s].touched
      BY <1>10, <3>1 DEF Keeps
    <3>3. ~run[s].shared
      BY <1>2, <1>4, <3>2 DEF Shaped
    <3>4. live'[run[s].cur] = Blob(s)
      BY <1>7, <1>8, <3>1, <3>3
    <3>5. Blob(s) = told[v].live[run[s].from]
      BY <1>5, <1>6, <1>7, <3>1, BlobTells DEF Truth
    <3> QED
      BY <1>4, <1>5, <1>6, <3>4, <3>5
  <2>2. CASE ~CopyWrite(s)
    <3>1. Load(s) \/ LoadFails(s) \/ RecoverOpen(s) \/ CopyFails(s)
      BY <1>1, <1>4, <1>10, <2>2, ByCommand
    <3>2. CASE Load(s)
      <4>1. PICK m : m = vaults[run[s].v]
        OBVIOUS
      <4>2. run[s].at = "load" /\ run'[s] = Loaded(s, m)
        BY <1>1, <3>2, <4>1, GoesOn DEF Load, TypeOK
      <4>3. \/ run'[s] = [run[s] EXCEPT !.at = "append", !.status = "MISSING"]
            \/ run'[s] = [run[s] EXCEPT !.at = "append", !.status = "UNRECOVERABLE"]
            \/ run'[s] = [run[s] EXCEPT !.rows = m.rows, !.at = "open out"]
        <5>1. run[s].cmd = "recover"
          BY <1>4
        <5>2. TypeOK /\ ShapeInv
          BY <1>1
        <5> QED
          BY <4>2, <5>1, <5>2, LoadedIs
      <4>4. run'[s].status # "RECOVERED" \/ run'[s].at # "append"
        BY <1>2, <4>3 DEF Process
      <4> QED
        BY <4>4
    <3>3. CASE LoadFails(s)
      <4>1. run'[s] = Idle \/ run'[s] = [run[s] EXCEPT !.at = "append", !.status = Bad(run[s].cmd)]
        BY <1>1, <3>3, GoesOn DEF LoadFails, TypeOK
      <4>2. run'[s].at = "idle" \/ run'[s].status = Bad(run[s].cmd)
        BY <1>2, <4>1, IdleIs DEF Process
      <4>3. Bad(run[s].cmd) = "ERROR"
        BY <1>4 DEF Bad, Verifying
      <4> QED
        BY <4>2, <4>3
    <3>4. CASE RecoverOpen(s)
      <4>1. run'[s] = [run[s] EXCEPT !.at = "copy"]
        BY <1>1, <3>4, WriteOn DEF RecoverOpen, TypeOK
      <4>2. run'[s].at = "copy"
        BY <1>2, <4>1 DEF Process
      <4> QED
        BY <4>2
    <3>5. CASE CopyFails(s)
      <4>1. run'[s].status = "ERROR"
        BY <1>1, <3>5, CopyMoves
      <4> QED
        BY <4>1
    <3> QED
      BY <3>1, <3>2, <3>3, <3>4, <3>5
  <2> QED
    BY <2>1, <2>2
<1> QED
  BY <1>4, <1>9, <1>10

(* recover-file says RECOVERED only when the output, if nobody else writes  *)
(* to it, holds what the path held when the vault was sealed                *)
(* (ivault_recover_file), but for files that share a digest with one that   *)
(* changed during the seal; for digests that tell contents apart.           *)
THEOREM RecoverTellsInVault == ASSUME HashInjective PROVE Spec => []RecoverTold
<1>1. Init => RecoverTold
  BY IdleIs DEF Init, RecoverTold, Reports
<1>2. ASSUME IInv, RecoverTold, [Next]_vars
      PROVE  RecoverTold'
  <2>1. CASE Next
    BY <1>2, <2>1, RecoverStep DEF IInv
  <2>2. CASE UNCHANGED vars
    BY <1>2, <2>2 DEF vars, disk, RecoverTold, KnownVault, Reports, Truth, Trusted
  <2> QED
    BY <1>2, <2>1, <2>2
<1> QED
  BY <1>1, <1>2, IInvInit, IInvStep, PTL DEF Spec

-----------------------------------------------------------------------------
(* diff *)

LEMMA DiffStep ==
  ASSUME Base, KnownInv, StatusInv, DiffInv, Next
  PROVE  DiffInv'
<1>1. TypeOK /\ ShapeInv /\ SealsInv
  BY DEF Base
<1> SUFFICES ASSUME NEW s \in Proc, run'[s].cmd = "diff", run'[s].at = "append",
                    {run'[s].v, run'[s].w} \subseteq run'[s].known
             PROVE  run'[s].status = "NO_DIFFERENCE" <=>
                      NoDifference(vaults'[run'[s].v].rows, vaults'[run'[s].w].rows)
  BY DEF DiffInv
<1>2. /\ run[s] \in Process /\ Shaped(run[s]) /\ run'[s] \in Process
      /\ ~Step(s) => Bystands(s)
  BY <1>1, Everyone
<1>3. ~Fresh(s)
  BY DEF Fresh
<1>4. /\ run'[s].cmd = run[s].cmd /\ run'[s].v = run[s].v /\ run'[s].w = run[s].w
      /\ run'[s].known = run[s].known
      /\ ~Step(s) \/ (Middle(s) /\ Keeps(run[s], run'[s]))
  <2>1. CASE ~Step(s)
    BY <1>2, <2>1, StandsKeeps
  <2>2. CASE Step(s)
    <3>1. Middle(s) /\ Keeps(run[s], run'[s])
      BY <1>1, <1>3, <2>2, Actor
    <3> QED
      BY <3>1 DEF Keeps
  <2> QED
    BY <2>1, <2>2
<1>5. /\ run[s].v \in run[s].known /\ run[s].w \in run[s].known
      /\ run[s].known \subseteq Vault
  BY <1>2, <1>4 DEF Process
<1>6. /\ told[run[s].v] # NotTold /\ told[run[s].w] # NotTold
  BY <1>5 DEF KnownInv
<1>7. PICK a : a = vaults[run[s].v].rows
  OBVIOUS
<1>8. PICK b : b = vaults[run[s].w].rows
  OBVIOUS
<1>9. a = vaults'[run'[s].v].rows /\ b = vaults'[run'[s].w].rows
  BY <1>1, <1>4, <1>5, <1>6, <1>7, <1>8, ToldStays
<1>10. run[s].at = "append" => (run[s].status = "NO_DIFFERENCE" <=> NoDifference(a, b))
  BY <1>4, <1>5, <1>7, <1>8 DEF DiffInv
<1>11. CASE ~Step(s)
  <2>1. run'[s].at = run[s].at /\ run'[s].status = run[s].status
    BY <1>2, <1>11, StandsKeeps
  <2> QED
    BY <1>9, <1>10, <2>1
<1>12. CASE Middle(s) /\ Keeps(run[s], run'[s])
  <2>1. CASE Load(s)
    <3>1. PICK m : m = vaults[run[s].v]
      OBVIOUS
    <3>2. run[s].at = "load" /\ run'[s] = Loaded(s, m)
      BY <1>1, <2>1, <3>1, GoesOn DEF Load, TypeOK
    <3>3. run'[s] = [run[s] EXCEPT !.rows = m.rows, !.at = "load2"]
      <4>1. run[s].cmd = "diff"
        BY <1>4
      <4>2. TypeOK /\ ShapeInv
        BY <1>1
      <4> QED
        BY <3>2, <4>1, <4>2, LoadedIs
    <3>4. run'[s].at = "load2"
      BY <1>2, <3>3 DEF Process
    <3> QED
      BY <3>4
  <2>2. CASE LoadFails(s)
    <3>1. run'[s] = Idle
      BY <1>1, <1>4, <2>2, GoesOn DEF LoadFails, TypeOK
    <3> QED
      BY <3>1, IdleIs
  <2>3. CASE DiffLoad2(s)
    <3>1. PICK word : word = IF NoDifference(run[s].rows, b) THEN run[s].status ELSE Bad("diff")
      OBVIOUS
    <3>2. run[s].at = "load2" /\
          (run'[s] = Idle \/
           run'[s] = [run[s] EXCEPT !.rows = NoRows, !.at = "append", !.status = word])
      BY <1>1, <1>8, <2>3, <3>1, GoesOn DEF DiffLoad2, TypeOK
    <3>3. run'[s].status = word
      BY <1>2, <3>2, IdleIs DEF Process
    <3>4. run[s].rows = a
      BY <1>4, <1>5, <1>7, <3>2 DEF KnownInv, KnownVault
    <3>5. run[s].status = "NO_DIFFERENCE" /\ Bad("diff") # "NO_DIFFERENCE"
      <4>1. run[s].cmd = "diff" /\ run[s].at = "load2"
        BY <1>4, <3>2
      <4>2. run[s].status = Good["diff"]
        BY <4>1 DEF StatusInv
      <4>3. Bad("diff") = "DIFFERENCE_DETECTED"
        BY DEF Bad, Verifying
      <4> QED
        BY <4>2, <4>3, GoodWords
    <3> QED
      BY <1>9, <3>1, <3>3, <3>4, <3>5
  <2> QED
    BY <1>1, <1>4, <1>12, <2>1, <2>2, <2>3, ByCommand
<1> QED
  BY <1>4, <1>11, <1>12

(* What two manifests of reported vaults tell of the trees they are of. *)
LEMMA DiffTells ==
  ASSUME Base, SealTold, NEW v \in Vault, NEW w \in Vault,
         told[v] # NotTold, told[w] # NotTold
  PROVE  LET a == vaults[v].rows  b == vaults[w].rows
             both == told[v].quiet \intersect told[w].quiet
         IN  /\ HashInjective /\ NoDifference(a, b) => \A p \in both :
                  Truth(v, p) # Truth(w, p) =>
                      Truth(v, p) = NoFile /\ HasHash(a, Hash[Truth(w, p)])
             /\ both = Path /\ told[v].live = told[w].live => NoDifference(a, b)
<1>1. PICK a : a = vaults[v].rows
  OBVIOUS
<1>2. PICK b : b = vaults[w].rows
  OBVIOUS
<1>3. a \in RowTable /\ b \in RowTable
  <2>1. vaults[v] \in VaultDir /\ vaults[w] \in VaultDir
    BY DEF Base, TypeOK
  <2> QED
    BY <1>1, <1>2, <2>1 DEF VaultDir
<1>4. ASSUME HashInjective, NoDifference(a, b),
             NEW p \in told[v].quiet \intersect told[w].quiet, Truth(v, p) # Truth(w, p)
      PROVE  Truth(v, p) = NoFile /\ HasHash(a, Hash[Truth(w, p)])
  <2>1. PICK t : t = Truth(v, p)
    OBVIOUS
  <2>2. PICK u : u = Truth(w, p)
    OBVIOUS
  <2>3. /\ p \in Path /\ t \in LiveFile
        /\ t = NoFile <=> a[p] = NoRow
        /\ t # NoFile => a[p].hash = Hash[t]
    BY <1>1, <2>1, TellsRow
  <2>4. /\ u \in LiveFile
        /\ u = NoFile <=> b[p] = NoRow
        /\ u # NoFile => b[p].hash = Hash[u]
    BY <1>2, <2>2, TellsRow
  <2>5. /\ p \in Filed(a) => b[p] = a[p]
        /\ p \in Filed(b) \ Filed(a) => HasHash(a, b[p].hash)
    BY <1>3, <1>4, DiffMeans
  <2>6. t = NoFile
    <3>1. SUFFICES ASSUME t # NoFile PROVE FALSE
      OBVIOUS
    <3>2. b[p] = a[p] /\ u # NoFile
      BY <2>3, <2>4, <2>5, <3>1 DEF Filed
    <3>3. Hash[t] = Hash[u] /\ t \in Bytes /\ u \in Bytes
      BY <2>3, <2>4, <3>1, <3>2 DEF LiveFile
    <3> QED
      BY <1>4, <2>1, <2>2, <3>3 DEF HashInjective
  <2>7. u # NoFile /\ p \in Filed(b) \ Filed(a)
    BY <1>4, <2>1, <2>2, <2>3, <2>4, <2>6 DEF Filed
  <2> QED
    BY <2>1, <2>2, <2>4, <2>5, <2>6, <2>7
<1>5. ASSUME told[v].quiet \intersect told[w].quiet = Path, told[v].live = told[w].live
      PROVE  NoDifference(a, b)
  <2>1. ASSUME NEW p \in Path
        PROVE  a[p] = b[p]
    <3>1. p \in told[v].quiet /\ p \in told[w].quiet
      BY <1>5
    <3>2. PICK t : t = told[v].live[p]
      OBVIOUS
    <3>3. /\ IF t = NoFile THEN a[p] = NoRow ELSE a[p] = [hash |-> Hash[t], size |-> SizeOf[t]]
          /\ IF t = NoFile THEN b[p] = NoRow ELSE b[p] = [hash |-> Hash[t], size |-> SizeOf[t]]
      BY <1>1, <1>2, <1>5, <3>1, <3>2 DEF SealTold, Truth
    <3> QED
      BY <3>3
  <2>2. a = b
    BY <1>3, <2>1 DEF RowTable
  <2> QED
    BY <1>3, <2>2, DiffBothWays
<1> QED
  BY <1>1, <1>2, <1>4, <1>5

(* diff of two reported vaults says NO DIFFERENCE only if every file of the *)
(* first seal was there unchanged at the second, and every other file of    *)
(* the second holds what some file of the first held; and DIFFERENCE only   *)
(* if the trees differed (ivault_diff_vaults); for digests that tell        *)
(* contents apart.                                                          *)
THEOREM DiffTellsInVault == ASSUME HashInjective PROVE Spec => []DiffTold
<1>1. Init => DiffInv
  BY IdleIs DEF Init, DiffInv
<1>2. ASSUME IInv, DiffInv, [Next]_vars
      PROVE  DiffInv'
  <2>1. CASE Next
    BY <1>2, <2>1, DiffStep DEF IInv
  <2>2. CASE UNCHANGED vars
    BY <1>2, <2>2 DEF vars, disk, DiffInv
  <2> QED
    BY <1>2, <2>1, <2>2
<1>3. ASSUME IInv, DiffInv
      PROVE  DiffTold
  <2> SUFFICES ASSUME NEW r \in Proc, {run[r].v, run[r].w} \subseteq run[r].known,
                      run[r].cmd = "diff", run[r].at = "append"
               PROVE  LET v == run[r].v  w == run[r].w
                          both == told[v].quiet \intersect told[w].quiet
                      IN  /\ run[r].status = "NO_DIFFERENCE" => \A p \in both :
                               Truth(v, p) # Truth(w, p) =>
                                   /\ Truth(v, p) = NoFile
                                   /\ HasHash(vaults[v].rows, Hash[Truth(w, p)])
                          /\ run[r].status = "DIFFERENCE_DETECTED" /\ both = Path =>
                               told[v].live # told[w].live
    BY DEF DiffTold, Reports
  <2>1. Base /\ SealTold /\ KnownInv /\ run[r] \in Process
    BY <1>3, Typed DEF IInv, Base
  <2>2. run[r].v \in Vault /\ run[r].w \in Vault
    BY <2>1 DEF Process
  <2>3. told[run[r].v] # NotTold /\ told[run[r].w] # NotTold
    BY <2>1 DEF KnownInv
  <2>4. run[r].status = "NO_DIFFERENCE" <=>
          NoDifference(vaults[run[r].v].rows, vaults[run[r].w].rows)
    BY <1>3 DEF DiffInv
  <2> QED
    BY <2>1, <2>2, <2>3, <2>4, DiffTells
<1> QED
  BY <1>1, <1>2, <1>3, IInvInit, IInvStep, PTL DEF Spec

-----------------------------------------------------------------------------
(* latest and timeline *)

LEMMA ListStep ==
  ASSUME Base, KnownInv, SealTold, ListInv, ListTold, Next
  PROVE  ListInv' /\ ListTold'
<1>1. TypeOK /\ ShapeInv /\ SealsInv
  BY DEF Base
<1> SUFFICES ASSUME NEW s \in Proc, NEW v \in run'[s].known
             PROVE  /\ run'[s].at = "list" => v \in run'[s].found
                    /\ run'[s].at = "append" => /\ run'[s].cmd = "latest" => run'[s].v >= v
                                                /\ run'[s].cmd = "timeline" => v \in run'[s].found
  BY DEF ListInv, ListTold
<1>2. /\ run[s] \in Process /\ Shaped(run[s]) /\ run'[s] \in Process /\ Shaped(run[s])'
      /\ ~Step(s) => Bystands(s)
  BY <1>1, Everyone
<1>3. v \in run[s].known =>
        /\ run[s].at = "list" => v \in run[s].found
        /\ run[s].at = "append" => /\ run[s].cmd = "latest" => run[s].v >= v
                                   /\ run[s].cmd = "timeline" => v \in run[s].found
        /\ told[v] # NotTold
  BY DEF ListInv, ListTold, KnownInv
<1>4. CASE ~Step(s)
  <2>1. /\ run'[s].cmd = run[s].cmd /\ run'[s].v = run[s].v /\ run'[s].at = run[s].at
        /\ run'[s].known = run[s].known /\ run'[s].found = run[s].found
    BY <1>2, <1>4, StandsKeeps
  <2> QED
    BY <1>3, <2>1
<1>5. CASE run'[s].cmd = "none"
  <2>1. run'[s] = Idle
    BY <1>2, <1>5 DEF Shaped
  <2> QED
    BY <2>1, IdleIs
<1>6. CASE Fresh(s)
  <2>1. v \in Vault /\ told[v] # NotTold
    BY <1>6 DEF Fresh
  <2>2. v \in HasManifest
    BY <1>1, <2>1 DEF TypeOK, HasManifest
  <2> QED
    BY <1>6, <2>2 DEF Fresh, Walking, Verifying
<1>7. CASE Middle(s) /\ Keeps(run[s], run'[s])
  <2>1. run'[s].cmd = run[s].cmd /\ v \in run[s].known
    BY <1>7 DEF Keeps
  <2>2. CASE run[s].cmd = "latest"
    <3>1. Latest(s)
      BY <1>1, <1>7, <2>2, ByCommand
    <3>2. PICK S \in SUBSET HasManifest :
            /\ run[s].at = "list" /\ run[s].found \subseteq S
            /\ Goes(s, IF S = {} THEN Idle
                       ELSE [run[s] EXCEPT !.at = "append", !.v = Newest(S), !.found = {}])
      BY <3>1 DEF Latest
    <3>3. v \in S /\ S # {}
      BY <1>3, <2>1, <3>2
    <3>4. PICK n : n = Newest(S)
      OBVIOUS
    <3>5. run'[s] = [run[s] EXCEPT !.at = "append", !.v = n, !.found = {}]
      BY <1>1, <3>2, <3>3, <3>4, GoesOn DEF TypeOK
    <3>6. run'[s].at = "append" /\ run'[s].v = n
      BY <1>2, <3>5 DEF Process
    <3>7. S \subseteq Vault
      BY DEF HasManifest
    <3>8. n \in S /\ v <= n
      BY <3>3, <3>4, <3>7, NewestIs
    <3>9. n \in Nat /\ v \in Nat
      BY <3>3, <3>7, <3>8 DEF Vault
    <3>10. n >= v
      BY <3>8, <3>9
    <3> QED
      BY <2>1, <2>2, <3>6, <3>10
  <2>3. CASE run[s].cmd = "timeline"
    <3>1. Timeline(s)
      BY <1>1, <1>7, <2>3, ByCommand
    <3>2. PICK S \in SUBSET HasManifest :
            /\ run[s].at = "list" /\ run[s].found \subseteq S
            /\ Goes(s, [run[s] EXCEPT !.at = "append", !.found = {u \in S : Loads(u)}])
      BY <3>1 DEF Timeline
    <3>3. PICK F : F = {u \in S : Loads(u)}
      OBVIOUS
    <3>4. run'[s] = [run[s] EXCEPT !.at = "append", !.found = F]
      BY <1>1, <3>2, <3>3, GoesOn DEF TypeOK
    <3>5. run'[s].at = "append" /\ run'[s].found = F
      BY <1>2, <3>4 DEF Process
    <3>6. v \in S /\ v \in Vault /\ told[v] # NotTold
      BY <1>3, <2>1, <3>2 DEF HasManifest
    <3>7. Loads(v)
      BY <3>6 DEF SealTold
    <3> QED
      BY <2>1, <2>3, <3>3, <3>5, <3>6, <3>7
  <2>4. CASE run[s].cmd \notin {"latest", "timeline"}
    <3>1. run'[s].at # "list"
      BY <1>2, <2>1, <2>4 DEF Shaped
    <3> QED
      BY <2>1, <2>4, <3>1
  <2> QED
    BY <2>2, <2>3, <2>4
<1> QED
  BY <1>1, <1>4, <1>5, <1>6, <1>7, Actor

(* latest never answers an older vault than one reported before it began,   *)
(* and timeline lists each of those, however many seals end meanwhile       *)
(* (newest_vault, ivault_timeline_print).                                   *)
THEOREM ListTellsInVault == Spec => []ListTold
<1>1. Init => ListInv /\ ListTold
  BY IdleIs DEF Init, ListInv, ListTold
<1>2. ASSUME IInv, ListInv, ListTold, [Next]_vars
      PROVE  ListInv' /\ ListTold'
  <2>1. CASE Next
    BY <1>2, <2>1, ListStep DEF IInv
  <2>2. CASE UNCHANGED vars
    BY <1>2, <2>2 DEF vars, disk, ListInv, ListTold
  <2> QED
    BY <1>2, <2>1, <2>2
<1> QED
  BY <1>1, <1>2, IInvInit, IInvStep, PTL DEF Spec

-----------------------------------------------------------------------------
(* The ledger and what audit makes of it. *)

(* A row says what its command did. *)
Says(act, row) ==
  /\ act.cmd \in Commands \ {"none"} /\ Watches(act)
  /\ May(act.cmd, row.status)
  /\ row.event = EventOf(act)
  /\ act.good = (row.status = Good[act.cmd])
  /\ act.lost = (row.status = "UNRECOVERABLE")

LEMMA RowSays ==
  ASSUME TypeOK, ShapeInv, NEW r \in Proc, LedgerAppend(r)
  PROVE  Says(ActOf(run[r]), RowOf(run[r]))
<1>1. /\ run[r].cmd \in Commands \ {"none"} /\ Watches(run[r])
      /\ May(run[r].cmd, run[r].status)
  BY AppendIs
<1>2. PICK g, l : g = (run[r].status = Good[run[r].cmd]) /\ l = (run[r].status = "UNRECOVERABLE")
  OBVIOUS
<1>3. PICK act : act = ActOf(run[r])
  OBVIOUS
<1>4. act = [cmd |-> run[r].cmd, watch |-> run[r].watch, good |-> g, lost |-> l]
  BY <1>2, <1>3 DEF ActOf
<1>5. act.cmd = run[r].cmd /\ act.watch = run[r].watch /\ act.good = g /\ act.lost = l
  BY <1>4
<1>6. PICK row : row = RowOf(run[r])
  OBVIOUS
<1>7. row.event = EventOf(run[r]) /\ row.status = run[r].status
  BY <1>6 DEF RowOf
<1>8. EventOf(act) = EventOf(run[r])
  BY <1>5 DEF EventOf
<1>9. Watches(act)
  BY <1>1, <1>5 DEF Watches
<1> QED
  BY <1>1, <1>2, <1>3, <1>5, <1>6, <1>7, <1>8, <1>9 DEF Says

LEMMA LedgerStep ==
  ASSUME Base, LedgerInv, Next
  PROVE  LedgerInv'
<1>1. /\ TypeOK /\ ShapeInv
      /\ ledger \in Seq(Row) /\ acts \in Seq(Act) /\ Len(ledger) = Len(acts)
  BY DEF Base, TypeOK, Row, Act
<1>2. \A i \in DOMAIN acts : Says(acts[i], ledger[i])
  BY DEF LedgerInv, Says
<1>3. CASE UNCHANGED <<ledger, acts>>
  BY <1>2, <1>3 DEF LedgerInv, Says
<1>4. ASSUME NEW r \in Proc, LedgerAppend(r), ~UNCHANGED <<ledger, acts>>
      PROVE  LedgerInv'
  <2>1. PICK row \in Row, act \in Act :
          /\ ledger' = Append(ledger, row) /\ acts' = Append(acts, act) /\ Says(act, row)
    BY <1>1, <1>4, AppendIs, RowSays
  <2>2. PICK n \in Nat : n = Len(acts)
    BY <1>1
  <2>3. /\ DOMAIN acts = 1 .. n /\ DOMAIN acts' = 1 .. n + 1
        /\ \A i \in 1 .. n : acts'[i] = acts[i] /\ ledger'[i] = ledger[i]
        /\ acts'[n + 1] = act /\ ledger'[n + 1] = row
    BY <1>1, <2>1, <2>2
  <2>4. \A i \in 1 .. n + 1 : i \in 1 .. n \/ i = n + 1
    BY <2>2
  <2>5. \A i \in DOMAIN acts' : Says(acts'[i], ledger'[i])
    BY <1>2, <2>1, <2>3, <2>4
  <2> QED
    BY <2>5 DEF LedgerInv, Says
<1> QED
  BY <1>3, <1>4, WhoChanges

(* The events and the statuses audit looks for, and the commands they are of. *)
LEMMA SaysEvent ==
  ASSUME NEW act, NEW row, Says(act, row), act.watch \in BOOLEAN
  PROVE  /\ row.event = "SEAL" <=> act.cmd = "seal" /\ ~act.watch
         /\ row.event = "VERIFY" <=> act.cmd = "verify" /\ ~act.watch
         /\ row.event = "RESTORE" <=> act.cmd = "restore" /\ ~act.watch
         /\ row.event = "PRUNE" <=> act.cmd = "prune" /\ ~act.watch
<1>1. act.cmd \in Commands \ {"none"} /\ Watches(act) /\ row.event = EventOf(act)
  BY DEF Says
<1>2. CASE act.watch
  <2>1. act.cmd \in Walking \union {"start", "end"}
    BY <1>1, <1>2 DEF Watches
  <2> QED
    BY <1>1, <1>2, <2>1 DEF EventOf, Walking, Verifying
<1>3. CASE ~act.watch
  <2>1. act.cmd \in Commands \ {"none", "start", "post", "end"}
    BY <1>1, <1>3 DEF Watches
  <2> QED
    BY <1>1, <1>3, <2>1 DEF EventOf, Commands, Walking, Verifying
<1> QED
  BY <1>2, <1>3

LEMMA SaysStatus ==
  ASSUME NEW act, NEW row, Says(act, row)
  PROVE  /\ row.status \in {"CLEAN", "SEALED", "RESTORE_COMPLETE", "PRUNE_COMPLETE"} <=>
              act.cmd \in Walking \union {"seal"} /\ act.good
         /\ row.status \in {"DAMAGE", "MISSING", "ERROR", "WATCH_ERRORS"} <=>
              /\ act.cmd \in Walking \union {"seal", "inspect", "recover", "end"}
              /\ ~act.good /\ ~act.lost
<1>1. PICK c, w : c = act.cmd /\ w = row.status
  OBVIOUS
<1>2. /\ c \in Commands \ {"none"} /\ May(c, w)
      /\ act.good <=> w = Good[c]
      /\ act.lost <=> w = "UNRECOVERABLE"
  BY <1>1 DEF Says
<1>3. PICK g, b : g = Good[c] /\ b = Bad(c)
  OBVIOUS
<1>4. /\ c \in Verifying => g = "CLEAN" /\ b = "DAMAGE"
      /\ c = "seal" => g = "SEALED" /\ b = "ERROR"
      /\ c = "restore" => g = "RESTORE_COMPLETE" /\ b = "ERROR"
      /\ c = "prune" => g = "PRUNE_COMPLETE" /\ b = "ERROR"
      /\ c = "inspect" => g = "INSPECTED" /\ b = "ERROR"
      /\ c = "recover" => g = "RECOVERED" /\ b = "ERROR"
      /\ c = "diff" => g = "NO_DIFFERENCE" /\ b = "DIFFERENCE_DETECTED"
      /\ c = "latest" => g = "FOUND"
      /\ c = "timeline" => g = "PRINTED"
      /\ c = "start" => g = "STARTED"
      /\ c = "end" => g = "WATCH_COMPLETE" /\ b = "WATCH_ERRORS"
  BY <1>3, GoodWords DEF Bad, Verifying
<1>5. \/ w = g
      \/ /\ c \in Walking \union {"seal", "inspect", "recover", "diff", "end"}
         /\ w = b
      \/ c = "recover" /\ w \in {"MISSING", "UNRECOVERABLE"}
  BY <1>2, <1>3 DEF May
<1>6. act.good <=> w = g
  BY <1>2, <1>3
<1>7. CASE c \in Walking
  BY <1>1, <1>2, <1>4, <1>5, <1>6, <1>7 DEF Walking, Verifying
<1>8. CASE c \notin Walking
  BY <1>1, <1>2, <1>4, <1>5, <1>6, <1>8 DEF Walking, Verifying, Commands
<1> QED
  BY <1>7, <1>8

LEMMA AuditTells ==
  ASSUME TypeOK, LedgerInv
  PROVE  AuditTold
<1> DEFINE Acts(S)  == {i \in DOMAIN acts : acts[i].cmd \in S}
           Asked(c) == {i \in Acts({c}) : ~acts[i].watch}
           Works    == Walking \union {"seal"}
           Others   == Works \union {"inspect", "recover", "end"}
           Wrong    == {i \in Acts(Others) : ~acts[i].good /\ ~acts[i].lost}
<1>1. PICK n \in Nat : n = Len(acts) /\ DOMAIN acts = 1 .. n /\ DOMAIN ledger = 1 .. n
  BY DEF TypeOK
<1>2. \A i \in 1 .. n : Says(acts[i], ledger[i]) /\ acts[i].watch \in BOOLEAN
  <2>1. \A i \in 1 .. n : acts[i] \in Act
    <3>1. acts \in Seq(Act)
      BY DEF TypeOK, Act
    <3> QED
      BY <1>1, <3>1
  <2>2. \A i \in 1 .. n : Says(acts[i], ledger[i])
    BY <1>1 DEF LedgerInv, Says
  <2> QED
    BY <2>1, <2>2 DEF Act
<1>3. ASSUME NEW i \in 1 .. n
      PROVE  /\ ledger[i].event = "SEAL" <=> acts[i].cmd = "seal" /\ ~acts[i].watch
             /\ ledger[i].event = "VERIFY" <=> acts[i].cmd = "verify" /\ ~acts[i].watch
             /\ ledger[i].event = "RESTORE" <=> acts[i].cmd = "restore" /\ ~acts[i].watch
             /\ ledger[i].event = "PRUNE" <=> acts[i].cmd = "prune" /\ ~acts[i].watch
             /\ ledger[i].status \in {"CLEAN", "SEALED", "RESTORE_COMPLETE", "PRUNE_COMPLETE"} <=>
                  acts[i].cmd \in Works /\ acts[i].good
             /\ ledger[i].status \in {"DAMAGE", "MISSING", "ERROR", "WATCH_ERRORS"} <=>
                  acts[i].cmd \in Others /\ ~acts[i].good /\ ~acts[i].lost
  BY <1>2, SaysEvent, SaysStatus
<1>4. /\ RowsOf({"SEAL"}) = Asked("seal") /\ RowsOf({"VERIFY"}) = Asked("verify")
      /\ RowsOf({"RESTORE"}) = Asked("restore") /\ RowsOf({"PRUNE"}) = Asked("prune")
  BY <1>1, <1>3 DEF RowsOf
<1>5. RowsThat({"CLEAN", "SEALED", "RESTORE_COMPLETE", "PRUNE_COMPLETE"}) =
        {i \in Acts(Works) : acts[i].good}
  BY <1>1, <1>3 DEF RowsThat
<1> DEFINE A == RowsThat({"DAMAGE", "MISSING"})
           B == RowsThat({"ERROR", "WATCH_ERRORS"})
<1>6. A \union B = Wrong
  BY <1>1, <1>3 DEF RowsThat
<1>7. A \intersect B = {} /\ A \subseteq 1 .. n /\ B \subseteq 1 .. n
  BY <1>1 DEF RowsThat
<1>8. Cardinality(A) + Cardinality(B) = Cardinality(Wrong)
  <2> HIDE DEF A, B, Wrong
  <2>1. IsFiniteSet(1 .. n)
    BY FS_Interval
  <2>2. IsFiniteSet(A) /\ IsFiniteSet(B)
    BY <1>7, <2>1, FS_Subset
  <2>3. Cardinality(A) \in Nat /\ Cardinality(B) \in Nat
    BY <2>2, FS_CardinalityType
  <2>4. Cardinality(A \union B) = Cardinality(A) + Cardinality(B) - Cardinality(A \intersect B)
    BY <2>2, FS_Union
  <2>5. Cardinality(A \intersect B) = 0
    BY <1>7, FS_EmptySet
  <2>6. Cardinality(A) + Cardinality(B) - 0 = Cardinality(A) + Cardinality(B)
    BY <2>3
  <2> QED
    BY <1>6, <2>4, <2>5, <2>6
<1> QED
  BY <1>4, <1>5, <1>8 DEF AuditTold, Audit

(* Whoever wrote when, audit counts each seal, verify, restore and prune a  *)
(* user asked for under its own name, each that went well as clean, and     *)
(* each command that did not as damage or as failed, once, but for a        *)
(* recover-file whose blob is lost and a diff (ivault_audit_print).         *)
THEOREM AuditTellsInVault == Spec => []AuditTold
<1>1. Init => LedgerInv
  BY DEF Init, LedgerInv
<1>2. ASSUME IInv, LedgerInv, [Next]_vars
      PROVE  LedgerInv'
  <2>1. CASE Next
    BY <1>2, <2>1, LedgerStep DEF IInv
  <2>2. CASE UNCHANGED vars
    BY <1>2, <2>2 DEF vars, disk, LedgerInv
  <2> QED
    BY <1>2, <2>1, <2>2
<1>3. IInv /\ LedgerInv => AuditTold
  BY AuditTells DEF IInv, Base
<1> QED
  BY <1>1, <1>2, <1>3, IInvInit, IInvStep, PTL DEF Spec

=============================================================================
