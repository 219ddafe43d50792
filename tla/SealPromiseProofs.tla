--------------------------- MODULE SealPromiseProofs ---------------------------
(***************************************************************************)
(* Seal implements the snapshot promise: the one step that publishes is    *)
(* the one that reports SEALED, and nothing else moves an image.           *)
(***************************************************************************)
EXTENDS SealPromise, SealProofs

-----------------------------------------------------------------------------
(* What holds of a seal that is left alone. *)

LEMMA AloneInit == Init => AloneInv
  BY DEF Init, AloneInv

(* A failing call is done with unvisited entries, or with the current file. *)
LEMMA FailuresSkipNothing ==
  ASSUME TypeOK, CoverInv, AloneInv,
         \/ \E p \in Path : LstatFails(p)
         \/ \E S \in SUBSET Path : OpendirFails(S)
         \/ HashFails \/ ObjectPathFails \/ CopyOpenFails \/ CopyFails
  PROVE  AloneInv'
<1>1. ASSUME NEW S \in SUBSET Path, S \subseteq Unvisited \union visited, CountError(S)
      PROVE  AloneInv'
  BY <1>1 DEF CountError, AloneInv, Unvisited, disk, history
<1>2. CASE \E p \in Path : LstatFails(p)
  BY <1>1, <1>2 DEF LstatFails
<1>3. CASE \E S \in SUBSET Path : OpendirFails(S)
  BY <1>1, <1>3 DEF OpendirFails
<1>4. CASE HashFails \/ ObjectPathFails \/ CopyOpenFails \/ CopyFails
  <2>1. cur \in Path /\ cur \in visited /\ CountError({cur})
    BY <1>4 DEF HashFails, ObjectPathFails, CopyOpenFails, CopyFails, TypeOK,
                CoverInv, CursorInv
  <2> QED
    BY <1>1, <2>1
<1> QED
  BY <1>2, <1>3, <1>4

LEMMA AloneStep ==
  ASSUME LeftAlone, TypeOK, CoverInv, AloneInv, [Next]_vars
  PROVE  AloneInv'
<1> USE DEF AloneInv, LeftAlone
<1>1. CASE UNCHANGED vars \/ Tick
  BY <1>1 DEF vars, Tick, local, history
<1>2. ASSUME NEW p \in Path, NEW e \in Content \union {NoFile}, Edit(p, e)
      PROVE  AloneInv'
  BY <1>2 DEF Edit
<1>3. CASE SealStart
  BY <1>3 DEF SealStart, TypeOK
<1>4. ASSUME NEW p \in Path, SkipSpecial(p) \/ EnterFile(p)
      PROVE  AloneInv'
  BY <1>4 DEF SkipSpecial, EnterFile, Unvisited, history
<1>5. CASE HashFile \/ ReuseObject \/ CopyOpen \/ CopyDone
  BY <1>5 DEF HashFile, ReuseObject, CopyOpen, CopyDone, history
<1>6. CASE WriteRow
  BY <1>6 DEF WriteRow
<1>7. CASE SealFinish \/ FcloseFails \/ Crash
  BY <1>7 DEF SealFinish, FcloseFails, Crash, history
<1> QED
  BY FailuresSkipNothing, <1>1, <1>2, <1>3, <1>4, <1>5, <1>6, <1>7
     DEF Next, World, Sealer, ReaddirFails

-----------------------------------------------------------------------------
(* The steps of Seal are steps of the promise. *)

LEMMA PromiseInit == Init => Promise!Init
  BY DEF Init, Promise!Init, Image

(* Outside SealFinish no vault becomes SEALED, none stops being so, and what *)
(* restoring it brings back does not move.                                   *)
LEMMA ImageKept ==
  ASSUME LeftAlone, TypeOK, CoverInv, [Next]_vars, ~SealFinish
  PROVE  Image' = Image
<1>1. SealedKept
  BY KeepsSealed DEF CoverInv
<1>2. \A v \in Stamp : status[v] = "SEALED" => status'[v] = "SEALED"
  <2> USE DEF CoverInv, RowsInv, Running, TypeOK
  <2>1. CASE SealStart
    BY <2>1 DEF SealStart, LeftAlone
  <2>2. CASE FcloseFails
    BY <2>2 DEF FcloseFails
  <2>3. CASE UNCHANGED status
    BY <2>3
  <2>4. CASE \/ UNCHANGED vars \/ Tick \/ Failure \/ Crash
             \/ \E p \in Path, e \in Content \union {NoFile} : Edit(p, e)
             \/ \E p \in Path : SkipSpecial(p) \/ EnterFile(p)
             \/ \E S \in SUBSET Path : ReaddirFails(S)
    BY <2>3, <2>4 DEF vars, Tick, Failure, CountError, Crash, Edit, SkipSpecial,
                      EnterFile, ReaddirFails, disk
  <2>5. CASE HashFile \/ ReuseObject \/ CopyOpen \/ CopyDone \/ WriteRow
    BY <2>3, <2>5 DEF HashFile, ReuseObject, CopyOpen, CopyDone, WriteRow, disk
  <2> QED
    BY StepCases, <2>1, <2>2, <2>4, <2>5
<1>3. \A v \in Stamp : status'[v] = "SEALED" =>
        \A p \in Path : Recovered(v, p)' = Recovered(v, p)
  BY <1>1 DEF SealedKept, Recovered
<1>4. \A v \in Stamp : Image'[v] = Image[v]
  BY <1>1, <1>2, <1>3 DEF Image, SealedKept
<1> QED
  BY <1>4 DEF Image

(* The tree moves only in the user's own steps. *)
LEMMA LiveKept ==
  ASSUME TypeOK, [Next]_vars
  PROVE  \/ live' = live
         \/ \E p \in Path, e \in Content \union {NoFile} :
              Edit(p, e) /\ live' = [live EXCEPT ![p] = e]
<1>1. CASE \/ UNCHANGED vars \/ Tick \/ Failure \/ Crash \/ SealStart
           \/ \E p \in Path : SkipSpecial(p) \/ EnterFile(p)
           \/ \E S \in SUBSET Path : ReaddirFails(S)
  BY <1>1 DEF vars, Tick, Failure, CountError, Crash, SealStart, SkipSpecial,
              EnterFile, ReaddirFails
<1>2. CASE \/ HashFile \/ ReuseObject \/ CopyOpen \/ CopyDone \/ WriteRow
           \/ SealFinish \/ FcloseFails
  BY <1>2 DEF HashFile, ReuseObject, CopyOpen, CopyDone, WriteRow, SealFinish, FcloseFails
<1>3. CASE \E p \in Path, e \in Content \union {NoFile} : Edit(p, e)
  BY <1>3 DEF Edit
<1> QED
  BY StepCases, <1>1, <1>2, <1>3

(* When the walk is over and nothing failed, the blobs behind the buffered   *)
(* rows are the tree: covered by RowsInv, and by BlobInv not torn.           *)
LEMMA FinishedBlobs ==
  ASSUME LeftAlone, TypeOK, CoverInv, BlobInv, AloneInv,
         pc = "walk", WalkOver, ~errors, NEW p \in Path
  PROVE  (IF buffer.rows[p] = NoRow THEN NoFile ELSE objects[stamp][buffer.rows[p]])
           = Promise!Snapshot(live)[p]
<1>1. /\ stamp \in Stamp /\ touched[stamp] = {} /\ ~reopened[stamp] /\ ~lost[stamp]
      /\ cur = NoPath /\ cur # p /\ live[p] = origin[stamp][p]
  BY SealAssumption DEF TypeOK, AloneInv, CoverInv, CursorInv, RowsInv, Running
<1>2. /\ \A q \in Path : buffer.rows[q] # NoRow => objects[stamp][buffer.rows[q]] # NoFile
      /\ \A h \in HashId : objects[stamp][h] \in Bytes => Hash[objects[stamp][h]] = h
  BY <1>1, BlobParts DEF RowsHaveBlobs, BlobsMatch, Running, Excused
<1>3. CASE p \in Skipped
  BY <1>1, <1>3 DEF AloneInv, CoverInv, RowsInv, Running, Promise!Snapshot
<1>4. CASE p \notin Skipped
  <2>1. buffer.rows[p] = IF live[p] \in Bytes THEN Hash[live[p]] ELSE NoRow
    <3>1. CASE p \in visited
      BY <1>1, <1>4, <3>1 DEF CoverInv, RowsInv, Running, Quiet, DueRow
    <3>2. CASE p \notin visited
      BY <1>1, <1>4, <3>2, BytesAssumption
         DEF CoverInv, RowsInv, Running, WalkOver, Unvisited
    <3> QED
      BY <3>1, <3>2
  <2>2. CASE live[p] \in Bytes
    <3>1. Hash[live[p]] \in HashId /\ Hash[live[p]] # NoRow /\ live[p] # Special
      BY <2>2, HashAssumption, SealAssumption
    <3>2. objects[stamp][Hash[live[p]]] \in Bytes
      BY <1>1, <1>2, <2>1, <2>2, <3>1 DEF TypeOK
    <3>3. objects[stamp][Hash[live[p]]] = live[p]
      BY <1>2, <2>2, <3>1, <3>2 DEF LeftAlone, HashInjective
    <3> QED
      BY <1>4, <2>1, <2>2, <3>1, <3>3 DEF Promise!Snapshot
  <2>3. CASE live[p] \notin Bytes
    <3>1. live[p] \in {NoFile, Special}
      BY <2>3 DEF TypeOK, Entry
    <3> QED
      BY <1>4, <2>1, <2>3, <3>1 DEF Promise!Snapshot
  <2> QED
    BY <2>2, <2>3
<1> QED
  BY <1>3, <1>4

LEMMA FinishPublishes ==
  ASSUME LeftAlone, TypeOK, CoverInv, BlobInv, AloneInv, SealFinish
  PROVE  IF errors THEN Image' = Image ELSE Promise!Publish(stamp)
<1>1. /\ pc = "walk" /\ WalkOver /\ stamp \in Stamp /\ status[stamp] = "open"
      /\ manifest' = [manifest EXCEPT ![stamp] = buffer]
      /\ status' = [status EXCEPT ![stamp] = IF errors THEN "FAILED" ELSE "SEALED"]
      /\ UNCHANGED <<live, objects, stamp>>
  BY DEF SealFinish, TypeOK, CoverInv, RowsInv, Running
<1>2. \A v \in Stamp : v # stamp => Image'[v] = Image[v]
  BY <1>1 DEF Image, Recovered, TypeOK
<1>3. Image[stamp] = NoImage
  BY <1>1 DEF Image
<1>4. CASE errors
  <2>1. Image'[stamp] = NoImage
    BY <1>1, <1>4 DEF Image, TypeOK
  <2>2. Image' = Image
    BY <1>2, <1>3, <2>1 DEF Image
  <2> QED
    BY <1>4, <2>2
<1>5. CASE ~errors
  <2>1. Image'[stamp] = [p \in Path |-> Recovered(stamp, p)']
    BY <1>1, <1>5 DEF Image, TypeOK
  <2>2. \A p \in Path : Recovered(stamp, p)' = Promise!Snapshot(live)[p]
    BY <1>1, <1>5, FinishedBlobs DEF Recovered, TypeOK
  <2>3. Image'[stamp] = Promise!Snapshot(live)
    BY <2>1, <2>2 DEF Promise!Snapshot
  <2>4. Image' = [Image EXCEPT ![stamp] = Promise!Snapshot(live)]
    BY <1>1, <1>2, <2>3 DEF Image
  <2> QED
    BY <1>1, <1>3, <1>5, <2>4 DEF Promise!Publish
<1> QED
  BY <1>4, <1>5

LEMMA PromiseStep ==
  ASSUME LeftAlone, TypeOK, CoverInv, BlobInv, AloneInv, [Next]_vars
  PROVE  [Promise!Next]_<<live, Image>>
<1>1. CASE SealFinish
  <2>1. live' = live /\ (~errors => stamp \in Stamp)
    BY <1>1 DEF SealFinish, TypeOK
  <2> QED
    BY <1>1, <2>1, FinishPublishes DEF Promise!Next
<1>2. CASE ~SealFinish
  <2>1. Image' = Image
    BY <1>2, ImageKept
  <2> QED
    BY <2>1, LiveKept DEF Promise!Next, Promise!Edit
<1> QED
  BY <1>1, <1>2

(* With nobody editing while a seal walks, no two seals in one second, no    *)
(* flush lost and no two contents with one digest, a seal is an instant: its *)
(* vault is the tree as it stood when SEALED was reported, and restores to   *)
(* just that for ever after, whatever fails and whoever is killed.           *)
THEOREM SealKeepsPromise ==
  ASSUME LeftAlone
  PROVE  Spec => SealIsSnapshot
<1> DEFINE Inv == TypeOK /\ CoverInv /\ BlobInv /\ AloneInv
<1>1. Init => Inv
  BY TypeInit, CoverInit, BlobInit, AloneInit
<1>2. Inv /\ [Next]_vars => Inv'
  <2> SUFFICES ASSUME TypeOK, CoverInv, BlobInv, AloneInv, [Next]_vars PROVE Inv'
    OBVIOUS
  <2>1. TypeOK' /\ CoverInv' /\ AloneInv'
    BY TypeStep, CursorStep, RowsStep, CoversStep, AloneStep DEF CoverInv
  <2>2. FreshVaults' /\ RowsHaveBlobs' /\ BlobsMatch' /\ SealedRestores'
    BY BlobParts, FreshStep, RowsHaveBlobsStep, BlobsMatchStep, RestoresStep
  <2>3. BlobInv'
    BY <2>2 DEF BlobInv, FreshVaults, RowsHaveBlobs, BlobsMatch, Listed
  <2> QED
    BY <2>1, <2>3
<1>3. Init => Promise!Init
  BY PromiseInit
<1>4. Inv /\ [Next]_vars => [Promise!Next]_<<live, Image>>
  BY PromiseStep
<1> QED
  BY <1>1, <1>2, <1>3, <1>4, PTL DEF Spec, SealIsSnapshot, Promise!Spec

=============================================================================
