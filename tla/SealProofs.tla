------------------------------ MODULE SealProofs ------------------------------
(***************************************************************************)
(* Seal is correct for every set of paths, contents and digests, every     *)
(* number of seconds and every choice of which faults happen.              *)
(***************************************************************************)
EXTENDS Seal, TLAPS

-----------------------------------------------------------------------------
(* Type correctness. *)

LEMMA EmptyManifestType == EmptyManifest \in Manifest
  BY DEF EmptyManifest, Manifest

(* One more row, or a broken line, leaves a manifest a manifest. *)
LEMMA ManifestEdits ==
  ASSUME NEW m \in Manifest, NEW p \in Path, NEW h \in HashId
  PROVE  /\ [m EXCEPT !.bad = TRUE] \in Manifest
         /\ [m EXCEPT !.rows[p] = h] \in Manifest
         /\ [m EXCEPT !.rows[p] = h].rows = [m.rows EXCEPT ![p] = h]
         /\ [m EXCEPT !.rows[p] = h].bad = m.bad
  BY DEF Manifest

LEMMA TypeInit == Init => TypeOK
<1> SUFFICES ASSUME Init PROVE TypeOK
  OBVIOUS
<1>1. now \in 1 .. MaxStamp + 1
  BY SealAssumption DEF Init
<1>2. live \in [Path -> Entry] /\ origin \in [Stamp -> [Path -> Entry]]
  BY DEF Init, Entry, Bytes
<1> QED
  BY <1>1, <1>2, EmptyManifestType DEF Init, TypeOK

LEMMA TypeStep == TypeOK /\ [Next]_vars => TypeOK'
<1> SUFFICES ASSUME TypeOK, [Next]_vars PROVE TypeOK'
  OBVIOUS
<1> USE SealAssumption, PathAssumption, BytesAssumption, HashAssumption,
        EmptyManifestType
<1>1. CASE UNCHANGED vars
  BY <1>1 DEF vars, disk, local, history, TypeOK
<1>2. CASE Tick
  BY <1>2 DEF Tick, TypeOK, disk, local, history
<1>3. ASSUME NEW p \in Path, NEW e \in Content \union {NoFile}, Edit(p, e)
      PROVE  TypeOK'
  BY <1>3 DEF Edit, TypeOK, disk, Entry, Bytes
<1>4. CASE SealStart
  BY <1>4 DEF SealStart, TypeOK
<1>5. ASSUME NEW S \in SUBSET Path, CountError(S), pc # "idle"
      PROVE  TypeOK'
  BY <1>5 DEF CountError, TypeOK, disk, history
<1>6. ASSUME NEW p \in Path, SkipSpecial(p)
      PROVE  TypeOK'
  BY <1>6 DEF SkipSpecial, TypeOK, disk, history
<1>7. ASSUME NEW p \in Path, EnterFile(p)
      PROVE  TypeOK'
  BY <1>7 DEF EnterFile, TypeOK, disk, history
<1>8. CASE HashFile
  BY <1>8 DEF HashFile, TypeOK, disk, history
<1>9. CASE ReuseObject
  BY <1>9 DEF ReuseObject, TypeOK, disk, history
<1>10. CASE CopyOpen
  BY <1>10 DEF CopyOpen, TypeOK, history, Bytes
<1>11. CASE CopyDone
  BY <1>11 DEF CopyDone, TypeOK, history
<1>12. CASE WriteRow
  <2> DEFINE full == [buffer EXCEPT !.rows[cur] = curHash]
  <2>1. /\ pc = "row" /\ stamp \in Stamp
        /\ cur \in Path /\ curHash \in HashId /\ buffer \in Manifest
    BY <1>12 DEF WriteRow, TypeOK
  <2>2. full \in Manifest /\ \A m \in Flushed(full) : m \in Manifest
    <3>1. full \in Manifest /\ [buffer EXCEPT !.bad = TRUE] \in Manifest
      BY <2>1, ManifestEdits
    <3>2. [full EXCEPT !.rows[cur] = CutHash] \in Manifest
      <4> HIDE DEF full
      <4> QED
        BY <2>1, <3>1, ManifestEdits
    <3> HIDE DEF full
    <3> QED
      BY <2>1, <3>1, <3>2 DEF Flushed
  <2>3. /\ buffer' \in Manifest
        /\ \/ manifest' = manifest
           \/ \E m \in Manifest : manifest' = [manifest EXCEPT ![stamp] = m]
    <3>1. \/ buffer' = full /\ manifest' = manifest
          \/ /\ buffer' = full
             /\ \E m \in Flushed(full) : manifest' = [manifest EXCEPT ![stamp] = m]
          \/ /\ buffer' \in AfterFailure(full)
             /\ manifest' = [manifest EXCEPT ![stamp] = buffer']
      BY <1>12 DEF WriteRow
    <3> HIDE DEF full
    <3> QED
      BY <2>2, <3>1 DEF AfterFailure
  <2>4. /\ manifest'[stamp] \in Manifest
        /\ manifest' \in [Stamp -> Manifest \union {NoManifest}]
    BY <2>1, <2>3 DEF TypeOK
  <2> QED
    BY <1>12, <2>3, <2>4 DEF WriteRow, TypeOK, history
<1>13. CASE SealFinish
  BY <1>13 DEF SealFinish, TypeOK, history
<1>14. CASE FcloseFails
  <2>1. /\ stamp \in Stamp
        /\ {manifest[stamp], buffer, [buffer EXCEPT !.bad = TRUE]}
             \subseteq Manifest
    <3>1. pc # "idle" /\ buffer \in Manifest
      BY <1>14 DEF FcloseFails, TypeOK
    <3>2. [buffer EXCEPT !.bad = TRUE] \in Manifest
      BY <3>1 DEF Manifest
    <3> QED
      BY <3>1, <3>2 DEF TypeOK
  <2>2. manifest' \in [Stamp -> Manifest \union {NoManifest}]
    <3>1. PICK m \in {manifest[stamp], buffer, [buffer EXCEPT !.bad = TRUE]} :
            manifest' = [manifest EXCEPT ![stamp] = m]
      BY <1>14 DEF FcloseFails
    <3>2. m \in Manifest
      BY <2>1
    <3> QED
      BY <2>1, <3>1, <3>2 DEF TypeOK
  <2>3. /\ status' \in [Stamp -> {"none", "open", "SEALED", "FAILED"}]
        /\ pc' = "idle" /\ visited' = {} /\ errors' = FALSE
        /\ buffer' = EmptyManifest
    BY <1>14 DEF FcloseFails, TypeOK
  <2> QED
    BY <1>14, <2>2, <2>3 DEF FcloseFails, TypeOK, history
<1>15. CASE Crash
  BY <1>15 DEF Crash, TypeOK, disk, history
<1>16. ASSUME HashFails \/ ObjectPathFails \/ CopyOpenFails \/ CopyFails
       PROVE  TypeOK'
  <2>1. cur \in Path /\ CountError({cur}) /\ pc # "idle"
    BY <1>16 DEF HashFails, ObjectPathFails, CopyOpenFails, CopyFails, TypeOK
  <2> QED
    BY <1>5, <2>1
<1>17. ASSUME NEW p \in Path, LstatFails(p)
       PROVE  TypeOK'
  BY <1>5, <1>17 DEF LstatFails
<1>18. ASSUME NEW S \in SUBSET Path, OpendirFails(S)
       PROVE  TypeOK'
  BY <1>5, <1>18 DEF OpendirFails
<1>19. ASSUME NEW S \in SUBSET Path, ReaddirFails(S)
       PROVE  TypeOK'
  BY <1>19 DEF ReaddirFails, TypeOK, disk
<1> QED
  BY <1>1, <1>2, <1>3, <1>4, <1>6, <1>7, <1>8, <1>9, <1>10, <1>11, <1>12,
     <1>13, <1>14, <1>15, <1>16, <1>17, <1>18, <1>19 DEF Next, World, Sealer

(* Every variable keeps its type, whatever fails and whoever is killed. *)
THEOREM TypeCorrect == Spec => []TypeOK
<1> QED
  BY TypeInit, TypeStep, PTL DEF Spec

-----------------------------------------------------------------------------
(* SEALED vaults are only touched by the step that reports them. *)

SealedKept == \A v \in Stamp : status'[v] = "SEALED" =>
    /\ status[v] = "SEALED"
    /\ manifest'[v] = manifest[v]
    /\ objects'[v] = objects[v]
    /\ origin'[v] = origin[v]
    /\ touched'[v] = touched[v]
    /\ reopened'[v] = reopened[v]
    /\ lost'[v] = lost[v]

LEMMA CountErrorSteps ==
  ASSUME TypeOK,
         \/ \E p \in Path : LstatFails(p)
         \/ \E S \in SUBSET Path : OpendirFails(S)
         \/ HashFails \/ ObjectPathFails \/ CopyOpenFails \/ CopyFails
  PROVE  pc # "idle" /\ \E S \in SUBSET Path : CountError(S)
<1>1. CASE \E p \in Path : LstatFails(p)
  BY <1>1 DEF LstatFails
<1>2. CASE \E S \in SUBSET Path : OpendirFails(S)
  BY <1>2 DEF OpendirFails
<1>3. CASE HashFails \/ ObjectPathFails \/ CopyOpenFails \/ CopyFails
  <2>1. cur \in Path /\ CountError({cur}) /\ pc # "idle"
    BY <1>3 DEF HashFails, ObjectPathFails, CopyOpenFails, CopyFails, TypeOK
  <2> QED
    BY <2>1
<1> QED
  BY <1>1, <1>2, <1>3

(* The steps of the specification, with the failures gathered into one. *)
Failure == pc # "idle" /\ \E S \in SUBSET Path : CountError(S)

LEMMA StepCases ==
  ASSUME TypeOK, [Next]_vars
  PROVE  \/ UNCHANGED vars \/ Tick \/ SealStart \/ Failure
         \/ \E p \in Path, e \in Content \union {NoFile} : Edit(p, e)
         \/ \E p \in Path : SkipSpecial(p)
         \/ \E p \in Path : EnterFile(p)
         \/ \E S \in SUBSET Path : ReaddirFails(S)
         \/ HashFile \/ ReuseObject \/ CopyOpen \/ CopyDone \/ WriteRow
         \/ SealFinish \/ FcloseFails \/ Crash
  BY CountErrorSteps DEF Next, World, Sealer, Failure

LEMMA KeepsSealed ==
  ASSUME TypeOK, RowsInv, [Next]_vars, ~SealFinish
  PROVE  SealedKept
<1> USE DEF SealedKept, RowsInv, Running, TypeOK
<1>1. CASE UNCHANGED vars \/ Tick \/ Failure \/ Crash
  BY <1>1 DEF vars, Tick, Failure, CountError, Crash, disk, history
<1>2. CASE \E p \in Path, e \in Content \union {NoFile} : Edit(p, e)
  BY <1>2 DEF Edit, disk
<1>3. CASE SealStart
  BY <1>3 DEF SealStart
<1>4. CASE \/ \E p \in Path : SkipSpecial(p)
           \/ \E p \in Path : EnterFile(p)
           \/ HashFile \/ ReuseObject
  BY <1>4 DEF SkipSpecial, EnterFile, HashFile, ReuseObject, disk, history
<1>5. CASE CopyOpen \/ CopyDone
  BY <1>5 DEF CopyOpen, CopyDone, history
<1>6. CASE WriteRow
  <2>1. \/ manifest' = manifest
        \/ \E m : manifest' = [manifest EXCEPT ![stamp] = m]
    BY <1>6 DEF WriteRow
  <2>2. \/ lost' = lost
        \/ lost' = [lost EXCEPT ![stamp] = TRUE]
    BY <1>6 DEF WriteRow
  <2>3. pc # "idle" /\ UNCHANGED <<objects, status, origin, touched, reopened>>
    BY <1>6 DEF WriteRow
  <2> QED
    BY <2>1, <2>2, <2>3
<1>7. CASE FcloseFails
  <2>1. \E m : manifest' = [manifest EXCEPT ![stamp] = m]
    BY <1>7 DEF FcloseFails
  <2>2. /\ pc # "idle" /\ UNCHANGED <<objects, history>>
        /\ status' = [status EXCEPT ![stamp] = "FAILED"]
    BY <1>7 DEF FcloseFails
  <2> QED
    BY <2>1, <2>2 DEF history
<1>8. CASE \E S \in SUBSET Path : ReaddirFails(S)
  <2>1. /\ pc # "idle" /\ lost' = [lost EXCEPT ![stamp] = TRUE]
        /\ UNCHANGED <<disk, origin, touched, reopened>>
    BY <1>8 DEF ReaddirFails
  <2> QED
    BY <2>1 DEF disk
<1> QED
  BY StepCases, <1>1, <1>2, <1>3, <1>4, <1>5, <1>6, <1>7, <1>8

-----------------------------------------------------------------------------
(* A SEALED manifest covers every quiet file. *)

LEMMA CoverInit == Init => CoverInv
  BY DEF Init, CoverInv, CursorInv, RowsInv, Running, SealedCovers

(* WriteRow while nothing failed unseen: the buffer gains the one row. *)
LEMMA WriteRowAdds ==
  ASSUME TypeOK, WriteRow, ~lost'[stamp]
  PROVE  /\ ~lost[stamp]
         /\ buffer'.rows = [buffer.rows EXCEPT ![cur] = curHash]
         /\ buffer'.bad = buffer.bad
         /\ cur \in Path /\ curHash \in HashId /\ stamp \in Stamp
<1>1. cur \in Path /\ curHash \in HashId /\ stamp \in Stamp /\ buffer \in Manifest
  BY DEF WriteRow, TypeOK
<1>2. lost' # [lost EXCEPT ![stamp] = TRUE]
  BY <1>1 DEF TypeOK
<1>3. buffer' = [buffer EXCEPT !.rows[cur] = curHash] /\ lost' = lost
  BY <1>2 DEF WriteRow
<1> QED
  BY <1>1, <1>3, ManifestEdits

LEMMA CursorStep ==
  ASSUME TypeOK, CoverInv, [Next]_vars
  PROVE  CursorInv'
<1> USE DEF CoverInv, CursorInv
<1>1. CASE UNCHANGED vars \/ Tick
  BY <1>1 DEF vars, Tick, local, disk, history
<1>2. ASSUME NEW p \in Path, NEW e \in Content \union {NoFile}, Edit(p, e)
      PROVE  CursorInv'
  <2>1. CASE pc = "idle"
    BY <1>2, <2>1 DEF Edit
  <2>2. CASE pc # "idle"
    <3>1. stamp \in Stamp /\ touched'[stamp] = touched[stamp] \union {p}
      BY <1>2, <2>2 DEF Edit, TypeOK
    <3>2. CASE cur = p
      BY <1>2, <2>2, <3>1, <3>2 DEF Edit
    <3>3. CASE cur # p
      <4>1. reads' = reads /\ (cur \in Path => live'[cur] = live[cur])
        BY <1>2, <3>3 DEF Edit, TypeOK
      <4>2. pc \notin {"idle", "walk"} => cur \in Path
        BY DEF TypeOK
      <4> QED
        BY <1>2, <2>2, <3>1, <3>3, <4>1, <4>2 DEF Edit, TypeOK
    <3> QED
      BY <3>2, <3>3
  <2> QED
    BY <2>1, <2>2
<1>3. CASE SealStart \/ WriteRow
  BY <1>3 DEF SealStart, WriteRow, TypeOK, history
<1>4. CASE Failure
  BY <1>4 DEF Failure, CountError
<1>5. ASSUME NEW p \in Path, SkipSpecial(p)
      PROVE  CursorInv'
  BY <1>5 DEF SkipSpecial, history
<1>6. ASSUME NEW p \in Path, EnterFile(p)
      PROVE  CursorInv'
  BY <1>6 DEF EnterFile, history
<1>7. CASE HashFile
  BY <1>7 DEF HashFile, history
<1>8. CASE ReuseObject \/ CopyOpen \/ CopyDone
  BY <1>8 DEF ReuseObject, CopyOpen, CopyDone, history
<1>9. CASE SealFinish \/ FcloseFails \/ Crash
  BY <1>9 DEF SealFinish, FcloseFails, Crash
<1>10. ASSUME NEW S \in SUBSET Path, ReaddirFails(S)
       PROVE  CursorInv'
  BY <1>10 DEF ReaddirFails
<1> QED
  BY StepCases, <1>1, <1>2, <1>3, <1>4, <1>5, <1>6, <1>7, <1>8, <1>9, <1>10

LEMMA RowsStep ==
  ASSUME TypeOK, CoverInv, [Next]_vars
  PROVE  RowsInv'
<1> USE DEF CoverInv, RowsInv, Running
<1>1. CASE UNCHANGED vars \/ Tick
  BY <1>1 DEF vars, Tick, local, disk, history, DueRow, Quiet
<1>2. ASSUME NEW p \in Path, NEW e \in Content \union {NoFile}, Edit(p, e)
      PROVE  RowsInv'
  <2>1. CASE pc = "idle"
    BY <1>2, <2>1 DEF Edit
  <2>2. CASE pc # "idle"
    <3>1. stamp \in Stamp /\ touched'[stamp] = touched[stamp] \union {p}
      BY <1>2, <2>2 DEF Edit, TypeOK
    <3>2. \A q \in Path : q # p => live'[q] = live[q]
      BY <1>2 DEF Edit, TypeOK
    <3> QED
      BY <1>2, <2>2, <3>1, <3>2 DEF Edit, disk, DueRow, Quiet
  <2> QED
    BY <2>1, <2>2
<1>3. CASE SealStart
  <2>1. now \in Stamp /\ stamp' = now /\ status'[now] = "open"
        /\ origin'[now] = live /\ live' = live
        /\ buffer' = EmptyManifest /\ visited' = {}
    BY <1>3 DEF SealStart, TypeOK
  <2> QED
    BY <2>1 DEF EmptyManifest, Quiet
<1>4. CASE Failure
  BY <1>4, SealAssumption DEF Failure, CountError, disk, history
<1>5. ASSUME NEW p \in Path, SkipSpecial(p)
      PROVE  RowsInv'
  <2>1. pc = "walk" /\ p \notin visited /\ live[p] = Special /\ stamp \in Stamp
    BY <1>5 DEF SkipSpecial, Unvisited, TypeOK
  <2>2. ~lost[stamp] /\ p \in Quiet(stamp) => buffer.rows[p] = DueRow(stamp, p)
    BY <2>1, SealAssumption DEF DueRow, Quiet
  <2> QED
    BY <1>5, <2>1, <2>2 DEF SkipSpecial, disk, history, DueRow, Quiet
<1>6. ASSUME NEW p \in Path, EnterFile(p)
      PROVE  RowsInv'
  BY <1>6, SealAssumption
     DEF EnterFile, Unvisited, disk, history, DueRow, Quiet, CursorInv
<1>7. CASE HashFile \/ ReuseObject
  BY <1>7 DEF HashFile, ReuseObject, disk, history, DueRow, Quiet
<1>8. CASE CopyOpen \/ CopyDone
  BY <1>8 DEF CopyOpen, CopyDone, history, DueRow, Quiet
<1>9. CASE WriteRow
  <2>1. /\ pc = "row" /\ pc' = "walk" /\ cur' = NoPath
        /\ UNCHANGED <<live, status, stamp, visited, errors, origin, touched>>
    BY <1>9 DEF WriteRow
  <2>2. CASE lost'[stamp]
    BY <2>1, <2>2
  <2> SUFFICES ASSUME ~lost'[stamp] PROVE RowsInv'
    BY <2>2
  <2>6. /\ buffer'.rows = [buffer.rows EXCEPT ![cur] = curHash]
        /\ buffer'.bad = buffer.bad /\ cur \in Path /\ ~lost[stamp]
    BY <1>9, WriteRowAdds
  <2>3. buffer.rows \in [Path -> HashId \union {NoRow}]
    BY DEF TypeOK, Manifest
  <2>4. cur \in visited
    BY <2>1 DEF CursorInv
  <2>5. cur \in Quiet(stamp) => curHash = DueRow(stamp, cur)
    BY <2>1, <2>6 DEF CursorInv, Quiet, DueRow
  <2> QED
    BY <2>1, <2>6, <2>3, <2>4, <2>5, SealAssumption DEF DueRow, Quiet
<1>10. CASE SealFinish \/ FcloseFails \/ Crash
  BY <1>10 DEF SealFinish, FcloseFails, Crash
<1>11. CASE \E S \in SUBSET Path : ReaddirFails(S)
  <2>1. /\ pc # "idle" /\ lost' = [lost EXCEPT ![stamp] = TRUE] /\ stamp \in Stamp
        /\ UNCHANGED <<live, status, stamp, origin, touched>>
    BY <1>11 DEF ReaddirFails, TypeOK, disk
  <2> QED
    BY <2>1 DEF TypeOK
<1> QED
  BY StepCases, <1>1, <1>2, <1>3, <1>4, <1>5, <1>6, <1>7, <1>8, <1>9, <1>10, <1>11

LEMMA CoversStep ==
  ASSUME TypeOK, CoverInv, [Next]_vars
  PROVE  SealedCovers'
<1> USE DEF CoverInv
<1>1. CASE ~SealFinish
  BY <1>1, KeepsSealed DEF SealedKept, SealedCovers, Quiet
<1>2. CASE SealFinish
  <2>1. /\ pc = "walk" /\ WalkOver /\ stamp \in Stamp
        /\ manifest' = [manifest EXCEPT ![stamp] = buffer]
        /\ status' = [status EXCEPT ![stamp] = IF errors THEN "FAILED" ELSE "SEALED"]
        /\ origin' = origin /\ touched' = touched /\ lost' = lost
    BY <1>2 DEF SealFinish, TypeOK, history
  <2> SUFFICES ASSUME NEW v \in Stamp, status'[v] = "SEALED", ~lost[v]
               PROVE  /\ ~manifest'[v].bad
                      /\ \A p \in Quiet(v) : manifest'[v].rows[p] = DueRow(v, p)
    BY <2>1 DEF SealedCovers, Quiet, DueRow
  <2>2. CASE v # stamp
    BY <2>1, <2>2 DEF SealedCovers, TypeOK, DueRow
  <2>3. CASE v = stamp
    <3>1. ~errors /\ ~lost[stamp] /\ manifest'[v] = buffer
      BY <2>1, <2>3 DEF TypeOK
    <3>2. ASSUME NEW p \in Quiet(stamp) PROVE buffer.rows[p] = DueRow(stamp, p)
      <4>1. p \in Path /\ p \notin Skipped /\ p \notin touched[stamp]
        BY DEF Quiet
      <4>2. CASE p \in visited
        BY <2>1, <3>1, <4>1, <4>2, SealAssumption
           DEF RowsInv, Running, CursorInv
      <4>3. CASE p \notin visited
        BY <2>1, <3>1, <4>1, <4>3, BytesAssumption
           DEF RowsInv, Running, WalkOver, Unvisited, DueRow
      <4> QED
        BY <4>2, <4>3
    <3> QED
      BY <2>1, <2>3, <3>1, <3>2 DEF RowsInv, Running
  <2> QED
    BY <2>2, <2>3
<1> QED
  BY <1>1, <1>2

(* However the walk, the faults, the kills and the user interleave, and even *)
(* when two seals share a second, a SEALED manifest loads and says of every  *)
(* file left alone what that file held, unless a flush or a readdir has      *)
(* failed unnoticed.                                                         *)
THEOREM SealCovers == Spec => []SealedCovers
<1>1. Init => TypeOK /\ CoverInv
  BY TypeInit, CoverInit
<1>2. TypeOK /\ CoverInv /\ [Next]_vars => (TypeOK /\ CoverInv)'
  BY TypeStep, CursorStep, RowsStep, CoversStep DEF CoverInv
<1>3. CoverInv => SealedCovers
  BY DEF CoverInv
<1> QED
  BY <1>1, <1>2, <1>3, PTL DEF Spec

-----------------------------------------------------------------------------
(* A SEALED vault can be restored. *)

(* The three parts of BlobInv that speak of the running seal. *)
RowsHaveBlobs == Running /\ ~lost[stamp] =>
    /\ \A p \in Path : buffer.rows[p] # NoRow => objects[stamp][buffer.rows[p]] # NoFile
    /\ pc \in {"copy", "row"} => objects[stamp][curHash] # NoFile

BlobsMatch == Running /\ ~lost[stamp] /\ ~errors /\ ~reopened[stamp] =>
    \A h \in HashId : objects[stamp][h] \in Bytes =>
        Hash[objects[stamp][h]] = h \/ Excused(h)

FreshVaults == \A v \in Stamp : status[v] = "none" =>
    \A h \in HashId : objects[v][h] = NoFile

LEMMA BlobParts ==
  BlobInv <=> FreshVaults /\ RowsHaveBlobs /\ BlobsMatch /\ SealedRestores
  BY DEF BlobInv, FreshVaults, RowsHaveBlobs, BlobsMatch, Listed

LEMMA BlobInit == Init => BlobInv
  BY DEF Init, BlobInv, SealedRestores, Running

LEMMA FreshStep ==
  ASSUME TypeOK, CoverInv, FreshVaults, [Next]_vars
  PROVE  FreshVaults'
<1> USE DEF FreshVaults, CoverInv, RowsInv, Running, TypeOK
<1>1. CASE UNCHANGED <<status, objects>>
  BY <1>1
<1>2. CASE SealStart
  BY <1>2 DEF SealStart
<1>3. CASE CopyOpen \/ CopyDone
  BY <1>3 DEF CopyOpen, CopyDone
<1>4. CASE SealFinish \/ FcloseFails
  BY <1>4 DEF SealFinish, FcloseFails
<1>5. ASSUME NEW p \in Path, NEW e \in Content \union {NoFile}, Edit(p, e)
      PROVE  UNCHANGED <<status, objects>>
  BY <1>5 DEF Edit, disk
<1>6. ASSUME NEW p \in Path, SkipSpecial(p) \/ EnterFile(p)
      PROVE  UNCHANGED <<status, objects>>
  BY <1>6 DEF SkipSpecial, EnterFile, disk
<1>7. CASE \/ UNCHANGED vars \/ Tick \/ Failure
           \/ HashFile \/ ReuseObject \/ WriteRow \/ Crash
           \/ \E S \in SUBSET Path : ReaddirFails(S)
  <2> UNCHANGED <<status, objects>>
    BY <1>7 DEF vars, Tick, Failure, CountError, HashFile, ReuseObject,
                WriteRow, Crash, ReaddirFails, disk
  <2> QED
    BY <1>1
<1> QED
  BY StepCases, <1>1, <1>2, <1>3, <1>4, <1>5, <1>6, <1>7

LEMMA RowsHaveBlobsStep ==
  ASSUME TypeOK, CoverInv, RowsHaveBlobs, [Next]_vars
  PROVE  RowsHaveBlobs'
<1> USE DEF RowsHaveBlobs, Running
<1>1. CASE UNCHANGED vars \/ Tick
  BY <1>1 DEF vars, Tick, local, disk, history
<1>2. ASSUME NEW p \in Path, NEW e \in Content \union {NoFile}, Edit(p, e)
      PROVE  RowsHaveBlobs'
  BY <1>2 DEF Edit, disk
<1>3. CASE SealStart
  BY <1>3 DEF SealStart, EmptyManifest
<1>4. CASE Failure
  BY <1>4 DEF Failure, CountError, disk, history
<1>5. ASSUME NEW p \in Path, SkipSpecial(p) \/ EnterFile(p)
      PROVE  RowsHaveBlobs'
  BY <1>5 DEF SkipSpecial, EnterFile, disk, history
<1>6. CASE HashFile \/ ReuseObject
  BY <1>6 DEF HashFile, ReuseObject, disk, history
<1>7. CASE CopyOpen \/ CopyDone
  <2>1. \E b \in Bytes : objects' = [objects EXCEPT ![stamp][curHash] = b]
    BY <1>7 DEF CopyOpen, CopyDone, TypeOK, Bytes
  <2>2. /\ pc \in {"object", "copy"} /\ stamp' = stamp /\ buffer' = buffer
        /\ curHash' = curHash /\ stamp \in Stamp /\ curHash \in HashId
        /\ buffer.rows \in [Path -> HashId \union {NoRow}] /\ lost' = lost
    BY <1>7 DEF CopyOpen, CopyDone, TypeOK, Manifest, history
  <2> QED
    BY <2>1, <2>2, BytesAssumption DEF TypeOK
<1>8. CASE WriteRow
  <2>1. /\ pc = "row" /\ pc' = "walk" /\ UNCHANGED <<objects, stamp>>
    BY <1>8 DEF WriteRow
  <2> SUFFICES ASSUME ~lost'[stamp] PROVE RowsHaveBlobs'
    BY <2>1
  <2>2. /\ buffer'.rows = [buffer.rows EXCEPT ![cur] = curHash]
        /\ cur \in Path /\ ~lost[stamp]
    BY <1>8, WriteRowAdds
  <2>3. buffer.rows \in [Path -> HashId \union {NoRow}]
    BY DEF TypeOK, Manifest
  <2> QED
    BY <2>1, <2>2, <2>3
<1>9. CASE SealFinish \/ FcloseFails \/ Crash
  BY <1>9 DEF SealFinish, FcloseFails, Crash
<1>10. CASE \E S \in SUBSET Path : ReaddirFails(S)
  BY <1>10 DEF ReaddirFails, disk, TypeOK
<1> QED
  BY StepCases, <1>1, <1>2, <1>3, <1>4, <1>5, <1>6, <1>7, <1>8, <1>9, <1>10

LEMMA BlobsMatchStep ==
  ASSUME TypeOK, CoverInv, FreshVaults, BlobsMatch, [Next]_vars
  PROVE  BlobsMatch'
<1> USE DEF BlobsMatch, Running
<1>1. CASE UNCHANGED vars \/ Tick
  BY <1>1 DEF vars, Tick, local, disk, history, Excused
<1>2. ASSUME NEW p \in Path, NEW e \in Content \union {NoFile}, Edit(p, e)
      PROVE  BlobsMatch'
  <2>1. CASE pc = "idle"
    BY <1>2, <2>1 DEF Edit
  <2>2. CASE pc # "idle"
    <3>1. touched[stamp] \subseteq touched'[stamp]
      BY <1>2, <2>2 DEF Edit, TypeOK
    <3> QED
      BY <1>2, <3>1 DEF Edit, disk, Excused
  <2> QED
    BY <2>1, <2>2
<1>3. CASE SealStart
  <2>1. now \in Stamp /\ stamp' = now /\ objects' = objects
        /\ reopened'[now] = (status[now] # "none")
    BY <1>3 DEF SealStart, TypeOK
  <2> QED
    BY <2>1, BytesAssumption DEF FreshVaults
<1>4. CASE Failure
  BY <1>4 DEF Failure, CountError
<1>5. ASSUME NEW p \in Path, SkipSpecial(p) \/ EnterFile(p)
      PROVE  BlobsMatch'
  BY <1>5 DEF SkipSpecial, EnterFile, disk, history, Excused
<1>6. CASE HashFile \/ ReuseObject
  BY <1>6 DEF HashFile, ReuseObject, disk, history, Excused
<1>7. CASE CopyOpen
  <2>1. /\ objects' = [objects EXCEPT ![stamp][curHash] = Torn]
        /\ pc = "object" /\ pc' = "copy" /\ stamp \in Stamp /\ curHash \in HashId
        /\ UNCHANGED <<stamp, cur, curHash, errors, buffer, origin, touched, reopened, lost>>
    BY <1>7 DEF CopyOpen, TypeOK, history
  <2>2. \A h \in HashId : h # curHash => objects'[stamp][h] = objects[stamp][h]
    BY <2>1 DEF TypeOK
  <2> QED
    BY <2>1, <2>2 DEF Excused
<1>8. CASE CopyDone
  <2>1. PICK b \in reads : objects' = [objects EXCEPT ![stamp][curHash] = b]
    BY <1>8 DEF CopyDone
  <2>2. /\ pc = "copy" /\ pc' = "row" /\ stamp \in Stamp /\ curHash \in HashId
        /\ UNCHANGED <<stamp, cur, curHash, errors, buffer, origin, touched, reopened, lost>>
    BY <1>8 DEF CopyDone, TypeOK, history
  <2>3. \A h \in HashId : h # curHash => objects'[stamp][h] = objects[stamp][h]
    BY <2>1, <2>2 DEF TypeOK
  <2>4. objects'[stamp][curHash] = b
    BY <2>1, <2>2 DEF TypeOK
  <2>5. cur \notin touched[stamp] => Hash[b] = curHash
    BY <2>1, <2>2 DEF CoverInv, CursorInv
  <2> QED
    BY <2>2, <2>3, <2>4, <2>5 DEF Excused
<1>9. CASE WriteRow
  <2>1. /\ pc = "row" /\ pc' = "walk"
        /\ UNCHANGED <<objects, stamp, errors, origin, touched, reopened>>
    BY <1>9 DEF WriteRow
  <2> SUFFICES ASSUME ~lost'[stamp] PROVE BlobsMatch'
    BY <2>1
  <2>2. /\ buffer'.rows = [buffer.rows EXCEPT ![cur] = curHash]
        /\ cur \in Path /\ ~lost[stamp]
    BY <1>9, WriteRowAdds
  <2>3. buffer.rows \in [Path -> HashId \union {NoRow}] /\ buffer.rows[cur] = NoRow
    BY <2>1, <2>2 DEF TypeOK, Manifest, CoverInv, RowsInv
  <2>4. \A h \in HashId : Excused(h) => Excused(h)'
    <3>1. touched[stamp] \subseteq Path
      BY <2>1 DEF TypeOK
    <3>2. NoRow \notin HashId
      BY HashAssumption
    <3>3. ASSUME NEW h \in HashId, pc = "row", curHash = h, cur \in touched[stamp]
          PROVE  buffer'.rows[cur] = h
      BY <2>2, <2>3, <3>3
    <3>4. ASSUME NEW h \in HashId, NEW q \in touched[stamp], buffer.rows[q] = h
          PROVE  buffer'.rows[q] = h
      BY <2>2, <2>3, <3>1, <3>2, <3>4
    <3> QED
      BY <2>1, <3>3, <3>4 DEF Excused
  <2> QED
    BY <2>1, <2>2, <2>4
<1>10. CASE SealFinish \/ FcloseFails \/ Crash
  BY <1>10 DEF SealFinish, FcloseFails, Crash
<1>11. CASE \E S \in SUBSET Path : ReaddirFails(S)
  BY <1>11 DEF ReaddirFails, disk, TypeOK
<1> QED
  BY StepCases, <1>1, <1>2, <1>3, <1>4, <1>5, <1>6, <1>7, <1>8, <1>9, <1>10, <1>11

LEMMA RestoresStep ==
  ASSUME TypeOK, CoverInv, BlobInv, [Next]_vars
  PROVE  SealedRestores'
<1> USE DEF BlobInv
<1>1. CASE ~SealFinish
  BY <1>1, KeepsSealed DEF CoverInv, SealedKept, SealedRestores, Listed
<1>2. CASE SealFinish
  <2>1. /\ pc = "walk" /\ stamp \in Stamp
        /\ UNCHANGED <<objects, touched, reopened, lost>>
        /\ manifest' = [manifest EXCEPT ![stamp] = buffer]
        /\ status' = [status EXCEPT ![stamp] = IF errors THEN "FAILED" ELSE "SEALED"]
    BY <1>2 DEF SealFinish, TypeOK, history
  <2> SUFFICES ASSUME NEW v \in Stamp, status'[v] = "SEALED", ~reopened[v], ~lost[v],
                      NEW p \in Path, manifest'[v].rows[p] # NoRow
               PROVE  /\ objects[v][manifest'[v].rows[p]] # NoFile
                      /\ \/ Hash[objects[v][manifest'[v].rows[p]]] = manifest'[v].rows[p]
                         \/ \E q \in touched[v] :
                              manifest'[v].rows[q] = manifest'[v].rows[p]
    BY <2>1 DEF SealedRestores, Listed
  <2>2. CASE v # stamp
    <3>1. status[v] = "SEALED" /\ manifest'[v] = manifest[v]
      BY <2>1, <2>2 DEF TypeOK
    <3> QED
      BY <3>1 DEF SealedRestores, Listed
  <2>3. CASE v = stamp
    <3>1. ~errors /\ manifest'[v] = buffer
      BY <2>1, <2>3 DEF TypeOK
    <3>2. /\ buffer.rows[p] \in HashId
          /\ objects[stamp][buffer.rows[p]] \in Bytes \union {NoFile}
      BY <2>1, <2>3, <3>1 DEF TypeOK, Manifest
    <3> QED
      BY <2>1, <2>3, <3>1, <3>2, BlobParts
         DEF RowsHaveBlobs, BlobsMatch, Running, Excused
  <2> QED
    BY <2>2, <2>3
<1> QED
  BY <1>1, <1>2

(* A vault that reports SEALED, in a second no earlier seal used, can be     *)
(* restored row by row: no blob is missing, and none holds other bytes than  *)
(* its name says, except the copies of files edited between the two times    *)
(* seal_file reads them - unless, again, a call has failed unnoticed.        *)
THEOREM SealRestores == Spec => []SealedRestores
<1> DEFINE Inv == TypeOK /\ CoverInv /\ BlobInv
<1>1. Init => Inv
  BY TypeInit, CoverInit, BlobInit
<1>2. Inv /\ [Next]_vars => Inv'
  <2> SUFFICES ASSUME TypeOK, CoverInv, BlobInv, [Next]_vars PROVE Inv'
    OBVIOUS
  <2>1. TypeOK' /\ CoverInv'
    BY TypeStep, CursorStep, RowsStep, CoversStep DEF CoverInv
  <2>2. FreshVaults' /\ RowsHaveBlobs' /\ BlobsMatch' /\ SealedRestores'
    BY BlobParts, FreshStep, RowsHaveBlobsStep, BlobsMatchStep, RestoresStep
  <2>3. BlobInv'
    BY <2>2 DEF BlobInv, FreshVaults, RowsHaveBlobs, BlobsMatch, Listed
  <2> QED
    BY <2>1, <2>3
<1>3. Inv => SealedRestores
  BY DEF BlobInv
<1> QED
  BY <1>1, <1>2, <1>3, PTL DEF Spec

-----------------------------------------------------------------------------
(* No row is invented. *)

HonestBuffer == Running /\ ~lost[stamp] =>
    \A p \in Quiet(stamp) : buffer.rows[p] \in HonestRows(stamp, p)

LEMMA HonestInit == Init => HonestInv
  BY DEF Init, HonestInv, Running, NoRowInvented

(* A broken line, or one more honest row, leaves a manifest honest. *)
LEMMA HonestEdits ==
  ASSUME NEW m \in Manifest, NEW v, NEW q \in Path, NEW h \in HashId,
         \A p \in Quiet(v) : m.rows[p] \in HonestRows(v, p),
         q \in Quiet(v) => h \in HonestRows(v, q)
  PROVE  /\ \A p \in Quiet(v) : [m EXCEPT !.bad = TRUE].rows[p] \in HonestRows(v, p)
         /\ \A p \in Quiet(v) : [m EXCEPT !.rows[q] = h].rows[p] \in HonestRows(v, p)
<1>1. [m EXCEPT !.bad = TRUE].rows = m.rows
  BY DEF Manifest
<1>2. [m EXCEPT !.rows[q] = h].rows = [m.rows EXCEPT ![q] = h]
  BY ManifestEdits
<1>3. \A p \in Quiet(v) : [m.rows EXCEPT ![q] = h][p] \in HonestRows(v, p)
  <2>1. m.rows \in [Path -> HashId \union {NoRow}]
    BY DEF Manifest
  <2>2. \A p \in Quiet(v) : p \in Path
    BY DEF Quiet
  <2> QED
    BY <2>1, <2>2
<1> QED
  BY <1>1, <1>2, <1>3

(* What a row written while nothing failed unseen leaves in the buffer and  *)
(* on disk.                                                                 *)
LEMMA HonestWrite ==
  ASSUME TypeOK, CoverInv, HonestInv, WriteRow, ~lost'[stamp]
  PROVE  /\ ~lost[stamp]
         /\ \A p \in Quiet(stamp) : buffer'.rows[p] \in HonestRows(stamp, p)
         /\ \A p \in Quiet(stamp) : manifest'[stamp].rows[p] \in HonestRows(stamp, p)
<1> DEFINE Honest(m) == \A p \in Quiet(stamp) : m.rows[p] \in HonestRows(stamp, p)
           full == [buffer EXCEPT !.rows[cur] = curHash]
<1>1. /\ pc = "row" /\ stamp \in Stamp
      /\ cur \in Path /\ curHash \in HashId /\ buffer \in Manifest
  BY DEF WriteRow, TypeOK
<1>2. ~lost[stamp] /\ lost' # [lost EXCEPT ![stamp] = TRUE]
  BY <1>1, WriteRowAdds DEF TypeOK
<1>3. Honest(buffer)
  BY <1>1, <1>2 DEF HonestInv, Running
<1>4. Honest(manifest[stamp])
  <2>1. status[stamp] # "none"
    BY <1>1 DEF CoverInv, RowsInv, Running
  <2> QED
    BY <1>1, <1>2, <2>1 DEF HonestInv, NoRowInvented
<1>5. cur \in Quiet(stamp) => curHash \in HonestRows(stamp, cur)
  BY <1>1 DEF CoverInv, CursorInv, RowsInv, Running, Quiet, HonestRows
<1>6. full \in Manifest /\ Honest(full) /\ Honest([buffer EXCEPT !.bad = TRUE])
  BY <1>1, <1>3, <1>5, ManifestEdits, HonestEdits
<1>7. Honest([full EXCEPT !.rows[cur] = CutHash])
  <2>1. CutHash \in HashId /\ (cur \in Quiet(stamp) => CutHash \in HonestRows(stamp, cur))
    BY <1>1, HashAssumption DEF CoverInv, CursorInv, RowsInv, Running, Quiet, HonestRows
  <2> HIDE DEF full
  <2> QED
    BY <1>1, <1>6, <2>1, HonestEdits
<1>8. /\ buffer' = full
      /\ \/ manifest' = manifest
         \/ \E m \in Flushed(full) : manifest' = [manifest EXCEPT ![stamp] = m]
  BY <1>2 DEF WriteRow
<1>9. \A m \in Flushed(full) : Honest(m)
  <2> HIDE DEF full, Honest
  <2> QED
    BY <1>3, <1>6, <1>7 DEF Flushed
<1>10. Honest(manifest'[stamp])
  <2>1. \A m : [manifest EXCEPT ![stamp] = m][stamp] = m
    BY <1>1 DEF TypeOK
  <2> HIDE DEF full, Honest
  <2> QED
    BY <1>4, <1>8, <1>9, <2>1
<1>11. Honest(buffer')
  <2> HIDE DEF full, Honest
  <2> QED
    BY <1>6, <1>8
<1> QED
  BY <1>2, <1>10, <1>11

LEMMA HonestBufferStep ==
  ASSUME TypeOK, CoverInv, HonestInv, [Next]_vars
  PROVE  HonestBuffer'
<1> USE DEF HonestBuffer, HonestInv, Running
<1>1. CASE UNCHANGED <<pc, buffer, stamp, origin, touched, lost>>
  BY <1>1 DEF Quiet, HonestRows
<1>2. CASE pc # "idle" /\ UNCHANGED <<buffer, stamp, origin, touched, lost>>
  BY <1>2 DEF Quiet, HonestRows
<1>3. ASSUME NEW p \in Path, NEW e \in Content \union {NoFile}, Edit(p, e)
      PROVE  HonestBuffer'
  <2>1. CASE pc = "idle"
    BY <1>3, <2>1 DEF Edit
  <2>2. CASE pc # "idle"
    <3>1. touched[stamp] \subseteq touched'[stamp]
      BY <1>3, <2>2 DEF Edit, TypeOK
    <3> QED
      BY <1>3, <2>2, <3>1 DEF Edit, disk, Quiet, HonestRows
  <2> QED
    BY <2>1, <2>2
<1>4. CASE SealStart
  BY <1>4 DEF SealStart, EmptyManifest, Quiet, HonestRows
<1>5. CASE Failure \/ \E p \in Path : SkipSpecial(p) \/ EnterFile(p)
  <2> pc # "idle" /\ UNCHANGED <<buffer, stamp, origin, touched, lost>>
    BY <1>5 DEF Failure, CountError, SkipSpecial, EnterFile, history
  <2> QED
    BY <1>2
<1>6. CASE HashFile \/ ReuseObject \/ CopyOpen \/ CopyDone
  <2> pc # "idle" /\ UNCHANGED <<buffer, stamp, origin, touched, lost>>
    BY <1>6 DEF HashFile, ReuseObject, CopyOpen, CopyDone, history
  <2> QED
    BY <1>2
<1>7. CASE WriteRow
  <2>1. UNCHANGED <<stamp, origin, touched>>
    BY <1>7 DEF WriteRow
  <2> QED
    BY <1>7, <2>1, HonestWrite DEF Quiet, HonestRows
<1>8. CASE UNCHANGED vars \/ Tick
  <2> UNCHANGED <<pc, buffer, stamp, origin, touched, lost>>
    BY <1>8 DEF vars, Tick, local, history
  <2> QED
    BY <1>1
<1>9. CASE SealFinish \/ FcloseFails \/ Crash
  BY <1>9 DEF SealFinish, FcloseFails, Crash
<1>10. CASE \E S \in SUBSET Path : ReaddirFails(S)
  BY <1>10 DEF ReaddirFails, TypeOK
<1> QED
  BY StepCases, <1>3, <1>4, <1>5, <1>6, <1>7, <1>8, <1>9, <1>10

LEMMA InventedStep ==
  ASSUME TypeOK, CoverInv, HonestInv, [Next]_vars
  PROVE  NoRowInvented'
<1> USE DEF HonestInv, NoRowInvented
<1>1. CASE UNCHANGED <<manifest, status, origin, touched, lost>>
  BY <1>1 DEF Quiet, HonestRows
<1>2. ASSUME NEW p \in Path, NEW e \in Content \union {NoFile}, Edit(p, e)
      PROVE  NoRowInvented'
  <2>1. /\ UNCHANGED <<manifest, status, origin, lost>>
        /\ \A v \in Stamp : touched[v] \subseteq touched'[v]
    BY <1>2 DEF Edit, disk, TypeOK
  <2> QED
    BY <2>1 DEF Quiet, HonestRows
<1>3. CASE SealStart
  <2>1. /\ now \in Stamp /\ manifest'[now] = EmptyManifest
        /\ \A v \in Stamp \ {now} :
             /\ manifest'[v] = manifest[v] /\ status'[v] = status[v]
             /\ origin'[v] = origin[v] /\ touched'[v] = touched[v]
             /\ lost'[v] = lost[v]
    BY <1>3 DEF SealStart, TypeOK
  <2> QED
    BY <2>1 DEF EmptyManifest, Quiet, HonestRows
<1>4. CASE WriteRow
  <2>1. /\ stamp \in Stamp /\ UNCHANGED <<status, origin, touched>>
        /\ \A v \in Stamp \ {stamp} : manifest'[v] = manifest[v] /\ lost'[v] = lost[v]
    BY <1>4 DEF WriteRow, TypeOK
  <2>2. ~lost'[stamp] => \A p \in Quiet(stamp) : manifest'[stamp].rows[p] \in HonestRows(stamp, p)
    BY <1>4, HonestWrite
  <2> QED
    BY <2>1, <2>2 DEF Quiet, HonestRows
<1>5. CASE SealFinish \/ FcloseFails
  <2>1. /\ pc = "walk" /\ stamp \in Stamp /\ UNCHANGED <<origin, touched, lost>>
        /\ buffer \in Manifest /\ status[stamp] = "open"
    BY <1>5 DEF SealFinish, FcloseFails, history, TypeOK, CoverInv, RowsInv, Running
  <2>2. PICK m \in {manifest[stamp], buffer, [buffer EXCEPT !.bad = TRUE]} :
          manifest' = [manifest EXCEPT ![stamp] = m]
    BY <1>5 DEF SealFinish, FcloseFails
  <2>3. \A v \in Stamp \ {stamp} : manifest'[v] = manifest[v] /\ status'[v] = status[v]
    BY <1>5 DEF SealFinish, FcloseFails, TypeOK
  <2>4. ~lost[stamp] => \A p \in Quiet(stamp) : m.rows[p] \in HonestRows(stamp, p)
    <3>1. [buffer EXCEPT !.bad = TRUE].rows = buffer.rows
      BY <2>1 DEF Manifest
    <3> QED
      BY <2>1, <2>2, <3>1 DEF Running
  <2>5. manifest'[stamp] = m
    BY <2>1, <2>2 DEF TypeOK
  <2> QED
    BY <2>1, <2>3, <2>4, <2>5 DEF Quiet, HonestRows
<1>6. CASE \E S \in SUBSET Path : ReaddirFails(S)
  <2>1. /\ stamp \in Stamp /\ UNCHANGED <<manifest, status, origin, touched>>
        /\ lost' = [lost EXCEPT ![stamp] = TRUE]
    BY <1>6 DEF ReaddirFails, disk, TypeOK
  <2> QED
    BY <2>1 DEF Quiet, HonestRows, TypeOK
<1>7. CASE \/ UNCHANGED vars \/ Tick \/ Failure \/ Crash
           \/ \E p \in Path : SkipSpecial(p) \/ EnterFile(p)
           \/ HashFile \/ ReuseObject \/ CopyOpen \/ CopyDone
  <2> UNCHANGED <<manifest, status, origin, touched, lost>>
    BY <1>7 DEF vars, Tick, Failure, CountError, Crash, SkipSpecial, EnterFile,
                HashFile, ReuseObject, CopyOpen, CopyDone, disk, history
  <2> QED
    BY <1>1
<1> QED
  BY StepCases, <1>2, <1>3, <1>4, <1>5, <1>6, <1>7

(* Wherever a kill or a failing close cuts a seal short, and in a vault that *)
(* seals of the same second left behind, no row gives a file the user left   *)
(* alone another whole digest than its own.                                  *)
THEOREM SealInventsNothing == Spec => []NoRowInvented
<1> DEFINE Inv == TypeOK /\ CoverInv /\ HonestInv
<1>1. Init => Inv
  BY TypeInit, CoverInit, HonestInit
<1>2. Inv /\ [Next]_vars => Inv'
  <2> SUFFICES ASSUME TypeOK, CoverInv, HonestInv, [Next]_vars PROVE Inv'
    OBVIOUS
  <2>1. TypeOK' /\ CoverInv'
    BY TypeStep, CursorStep, RowsStep, CoversStep DEF CoverInv
  <2>2. HonestBuffer' /\ NoRowInvented'
    BY HonestBufferStep, InventedStep
  <2>3. HonestInv'
    BY <2>2 DEF HonestInv, HonestBuffer
  <2> QED
    BY <2>1, <2>3
<1>3. Inv => NoRowInvented
  BY DEF HonestInv
<1> QED
  BY <1>1, <1>2, <1>3, PTL DEF Spec

-----------------------------------------------------------------------------
(* What was reported stays. *)

LEMMA StaysStep ==
  ASSUME TypeOK, RowsInv, [Next]_vars,
         NEW v \in Stamp, status[v] \in {"SEALED", "FAILED"}, now # v
  PROVE  /\ manifest'[v] = manifest[v]
         /\ objects'[v] = objects[v]
         /\ status'[v] = status[v]
<1>1. CASE UNCHANGED disk
  BY <1>1 DEF disk
<1>2. CASE SealStart
  BY <1>2 DEF SealStart, TypeOK
<1>3. CASE CopyOpen \/ CopyDone \/ WriteRow \/ SealFinish \/ FcloseFails
  <2>1. pc # "idle"
    BY <1>3 DEF CopyOpen, CopyDone, WriteRow, SealFinish, FcloseFails
  <2>2. stamp \in Stamp /\ stamp # v
    BY <2>1 DEF RowsInv, Running, TypeOK
  <2> QED
    BY <1>3, <2>2 DEF CopyOpen, CopyDone, WriteRow, SealFinish, FcloseFails, TypeOK
<1> QED
  BY <1>1, <1>2, <1>3, StepCases
     DEF Failure, CountError, HashFile, ReuseObject, SkipSpecial, EnterFile,
         ReaddirFails, Crash, Tick, Edit, vars

(* Of a vault of which SEALED or FAILED was reported no step of a later      *)
(* second touches manifest, blobs or report, whatever fails and whoever is  *)
(* killed.                                                                   *)
THEOREM ReportedVaultsStay == Spec => VaultsStay
<1>1. Init => TypeOK /\ CoverInv
  BY TypeInit, CoverInit
<1>2. TypeOK /\ CoverInv /\ [Next]_vars => (TypeOK /\ CoverInv)'
  BY TypeStep, CursorStep, RowsStep, CoversStep DEF CoverInv
<1> DEFINE Stays == \A v \in Stamp :
             status[v] \in {"SEALED", "FAILED"} /\ now # v =>
               /\ manifest'[v] = manifest[v]
               /\ objects'[v] = objects[v]
               /\ status'[v] = status[v]
<1>3. TypeOK /\ CoverInv /\ [Next]_vars => [Stays]_vars
  BY StaysStep DEF CoverInv
<1> QED
  BY <1>1, <1>2, <1>3, PTL DEF Spec, VaultsStay

=============================================================================
