------------------------------ MODULE HealProofs ------------------------------
(***************************************************************************)
(* Verify, restore and prune tell the truth for every tree, every vault,   *)
(* every number of edits, faults and seconds.                              *)
(***************************************************************************)
EXTENDS Heal, TLAPS

-----------------------------------------------------------------------------
(* Type correctness, the shape of the tree included. *)

LEMMA NodeKinds ==
  /\ Bytes \subseteq Node /\ NoFile \in Node /\ Dir \in Node /\ Link \in Node
  /\ UserNodes \subseteq Node
  /\ NoFile \notin Bytes /\ Dir \notin Bytes /\ Link \notin Bytes
  /\ NoFile # Dir /\ NoFile # Link /\ Dir # Link /\ Torn \in Bytes
  BY BytesAssumption, HealAssumption DEF Node, Bytes

(* Above and Below are the two sides of one strict order. *)
LEMMA AboveBelow ==
  ASSUME NEW p \in Path
  PROVE  /\ Above[p] \subseteq Path /\ p \notin Above[p] /\ p \notin Below(p)
         /\ Below(p) \subseteq Path
         /\ \A q \in Path : q \in Below(p) <=> p \in Above[q]
         /\ \A q \in Above[p] : Above[q] \subseteq Above[p]
         /\ \A q \in Below(p) : Below(q) \subseteq Below(p)
  BY HealAssumption DEF Below

(* The four ways a tree changes keep it a tree. *)
Put(t, p, n) ==
    [q \in Path |-> IF q = p THEN n ELSE IF q \in Below(p) THEN NoFile ELSE t[q]]

LEMMA PutKeepsTree ==
  ASSUME NEW t \in [Path -> Node], IsTree(t), NEW p \in Path, NEW n \in Node,
         \A q \in Above[p] : t[q] = Dir
  PROVE  /\ Put(t, p, n) \in [Path -> Node] /\ IsTree(Put(t, p, n))
<1> DEFINE u == Put(t, p, n)
<1> USE DEF Put
<1>1. u \in [Path -> Node]
  BY NodeKinds
<1>2. ASSUME NEW q \in Path, u[q] # NoFile, NEW r \in Above[q]
      PROVE  u[r] = Dir
  <2>1. r \in Path /\ q \notin Below(p)
    BY <1>2, AboveBelow
  <2>2. CASE q = p
    BY <1>2, <2>1, <2>2, AboveBelow
  <2>3. CASE q # p
    <3>1. t[q] # NoFile /\ t[r] = Dir
      BY <1>2, <2>1, <2>3 DEF IsTree
    <3>2. r # p /\ r \notin Below(p)
      BY <1>2, <2>1, AboveBelow
    <3> QED
      BY <2>1, <3>1, <3>2
  <2> QED
    BY <2>2, <2>3
<1> QED
  BY <1>1, <1>2 DEF IsTree

LEMMA RemoveKeepsTree ==
  ASSUME NEW t \in [Path -> Node], IsTree(t), NEW p \in Path, t[p] # Dir,
         NEW n \in Node, t[p] # NoFile \/ n = NoFile
  PROVE  /\ [t EXCEPT ![p] = n] \in [Path -> Node]
         /\ IsTree([t EXCEPT ![p] = n])
<1> DEFINE u == [t EXCEPT ![p] = n]
<1>1. u \in [Path -> Node]
  OBVIOUS
<1>2. ASSUME NEW q \in Path, u[q] # NoFile, NEW r \in Above[q]
      PROVE  u[r] = Dir
  <2>1. t[q] # NoFile /\ r \in Path
    BY <1>2, AboveBelow
  <2>2. t[r] = Dir
    BY <1>2, <2>1 DEF IsTree
  <2> QED
    BY <2>1, <2>2
<1> QED
  BY <1>1, <1>2 DEF IsTree

(* Where no link leads away, what stands above a path restore can reach is  *)
(* a directory or missing.                                                  *)
LEMMA NearIsLive ==
  ASSUME NEW p \in Path, ~Far(p), Reachable(p)
  PROVE  /\ live[p] # Dir /\ live[p] # Link
         /\ \A q \in Above[p] : live[q] \in {NoFile, Dir}
<1>1. \A q \in Above[p] \union {p} : ~Far(q) /\ View(q) = live[q]
  BY AboveBelow DEF Far, View
<1> QED
  BY <1>1 DEF Reachable, Far

LEMMA ParentsKeepTree ==
  ASSUME live \in [Path -> Node], IsTree(live), NEW p \in Path, ~Far(p), Reachable(p),
         NEW t, t = WithParents(live, p)
  PROVE  /\ t \in [Path -> Node] /\ IsTree(t)
         /\ [t EXCEPT ![p] = Torn] \in [Path -> Node]
         /\ IsTree([t EXCEPT ![p] = Torn])
<1>1. t \in [Path -> Node]
  BY NodeKinds DEF WithParents
<1>2. ASSUME NEW q \in Path, t[q] # NoFile \/ q = p, NEW r \in Above[q]
      PROVE  t[r] = Dir /\ r # p
  <2>1. r \in Path
    BY <1>2, AboveBelow
  <2>2. CASE q \in Above[p] \/ q = p
    <3>1. r \in Above[p]
      BY <1>2, <2>2, AboveBelow
    <3> QED
      BY <2>1, <3>1, AboveBelow DEF WithParents
  <2>3. CASE q \notin Above[p] /\ q # p
    <3>1. live[q] # NoFile /\ live[r] = Dir
      BY <1>2, <2>1, <2>3 DEF WithParents, IsTree
    <3> QED
      BY <2>1, <3>1, NearIsLive DEF WithParents
  <2> QED
    BY <2>2, <2>3
<1>3. IsTree(t)
  BY <1>2 DEF IsTree
<1>4. [t EXCEPT ![p] = Torn] \in [Path -> Node]
  BY <1>1, NodeKinds
<1>5. IsTree([t EXCEPT ![p] = Torn])
  BY <1>1, <1>2, AboveBelow DEF IsTree
<1> QED
  BY <1>1, <1>3, <1>4, <1>5

LEMMA SealOfType ==
  ASSUME NEW t \in [Path -> Node]
  PROVE  /\ SealOf(t).rows \in [Path -> HashId \union {NoRow}]
         /\ SealOf(t).objects \in [HashId -> Bytes \union {NoFile}]
         /\ \A p \in Path : SealOf(t).rows[p] # NoRow =>
              /\ SealOf(t).objects[SealOf(t).rows[p]] \in Bytes
              /\ Hash[SealOf(t).objects[SealOf(t).rows[p]]] = SealOf(t).rows[p]
<1> DEFINE filed == {p \in Path \ Skipped : t[p] \in Bytes}
           blob(h) == CHOOSE b \in Bytes : Hash[b] = h /\ \E p \in filed : t[p] = b
<1>1. \A p \in filed : t[p] \in Bytes /\ Hash[t[p]] \in HashId
  BY HashAssumption
<1>2. ASSUME NEW h \in HashId, \E p \in filed : Hash[t[p]] = h
      PROVE  blob(h) \in Bytes /\ Hash[blob(h)] = h
  <2>1. \E b \in Bytes : Hash[b] = h /\ \E p \in filed : t[p] = b
    BY <1>1, <1>2
  <2> QED
    BY <2>1
<1>3. SealOf(t).rows = [p \in Path |-> IF p \in filed THEN Hash[t[p]] ELSE NoRow]
  BY DEF SealOf
<1>4. SealOf(t).objects = [h \in HashId |->
         IF \E p \in filed : Hash[t[p]] = h THEN blob(h) ELSE NoFile]
  BY DEF SealOf
<1> HIDE DEF blob, filed
<1> QED
  BY <1>1, <1>2, <1>3, <1>4

LEMMA TypeInit == Init => TypeOK
<1> SUFFICES ASSUME Init PROVE TypeOK
  OBVIOUS
<1>1. live \in [Path -> Node]
  BY DEF Init, Node, Bytes
<1>2. /\ vault.rows \in [Path -> HashId \union {NoRow}]
      /\ vault.objects \in [HashId -> Bytes \union {NoFile}]
  <2> DEFINE sealed == SealOf(live)
  <2>1. CASE vault = sealed
    BY <1>1, <2>1, SealOfType
  <2>2. ASSUME NEW p \in Listed(sealed), NEW b \in {Torn, NoFile},
               vault = [sealed EXCEPT !.objects[sealed.rows[p]] = b]
        PROVE  /\ vault.rows \in [Path -> HashId \union {NoRow}]
               /\ vault.objects \in [HashId -> Bytes \union {NoFile}]
    <3>1. /\ vault.rows = sealed.rows
          /\ vault.objects = [sealed.objects EXCEPT ![sealed.rows[p]] = b]
      BY <2>2 DEF SealOf
    <3>2. /\ sealed.rows \in [Path -> HashId \union {NoRow}]
          /\ sealed.objects \in [HashId -> Bytes \union {NoFile}]
          /\ sealed.rows[p] \in HashId
      BY <1>1, SealOfType DEF Listed
    <3> HIDE DEF sealed
    <3> QED
      BY <3>1, <3>2 DEF Bytes
  <2> QED
    BY <2>1, <2>2 DEF Init
<1>3. 1 \in Stamp /\ 0 \in 0 .. MaxEdits /\ 0 \in 0 .. MaxFaults
  BY HealAssumption DEF Stamp
<1>4. /\ last \in [cmd : Commands \union {"none"}, rc : 0 .. 2]
      /\ quarantine \in [Stamp -> [Path -> Bytes \union {NoFile, Dir}]]
  BY DEF Init, NoResult
<1>5. IsTree(live) /\ outside \in [Path -> Bytes \union {NoFile, Dir}]
  BY HealAssumption DEF Init, Bytes
<1>6. /\ now = 1 /\ stamp = 1
      /\ job = "none" /\ todo = {} /\ seen = {} /\ damage = FALSE /\ errors = FALSE
      /\ step = "visit" /\ sink = "none"
      /\ edits = 0 /\ faults = 0 /\ touched = {} /\ taken = {} /\ late = {}
  BY DEF Init
<1> QED
  BY <1>1, <1>2, <1>3, <1>4, <1>5, <1>6 DEF TypeOK

LEMMA TypeStep == TypeOK /\ TreeInv /\ [Next]_vars => TypeOK'
<1> SUFFICES ASSUME TypeOK, TreeInv, [Next]_vars PROVE TypeOK'
  OBVIOUS
<1> USE HealAssumption, NodeKinds
<1>1. live \in [Path -> Node] /\ IsTree(live)
  BY DEF TypeOK
<1>3. Fault \/ NoFault => faults' \in 0 .. MaxFaults
  BY DEF Fault, NoFault, TypeOK
<1>4. CASE UNCHANGED vars
  BY <1>4 DEF vars, tree, clock, copying, history, TypeOK
<1>5. CASE Tick
  BY <1>5 DEF Tick, tree, copying, history, TypeOK, Stamp
<1>6. ASSUME NEW p \in Path, NEW n \in UserNodes, UserPut(p, n)
      PROVE  TypeOK'
  <2>1. live' \in [Path -> Node] /\ IsTree(live')
    <3>1. n \in Node /\ \A q \in Above[p] : live[q] = Dir
      BY <1>6 DEF UserPut
    <3>2. live' = Put(live, p, n)
      BY <1>6 DEF UserPut, Put
    <3> QED
      BY <1>1, <3>1, <3>2, PutKeepsTree
  <2>2. edits' \in 0 .. MaxEdits
    BY <1>6 DEF UserPut, TypeOK
  <2>3. /\ touched' \subseteq Path /\ late' \subseteq Path
        /\ sink' \in {"none", "live", "outside"}
    BY <1>6, AboveBelow DEF UserPut, TypeOK
  <2> QED
    BY <1>6, <2>1, <2>2, <2>3 DEF UserPut, TypeOK, IsTree, clock
<1>7. ASSUME NEW cmd \in Commands, Begin(cmd)
      PROVE  TypeOK'
  <2>1. /\ job = "none" /\ job' = cmd /\ todo' \subseteq Path /\ seen' = {}
        /\ damage' = FALSE /\ errors' = FALSE /\ stamp' = now /\ touched' = {}
        /\ UNCHANGED <<tree, now, copying, edits, faults, taken, late>>
    BY <1>7 DEF Begin, Listed
  <2>2. last' \in [cmd : Commands \union {"none"}, rc : 0 .. 2]
    BY <1>7 DEF Begin, NoResult
  <2>3. step = "visit"
    BY <2>1 DEF TypeOK
  <2> QED
    BY <2>1, <2>2, <2>3 DEF TypeOK, tree, copying
<1>8. ASSUME NEW cmd \in Commands, LoadFails(cmd)
      PROVE  TypeOK'
  BY <1>3, <1>8 DEF LoadFails, TypeOK, tree, clock, copying
<1>9. CASE Crash
  BY <1>9 DEF Crash, Forget, TypeOK, tree, clock, history
<1>10. ASSUME NEW rc \in 0 .. 2, Return(rc)
       PROVE  TypeOK'
  BY <1>10 DEF Return, Forget, TypeOK, tree, clock, history
<1>11. ASSUME NEW p \in Path, WalkFails(p) \/ WalkMisses(p)
       PROVE  TypeOK'
  <2>1. /\ todo' \subseteq todo /\ faults' \in 0 .. MaxFaults
        /\ errors' = TRUE \/ errors' = errors
        /\ touched' = touched \/ touched' = touched \union {p} \union Below(p)
        /\ UNCHANGED <<tree, clock, job, seen, damage, copying, last, edits, taken, late>>
    BY <1>3, <1>11 DEF WalkFails, WalkMisses, NoFault, history
  <2>2. touched' \subseteq Path
    BY <2>1, AboveBelow DEF TypeOK
  <2> QED
    BY <2>1, <2>2 DEF TypeOK, tree, clock, copying, history
<1>12. CASE RootFails
  BY <1>3, <1>12 DEF RootFails, TypeOK, tree, clock, copying, history
<1>13. ASSUME NEW p \in Path, VerifyVisit(p)
       PROVE  TypeOK'
  BY <1>13 DEF VerifyVisit, TypeOK, tree, clock, copying, history
<1>14. ASSUME NEW p \in Path, RestoreSkip(p)
       PROVE  TypeOK'
  BY <1>14 DEF RestoreSkip, TypeOK, tree, clock, copying, history
<1>15. ASSUME NEW p \in Path, RestoreFails(p)
       PROVE  TypeOK'
  <2>1. /\ live' \in [Path -> Node] /\ IsTree(live')
        /\ outside' \in [Path -> Bytes \union {NoFile, Dir}]
    <3>1. CASE UNCHANGED <<live, outside>>
      BY <1>1, <3>1 DEF TypeOK
    <3>2. CASE ~UNCHANGED <<live, outside>>
      <4>1. Reachable(p) /\ IF Far(p)
               THEN live' = live /\ outside' = WithParents(outside, p)
               ELSE outside' = outside /\ live' = WithParents(live, p)
        BY <1>15, <3>2 DEF RestoreFails
      <4>2. CASE Far(p)
        BY <1>1, <4>1, <4>2 DEF TypeOK, WithParents
      <4>3. CASE ~Far(p)
        BY <1>1, <4>1, <4>3, ParentsKeepTree DEF TypeOK
      <4> QED
        BY <4>2, <4>3
    <3> QED
      BY <3>1, <3>2
  <2>2. faults' \in 0 .. MaxFaults
    BY <1>3, <1>15 DEF RestoreFails
  <2> QED
    BY <1>15, <2>1, <2>2 DEF RestoreFails, RestoreAt, TypeOK, clock, copying, history
<1>16. ASSUME NEW p \in Path, RestoreOpen(p)
       PROVE  TypeOK'
  <2>1. /\ live' \in [Path -> Node] /\ IsTree(live')
        /\ outside' \in [Path -> Bytes \union {NoFile, Dir}]
        /\ sink' \in {"live", "outside"}
    <3>1. CASE Far(p)
      <4>1. /\ live' = live /\ sink' = "outside"
            /\ outside' = [WithParents(outside, p) EXCEPT ![p] = Torn]
        BY <1>16, <3>1 DEF RestoreOpen
      <4>2. WithParents(outside, p) \in [Path -> Bytes \union {NoFile, Dir}]
        BY DEF TypeOK, WithParents
      <4> QED
        BY <1>1, <4>1, <4>2
    <3>2. CASE ~Far(p)
      <4>1. /\ outside' = outside /\ sink' = "live" /\ Reachable(p)
            /\ live' = [WithParents(live, p) EXCEPT ![p] = Torn]
        BY <1>16, <3>2 DEF RestoreOpen
      <4> QED
        BY <1>1, <3>2, <4>1, ParentsKeepTree DEF TypeOK
    <3> QED
      BY <3>1, <3>2
  <2>2. faults' \in 0 .. MaxFaults
    BY <1>3, <1>16 DEF RestoreOpen
  <2>3. p \in Listed(vault)
    BY <1>16 DEF RestoreOpen, RestoreAt, TreeInv
  <2> QED
    BY <1>16, <2>1, <2>2, <2>3 DEF RestoreOpen, RestoreAt, TypeOK, clock, history,
                                   Listed
<1>17. CASE RestoreWrite
  <2>1. /\ cur \in Path /\ Blob(cur) \in Bytes \union {NoFile}
    BY <1>17 DEF RestoreWrite, TypeOK, Blob, Rows, Listed
  <2>2. live' \in [Path -> Node] /\ IsTree(live')
    <3>1. CASE sink = "live"
      <4>1. live[cur] # Dir /\ live[cur] # NoFile
        BY <3>1 DEF TreeInv
      <4>2. live' = [live EXCEPT ![cur] = Blob(cur)] /\ Blob(cur) \in Node
        BY <1>17, <2>1, <3>1 DEF RestoreWrite
      <4> QED
        BY <1>1, <2>1, <4>1, <4>2, RemoveKeepsTree
    <3>2. CASE sink # "live"
      BY <1>1, <1>17, <3>2 DEF RestoreWrite
    <3> QED
      BY <3>1, <3>2
  <2>3. outside' \in [Path -> Bytes \union {NoFile, Dir}]
    BY <1>17, <2>1 DEF RestoreWrite, TypeOK
  <2> QED
    BY <1>17, <2>2, <2>3 DEF RestoreWrite, TypeOK, clock, history
<1>18. CASE RestoreWriteFails
  BY <1>3, <1>18 DEF RestoreWriteFails, TypeOK, tree, clock, history
<1>19. ASSUME NEW p \in Path, PruneKeep(p)
       PROVE  TypeOK'
  BY <1>19 DEF PruneKeep, TypeOK, tree, clock, copying, history
<1>20. ASSUME NEW p \in Path, AtPrune(p), Extra(p)
       PROVE  /\ step = "visit" /\ live[p] \in Bytes
              /\ [live EXCEPT ![p] = NoFile] \in [Path -> Node]
              /\ IsTree([live EXCEPT ![p] = NoFile])
  <2>1. step = "visit" /\ live[p] \in Bytes
    BY <1>20 DEF AtPrune, AtEntry, Extra
  <2> QED
    BY <1>1, <2>1, RemoveKeepsTree
<1>21. ASSUME NEW p \in Path, NEW b \in Bytes
       PROVE  Placed(p, b) \in [Stamp -> [Path -> Bytes \union {NoFile, Dir}]]
  BY DEF Placed, TypeOK
<1>22. ASSUME NEW p \in Path, PruneDelete(p)
       PROVE  TypeOK'
  <2>1. live' \in [Path -> Node] /\ IsTree(live')
    BY <1>20, <1>22 DEF PruneDelete, AtPrune
  <2> QED
    BY <1>22, <2>1 DEF PruneDelete, TypeOK, IsTree, clock, copying, history
<1>23. ASSUME NEW p \in Path, PruneRename(p)
       PROVE  TypeOK'
  <2>1. /\ live' \in [Path -> Node] /\ IsTree(live') /\ live[p] \in Bytes
        /\ quarantine' \in [Stamp -> [Path -> Bytes \union {NoFile, Dir}]]
    BY <1>20, <1>21, <1>23 DEF PruneRename, AtPrune
  <2> QED
    BY <1>23, <2>1 DEF PruneRename, TypeOK, IsTree, clock, copying
<1>24. ASSUME NEW p \in Path, PruneCopy(p)
       PROVE  TypeOK'
  <2>1. /\ live[p] \in Bytes /\ faults' \in 0 .. MaxFaults
        /\ quarantine' \in [Stamp -> [Path -> Bytes \union {NoFile, Dir}]]
    BY <1>3, <1>20, <1>21, <1>24 DEF PruneCopy, AtPrune
  <2> QED
    BY <1>24, <2>1 DEF PruneCopy, AtEntry, TypeOK, clock, history
<1>25. ASSUME NEW p \in Path, PruneFails(p)
       PROVE  TypeOK'
  <2>1. /\ faults' \in 0 .. MaxFaults
        /\ quarantine' \in [Stamp -> [Path -> Bytes \union {NoFile, Dir}]]
    BY <1>3, <1>21, <1>25 DEF PruneFails, TypeOK
  <2> QED
    BY <1>25, <2>1 DEF PruneFails, TypeOK, clock, copying, history
<1>26. CASE PruneUnlink
  <2>1. cur \in Path /\ job = "prune"
    BY <1>26 DEF PruneUnlink, TypeOK
  <2>2. /\ live' \in [Path -> Node] /\ IsTree(live')
        /\ outside' \in [Path -> Bytes \union {NoFile, Dir}]
        /\ taken' \subseteq Path \X Bytes
    <3>1. CASE live[cur] \in Bytes \union {Link}
      <4>1. live' = [live EXCEPT ![cur] = NoFile] /\ outside' = outside
        BY <1>26, <3>1 DEF PruneUnlink
      <4>2. live' \in [Path -> Node] /\ IsTree(live')
        BY <1>1, <2>1, <3>1, <4>1, RemoveKeepsTree
      <4>3. taken' \subseteq Path \X Bytes
        BY <1>26, <2>1 DEF PruneUnlink, TypeOK
      <4> QED
        BY <4>1, <4>2, <4>3 DEF TypeOK
    <3>2. CASE live[cur] \notin Bytes \union {Link}
      BY <1>1, <1>26, <2>1, <3>2 DEF PruneUnlink, TypeOK
    <3> QED
      BY <3>1, <3>2
  <2> QED
    BY <1>26, <2>1, <2>2 DEF PruneUnlink, TypeOK, clock
<1>28. CASE PruneUnlinkFails
  BY <1>3, <1>28 DEF PruneUnlinkFails, TypeOK, tree, clock, history
<1>27. CASE VerifyEnd \/ RestoreEnd \/ PruneEnd
  <2> \E rc \in {0, 1, 2} : Return(rc)
    BY <1>27 DEF VerifyEnd, RestoreEnd, PruneEnd
  <2> QED
    BY <1>10
<1> QED
  BY <1>4, <1>5, <1>6, <1>7, <1>8, <1>9, <1>11, <1>12, <1>13, <1>14, <1>15, <1>16,
     <1>17, <1>18, <1>19, <1>22, <1>23, <1>24, <1>25, <1>26, <1>27, <1>28
     DEF Next, User, Working

LEMMA TreeInit == Init => TreeInv
  BY DEF Init, TreeInv

(* The steps of a running command, by what they leave of the shared state. *)
LEMMA WorkingSteps ==
  ASSUME TypeOK, Working
  PROVE  /\ job # "none" /\ UNCHANGED <<vault, clock, edits>>
         /\ \/ touched' = touched
            \/ \E p \in Path : touched' = touched \union {p} \union Below(p)
         /\ \/ job' = job /\ last' = last /\ todo' \subseteq todo
            \/ \E rc \in {0, 1, 2} : Return(rc)
<1> USE DEF tree, clock, copying, history
<1>1. CASE \E p \in Path : WalkFails(p) \/ WalkMisses(p) \/ VerifyVisit(p)
  BY <1>1 DEF WalkFails, WalkMisses, VerifyVisit, AtPrune, AtEntry
<1>2. CASE RootFails
  BY <1>2 DEF RootFails, Commands
<1>3. CASE \E p \in Path : RestoreSkip(p) \/ RestoreFails(p) \/ RestoreOpen(p)
  BY <1>3 DEF RestoreSkip, RestoreFails, RestoreOpen, RestoreAt
<1>4. CASE RestoreWrite \/ RestoreWriteFails
  BY <1>4 DEF RestoreWrite, RestoreWriteFails
<1>5. CASE \E p \in Path : \/ PruneKeep(p) \/ PruneDelete(p) \/ PruneRename(p)
                           \/ PruneCopy(p) \/ PruneFails(p)
  BY <1>5 DEF PruneKeep, PruneDelete, PruneRename, PruneCopy, PruneFails,
              AtPrune, AtEntry
<1>6. CASE PruneUnlink \/ PruneUnlinkFails
  BY <1>6 DEF PruneUnlink, PruneUnlinkFails
<1>7. CASE VerifyEnd \/ RestoreEnd \/ PruneEnd
  BY <1>7 DEF VerifyEnd, RestoreEnd, PruneEnd, Return
<1> QED
  BY <1>1, <1>2, <1>3, <1>4, <1>5, <1>6, <1>7 DEF Working

(* An open live file stays open, and a file, through the steps that work. *)
LEMMA WorkingSink ==
  ASSUME TypeOK, TreeInv, Working, sink' = "live"
  PROVE  step' = "copy" /\ live'[cur'] \in Bytes
<1> USE DEF TreeInv, tree, clock, copying, history
<1>1. ASSUME NEW p \in Path, RestoreOpen(p)
      PROVE  step' = "copy" /\ live'[cur'] \in Bytes
  <2>1. ~Far(p) /\ cur' = p /\ step' = "copy"
    BY <1>1 DEF RestoreOpen
  <2>2. live' = [WithParents(live, p) EXCEPT ![p] = Torn]
    BY <1>1, <2>1 DEF RestoreOpen
  <2> QED
    BY <2>1, <2>2, NodeKinds DEF WithParents
<1>2. CASE \E p \in Path : \/ WalkFails(p) \/ WalkMisses(p) \/ VerifyVisit(p)
                           \/ RestoreSkip(p) \/ PruneKeep(p)
  BY <1>2 DEF WalkFails, WalkMisses, VerifyVisit, RestoreSkip, PruneKeep
<1>3. CASE RootFails
  BY <1>3 DEF RootFails
<1>4. CASE \E p \in Path : RestoreFails(p)
  BY <1>4 DEF RestoreFails, RestoreAt
<1>5. CASE \/ RestoreWrite \/ RestoreWriteFails
           \/ VerifyEnd \/ RestoreEnd \/ PruneEnd
  BY <1>5 DEF RestoreWrite, RestoreWriteFails, VerifyEnd, RestoreEnd, PruneEnd,
              Return, Forget
<1>6. CASE \E p \in Path : \/ PruneDelete(p) \/ PruneRename(p)
                           \/ PruneCopy(p) \/ PruneFails(p)
  BY <1>6 DEF PruneDelete, PruneRename, PruneCopy, PruneFails, AtPrune, AtEntry
<1>7. CASE PruneUnlink \/ PruneUnlinkFails
  BY <1>7 DEF PruneUnlink, PruneUnlinkFails
<1> QED
  BY <1>1, <1>2, <1>3, <1>4, <1>5, <1>6, <1>7 DEF Working

LEMMA TreeStep == TypeOK /\ TreeInv /\ [Next]_vars => TreeInv'
<1> SUFFICES ASSUME TypeOK, TreeInv, [Next]_vars PROVE TreeInv'
  OBVIOUS
<1> USE DEF TreeInv
<1>1. CASE UNCHANGED vars \/ Tick
  BY <1>1 DEF vars, Tick, tree, clock, copying, history, Below, Listed
<1>2. ASSUME NEW p \in Path, NEW n \in UserNodes, UserPut(p, n)
      PROVE  TreeInv'
  <2>1. UNCHANGED <<vault, job, todo, last, step, cur>>
    BY <1>2 DEF UserPut
  <2>2. \A q \in touched' : Below(q) \subseteq touched'
    BY <1>2, AboveBelow DEF UserPut, TypeOK
  <2>3. sink' = "live" => step = "copy" /\ live'[cur] \in Bytes
    <3> SUFFICES ASSUME sink' = "live" PROVE step = "copy" /\ live'[cur] \in Bytes
      OBVIOUS
    <3>1. sink = "live" /\ step = "copy" /\ live[cur] \in Bytes /\ cur \in Path
      BY <1>2 DEF UserPut, TypeOK, Listed
    <3>2. \/ cur \notin {p} \union Below(p)
          \/ cur = p /\ n \in Bytes
      BY <1>2, <3>1 DEF UserPut
    <3> QED
      BY <1>2, <3>1, <3>2 DEF UserPut
  <2> QED
    BY <2>1, <2>2, <2>3 DEF Below, Listed
<1>3. ASSUME NEW cmd \in Commands, Begin(cmd)
      PROVE  TreeInv'
  <2>1. /\ last' = NoResult /\ touched' = {} /\ UNCHANGED <<vault, live, copying>>
        /\ job' = cmd /\ (cmd = "restore" => todo' = Listed(vault))
    BY <1>3 DEF Begin, tree
  <2> QED
    BY <2>1 DEF copying, Listed
<1>4. ASSUME NEW cmd \in Commands, LoadFails(cmd)
      PROVE  TreeInv'
  BY <1>4 DEF LoadFails, tree, copying
<1>5. CASE Crash
  BY <1>5 DEF Crash, Forget, history
<1>6. CASE Working
  <2>1. job' # "none" => last' = NoResult
    BY <1>6, WorkingSteps DEF Return
  <2>2. job' = "restore" => todo' \subseteq Listed(vault)'
    BY <1>6, WorkingSteps DEF Return, Listed
  <2>3. \A q \in touched' : Below(q) \subseteq touched'
    BY <1>6, WorkingSteps, AboveBelow
  <2> QED
    BY <1>6, <2>1, <2>2, <2>3, WorkingSink DEF Below
<1> QED
  BY <1>1, <1>2, <1>3, <1>4, <1>5, <1>6 DEF Next, User

(* Every variable keeps its type, and the tree stays a tree: nothing hangs   *)
(* below a file, a link or nothing, whoever writes where.                    *)
THEOREM HealTypeCorrect == Spec => []TypeOK
<1>1. Init => TypeOK /\ TreeInv
  BY TypeInit, TreeInit
<1>2. TypeOK /\ TreeInv /\ [Next]_vars => (TypeOK /\ TreeInv)'
  BY TypeStep, TreeStep
<1> QED
  BY <1>1, <1>2, PTL DEF Spec

-----------------------------------------------------------------------------
(* What the three walks have in common. *)

LEMMA MatchesKept ==
  ASSUME NEW p, vault' = vault, live'[p] = live[p]
  PROVE  Matches(p)' <=> Matches(p)
  BY DEF Matches, Rows, Listed

(* Below what is not a directory there is nothing. *)
LEMMA PassedIsEmpty ==
  ASSUME TypeOK, NEW p \in Path, NEW q \in Passed(p)
  PROVE  q \in Path /\ (q # p => live[q] = NoFile)
<1>1. CASE q = p
  BY <1>1
<1>2. CASE q # p
  <2>1. q \in Path /\ p \in Above[q] /\ live[p] # Dir
    BY <1>2 DEF Passed, Below
  <2> QED
    BY <2>1 DEF TypeOK, IsTree
<1> QED
  BY <1>1, <1>2

(* A user's step leaves everything it does not mark as touched. *)
LEMMA UserMarks ==
  ASSUME TypeOK, NEW p \in Path, NEW n \in UserNodes, UserPut(p, n)
  PROVE  /\ touched \subseteq touched' /\ touched' # {}
         /\ \A q \in Path \ touched' : live'[q] = live[q]
         /\ UNCHANGED <<vault, quarantine, job, todo, seen, damage, errors, step, cur,
                        last, faults, taken, stamp>>
  BY DEF UserPut, clock

(* The steps that are not part of a running command. *)
LEMMA StepKinds ==
  ASSUME [Next]_vars
  PROVE  \/ UNCHANGED vars \/ Tick \/ Crash \/ Working
         \/ \E p \in Path, n \in UserNodes : UserPut(p, n)
         \/ \E cmd \in Commands : Begin(cmd)
         \/ \E cmd \in Commands : LoadFails(cmd)
  BY DEF Next, User

-----------------------------------------------------------------------------
(* verify *)

VerifyRunning == job = "verify" =>
    /\ ~damage /\ ~errors =>
         \A p \in Path \ (touched \union todo) : live[p] \in Bytes => Matches(p)
    /\ \A p \in seen \ touched : live[p] \in Bytes
    /\ touched = {} =>
         /\ damage => ~Clean
         /\ faults = 0 =>
              /\ ~errors
              /\ \A p \in Path \ todo : live[p] \in Bytes => p \in seen

LEMMA VerifyInit == Init => VerifyInv
  BY DEF Init, VerifyInv, VerifyTruth, NoResult

LEMMA VerifyWalks ==
  ASSUME TypeOK, TreeInv, VerifyRunning, job = "verify", Working, job' = "verify"
  PROVE  VerifyRunning'
<1> USE DEF tree, copying, history
<1>1. ASSUME NEW p \in Path, WalkFails(p)
      PROVE  VerifyRunning'
  <2>1. /\ UNCHANGED <<live, vault, seen, damage, touched>> /\ errors' = TRUE
        /\ faults' = 0 => touched # {}
    BY <1>1 DEF WalkFails, Fault, NoFault, TypeOK
  <2> QED
    BY <2>1 DEF VerifyRunning, Clean, Matches, Rows, Listed
<1>2. CASE RootFails
  <2>1. /\ UNCHANGED <<live, vault, seen, damage, touched>> /\ errors' = TRUE
        /\ faults' # 0
    BY <1>2 DEF RootFails, Fault, TypeOK
  <2> QED
    BY <2>1 DEF VerifyRunning, Clean, Matches, Rows, Listed
<1>3. ASSUME NEW p \in Path, WalkMisses(p)
      PROVE  VerifyRunning'
  <2>1. /\ UNCHANGED <<live, vault, seen, damage, errors>>
        /\ todo' = todo \ ({p} \union Below(p))
        /\ touched' = touched \union {p} \union Below(p)
    BY <1>3 DEF WalkMisses
  <2>2. /\ Path \ (touched' \union todo') \subseteq Path \ (touched \union todo)
        /\ touched \subseteq touched' /\ touched' # {}
    BY <2>1
  <2> QED
    BY <2>1, <2>2 DEF VerifyRunning, Clean, Matches, Rows, Listed
<1>4. ASSUME NEW p \in Path, VerifyVisit(p)
      PROVE  VerifyRunning'
  <2>1. /\ UNCHANGED <<live, vault, errors, touched, faults>>
        /\ todo' = todo \ Passed(p) /\ p \in todo
        /\ seen' = IF live[p] \in Bytes THEN seen \union {p} ELSE seen
        /\ damage' <=> (damage \/ (live[p] \in Bytes /\ ~Matches(p)))
    BY <1>4 DEF VerifyVisit, AtEntry
  <2>2. \A q \in Path \ todo' : q \notin todo \/ q = p \/ live[q] \notin Bytes
    BY <2>1, PassedIsEmpty, NodeKinds
  <2>3. \A q \in Path : Matches(q)' <=> Matches(q)
    BY <2>1, MatchesKept
  <2>4. ~damage' /\ ~errors' =>
          \A q \in Path \ (touched' \union todo') : live'[q] \in Bytes => Matches(q)'
    BY <2>1, <2>2, <2>3 DEF VerifyRunning
  <2>5. \A q \in seen' \ touched' : live'[q] \in Bytes
    BY <2>1 DEF VerifyRunning
  <2>6. touched' = {} /\ damage' => ~Clean'
    BY <2>1, <2>3 DEF VerifyRunning, Clean
  <2>7. touched' = {} /\ faults' = 0 =>
          ~errors' /\ \A q \in Path \ todo' : live'[q] \in Bytes => q \in seen'
    BY <2>1, <2>2 DEF VerifyRunning
  <2> QED
    BY <2>4, <2>5, <2>6, <2>7 DEF VerifyRunning
<1>5. ~ \/ \E p \in Path : RestoreSkip(p) \/ RestoreFails(p) \/ RestoreOpen(p)
        \/ RestoreWrite \/ RestoreWriteFails \/ RestoreEnd
  BY DEF RestoreSkip, RestoreFails, RestoreOpen, RestoreAt, RestoreWrite,
         RestoreWriteFails, RestoreEnd
<1>6. ~ \/ \E p \in Path : \/ PruneKeep(p) \/ PruneDelete(p) \/ PruneRename(p)
                           \/ PruneCopy(p) \/ PruneFails(p)
        \/ PruneUnlink \/ PruneUnlinkFails \/ PruneEnd
  BY DEF PruneKeep, PruneDelete, PruneRename, PruneCopy, PruneFails, PruneUnlink,
         PruneUnlinkFails, PruneEnd, AtPrune, AtEntry
<1>7. ~VerifyEnd
  BY DEF VerifyEnd, Return
<1> QED
  BY <1>1, <1>2, <1>3, <1>4, <1>5, <1>6, <1>7 DEF Working

LEMMA VerifyAnswers ==
  ASSUME TypeOK, TreeInv, VerifyRunning, VerifyEnd
  PROVE  VerifyTruth'
<1> DEFINE unseen == ~(Listed(vault) \subseteq seen)
<1>1. /\ job = "verify" /\ todo = {} /\ UNCHANGED <<live, vault, touched, faults>>
      /\ last' = [cmd |-> "verify", rc |-> IF damage \/ errors \/ unseen THEN 2 ELSE 0]
  BY DEF VerifyEnd, Return, tree, history
<1>2. \A p \in Path : Matches(p)' <=> Matches(p)
  BY <1>1, MatchesKept
<1>3. ASSUME last'.rc = 0, NEW p \in Path \ touched
      PROVE  Matches(p)
  <2>1. ~damage /\ ~errors /\ Listed(vault) \subseteq seen
    BY <1>1, <1>3
  <2> QED
    BY <1>1, <2>1 DEF VerifyRunning, Matches
<1>4. ASSUME last'.rc = 2, faults = 0, touched = {}
      PROVE  ~Clean
  <2>1. damage \/ errors \/ unseen
    BY <1>1, <1>4
  <2>2. CASE damage \/ errors
    BY <1>1, <1>4, <2>2 DEF VerifyRunning
  <2>3. CASE unseen
    <3>1. PICK p \in Path : p \in Listed(vault) /\ p \notin seen
      BY <2>3 DEF Listed
    <3> QED
      BY <1>1, <1>4, <3>1 DEF VerifyRunning, Clean, Matches
  <2> QED
    BY <2>1, <2>2, <2>3
<1> QED
  BY <1>1, <1>2, <1>3, <1>4 DEF VerifyTruth, Clean

LEMMA VerifyStep == TypeOK /\ TreeInv /\ VerifyInv /\ [Next]_vars => VerifyInv'
<1> SUFFICES ASSUME TypeOK, TreeInv, VerifyInv, [Next]_vars
             PROVE  VerifyRunning' /\ VerifyTruth'
  BY DEF VerifyInv, VerifyRunning
<1>0. VerifyRunning /\ VerifyTruth
  BY DEF VerifyInv, VerifyRunning
<1> HIDE DEF VerifyInv
<1>1. CASE UNCHANGED vars \/ Tick
  <2> UNCHANGED <<live, vault, job, todo, seen, damage, errors, last, faults, touched>>
    BY <1>1 DEF vars, Tick, tree, history
  <2> QED
    BY <1>0 DEF VerifyRunning, VerifyTruth, Clean, Matches, Rows, Listed
<1>2. ASSUME NEW p \in Path, NEW n \in UserNodes, UserPut(p, n)
      PROVE  VerifyRunning' /\ VerifyTruth'
  <2>1. \A q \in Path \ touched' : Matches(q)' <=> Matches(q)
    BY <1>2, UserMarks, MatchesKept
  <2>2. seen \subseteq Path
    BY DEF TypeOK
  <2> QED
    BY <1>0, <1>2, <2>1, <2>2, UserMarks DEF VerifyRunning, VerifyTruth
<1>3. ASSUME NEW cmd \in Commands, Begin(cmd)
      PROVE  VerifyRunning' /\ VerifyTruth'
  <2>1. /\ last' = NoResult
        /\ job' = "verify" => /\ todo' = Path /\ seen' = {} /\ damage' = FALSE
                              /\ errors' = FALSE
    BY <1>3 DEF Begin
  <2> QED
    BY <2>1 DEF VerifyRunning, VerifyTruth, NoResult
<1>4. ASSUME NEW cmd \in Commands, LoadFails(cmd)
      PROVE  VerifyRunning' /\ VerifyTruth'
  BY <1>4 DEF LoadFails, VerifyRunning, VerifyTruth
<1>5. CASE Crash
  BY <1>5 DEF Crash, Forget, TreeInv, VerifyRunning, VerifyTruth, NoResult
<1>6. CASE Working
  <2>1. job # "none" /\ last = NoResult
    BY <1>6, WorkingSteps DEF TreeInv
  <2>2. CASE job = "verify" /\ job' = "verify"
    <3>1. last' = last
      BY <1>6, <2>2, WorkingSteps DEF Return
    <3> QED
      BY <1>0, <1>6, <2>1, <2>2, <3>1, VerifyWalks DEF VerifyTruth, NoResult
  <2>3. CASE job = "verify" /\ job' # "verify"
    <3>1. VerifyEnd
      BY <1>6, <2>3
         DEF Working, WalkFails, WalkMisses, VerifyVisit, RootFails, RestoreSkip,
             RestoreFails, RestoreOpen, RestoreAt, RestoreWrite, RestoreWriteFails,
             RestoreEnd, PruneKeep, PruneDelete, PruneRename, PruneCopy, PruneFails,
             PruneUnlink, PruneUnlinkFails, PruneEnd, AtPrune, AtEntry
    <3> QED
      BY <1>0, <2>3, <3>1, VerifyAnswers DEF VerifyRunning
  <2>4. CASE job # "verify"
    <3>1. \/ job' = job /\ last' = last
          \/ job' = "none" /\ last'.cmd = job
      BY <1>6, WorkingSteps DEF Return
    <3> QED
      BY <2>1, <2>4, <3>1 DEF VerifyRunning, VerifyTruth, NoResult
  <2> QED
    BY <2>2, <2>3, <2>4
<1> QED
  BY StepKinds, <1>1, <1>2, <1>3, <1>4, <1>5, <1>6

(* Whoever edits, fails or is killed meanwhile, exit code 0 of verify means  *)
(* that every path left alone is what the vault says; and when nothing was   *)
(* edited and nothing failed, exit code 2 means that something is not.       *)
THEOREM VerifyTellsTruth == Spec => []VerifyTruth
<1>1. Init => TypeOK /\ TreeInv /\ VerifyInv
  BY TypeInit, TreeInit, VerifyInit
<1>2. TypeOK /\ TreeInv /\ VerifyInv /\ [Next]_vars => (TypeOK /\ TreeInv /\ VerifyInv)'
  BY TypeStep, TreeStep, VerifyStep
<1>3. VerifyInv => VerifyTruth
  BY DEF VerifyInv
<1> QED
  BY <1>1, <1>2, <1>3, PTL DEF Spec

-----------------------------------------------------------------------------
(* restore *)

IsBack(p)   == Far(p) \/ Restored(p)
CopiesBlobs == step = "copy" => Blob(cur) # NoFile
OpenIsLive  == step = "copy" /\ cur \notin touched => sink = "live" \/ Far(cur)

RestoreRunning == job = "restore" /\ ~errors =>
    \A p \in Listed(vault) \ (touched \union todo) :
        IsBack(p) \/ (step = "copy" /\ p = cur)

LEMMA RestoreParts ==
  RestoreInv <=> CopiesBlobs /\ OpenIsLive /\ RestoreRunning /\ RestoreTruth
  BY DEF RestoreInv, CopiesBlobs, OpenIsLive, RestoreRunning, IsBack

LEMMA RestoreInit == Init => RestoreInv
  BY DEF Init, RestoreInv, RestoreTruth, NoResult

(* What is behind a link, and what is back, depends on the path alone and    *)
(* on the links above it.                                                    *)
LEMMA FarKept ==
  ASSUME NEW p, \A q \in Above[p] \union {p} : live'[q] = Link <=> live[q] = Link
  PROVE  Far(p)' <=> Far(p)
  BY DEF Far

LEMMA BackKept ==
  ASSUME NEW p, vault' = vault, live'[p] = live[p],
         \A q \in Above[p] : live'[q] = Link <=> live[q] = Link
  PROVE  IsBack(p)' <=> IsBack(p)
  BY FarKept DEF IsBack, Restored, Rows, Blob

(* Restore makes and removes no link. *)
LEMMA OpenKeepsLinks ==
  ASSUME TypeOK, NEW p \in Path, RestoreOpen(p)
  PROVE  /\ \A q \in Path : live'[q] = Link <=> live[q] = Link
         /\ \A q \in Path \ {p} : live[q] \in Bytes => live'[q] = live[q]
<1>1. CASE Far(p)
  BY <1>1 DEF RestoreOpen
<1>2. CASE ~Far(p)
  <2>1. live' = [WithParents(live, p) EXCEPT ![p] = Torn] /\ Reachable(p)
    BY <1>2 DEF RestoreOpen
  <2>2. live[p] # Link /\ \A q \in Above[p] : live[q] \in {NoFile, Dir}
    BY <1>2, <2>1, NearIsLive
  <2> QED
    BY <2>1, <2>2, NodeKinds DEF WithParents
<1> QED
  BY <1>1, <1>2

LEMMA WriteKeepsLinks ==
  ASSUME TypeOK, TreeInv, CopiesBlobs, RestoreWrite
  PROVE  /\ \A q \in Path : live'[q] = Link <=> live[q] = Link
         /\ \A q \in Path \ {cur} : live'[q] = live[q]
<1>1. cur \in Path /\ Blob(cur) \in Bytes
  BY DEF RestoreWrite, TypeOK, CopiesBlobs, Blob, Rows, Listed
<1>2. CASE sink = "live"
  BY <1>1, <1>2, NodeKinds DEF RestoreWrite, TreeInv, TypeOK
<1>3. CASE sink # "live"
  BY <1>3 DEF RestoreWrite
<1> QED
  BY <1>2, <1>3

(* A user's step leaves what is above an untouched path. *)
LEMMA UserMarksAbove ==
  ASSUME TypeOK, NEW p \in Path, NEW n \in UserNodes, UserPut(p, n),
         NEW q \in Path \ touched'
  PROVE  \A r \in Above[q] : live'[r] = live[r]
<1> SUFFICES ASSUME NEW r \in Above[q]
             PROVE  live'[r] = live[r]
  OBVIOUS
<1>1. q \notin {p} \union Below(p)
  BY DEF UserPut
<1>2. r \in Path /\ r # p /\ r \notin Below(p)
  BY <1>1, AboveBelow
<1> QED
  BY <1>2 DEF UserPut, TypeOK

LEMMA VaultStep == TypeOK /\ [Next]_vars => vault' = vault
  BY StepKinds, WorkingSteps DEF vars, Tick, Crash, UserPut, Begin, LoadFails, tree

LEMMA RestoreWalks ==
  ASSUME TypeOK, TreeInv, CopiesBlobs, OpenIsLive, RestoreRunning,
         job = "restore", Working, job' = "restore"
  PROVE  CopiesBlobs' /\ OpenIsLive' /\ RestoreRunning'
<1> USE NodeKinds DEF tree, copying, history
<1>1. ASSUME NEW p \in Path, RestoreSkip(p)
      PROVE  CopiesBlobs' /\ OpenIsLive' /\ RestoreRunning'
  <2>1. /\ UNCHANGED <<live, vault, errors, touched, step, cur, sink>>
        /\ todo' = todo \ {p} /\ Stands(p) /\ step = "visit"
    BY <1>1 DEF RestoreSkip, RestoreAt
  <2>2. IsBack(p)
    BY <2>1 DEF Stands, View, IsBack, Restored
  <2>3. /\ \A q \in Listed(vault) : IsBack(q)' <=> IsBack(q)
        /\ Far(cur)' <=> Far(cur)
    BY <2>1, BackKept, FarKept DEF Listed
  <2> QED
    BY <2>1, <2>2, <2>3 DEF CopiesBlobs, OpenIsLive, RestoreRunning, Listed
<1>2. ASSUME NEW p \in Path, RestoreFails(p)
      PROVE  CopiesBlobs' /\ OpenIsLive' /\ RestoreRunning'
  BY <1>2 DEF RestoreFails, RestoreAt, CopiesBlobs, OpenIsLive, RestoreRunning
<1>3. ASSUME NEW p \in Path, RestoreOpen(p)
      PROVE  CopiesBlobs' /\ OpenIsLive' /\ RestoreRunning'
  <2>1. /\ UNCHANGED <<vault, errors, touched>> /\ todo' = todo \ {p}
        /\ step = "visit" /\ step' = "copy" /\ cur' = p /\ Reachable(p) /\ Blob(p) # NoFile
    BY <1>3 DEF RestoreOpen, RestoreAt
  <2>2. /\ \A q \in Path : live'[q] = Link <=> live[q] = Link
        /\ \A q \in Path \ {p} : live[q] \in Bytes => live'[q] = live[q]
    BY <1>3, OpenKeepsLinks
  <2>3. \A q \in Path : Far(q)' <=> Far(q)
    BY <2>2, FarKept, AboveBelow
  <2>4. ~errors => \A q \in Listed(vault) \ (touched \union todo') : IsBack(q)' \/ q = p
    <3> SUFFICES ASSUME ~errors, NEW q \in Listed(vault) \ (touched \union todo'), q # p
                 PROVE  IsBack(q)'
      OBVIOUS
    <3>1. q \in Path /\ IsBack(q)
      BY <2>1 DEF RestoreRunning, Listed
    <3>2. CASE Far(q)
      BY <2>3, <3>1, <3>2 DEF IsBack
    <3>3. CASE Restored(q)
      BY <2>1, <2>2, <3>1, <3>3 DEF IsBack, Restored, Rows, Blob
    <3> QED
      BY <3>1, <3>2, <3>3 DEF IsBack
  <2>5. sink' = "live" \/ Far(p)
    BY <1>3 DEF RestoreOpen
  <2>6. CopiesBlobs' /\ OpenIsLive'
    BY <2>1, <2>3, <2>5 DEF CopiesBlobs, OpenIsLive, Blob, Rows
  <2> QED
    BY <2>1, <2>4, <2>6 DEF RestoreRunning, Listed
<1>4. CASE RestoreWrite
  <2>1. /\ UNCHANGED <<vault, errors, touched, todo>> /\ step = "copy" /\ step' = "visit"
        /\ live' = IF sink = "live" THEN [live EXCEPT ![cur] = Blob(cur)] ELSE live
        /\ cur \in Listed(vault) /\ cur \in Path
    BY <1>4 DEF RestoreWrite, TypeOK, Listed
  <2>2. /\ \A q \in Path : live'[q] = Link <=> live[q] = Link
        /\ \A q \in Path \ {cur} : live'[q] = live[q]
    BY <1>4, WriteKeepsLinks
  <2>3. \A q \in Listed(vault) : q # cur => (IsBack(q)' <=> IsBack(q))
    BY <2>1, <2>2, BackKept, AboveBelow DEF Listed
  <2>4. ASSUME NEW q \in Path, q = cur, q \notin touched
        PROVE  IsBack(q)'
    <3>1. Blob(q) \in Bytes /\ vault' = vault
      BY <2>1, <2>4 DEF CopiesBlobs, Blob, Rows, Listed, TypeOK
    <3>2. Far(q) \/ live'[q] = Blob(q)
      BY <2>1, <2>4 DEF OpenIsLive, TypeOK
    <3>3. Far(q)' <=> Far(q)
      BY <2>2, FarKept, AboveBelow
    <3> QED
      BY <3>1, <3>2, <3>3 DEF IsBack, Restored, Blob, Rows
  <2> QED
    BY <2>1, <2>3, <2>4 DEF CopiesBlobs, OpenIsLive, RestoreRunning, Listed
<1>5. CASE RestoreWriteFails
  BY <1>5 DEF RestoreWriteFails, CopiesBlobs, OpenIsLive, RestoreRunning
<1>6. ~ \/ \E p \in Path : WalkFails(p) \/ WalkMisses(p) \/ VerifyVisit(p)
        \/ RootFails \/ VerifyEnd \/ RestoreEnd
  BY DEF WalkFails, WalkMisses, VerifyVisit, RootFails, VerifyEnd, RestoreEnd, Return,
         AtPrune, AtEntry
<1>7. ~ \/ \E p \in Path : \/ PruneKeep(p) \/ PruneDelete(p) \/ PruneRename(p)
                           \/ PruneCopy(p) \/ PruneFails(p)
        \/ PruneUnlink \/ PruneUnlinkFails \/ PruneEnd
  BY DEF PruneKeep, PruneDelete, PruneRename, PruneCopy, PruneFails, PruneUnlink,
         PruneUnlinkFails, PruneEnd, AtPrune, AtEntry
<1> QED
  BY <1>1, <1>2, <1>3, <1>4, <1>5, <1>6, <1>7 DEF Working

LEMMA RestoreAnswers ==
  ASSUME TypeOK, TreeInv, RestoreRunning, RestoreEnd
  PROVE  CopiesBlobs' /\ OpenIsLive' /\ RestoreTruth'
<1>1. /\ job = "restore" /\ todo = {} /\ step = "visit"
      /\ UNCHANGED <<live, vault, touched>> /\ step' = "visit"
      /\ last' = [cmd |-> "restore", rc |-> IF errors THEN 1 ELSE 0]
  BY DEF RestoreEnd, Return, Forget, tree, history
<1>2. last' = [cmd |-> "restore", rc |-> 0] => ~errors
  BY <1>1
<1>3. ~errors => \A p \in Listed(vault) \ touched : IsBack(p)
  BY <1>1 DEF RestoreRunning
<1>4. RestoreTruth'
  BY <1>1, <1>2, <1>3 DEF RestoreTruth, IsBack, Restored, Far, Blob, Rows, Listed
<1> QED
  BY <1>1, <1>4 DEF CopiesBlobs, OpenIsLive

LEMMA RestoreStep == TypeOK /\ TreeInv /\ RestoreInv /\ [Next]_vars => RestoreInv'
<1> SUFFICES ASSUME TypeOK, TreeInv, RestoreInv, [Next]_vars
             PROVE  RestoreInv'
  OBVIOUS
<1>0. CopiesBlobs /\ OpenIsLive /\ RestoreRunning /\ RestoreTruth
  BY RestoreParts
<1>1. vault' = vault
  BY VaultStep
<1> SUFFICES CopiesBlobs' /\ OpenIsLive' /\ RestoreRunning' /\ RestoreTruth'
  BY DEF RestoreInv, CopiesBlobs, OpenIsLive, RestoreRunning, IsBack
<1>3. CASE UNCHANGED vars \/ Tick
  <2> UNCHANGED <<live, vault, job, todo, errors, last, touched, step, cur, sink>>
    BY <1>3 DEF vars, Tick, tree, copying, history
  <2> QED
    BY <1>0 DEF CopiesBlobs, OpenIsLive, RestoreRunning, RestoreTruth, IsBack, Restored,
                Far, Blob, Rows, Listed
<1>4. ASSUME NEW p \in Path, NEW n \in UserNodes, UserPut(p, n)
      PROVE  CopiesBlobs' /\ OpenIsLive' /\ RestoreRunning' /\ RestoreTruth'
  <2>1. \A q \in Path \ touched' : /\ live'[q] = live[q] /\ q \notin touched
                                   /\ IsBack(q)' <=> IsBack(q)
                                   /\ Far(q)' <=> Far(q)
    BY <1>4, UserMarks, UserMarksAbove, BackKept, FarKept
  <2>2. CopiesBlobs' /\ OpenIsLive'
    <3>1. /\ UNCHANGED <<vault, step, cur>>
          /\ step = "copy" => cur \in Path
          /\ cur \notin touched' => sink' = sink
      BY <1>4 DEF UserPut, TypeOK, Listed
    <3> QED
      BY <1>0, <2>1, <3>1 DEF CopiesBlobs, OpenIsLive, Blob, Rows
  <2>3. RestoreTruth'
    BY <1>0, <1>4, <2>1, UserMarks DEF RestoreTruth, IsBack, Listed
  <2> QED
    BY <1>0, <1>4, <2>1, <2>2, <2>3, UserMarks DEF RestoreRunning, Listed
<1>5. ASSUME NEW cmd \in Commands, Begin(cmd)
      PROVE  CopiesBlobs' /\ OpenIsLive' /\ RestoreRunning' /\ RestoreTruth'
  <2>1. /\ last' = NoResult /\ step' = "visit" /\ vault' = vault
        /\ job' = "restore" => todo' = Listed(vault)
    BY <1>5 DEF Begin, tree, copying, TypeOK
  <2> QED
    BY <2>1 DEF CopiesBlobs, OpenIsLive, RestoreRunning, RestoreTruth, NoResult, Listed
<1>6. ASSUME NEW cmd \in Commands, LoadFails(cmd)
      PROVE  CopiesBlobs' /\ OpenIsLive' /\ RestoreRunning' /\ RestoreTruth'
  <2>1. last'.rc = 1 /\ step' = "visit" /\ job' = "none"
    BY <1>6 DEF LoadFails, copying, TypeOK
  <2> QED
    BY <2>1 DEF CopiesBlobs, OpenIsLive, RestoreRunning, RestoreTruth
<1>7. CASE Crash
  BY <1>7 DEF Crash, Forget, TreeInv, CopiesBlobs, OpenIsLive, RestoreRunning,
              RestoreTruth, NoResult
<1>8. CASE Working
  <2>1. job # "none" /\ last = NoResult
    BY <1>8, WorkingSteps DEF TreeInv
  <2>2. CASE job = "restore" /\ job' = "restore"
    <3>1. last' = last
      BY <1>8, <2>2, WorkingSteps DEF Return
    <3> QED
      BY <1>0, <1>8, <2>1, <2>2, <3>1, RestoreWalks DEF RestoreTruth, NoResult
  <2>3. CASE job = "restore" /\ job' # "restore"
    <3>1. RestoreEnd
      BY <1>8, <2>3
         DEF Working, WalkFails, WalkMisses, VerifyVisit, RootFails, VerifyEnd, RestoreSkip,
             RestoreFails, RestoreOpen, RestoreWrite, RestoreWriteFails,
             PruneKeep, PruneDelete, PruneRename, PruneCopy, PruneFails,
             PruneUnlink, PruneUnlinkFails, PruneEnd, AtPrune, AtEntry
    <3> QED
      BY <1>0, <2>3, <3>1, RestoreAnswers DEF RestoreRunning
  <2>4. CASE job # "restore"
    <3>1. \/ job' = job /\ last' = last
          \/ job' = "none" /\ last'.cmd = job
      BY <1>8, WorkingSteps DEF Return
    <3>2. step' # "copy"
      <4>1. TypeOK'
        BY TypeStep
      <4> QED
        BY <2>4, <3>1, <4>1 DEF TypeOK
    <3> QED
      BY <2>1, <2>4, <3>1, <3>2
         DEF CopiesBlobs, OpenIsLive, RestoreRunning, RestoreTruth, NoResult
  <2> QED
    BY <2>2, <2>3, <2>4
<1> QED
  BY StepKinds, <1>3, <1>4, <1>5, <1>6, <1>7, <1>8

(* "RESTORE COMPLETE" brings back every file of the vault that is left alone *)
(* meanwhile, or what its blob has become, also when earlier restores were   *)
(* killed in the middle of a file and whoever edits and links the rest; but  *)
(* what a link leads away is compared and written outside the tree.          *)
THEOREM RestoreTellsTruth == Spec => []RestoreTruth
<1> DEFINE Inv == TypeOK /\ TreeInv /\ RestoreInv
<1>1. Init => Inv
  BY TypeInit, TreeInit, RestoreInit
<1>2. Inv /\ [Next]_vars => Inv'
  BY TypeStep, TreeStep, RestoreStep
<1>3. Inv => RestoreTruth
  BY DEF RestoreInv
<1> QED
  BY <1>1, <1>2, <1>3, PTL DEF Spec

(* The blobs have the digests of their rows. *)
IntactBlobs == \A p \in Listed(vault) : Hash[Blob(p)] = Rows[p]

(* With the blobs the seal wrote, it is the sealed bytes that come back, by  *)
(* their digest, wherever no link stands at the path or above it             *)
(* (restore_entry).                                                          *)
THEOREM RestoreBringsBack ==
  ASSUME VaultIntact
  PROVE  Spec => [](last = [cmd |-> "restore", rc |-> 0] =>
                      \A p \in Listed(vault) \ touched : Far(p) \/ Matches(p))
<1>1. Init => IntactBlobs
  <2> SUFFICES ASSUME Init PROVE IntactBlobs
    OBVIOUS
  <2>1. vault = SealOf(live) /\ live \in [Path -> Node]
    BY DEF Init, Node, Bytes
  <2> QED
    BY <2>1, SealOfType DEF IntactBlobs, Listed, Blob, Rows
<1>2. TypeOK /\ IntactBlobs /\ [Next]_vars => IntactBlobs'
  BY VaultStep DEF IntactBlobs, Listed, Blob, Rows
<1>3. IntactBlobs /\ RestoreTruth =>
        (last = [cmd |-> "restore", rc |-> 0] =>
           \A p \in Listed(vault) \ touched : Far(p) \/ Matches(p))
  BY DEF IntactBlobs, RestoreTruth, Restored, Matches
<1> QED
  BY <1>1, <1>2, <1>3, HealTypeCorrect, RestoreTellsTruth, PTL DEF Spec

-----------------------------------------------------------------------------
(* prune *)

PruneRunning == job \in {"prune", "delete"} /\ ~errors =>
    \A p \in Path \ (Listed(vault) \union touched \union todo) :
        live[p] \notin Bytes \/ (step = "unlink" /\ p = cur)

LEMMA PruneInit == Init => PruneInv
  BY DEF Init, PruneInv, PruneTruth, NoResult

LEMMA PruneWalks ==
  ASSUME TypeOK, TreeInv, PruneRunning, job \in {"prune", "delete"},
         Working, job' = job
  PROVE  PruneRunning'
<1> USE NodeKinds DEF tree, copying, history, Listed
<1>1. ASSUME NEW p \in Path, WalkFails(p)
      PROVE  PruneRunning'
  BY <1>1 DEF WalkFails, PruneRunning
<1>2. CASE RootFails
  BY <1>2 DEF RootFails, PruneRunning
<1>3. ASSUME NEW p \in Path, WalkMisses(p)
      PROVE  PruneRunning'
  <2>1. /\ UNCHANGED <<live, vault, errors, step, cur>>
        /\ todo' = todo \ ({p} \union Below(p))
        /\ touched' = touched \union {p} \union Below(p)
    BY <1>3 DEF WalkMisses
  <2>2. Path \ (touched' \union todo') \subseteq Path \ (touched \union todo)
    BY <2>1
  <2> QED
    BY <2>1, <2>2 DEF PruneRunning
<1>4. ASSUME NEW p \in Path, PruneKeep(p)
      PROVE  PruneRunning'
  <2>1. /\ UNCHANGED <<live, vault, errors, touched, step, cur>> /\ ~Extra(p)
        /\ todo' = todo \ Passed(p)
    BY <1>4 DEF PruneKeep
  <2>2. \A q \in Passed(p) : live[q] \notin Bytes \/ q \in Listed(vault)
    BY <2>1, PassedIsEmpty DEF Extra
  <2> QED
    BY <2>1, <2>2 DEF PruneRunning
<1>5. ASSUME NEW p \in Path, PruneDelete(p) \/ PruneRename(p)
      PROVE  PruneRunning'
  <2>1. /\ UNCHANGED <<vault, errors, touched, step, cur>>
        /\ live' = [live EXCEPT ![p] = NoFile] /\ todo' = todo \ Passed(p)
    BY <1>5 DEF PruneDelete, PruneRename
  <2>2. \A q \in Passed(p) : live'[q] \notin Bytes
    BY <2>1, PassedIsEmpty DEF TypeOK
  <2>3. \A q \in Path : live'[q] \in Bytes => live[q] \in Bytes
    BY <2>1 DEF TypeOK
  <2> QED
    BY <2>1, <2>2, <2>3 DEF PruneRunning
<1>6. ASSUME NEW p \in Path, PruneCopy(p)
      PROVE  PruneRunning'
  <2>1. /\ UNCHANGED <<live, vault, errors, touched>> /\ step = "visit"
        /\ step' = "unlink" /\ cur' = p /\ todo' = todo \ Passed(p)
    BY <1>6 DEF PruneCopy, AtEntry
  <2>2. \A q \in Passed(p) : q = p \/ live[q] \notin Bytes
    BY PassedIsEmpty
  <2> QED
    BY <2>1, <2>2 DEF PruneRunning
<1>7. ASSUME NEW p \in Path, PruneFails(p)
      PROVE  PruneRunning'
  BY <1>7 DEF PruneFails, PruneRunning
<1>8. CASE PruneUnlink
  <2>1. /\ UNCHANGED <<vault, touched, todo, errors, job>> /\ step = "unlink" /\ cur \in Path
    BY <1>8 DEF PruneUnlink, TypeOK
  <2>2. \A q \in Path : live'[q] = IF q = cur THEN NoFile ELSE live[q]
    BY <1>8, <2>1 DEF PruneUnlink, TypeOK
  <2> QED
    BY <2>1, <2>2 DEF PruneRunning
<1>10. CASE PruneUnlinkFails
  BY <1>10 DEF PruneUnlinkFails, PruneRunning
<1>9. ~ \/ \E p \in Path : \/ VerifyVisit(p) \/ RestoreSkip(p) \/ RestoreFails(p)
                           \/ RestoreOpen(p)
        \/ VerifyEnd \/ RestoreWrite \/ RestoreWriteFails \/ RestoreEnd \/ PruneEnd
  BY DEF VerifyVisit, RestoreSkip, RestoreFails, RestoreOpen, RestoreAt, VerifyEnd,
         RestoreWrite, RestoreWriteFails, RestoreEnd, PruneEnd, Return, AtEntry
<1> QED
  BY <1>1, <1>2, <1>3, <1>4, <1>5, <1>6, <1>7, <1>8, <1>9, <1>10 DEF Working

LEMMA PruneStep == TypeOK /\ TreeInv /\ PruneInv /\ [Next]_vars => PruneInv'
<1> SUFFICES ASSUME TypeOK, TreeInv, PruneInv, [Next]_vars
             PROVE  PruneRunning' /\ PruneTruth'
  BY DEF PruneInv, PruneRunning
<1>0. PruneRunning /\ PruneTruth
  BY DEF PruneInv, PruneRunning
<1>1. CASE UNCHANGED vars \/ Tick
  <2> UNCHANGED <<live, vault, job, todo, errors, last, touched, step, cur>>
    BY <1>1 DEF vars, Tick, tree, copying, history
  <2> QED
    BY <1>0 DEF PruneRunning, PruneTruth, Matches, Rows, Listed
<1>2. ASSUME NEW p \in Path, NEW n \in UserNodes, UserPut(p, n)
      PROVE  PruneRunning' /\ PruneTruth'
  <2>1. \A q \in Path \ touched' : Matches(q)' <=> Matches(q)
    BY <1>2, UserMarks, MatchesKept
  <2> QED
    BY <1>0, <1>2, <2>1, UserMarks DEF PruneRunning, PruneTruth, Listed
<1>3. ASSUME NEW cmd \in Commands, Begin(cmd)
      PROVE  PruneRunning' /\ PruneTruth'
  <2>1. last' = NoResult /\ (job' \in {"prune", "delete"} => todo' = Path)
    BY <1>3 DEF Begin
  <2> QED
    BY <2>1 DEF PruneRunning, PruneTruth, NoResult
<1>4. ASSUME NEW cmd \in Commands, LoadFails(cmd)
      PROVE  PruneRunning' /\ PruneTruth'
  BY <1>4 DEF LoadFails, PruneRunning, PruneTruth
<1>5. CASE Crash
  BY <1>5 DEF Crash, Forget, TreeInv, PruneRunning, PruneTruth, NoResult
<1>6. CASE Working
  <2>1. job # "none" /\ last = NoResult
    BY <1>6, WorkingSteps DEF TreeInv
  <2>2. CASE job' = job
    <3>1. last' = last
      BY <1>6, <2>1, <2>2, WorkingSteps DEF Return
    <3> QED
      BY <1>0, <1>6, <2>1, <2>2, <3>1, PruneWalks DEF PruneRunning, PruneTruth, NoResult
  <2>3. CASE job' # job
    <3>1. PICK rc \in {0, 1, 2} : Return(rc)
      BY <1>6, <2>3, WorkingSteps
    <3>2. CASE job \in {"prune", "delete"} /\ rc = 0
      <4>1. PruneEnd
        BY <1>6, <2>3, <3>2
           DEF Working, WalkFails, WalkMisses, VerifyVisit, RootFails, VerifyEnd, RestoreSkip,
               RestoreFails, RestoreOpen, RestoreAt, RestoreWrite, RestoreWriteFails, RestoreEnd,
               PruneKeep, PruneDelete, PruneRename, PruneCopy, PruneFails, PruneUnlink,
               PruneUnlinkFails, AtPrune, AtEntry
      <4>2. ~errors /\ todo = {} /\ step = "visit"
        BY <3>1, <3>2, <4>1 DEF PruneEnd, Return
      <4>3. UNCHANGED <<live, vault, touched>> /\ job' = "none"
        BY <3>1 DEF Return, tree, history
      <4> QED
        BY <1>0, <3>2, <4>2, <4>3 DEF PruneRunning, PruneTruth, Matches, Rows, Listed
    <3>3. CASE ~(job \in {"prune", "delete"} /\ rc = 0)
      BY <3>1, <3>3 DEF Return, PruneRunning, PruneTruth
    <3> QED
      BY <3>2, <3>3
  <2> QED
    BY <2>2, <2>3
<1> QED
  BY StepKinds, <1>1, <1>2, <1>3, <1>4, <1>5, <1>6

(* "PRUNE COMPLETE", with --delete or without, leaves no file the vault does *)
(* not list where nobody has put one meanwhile.                              *)
THEOREM PruneTellsTruth == Spec => []PruneTruth
<1>1. Init => TypeOK /\ TreeInv /\ PruneInv
  BY TypeInit, TreeInit, PruneInit
<1>2. TypeOK /\ TreeInv /\ PruneInv /\ [Next]_vars => (TypeOK /\ TreeInv /\ PruneInv)'
  BY TypeStep, TreeStep, PruneStep
<1>3. PruneInv => PruneTruth
  BY DEF PruneInv
<1> QED
  BY <1>1, <1>2, <1>3, PTL DEF Spec

-----------------------------------------------------------------------------
(* The quarantine. *)

(* Nothing that was ever put into the quarantine is written over. *)
QuarantineGrows == \A s \in Stamp, p \in Path :
    quarantine[s][p] \in Bytes => quarantine'[s][p] = quarantine[s][p]

NoPlaceTwice == job = "prune" => \A p \in todo : quarantine[stamp][p] \notin Bytes
CopiedFirst  == step = "unlink" /\ cur \notin late => quarantine[stamp][cur] = live[cur]

LEMMA QuarantineInit == Init => QuarantineInv
  BY DEF Init, QuarantineInv, QuarantineKeeps

(* A file goes to its own place; what is below it in the walk stays free. *)
LEMMA Placing ==
  ASSUME TypeOK, NoPlaceTwice, NEW p \in todo, NEW b \in Bytes, job = "prune",
         Placeable(p), quarantine' = Placed(p, b), stamp' = stamp,
         job' = "prune", todo' = todo \ Passed(p)
  PROVE  QuarantineGrows /\ NoPlaceTwice' /\ quarantine'[stamp][p] = b
<1>1. p \in Path /\ p \in Passed(p) /\ stamp \in Stamp
  BY DEF TypeOK, Passed
<1>2. \A s \in Stamp, q \in Path :
        quarantine'[s][q] = IF s # stamp THEN quarantine[s][q]
                            ELSE IF q = p THEN b
                            ELSE IF q \in Above[p] THEN Dir ELSE quarantine[s][q]
  BY <1>1 DEF Placed, TypeOK
<1>3. quarantine[stamp][p] \notin Bytes
      /\ \A q \in Above[p] : quarantine[stamp][q] \notin Bytes
  BY NodeKinds DEF NoPlaceTwice, Placeable
<1>4. QuarantineGrows
  BY <1>1, <1>2, <1>3 DEF QuarantineGrows
<1>5. NoPlaceTwice'
  <2>1. \A q \in todo' : q \in Path /\ q # p /\ q \in todo
    BY <1>1 DEF TypeOK
  <2> QED
    BY <1>1, <1>2, <2>1, NodeKinds DEF NoPlaceTwice
<1> QED
  BY <1>1, <1>2, <1>4, <1>5

(* The quarantine only moves when a prune places one file in it. *)
LEMMA QuarantineMoves ==
  ASSUME TypeOK, NoPlaceTwice, CopiedFirst, Working
  PROVE  /\ QuarantineGrows /\ NoPlaceTwice' /\ CopiedFirst'
         /\ \A file \in taken' \ taken :
              file[1] \notin late => \E s \in Stamp : quarantine'[s][file[1]] = file[2]
         /\ late' = late
<1> DEFINE Goal == /\ QuarantineGrows /\ NoPlaceTwice' /\ CopiedFirst'
                   /\ \A file \in taken' \ taken :
                        file[1] \notin late =>
                          \E s \in Stamp : quarantine'[s][file[1]] = file[2]
                   /\ late' = late
<1> SUFFICES Goal
  OBVIOUS
<1> USE DEF tree, clock, copying, history
<1>1. ASSUME UNCHANGED <<quarantine, stamp, taken, late>>, step' # "unlink",
             (job' = job /\ todo' \subseteq todo) \/ job' = "none"
      PROVE  Goal
  BY <1>1 DEF QuarantineGrows, NoPlaceTwice, CopiedFirst
<1>2. ASSUME NEW p \in Path, PruneRename(p)
      PROVE  Goal
  <2>1. /\ p \in todo /\ job = "prune" /\ step = "visit" /\ live[p] \in Bytes
        /\ Placeable(p) /\ quarantine' = Placed(p, live[p])
        /\ taken' = taken \union {<<p, live[p]>>}
        /\ UNCHANGED <<stamp, job, step, late>> /\ todo' = todo \ Passed(p)
    BY <1>2 DEF PruneRename, AtEntry, Extra
  <2>2. QuarantineGrows /\ NoPlaceTwice' /\ quarantine'[stamp][p] = live[p]
    BY <2>1, Placing
  <2>3. stamp \in Stamp
    BY DEF TypeOK
  <2> QED
    BY <2>1, <2>2, <2>3 DEF CopiedFirst
<1>3. ASSUME NEW p \in Path, PruneCopy(p)
      PROVE  Goal
  <2>1. /\ p \in todo /\ job = "prune" /\ live[p] \in Bytes
        /\ Placeable(p) /\ quarantine' = Placed(p, live[p]) /\ cur' = p
        /\ UNCHANGED <<live, stamp, job, taken, late>> /\ todo' = todo \ Passed(p)
    BY <1>3 DEF PruneCopy, AtEntry, Extra
  <2>2. QuarantineGrows /\ NoPlaceTwice' /\ quarantine'[stamp][p] = live[p]
    BY <2>1, Placing
  <2> QED
    BY <2>1, <2>2 DEF CopiedFirst
<1>4. ASSUME NEW p \in Path, PruneFails(p)
      PROVE  Goal
  <2>1. /\ p \in todo /\ step = "visit" /\ job' = job
        /\ UNCHANGED <<stamp, step, taken, late>> /\ todo' = todo \ Passed(p)
        /\ \/ quarantine' = quarantine
           \/ job = "prune" /\ Placeable(p) /\ quarantine' = Placed(p, Torn)
    BY <1>4 DEF PruneFails, AtPrune, AtEntry
  <2>2. CASE quarantine' = quarantine
    BY <1>1, <2>1, <2>2
  <2>3. CASE job = "prune" /\ Placeable(p) /\ quarantine' = Placed(p, Torn)
    BY <2>1, <2>3, Placing, NodeKinds DEF CopiedFirst
  <2> QED
    BY <2>1, <2>2, <2>3
<1>5. CASE PruneUnlink
  <2>1. /\ step = "unlink" /\ step' = "visit" /\ cur \in Path /\ stamp \in Stamp
        /\ UNCHANGED <<quarantine, stamp, job, todo, late>>
        /\ taken' \subseteq taken \union {<<cur, live[cur]>>}
    BY <1>5 DEF PruneUnlink, TypeOK
  <2>2. cur \notin late => quarantine'[stamp][cur] = live[cur]
    BY <2>1 DEF CopiedFirst
  <2> QED
    BY <2>1, <2>2 DEF QuarantineGrows, NoPlaceTwice, CopiedFirst
<1>12. CASE PruneUnlinkFails
  <2>1. UNCHANGED <<quarantine, stamp, taken, late, job, todo>> /\ step' = "visit"
    BY <1>12 DEF PruneUnlinkFails
  <2> QED
    BY <1>1, <2>1
<1>6. CASE \E p \in Path : \/ WalkFails(p) \/ WalkMisses(p) \/ VerifyVisit(p)
                           \/ RestoreSkip(p) \/ PruneKeep(p)
  <2>1. /\ UNCHANGED <<quarantine, stamp, taken, late, job, step>> /\ step = "visit"
        /\ todo' \subseteq todo
    BY <1>6 DEF WalkFails, WalkMisses, VerifyVisit, RestoreSkip, RestoreAt, PruneKeep,
                AtPrune, AtEntry
  <2> QED
    BY <1>1, <2>1
<1>7. CASE RootFails
  <2>1. UNCHANGED <<quarantine, stamp, taken, late, job, step>> /\ step = "visit" /\ todo' = {}
    BY <1>7 DEF RootFails
  <2> QED
    BY <1>1, <2>1
<1>8. CASE \E p \in Path : RestoreFails(p) \/ RestoreOpen(p)
  <2>1. /\ UNCHANGED <<quarantine, stamp, taken, late, job>> /\ step' # "unlink"
        /\ todo' \subseteq todo
    BY <1>8 DEF RestoreFails, RestoreOpen, RestoreAt
  <2> QED
    BY <1>1, <2>1
<1>9. CASE \E p \in Path : PruneDelete(p)
  <2>1. /\ UNCHANGED <<quarantine, stamp, taken, late, job, step>> /\ step = "visit"
        /\ todo' \subseteq todo
    BY <1>9 DEF PruneDelete, AtEntry
  <2> QED
    BY <1>1, <2>1
<1>10. CASE RestoreWrite \/ RestoreWriteFails
  <2>1. UNCHANGED <<quarantine, stamp, taken, late, job, todo>> /\ step' = "visit"
    BY <1>10 DEF RestoreWrite, RestoreWriteFails
  <2> QED
    BY <1>1, <2>1
<1>11. CASE VerifyEnd \/ RestoreEnd \/ PruneEnd
  <2>1. UNCHANGED <<quarantine, stamp, taken, late>> /\ step' = "visit" /\ job' = "none"
    BY <1>11 DEF VerifyEnd, RestoreEnd, PruneEnd, Return, Forget
  <2> QED
    BY <1>1, <2>1
<1> QED
  BY <1>2, <1>3, <1>4, <1>5, <1>6, <1>7, <1>8, <1>9, <1>10, <1>11, <1>12 DEF Working

LEMMA QuarantineStep ==
  ASSUME TypeOK, QuarantineInv, [Next]_vars,
         job = "none" /\ job' = "prune" =>
           FreshSecond \/ \A p \in Path : quarantine[now][p] = NoFile
  PROVE  QuarantineInv'
<1> SUFFICES NoPlaceTwice' /\ CopiedFirst' /\ QuarantineKeeps'
  BY DEF QuarantineInv, NoPlaceTwice, CopiedFirst
<1>0. NoPlaceTwice /\ CopiedFirst /\ QuarantineKeeps
  BY DEF QuarantineInv, NoPlaceTwice, CopiedFirst
<1>1. \A file \in taken : file[1] \in Path /\ file[2] \in Bytes
  BY DEF TypeOK
<1>2. CASE UNCHANGED vars \/ Tick
  <2> UNCHANGED <<live, quarantine, stamp, job, todo, step, cur, taken, late>>
    BY <1>2 DEF vars, Tick, tree, clock, copying, history
  <2> QED
    BY <1>0 DEF NoPlaceTwice, CopiedFirst, QuarantineKeeps
<1>3. ASSUME NEW p \in Path, NEW n \in UserNodes, UserPut(p, n)
      PROVE  NoPlaceTwice' /\ CopiedFirst' /\ QuarantineKeeps'
  <2>1. UNCHANGED <<quarantine, stamp, job, todo, step, cur, taken>>
    BY <1>3, UserMarks
  <2>2. late \subseteq late'
        /\ (step = "unlink" /\ cur \notin late' => live'[cur] = live[cur])
    BY <1>3 DEF UserPut, TypeOK
  <2> QED
    BY <1>0, <2>1, <2>2 DEF NoPlaceTwice, CopiedFirst, QuarantineKeeps
<1>4. ASSUME NEW cmd \in Commands, Begin(cmd)
      PROVE  NoPlaceTwice' /\ CopiedFirst' /\ QuarantineKeeps'
  <2>1. /\ UNCHANGED <<live, quarantine, step, taken, late>> /\ step = "visit"
        /\ stamp' = now /\ job' = cmd /\ (cmd = "prune" => todo' = Path)
        /\ cmd = "prune" => \A p \in Path : quarantine[now][p] = NoFile
    BY <1>4 DEF Begin, tree, copying, TypeOK
  <2> QED
    BY <1>0, <2>1, NodeKinds DEF NoPlaceTwice, CopiedFirst, QuarantineKeeps
<1>5. ASSUME NEW cmd \in Commands, LoadFails(cmd)
      PROVE  NoPlaceTwice' /\ CopiedFirst' /\ QuarantineKeeps'
  BY <1>0, <1>5 DEF LoadFails, tree, clock, copying, NoPlaceTwice, CopiedFirst,
                    QuarantineKeeps
<1>6. CASE Crash
  BY <1>0, <1>6 DEF Crash, Forget, tree, clock, history, NoPlaceTwice, CopiedFirst,
                    QuarantineKeeps
<1>7. CASE Working
  <2>1. /\ QuarantineGrows /\ NoPlaceTwice' /\ CopiedFirst' /\ late' = late
        /\ \A file \in taken' \ taken :
             file[1] \notin late => \E s \in Stamp : quarantine'[s][file[1]] = file[2]
    BY <1>0, <1>7, QuarantineMoves
  <2>2. \A file \in taken :
          file[1] \notin late => \E s \in Stamp : quarantine'[s][file[1]] = file[2]
    BY <1>0, <1>1, <2>1 DEF QuarantineKeeps, QuarantineGrows
  <2> QED
    BY <2>1, <2>2 DEF QuarantineKeeps
<1> QED
  BY StepKinds, <1>2, <1>3, <1>4, <1>5, <1>6, <1>7

(* When no two prunes start in one second, whatever prune takes out of the   *)
(* tree stays in the quarantine in the bytes it had, through failed renames, *)
(* kills and later prunes, unless it was saved again between the copy and    *)
(* the unlink.                                                               *)
THEOREM QuarantineIsKept ==
  ASSUME FreshSecond
  PROVE  Spec => []QuarantineKeeps
<1> DEFINE Inv == TypeOK /\ TreeInv /\ QuarantineInv
<1>1. Init => Inv
  BY TypeInit, TreeInit, QuarantineInit
<1>2. Inv /\ [Next]_vars => Inv'
  BY TypeStep, TreeStep, QuarantineStep
<1>3. Inv => QuarantineKeeps
  BY DEF QuarantineInv
<1> QED
  BY <1>1, <1>2, <1>3, PTL DEF Spec

=============================================================================
