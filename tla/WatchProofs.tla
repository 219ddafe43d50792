------------------------------ MODULE WatchProofs ------------------------------
(***************************************************************************)
(* A watch is a series of the commands of Heal, so what is proved of them  *)
(* holds inside it, and its own report is true as well.                    *)
(***************************************************************************)
EXTENDS Watch, HealProofs

-----------------------------------------------------------------------------
(* The commands a watch calls are those of Heal. *)

LEMMA SleepIsTick ==
  ASSUME TypeOK, Sleep
  PROVE  Tick \/ UNCHANGED vars
<1>1. UNCHANGED <<tree, stamp, job, todo, seen, damage, errors, copying, last,
                  edits, faults, history>>
  BY DEF Sleep
<1>2. now' = now \/ (now' = now + 1 /\ now' \in Stamp)
  BY DEF Sleep
<1>3. now' = now + 1 /\ now' \in Stamp => now < MaxStamp
  BY HealAssumption DEF TypeOK, Stamp
<1> QED
  BY <1>1, <1>2, <1>3 DEF Tick, vars, clock

LEMMA CommandsKnown == \A s \in DOMAIN Command : Command[s] \in Commands
  BY DEF Command, Commands

LEMMA CallIsCommand ==
  ASSUME WatchTypeOK, Call
  PROVE  \E cmd \in Commands : Begin(cmd) \/ LoadFails(cmd)
<1>1. Command[stage] \in Commands
  BY CommandsKnown DEF Call, WatchTypeOK
<1> QED
  BY <1>1 DEF Call

LEMMA WatchStepIsHealStep ==
  ASSUME WatchTypeOK, [WatchNext]_wvars
  PROVE  [Next]_vars
<1>1. CASE UNCHANGED wvars
  BY <1>1 DEF wvars
<1>2. CASE Call
  BY <1>2, CallIsCommand DEF Next
<1>3. CASE Returned
  BY <1>3 DEF Returned
<1>4. CASE Sleep
  BY <1>4, SleepIsTick DEF Next, WatchTypeOK
<1>5. CASE Working \/ User
  BY <1>5 DEF Next
<1> QED
  BY <1>1, <1>2, <1>3, <1>4, <1>5 DEF WatchNext, Program

-----------------------------------------------------------------------------
(* The loop around them. *)

(* Where the loop goes next; it comes to the sleep from a verify only. *)
LEMMA FollowingStage ==
  ASSUME stage \in DOMAIN Command, NEW rc
  PROVE  /\ Following(rc) \in DOMAIN Command \union {"sleep"}
         /\ Following(rc) = "sleep" /\ (AutoRestore \/ AutoPrune) =>
              Command[stage] = "verify" /\ (stage = "check" => rc = 0)
         /\ Following(rc) # "check"
         /\ Following(rc) = "restore" => stage = "check"
         /\ Following(rc) = "prune" => stage \in {"check", "restore"}
<1> stage \in {"check", "restore", "prune", "post"}
  BY DEF Command
<1> QED
  BY DEF Following, AfterCheck, Command

LEMMA WatchTypeInit == WatchInit => WatchTypeOK
<1> SUFFICES ASSUME WatchInit PROVE WatchTypeOK
  OBVIOUS
<1>1. TypeOK /\ job = "none"
  BY TypeInit DEF WatchInit, Init
<1>2. stage \in DOMAIN Command /\ 0 \in 0 .. Cycles
  BY WatchAssumption DEF WatchInit, Command
<1> QED
  BY <1>1, <1>2 DEF WatchInit, WatchTypeOK

LEMMA WatchTypeStep ==
  ASSUME WatchTypeOK, LoopInv, TreeInv, [WatchNext]_wvars
  PROVE  WatchTypeOK'
<1> USE WatchAssumption
<1>1. TypeOK'
  BY TypeStep, WatchStepIsHealStep DEF WatchTypeOK
<1> SUFFICES /\ stage' \in DOMAIN Command \union {"sleep"}
             /\ called' \in BOOLEAN /\ failed' \in BOOLEAN
             /\ cycle' \in 0 .. Cycles
             /\ ended' \in {"running", "COMPLETE", "ERRORS"}
             /\ job' # "none" => called' /\ job' = Command[stage']
  BY <1>1 DEF WatchTypeOK, Command
<1> USE DEF WatchTypeOK
<1>2. CASE UNCHANGED <<job, loop>>
  BY <1>2 DEF loop
<1>3. CASE Call
  BY <1>3 DEF Call, Begin, LoadFails
<1>4. CASE Returned
  <2>1. /\ stage' \in DOMAIN Command \union {"sleep"} /\ called' = FALSE
        /\ UNCHANGED <<cycle, ended>> /\ job' = "none"
    BY <1>4, FollowingStage DEF Returned, LoopInv, vars
  <2>2. failed' \in BOOLEAN
    BY <1>4 DEF Returned
  <2> QED
    BY <2>1, <2>2
<1>5. CASE Sleep
  <2>1. /\ UNCHANGED <<job, called, failed>> /\ stage = "sleep"
        /\ stage' \in {"check", "sleep"} /\ ended = "running"
        /\ ended' \in {"running", "COMPLETE", "ERRORS"}
        /\ cycle' = IF Cycles = 0 THEN 0 ELSE cycle + 1
    BY <1>5 DEF Sleep
  <2>2. cycle' \in 0 .. Cycles
    BY <2>1 DEF LoopInv
  <2>3. job = "none"
    BY <2>1 DEF LoopInv
  <2> QED
    BY <2>1, <2>2, <2>3 DEF Command
<1>6. CASE Working /\ UNCHANGED loop
  BY <1>6, WorkingSteps DEF loop, Return
<1>7. CASE User /\ UNCHANGED loop
  BY <1>2, <1>7 DEF User, UserPut
<1>8. CASE UNCHANGED wvars
  BY <1>2, <1>8 DEF wvars, vars
<1> QED
  BY <1>3, <1>4, <1>5, <1>6, <1>7, <1>8 DEF WatchNext, Program

LEMMA LoopInit == WatchInit => LoopInv /\ CleanSleep
  BY WatchAssumption DEF WatchInit, LoopInv, CleanSleep

LEMMA LoopStep ==
  ASSUME WatchTypeOK, LoopInv, [WatchNext]_wvars
  PROVE  LoopInv'
<1> USE WatchAssumption DEF WatchTypeOK
<1>1. CASE UNCHANGED <<job, last, loop>>
  BY <1>1 DEF LoopInv, loop
<1>2. CASE Call
  <2>1. /\ stage # "sleep" /\ called' /\ ended = "running"
        /\ UNCHANGED <<stage, cycle, failed, ended>>
    BY <1>2 DEF Call
  <2>2. job' # "none" \/ last'.cmd = Command[stage]
    <3>1. Command[stage] # "none"
      BY <2>1, CommandsKnown DEF Commands
    <3> QED
      BY <1>2, <3>1 DEF Call, Begin, LoadFails
  <2> QED
    BY <2>1, <2>2 DEF LoopInv
<1>3. CASE Returned
  BY <1>3 DEF Returned, LoopInv
<1>4. CASE Sleep
  <2>1. /\ UNCHANGED <<called, failed>> /\ stage = "sleep"
        /\ ended = "running" /\ cycle' = IF Cycles = 0 THEN 0 ELSE cycle + 1
        /\ \/ Cycles # 0 /\ cycle' = Cycles /\ stage' = "sleep"
              /\ ended' = IF failed THEN "ERRORS" ELSE "COMPLETE"
           \/ ~(Cycles # 0 /\ cycle' = Cycles) /\ stage' = "check" /\ ended' = "running"
    BY <1>4 DEF Sleep
  <2> QED
    BY <2>1 DEF LoopInv
<1>5. CASE Working /\ UNCHANGED loop
  <2>1. job # "none" /\ called /\ stage # "sleep" /\ job = Command[stage]
    BY <1>5, WorkingSteps DEF LoopInv
  <2>2. job' = job \/ last'.cmd = job
    BY <1>5, WorkingSteps DEF Return
  <2> QED
    BY <1>5, <2>1, <2>2 DEF LoopInv, loop
<1>6. CASE User /\ UNCHANGED loop
  BY <1>1, <1>6 DEF User, UserPut
<1>7. CASE UNCHANGED wvars
  BY <1>1, <1>7 DEF wvars, vars
<1> QED
  BY <1>2, <1>3, <1>4, <1>5, <1>6, <1>7 DEF WatchNext, Program

LEMMA CleanSleepStep ==
  ASSUME AutoRestore \/ AutoPrune,
         WatchTypeOK, LoopInv, VerifyInv, CleanSleep, [WatchNext]_wvars
  PROVE  CleanSleep'
<1> USE DEF CleanSleep, WatchTypeOK
<1>1. CASE UNCHANGED <<live, vault, touched, stage, failed>>
  BY <1>1 DEF Matches, Rows, Listed
<1>2. CASE Call
  BY <1>2 DEF Call
<1>3. CASE Returned
  <2>1. /\ stage \in DOMAIN Command /\ stage' = Following(last.rc)
        /\ last.cmd = Command[stage] /\ UNCHANGED <<live, vault, touched>>
        /\ ~failed' => stage = "check" \/ last.rc = 0
    BY <1>3 DEF Returned, LoopInv, vars, tree, history
  <2>2. ASSUME stage' = "sleep", ~failed'
        PROVE  \A p \in Path \ touched : Matches(p)
    <3>1. last.cmd = "verify" /\ last.rc = 0
      BY <2>1, <2>2, FollowingStage
    <3> QED
      BY <3>1 DEF VerifyInv, VerifyTruth
  <2> QED
    BY <2>1, <2>2 DEF Matches, Rows, Listed
<1>4. CASE Sleep
  <2>1. UNCHANGED <<live, vault, touched, failed>> /\ stage = "sleep"
    BY <1>4 DEF Sleep, tree, history
  <2> QED
    BY <2>1 DEF Matches, Rows, Listed
<1>5. CASE Working /\ UNCHANGED loop
  <2>1. stage # "sleep"
    BY <1>5, WorkingSteps DEF LoopInv
  <2> QED
    BY <1>5, <2>1 DEF loop
<1>6. ASSUME NEW p \in Path, NEW n \in UserNodes, UserPut(p, n), UNCHANGED loop
      PROVE  CleanSleep'
  <2>1. \A q \in Path \ touched' : Matches(q)' <=> Matches(q)
    BY <1>6, UserMarks, MatchesKept
  <2> QED
    BY <1>6, <2>1, UserMarks DEF loop
<1>7. CASE UNCHANGED wvars
  BY <1>1, <1>7 DEF wvars, vars, tree, history, loop
<1> QED
  BY <1>2, <1>3, <1>4, <1>5, <1>6, <1>7 DEF WatchNext, Program, User

(* What every watch keeps, healing or not. *)
BaseInv == WatchTypeOK /\ LoopInv /\ TreeInv

LEMMA BaseInit == WatchInit => BaseInv
  BY WatchTypeInit, LoopInit, TreeInit DEF WatchInit, BaseInv

LEMMA BaseStep == BaseInv /\ [WatchNext]_wvars => BaseInv'
<1> SUFFICES ASSUME WatchTypeOK, LoopInv, TreeInv, [WatchNext]_wvars PROVE BaseInv'
  BY DEF BaseInv
<1>1. TreeInv'
  BY WatchStepIsHealStep, TreeStep DEF WatchTypeOK
<1> QED
  BY <1>1, WatchTypeStep, LoopStep DEF BaseInv

(* Every variable of a watch keeps its type, and a command runs only in the  *)
(* stage that calls it.                                                      *)
THEOREM WatchTypeCorrect == WatchSpec => []WatchTypeOK
<1>1. BaseInv => WatchTypeOK
  BY DEF BaseInv
<1> QED
  BY <1>1, BaseInit, BaseStep, PTL DEF WatchSpec

(* A watch is a series of verify, restore and prune commands that run one at *)
(* a time, on a tree a user changes: whatever holds of the commands for any  *)
(* order in which they are called holds inside a watch.                      *)
THEOREM WatchIsHeal == WatchSpec => Spec
<1>1. WatchInit => Init
  BY DEF WatchInit
<1>2. BaseInv /\ [WatchNext]_wvars => [Next]_vars
  BY WatchStepIsHealStep DEF BaseInv
<1> QED
  BY <1>1, <1>2, BaseInit, BaseStep, PTL DEF WatchSpec, Spec

(* A watch with --auto-restore or --auto-prune that reports COMPLETE leaves  *)
(* every path untouched since its last verify as the vault says it should be, *)
(* whatever failed in earlier cycles and whoever edits meanwhile.            *)
THEOREM WatchTellsTruth ==
  ASSUME AutoRestore \/ AutoPrune
  PROVE  WatchSpec => []WatchVerdict
<1> DEFINE Inv == BaseInv /\ VerifyInv /\ CleanSleep
<1>1. WatchInit => Inv
  BY BaseInit, VerifyInit, LoopInit DEF WatchInit
<1>2. Inv /\ [WatchNext]_wvars => Inv'
  <2> SUFFICES ASSUME BaseInv, VerifyInv, CleanSleep, [WatchNext]_wvars PROVE Inv'
    OBVIOUS
  <2>1. WatchTypeOK /\ TypeOK /\ LoopInv /\ TreeInv
    BY DEF BaseInv, WatchTypeOK
  <2>2. VerifyInv'
    BY <2>1, WatchStepIsHealStep, VerifyStep
  <2> QED
    BY <2>1, <2>2, BaseStep, CleanSleepStep
<1>3. Inv => WatchVerdict
  BY DEF BaseInv, LoopInv, CleanSleep, WatchVerdict
<1> QED
  BY <1>1, <1>2, <1>3, PTL DEF WatchSpec

-----------------------------------------------------------------------------
(* The quarantine of a watch. *)

LEMMA FreshInit == WatchInit => WatchFresh
  BY HealAssumption DEF WatchInit, Init, WatchFresh, Stamp

(* A working command writes the quarantine only if it is a prune, and only   *)
(* under the second that prune started in.                                   *)
LEMMA WorkingQuarantine ==
  ASSUME TypeOK, Working
  PROVE  /\ \A s \in Stamp, p \in Path :
              s # stamp => quarantine'[s][p] = quarantine[s][p]
         /\ job # "prune" => quarantine' = quarantine
<1>1. CASE quarantine' = quarantine
  BY <1>1
<1>2. ASSUME NEW p \in Path, NEW b, quarantine' = Placed(p, b), job = "prune"
      PROVE  \A s \in Stamp, q \in Path :
               s # stamp => quarantine'[s][q] = quarantine[s][q]
  BY <1>2 DEF Placed, TypeOK
<1>3. CASE \E p \in Path : PruneRename(p) \/ PruneCopy(p) \/ PruneFails(p)
  <2>1. \/ quarantine' = quarantine
        \/ job = "prune" /\ \E p \in Path : \E b \in Bytes : quarantine' = Placed(p, b)
    BY <1>3, NodeKinds DEF PruneRename, PruneCopy, PruneFails, AtEntry, Extra
  <2> QED
    BY <1>2, <2>1
<1>4. CASE \E p \in Path : \/ WalkFails(p) \/ WalkMisses(p) \/ VerifyVisit(p)
                           \/ RestoreSkip(p) \/ RestoreFails(p) \/ RestoreOpen(p)
                           \/ PruneKeep(p) \/ PruneDelete(p)
  BY <1>1, <1>4 DEF WalkFails, WalkMisses, VerifyVisit, RestoreSkip, RestoreFails,
                    RestoreOpen, PruneKeep, PruneDelete, tree
<1>5. CASE \/ RootFails \/ VerifyEnd \/ RestoreWrite \/ RestoreWriteFails
           \/ RestoreEnd \/ PruneUnlink \/ PruneUnlinkFails \/ PruneEnd
  BY <1>1, <1>5 DEF RootFails, VerifyEnd, RestoreWrite, RestoreWriteFails, RestoreEnd,
                    PruneUnlink, PruneUnlinkFails, PruneEnd, Return, tree
<1> QED
  BY <1>3, <1>4, <1>5 DEF Working

LEMMA FreshStep ==
  ASSUME WatchTypeOK, LoopInv, WatchFresh, [WatchNext]_wvars
  PROVE  WatchFresh'
<1> USE DEF WatchFresh, WatchTypeOK
<1>1. CASE UNCHANGED <<job, stamp, now, quarantine, stage, called>>
  BY <1>1
<1>2. CASE Call
  <2>1. /\ ~called /\ called' /\ UNCHANGED <<stage, now, quarantine>>
        /\ job' = "none" \/ stamp' = now
    BY <1>2 DEF Call, Begin, LoadFails, tree, clock
  <2> QED
    BY <2>1
<1>3. CASE Returned
  <2>1. /\ called /\ job = "none" /\ stage \in DOMAIN Command /\ stage' = Following(last.rc)
        /\ UNCHANGED <<now, quarantine, job>>
    BY <1>3 DEF Returned, LoopInv, vars, tree, clock
  <2> QED
    BY <2>1, FollowingStage
<1>4. CASE Sleep
  <2>1. /\ stage = "sleep" /\ job = "none" /\ UNCHANGED <<job, quarantine>>
    BY <1>4 DEF Sleep, LoopInv, tree
  <2>2. CASE stage' = "sleep" /\ now' = now
    BY <2>1, <2>2
  <2>3. CASE stage' = "check" /\ now' \in Stamp
             /\ now' = IF Used(now) THEN now + 1 ELSE now
    BY <2>1, <2>3 DEF Used, Stamp, TypeOK
  <2> QED
    BY <1>4, <2>2, <2>3 DEF Sleep
<1>5. CASE Working /\ UNCHANGED loop
  <2>1. job # "none" /\ UNCHANGED <<now, stamp, stage, called>> /\ called
    BY <1>5, WorkingSteps DEF loop, clock
  <2>2. stage \in {"check", "restore"} => job # "prune"
    BY <2>1 DEF Command
  <2>3. \A s \in Stamp : s > now => s # stamp
    BY <2>1 DEF Stamp, TypeOK
  <2> QED
    BY <1>5, <2>1, <2>2, <2>3, WorkingQuarantine DEF TypeOK
<1>6. CASE User /\ UNCHANGED loop
  BY <1>1, <1>6 DEF User, UserPut, loop, clock
<1>7. CASE UNCHANGED wvars
  BY <1>1, <1>7 DEF wvars, vars, tree, clock, loop
<1> QED
  BY <1>2, <1>3, <1>4, <1>5, <1>6, <1>7 DEF WatchNext, Program

LEMMA WatchQuarantineStep ==
  ASSUME WatchTypeOK, LoopInv, WatchFresh, QuarantineInv, [WatchNext]_wvars
  PROVE  QuarantineInv'
<1>1. TypeOK /\ [Next]_vars
  BY WatchStepIsHealStep DEF WatchTypeOK
<1>2. ASSUME job = "none", job' = "prune"
      PROVE  \A p \in Path : quarantine[now][p] = NoFile
  <2>1. Call
    BY <1>2, WorkingSteps
       DEF WatchNext, Program, Returned, Sleep, User, UserPut, wvars, vars, WatchTypeOK
  <2>2. ~called /\ Command[stage] = "prune" /\ stage \in DOMAIN Command
    BY <1>2, <2>1 DEF Call, Begin, LoadFails, WatchTypeOK
  <2>3. stage = "prune"
    BY <2>2 DEF Command
  <2> QED
    BY <2>2, <2>3 DEF WatchFresh
<1> QED
  BY <1>1, <1>2, QuarantineStep

(* A watch never writes over what an earlier of its cycles put into the      *)
(* quarantine, since it sleeps past every second in which a prune moved a    *)
(* file: here FreshSecond is not assumed.                                    *)
THEOREM WatchKeepsQuarantine == WatchSpec => []QuarantineKeeps
<1> DEFINE Inv == BaseInv /\ WatchFresh /\ QuarantineInv
<1>1. WatchInit => Inv
  BY BaseInit, FreshInit, QuarantineInit DEF WatchInit
<1>2. Inv /\ [WatchNext]_wvars => Inv'
  BY BaseStep, FreshStep, WatchQuarantineStep DEF BaseInv
<1>3. Inv => QuarantineKeeps
  BY DEF QuarantineInv
<1> QED
  BY <1>1, <1>2, <1>3, PTL DEF WatchSpec

=============================================================================
