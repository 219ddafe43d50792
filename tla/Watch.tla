-------------------------------- MODULE Watch --------------------------------
(***************************************************************************)
(* `ivault watch`: the loop that runs verify, then restore, prune and a     *)
(* second verify when the first did not answer 0, and sleeps.  The three   *)
(* commands are those of module Heal; watch calls them one after the other *)
(* and reads nothing but their exit codes.                                 *)
(***************************************************************************)
EXTENDS Heal

CONSTANTS
    AutoRestore, AutoPrune,     \* --auto-restore, --auto-prune
    DeleteMode,                 \* --delete
    Cycles                      \* --cycles; 0 is for ever

ASSUME WatchAssumption ==
    {AutoRestore, AutoPrune, DeleteMode} \subseteq BOOLEAN /\ Cycles \in Nat

VARIABLES
    stage,      \* where in the cycle the loop is
    called,     \* the command of this stage was called
    cycle,
    failed,     \* error_events > 0
    ended       \* what the report says: exit code 0 is "COMPLETE", 1 is "ERRORS"

loop  == <<stage, called, cycle, failed, ended>>
wvars == <<vars, loop>>

Command == [check |-> "verify", restore |-> "restore",
            prune |-> IF DeleteMode THEN "delete" ELSE "prune", post |-> "verify"]

WatchTypeOK ==
    /\ TypeOK
    /\ stage \in DOMAIN Command \union {"sleep"}
    /\ called \in BOOLEAN /\ failed \in BOOLEAN
    /\ cycle \in 0 .. Cycles
    /\ ended \in {"running", "COMPLETE", "ERRORS"}
    /\ job # "none" => called /\ job = Command[stage]

WatchInit ==
    /\ Init
    /\ stage = "check" /\ called = FALSE /\ cycle = 0 /\ failed = FALSE
    /\ ended = "running"

Call ==
    /\ ended = "running" /\ ~called /\ stage # "sleep"
    /\ Begin(Command[stage]) \/ LoadFails(Command[stage])
    /\ called' = TRUE
    /\ UNCHANGED <<stage, cycle, failed, ended>>

(* verify's exit code 1, an error, counts as damage like 2. *)
AfterCheck(rc) ==
    CASE rc = 0      -> "sleep"
      [] AutoRestore -> "restore"
      [] AutoPrune   -> "prune"
      [] OTHER       -> "sleep"

(* Defect: restore is followed by the second verify, never by prune. *)
FollowingNoPrune(rc) ==
    CASE stage = "check"                -> AfterCheck(rc)
      [] stage \in {"restore", "prune"} -> "post"
      [] OTHER                          -> "sleep"

Following(rc) ==
    CASE stage = "check"                -> AfterCheck(rc)
      [] stage = "restore" /\ AutoPrune -> "prune"
      [] stage \in {"restore", "prune"} -> "post"
      [] OTHER                          -> "sleep"

(* Defect: the loop does not wait for the command. *)
ReturnedEarly ==
    /\ called
    /\ stage' = Following(last.rc) /\ called' = FALSE
    /\ failed' = (failed \/ (stage # "check" /\ last.rc # 0))
    /\ UNCHANGED <<vars, cycle, ended>>

(* Defect: the exit code of the second verify is not counted. *)
ReturnedLenient ==
    /\ called /\ job = "none"
    /\ stage' = Following(last.rc) /\ called' = FALSE
    /\ failed' = (failed \/ (stage \in {"restore", "prune"} /\ last.rc # 0))
    /\ UNCHANGED <<vars, cycle, ended>>

Returned ==
    /\ called /\ job = "none"
    /\ stage' = Following(last.rc) /\ called' = FALSE
    /\ failed' = (failed \/ (stage # "check" /\ last.rc # 0))
    /\ UNCHANGED <<vars, cycle, ended>>

(* The end of a cycle: the report, or a sleep of at least a second.  Only    *)
(* seconds in which a prune moved something are told apart, so Stamp bounds  *)
(* the number of those, not of the seconds watch runs; the model stops when  *)
(* there are more.                                                           *)
Used(s) == \E p \in Path : quarantine[s][p] # NoFile

(* Defect: the loop does not sleep between cycles. *)
SleepNot ==
    /\ ended = "running" /\ stage = "sleep"
    /\ cycle' = IF Cycles = 0 THEN 0 ELSE cycle + 1
    /\ IF Cycles # 0 /\ cycle' = Cycles
       THEN ended' = (IF failed THEN "ERRORS" ELSE "COMPLETE") /\ UNCHANGED stage
       ELSE stage' = "check" /\ UNCHANGED ended
    /\ UNCHANGED <<vars, called, failed>>

Sleep ==
    /\ ended = "running" /\ stage = "sleep"
    /\ cycle' = IF Cycles = 0 THEN 0 ELSE cycle + 1
    /\ IF Cycles # 0 /\ cycle' = Cycles
       THEN /\ ended' = IF failed THEN "ERRORS" ELSE "COMPLETE"
            /\ UNCHANGED <<stage, now>>
       ELSE /\ stage' = "check"
            /\ now' = IF Used(now) THEN now + 1 ELSE now
            /\ now' \in Stamp
            /\ UNCHANGED ended
    /\ UNCHANGED <<tree, stamp, job, todo, seen, damage, errors, copying, last,
                   edits, faults, history, called, failed>>

Program == Call \/ Returned \/ Sleep \/ (Working /\ UNCHANGED loop)

WatchNext == Program \/ (User /\ UNCHANGED loop)

WatchSpec == WatchInit /\ [][WatchNext]_wvars

(* watch never waits but in sleep: it is always able to take its next step. *)
FairWatch == WatchSpec /\ WF_wvars(Program)

-----------------------------------------------------------------------------
(* A watch that heals and ends with code 0 leaves a tree in which every path *)
(* the user has left alone since the last verify is what the vault says, but *)
(* for what a readdir that failed kept from that verify (ivault_watch_path   *)
(* with --auto-restore --auto-prune).                                        *)
WatchVerdict ==
    ended = "COMPLETE" => \A p \in Path \ touched : Matches(p)

(* Restore cannot write over a directory at a sealed path, or past a link,   *)
(* and prune removes neither.                                                *)
Blocked(p) == p \in Listed(vault) /\ (live[p] = Dir \/ Far(p))

(* A watch that heals for ever brings the tree back to the vault once the    *)
(* user and the faults stop, and keeps it there - also when a file stands in *)
(* the place of a sealed directory, which takes two cycles: restore comes    *)
(* before prune and fails, prune clears the way for the next restore.  What  *)
(* a directory or a link of the user's stands in the way of stays as it is,  *)
(* and does not keep the rest from healing.                                  *)
WatchHeals == <>[](\A p \in Path : Matches(p) \/ Blocked(p))

-----------------------------------------------------------------------------
(* Inductive strengthenings: a command that was called and is not running   *)
(* has answered, and the report is made in a sleep.                         *)
LoopInv ==
    /\ called => stage # "sleep" /\ ended = "running"
    /\ called /\ job = "none" => last.cmd = Command[stage]
    /\ ended = "running" /\ Cycles # 0 => cycle < Cycles
    /\ ended = "COMPLETE" => stage = "sleep" /\ ~failed

(* A watch that heals comes to the sleep from a verify only, and one that   *)
(* has not failed from a verify that found nothing.                         *)
CleanSleep ==
    stage = "sleep" /\ ~failed => \A p \in Path \ touched : Matches(p)

(* Since the loop sleeps past a second in which something was moved, a prune *)
(* finds its quarantine empty, whatever FreshSecond says.                    *)
WatchFresh ==
    /\ job # "none" => stamp = now
    /\ \A s \in Stamp : s > now => \A p \in Path : quarantine[s][p] = NoFile
    /\ stage \in {"check", "restore"} \/ (stage = "prune" /\ ~called) =>
         \A p \in Path : quarantine[now][p] = NoFile

=============================================================================
