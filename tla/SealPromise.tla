----------------------------- MODULE SealPromise -----------------------------
(***************************************************************************)
(* Seal seen from outside, as what restoring its vaults would bring back,  *)
(* and the snapshot promise it keeps when it is left alone.                *)
(***************************************************************************)
EXTENDS Seal

CONSTANT NoImage        \* no vault has been reported SEALED under this name

(* What the vaults on disk promise: nothing before SEALED, then the bytes. *)
Image == [v \in Stamp |->
    IF status[v] = "SEALED" THEN [p \in Path |-> Recovered(v, p)] ELSE NoImage]

Promise == INSTANCE VaultPromise WITH image <- Image

(* A seal of a tree nobody edits meanwhile is an instant: its vault becomes *)
(* a snapshot of the whole tree in the step that reports SEALED and keeps   *)
(* restoring that snapshot, through failed and killed seals of other        *)
(* seconds (ivault_seal_path as a whole).                                   *)
SealIsSnapshot == Promise!Spec

-----------------------------------------------------------------------------
(* The conditions under which Seal keeps the promise. *)
LeftAlone == /\ ~EditsDuringSeal /\ OneSealPerSecond /\ ~UnseenFaults
             /\ HashInjective

(* What the refinement needs beside the invariants of Seal: under LeftAlone *)
(* none of the exceptions they make room for ever applies, and the walk has *)
(* not entered what it skips.                                               *)
AloneInv ==
    /\ \A v \in Stamp : touched[v] = {} /\ ~reopened[v] /\ ~lost[v]
    /\ visited \intersect Skipped = {}

=============================================================================
