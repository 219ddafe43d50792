---------------------------- MODULE MemoryPromise ----------------------------
(***************************************************************************)
(* The memory of ivault seen by those who annotate, and the promise of     *)
(* NotesPromise it keeps for the documents that are not spoiled.           *)
(***************************************************************************)
EXTENDS WosMemory

CONSTANTS Nothing, Lost     \* see NotesPromise

(* What a document says: one that is not there has every field empty. *)
Said(k) == IF Whole(<<"doc", k>>) THEN Bytes(<<"doc", k>>).body ELSE [f \in Field |-> Default]

Notes == [k \in Key |-> IF k \in spoiled THEN Lost ELSE Said(k)]

(* A command has a file to do until its rename.  `edit` asks for nothing:    *)
(* the template it saves says what no document says.                        *)
Asks(w) == pc[w] # "idle" /\ job[w].val # Default
Asked == [w \in Writer |->
    IF Asks(w)
    THEN [field |-> job[w].field, val |-> job[w].val, failed |-> job[w].errors,
          left |-> job[w].left \union (IF InFlight(w) THEN {job[w].file} ELSE {})]
    ELSE Nothing]

Promise == INSTANCE NotesPromise WITH notes <- Notes, asked <- Asked

(* Commands that overlap, fail or are killed are as good as done one after   *)
(* the other: each annotation of a file takes effect in the one step that    *)
(* renames its document, on the fields as they are then, exactly once in a   *)
(* command that returns 0, and neither push nor what other commands do to    *)
(* other documents changes a field (update_memory_file, write_doc_atomic).   *)
AnnotatesAtOnce == Promise!Spec

-----------------------------------------------------------------------------
(* What the refinement needs: a lone writer carries what its document says   *)
(* now and its annotation; a template is carried where nothing is said, and  *)
(* is all its command does; a file a command is on is not one it has left.   *)
CopyInv ==
    \A w \in Writer : pc[w] # "idle" =>
        /\ job[w].val = Default => job[w].left = {}
        /\ InFlight(w) => job[w].file \notin job[w].left
        /\ InFlight(w) /\ Mine(w) \notin spoiled =>
             /\ doc[w].body = [Said(Mine(w)) EXCEPT ![job[w].field] = job[w].val]
             /\ job[w].val = Default => Said(Mine(w))[job[w].field] = Default

=============================================================================
