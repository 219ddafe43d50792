---------------------------- MODULE NotesPromise ----------------------------
(***************************************************************************)
(* What the memory promises to those who annotate, without inodes,         *)
(* temporary files or steps in between: a document holds a value in each   *)
(* field, a command asks for one field of some files to be set, and each   *)
(* of its annotations is there all at once, at most once, at a moment      *)
(* between its beginning and its end; a command ends without a failure     *)
(* only when it has made all of them.  Nothing else ever changes a field,  *)
(* until a document is lost: nothing is promised of it any more.           *)
(***************************************************************************)
CONSTANTS
    Writer, File, Key, KeyOf, Field, Stored, Default,
    Folder, Offer,  \* what may be annotated, and with what
    Nothing,        \* what a process that runs no command asks for
    Lost            \* of a document about which nothing is promised any more

VARIABLES
    notes,          \* the fields of each document
    asked           \* what each process has still to do

Body == [Field -> Stored]
Task == [field : Field, val : Stored, left : SUBSET File, failed : BOOLEAN]

Init ==
    /\ notes = [k \in Key |-> [f \in Field |-> Default]]
    /\ asked = [w \in Writer |-> Nothing]

Ask(w, S, f, v) ==
    /\ asked[w] = Nothing
    /\ asked' = [asked EXCEPT ![w] = [field |-> f, val |-> v, left |-> S, failed |-> FALSE]]
    /\ UNCHANGED notes

(* The annotation of one file: its field changes and no other. *)
Set(w, file) ==
    /\ asked[w] \in Task /\ file \in asked[w].left
    /\ LET k == KeyOf[file] IN
       \/ notes[k] \in Body /\ notes' = [notes EXCEPT ![k][asked[w].field] = asked[w].val]
       \/ notes[k] = Lost /\ UNCHANGED notes
    /\ asked' = [asked EXCEPT ![w].left = @ \ {file}]

Fail(w, file) ==
    /\ asked[w] \in Task /\ file \in asked[w].left
    /\ asked' = [asked EXCEPT ![w].left = @ \ {file}, ![w].failed = TRUE]
    /\ UNCHANGED notes

(* The command returns, 0 if it has not failed; or it is killed. *)
Answer(w) ==
    /\ asked[w] \in Task /\ asked[w].left = {}
    /\ asked' = [asked EXCEPT ![w] = Nothing]
    /\ UNCHANGED notes

Die(w) ==
    /\ asked' = [asked EXCEPT ![w] = Nothing]
    /\ UNCHANGED notes

Lose(k) ==
    /\ notes' = [notes EXCEPT ![k] = Lost]
    /\ UNCHANGED asked

(* Nothing changes; named first, since that is most of what the memory does. *)
Rest == UNCHANGED <<notes, asked>>

Next ==
    \/ Rest
    \/ \E w \in Writer : \/ \E S \in Folder, o \in Offer : Ask(w, S, o[1], o[2])
                         \/ \E file \in File : Set(w, file) \/ Fail(w, file)
                         \/ Answer(w) \/ Die(w)
    \/ \E k \in Key : Lose(k)

Spec == Init /\ [][Next]_<<notes, asked>>
=============================================================================
