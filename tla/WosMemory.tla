------------------------------ MODULE WosMemory ------------------------------
(***************************************************************************)
(* The memory of ivault: one JSON document per annotated file, updated by  *)
(* `tag`, `note`, `summary` and `custom`, edited by hand, and compiled     *)
(* into one JSONL index by `push`.                                         *)
(*                                                                         *)
(* Every command is a process of its own and takes no lock; on a folder it *)
(* updates one file after the other.  A document is replaced by writing    *)
(* <name>.tmp and renaming it; the temporary file has the same name in     *)
(* every process, so two of them can hold one inode.  Hence names, inodes  *)
(* and open files are kept apart.  One push runs at a time.                *)
(***************************************************************************)
EXTENDS Naturals, FiniteSets

CONSTANTS
    Writer,             \* processes that annotate
    File, Key, KeyOf,   \* annotated paths; hash_path of each names its document
    Folder,             \* what a path argument may name: sets of files
    Field, Before,      \* tags, note, summary, custom; Before[f]: those written earlier
    Value, Default,     \* texts that fit a field; what an empty one holds
    Offer,              \* the annotations made: pairs of a field and a value
    Shadows,            \* the fields whose quoted name a value spells
    Broken,             \* bytes that is_valid_json_doc refuses
    NoFile, NoInode,
    Copies,             \* numbers the inodes made for one document
    MaxUpdates, MaxPushes,  \* bounds: commands started
    MaxTroubles         \* bound: kills, failing calls and broken JSON saved by hand

Entry  == {"doc", "tmp"} \X Key     \* <key>.wmeta.json and <key>.wmeta.json.tmp
Inode  == Key \X Copies
Stored == Value \union {Default}
Doc    == [path : File, body : [Field -> Stored]]

ASSUME MemoryAssumption ==
    /\ KeyOf \in [File -> Key] /\ Folder \subseteq SUBSET File /\ Field # {}
    /\ IsFiniteSet(Writer) /\ IsFiniteSet(Copies) /\ Cardinality(Copies) > Cardinality(Writer)
    /\ Offer \subseteq Field \X Value
    /\ Before \in [Field -> SUBSET Field]
    /\ Shadows \in [Stored -> SUBSET Field]
    /\ Default \notin Value
    /\ Broken \notin Doc /\ NoInode \notin Inode
    /\ {MaxUpdates, MaxPushes, MaxTroubles} \subseteq Nat

VARIABLES
    at,         \* .wolverine/memory/files: the inode each name stands for
    node,       \* the bytes of an inode
    index,      \* index.wmeta.jsonl: the rows and the entries they came from
    pc,         \* where each writer is in update_memory_file
    job,        \* the annotation it makes, the files it has left, its errors
    doc,        \* its MemoryDoc
    fd,         \* the inode it writes
    push,       \* push is running
    rows,       \* what it has written to the temporary index
    due,        \* entries its readdir has still to return
    rejected,   \* rejected > 0 or read_errors > 0
    unread,     \* history: documents the last push could not read
    lost,       \* history: documents whose rows did not reach the last index
    updates, pushes, troubles,
    may,        \* history: the values a field of a document may have, see AcksKept
    spoiled,    \* history: documents that met with what DocsWhole excepts
    replaced,   \* history: the writers and documents whose value another command replaced
    changed,    \* history: documents replaced while the last push ran
    pushed      \* history: what the last push returned; 1 if it did not, or a
                \* document was replaced since

store   == <<at, node, index>>
writers == <<pc, job, doc, fd>>
pusher  == <<push, rows, due, rejected, unread, lost>>
past    == <<may, spoiled, replaced>>
counts  == <<updates, pushes, troubles>>
vars    == <<store, writers, pusher, counts, past, changed, pushed>>

Job == [all : SUBSET File, left : SUBSET File, file : File \union {NoFile},
        field : Field, val : Stored, errors : BOOLEAN]

(* It is between load_existing_doc and its rename. *)
InFlight(w) == pc[w] \in {"loaded", "open", "written"}

TypeOK ==
    /\ at \in [Entry -> Inode \union {NoInode}]
    /\ node \in [Inode -> Doc \union {Broken}]
    /\ index \subseteq Entry \X Doc
    /\ pc \in [Writer -> {"idle", "next", "loaded", "open", "written"}]
    /\ \A w \in Writer : pc[w] # "idle" => job[w] \in Job
    /\ \A w \in Writer : InFlight(w) => doc[w] \in Doc /\ doc[w].path = job[w].file
    /\ \A w \in Writer : pc[w] = "open" <=> fd[w] \in Inode
    /\ push \in BOOLEAN /\ rejected \in BOOLEAN /\ pushed \in 0 .. 2
    /\ rows \subseteq Entry \X Doc /\ due \subseteq Entry
    /\ unread \subseteq Key /\ lost \subseteq Key
    /\ may \in [Key -> [Field -> SUBSET Stored]]
    /\ changed \subseteq Key /\ spoiled \subseteq Key /\ replaced \subseteq Writer \X Key

Init ==
    /\ at = [e \in Entry |-> NoInode]
    /\ node = [i \in Inode |-> Broken]
    /\ index = {}
    /\ pc = [w \in Writer |-> "idle"]
    /\ job = [w \in Writer |-> <<>>] /\ doc = [w \in Writer |-> <<>>]
    /\ fd = [w \in Writer |-> NoInode]
    /\ push = FALSE /\ rows = {} /\ due = {} /\ rejected = FALSE
    /\ unread = {} /\ lost = {}
    /\ updates = 0 /\ pushes = 0 /\ troubles = 0
    /\ may = [k \in Key |-> [f \in Field |-> {Default}]]
    /\ spoiled = {} /\ replaced = {} /\ changed = {} /\ pushed = 1

Present(e) == at[e] # NoInode
Bytes(e)   == node[at[e]]
Whole(e)   == Present(e) /\ Bytes(e) # Broken

(* Something goes wrong. *)
Trouble == troubles < MaxTroubles /\ troubles' = troubles + 1

(* An inode nobody names or holds. *)
Free(i)      == (\A e \in Entry : at[e] # i) /\ \A w \in Writer : fd[w] # i
FreeInode(k) == <<k, CHOOSE n \in Copies : Free(<<k, n>>)>>

(* The bytes of an inode nobody names or holds are gone. *)
Kept(bytes) ==
    LET named == {at'[e] : e \in Entry} \union {fd'[w] : w \in Writer} IN
    [i \in Inode |-> IF i \in named THEN bytes[i] ELSE Broken]

(* The documents in K are replaced. *)
Touch(K) ==
    /\ changed' = IF push THEN changed \union K ELSE IF K = {} THEN changed ELSE {}
    /\ pushed' = IF push \/ K = {} THEN pushed ELSE 1

-----------------------------------------------------------------------------
(* tag, note, summary, custom *)

(* extract_json_field finds the first place where the quoted name of f      *)
(* stands: an earlier value that spells it hides the field.                 *)
Hidden(body, f)    == \E g \in Before[f] : f \in Shadows[body[g]]
Extracted(body, f) == IF Hidden(body, f) THEN Default ELSE body[f]
Spells(body)       == \E f \in Field : Hidden(body, f)

(* memory_doc_defaults *)
Template == [f \in Field |-> Default]

(* Defect: a document is begun anew by every annotation. *)
LoadedNothing(k) == Template

(* load_existing_doc: nothing is taken from a document that is not there or *)
(* not valid.                                                               *)
Loaded(k) ==
    IF Whole(<<"doc", k>>)
    THEN [f \in Field |-> Extracted(Bytes(<<"doc", k>>).body, f)]
    ELSE Template

(* A command begins on a file, or on the regular files its readdir returns:  *)
(* those in the folder, with --nested those below it too.                   *)
Annotate(w, S, field, val) ==
    /\ pc[w] = "idle" /\ updates < MaxUpdates
    /\ job' = [job EXCEPT ![w] = [all |-> S, left |-> S, file |-> NoFile, field |-> field,
                                 val |-> val, errors |-> FALSE]]
    /\ pc' = [pc EXCEPT ![w] = "next"] /\ updates' = updates + 1
    /\ UNCHANGED <<store, doc, fd, pusher, pushes, troubles, past, changed, pushed>>

Rivals(w, k) == {u \in Writer \ {w} : InFlight(u) /\ KeyOf[job[u].file] = k}

(* update_memory_file up to write_doc_atomic.  The object of `custom` is one *)
(* field: a new one replaces all its members.  A document that is there and *)
(* cannot be read counts as none, and the command goes on.                  *)
Load(w, file) ==
    /\ pc[w] = "next" /\ file \in job[w].left
    /\ LET k == KeyOf[file]  field == job[w].field  val == job[w].val IN
       /\ may' = [may EXCEPT ![k][field] = @ \union {val}]
       /\ \/ /\ doc' = [doc EXCEPT ![w] =
                        [path |-> file, body |-> [Loaded(k) EXCEPT ![field] = val]]]
             /\ spoiled' = IF \/ Rivals(w, k) # {}
                              \/ Whole(<<"doc", k>>) /\ Spells(Bytes(<<"doc", k>>).body)
                           THEN spoiled \union {k} ELSE spoiled
             /\ UNCHANGED troubles
          \/ /\ Whole(<<"doc", k>>) /\ Trouble
             /\ doc' = [doc EXCEPT ![w] =
                        [path |-> file, body |-> [Template EXCEPT ![field] = val]]]
             /\ spoiled' = spoiled \union {k}
    /\ job' = [job EXCEPT ![w].left = @ \ {file}, ![w].file = file]
    /\ pc' = [pc EXCEPT ![w] = "loaded"]
    /\ UNCHANGED <<store, fd, pusher, updates, pushes, replaced, changed, pushed>>

(* `edit` of a file without a document begins with a template: every field   *)
(* empty.  Nothing is loaded.                                               *)
EditTemplate(w, file) ==
    /\ pc[w] = "idle" /\ updates < MaxUpdates
    /\ ~Present(<<"doc", KeyOf[file]>>)
    /\ job' = [job EXCEPT ![w] = [all |-> {}, left |-> {}, file |-> file,
                                 field |-> CHOOSE f \in Field : TRUE, val |-> Default,
                                 errors |-> FALSE]]
    /\ doc' = [doc EXCEPT ![w] = [path |-> file, body |-> Template]]
    /\ pc' = [pc EXCEPT ![w] = "loaded"]
    /\ spoiled' = IF Rivals(w, KeyOf[file]) # {} THEN spoiled \union {KeyOf[file]} ELSE spoiled
    /\ updates' = updates + 1
    /\ UNCHANGED <<store, fd, pusher, pushes, troubles, may, replaced, changed, pushed>>

(* Defect: the result of update_memory_file is dropped. *)
FileFailsQuietly(w) ==
    /\ Trouble
    /\ \/ pc[w] = "next" /\ \E file \in job[w].left :
             job' = [job EXCEPT ![w].left = @ \ {file}]
       \/ pc[w] = "loaded" /\ UNCHANGED job
    /\ pc' = [pc EXCEPT ![w] = "next"] /\ doc' = [doc EXCEPT ![w] = <<>>]
    /\ UNCHANGED <<store, fd, pusher, updates, pushes, past, changed, pushed>>

(* realpath or the fopen of <name>.tmp fails: the file counts as an error    *)
(* and the command goes on with the next.                                   *)
FileFails(w) ==
    /\ Trouble
    /\ \/ pc[w] = "next" /\ \E file \in job[w].left :
             job' = [job EXCEPT ![w].left = @ \ {file}, ![w].errors = TRUE]
       \/ pc[w] = "loaded" /\ job' = [job EXCEPT ![w].errors = TRUE]
    /\ pc' = [pc EXCEPT ![w] = "next"] /\ doc' = [doc EXCEPT ![w] = <<>>]
    /\ UNCHANGED <<store, fd, pusher, updates, pushes, past, changed, pushed>>

(* Defect: the document is written in place. *)
TmpInPlace(w) == <<"doc", KeyOf[job[w].file]>>

Tmp(w)  == <<"tmp", KeyOf[job[w].file]>>
Goal(w) == <<"doc", KeyOf[job[w].file]>>

(* fopen "w" of <name>.tmp: an inode left there is emptied and shared. *)
OpenTmp(w) ==
    /\ pc[w] = "loaded"
    /\ LET i == IF Present(Tmp(w)) THEN at[Tmp(w)] ELSE FreeInode(KeyOf[job[w].file]) IN
       /\ at' = [at EXCEPT ![Tmp(w)] = i]
       /\ node' = [node EXCEPT ![i] = Broken]
       /\ fd' = [fd EXCEPT ![w] = i]
       /\ Touch({k \in Key : at[<<"doc", k>>] = i})
    /\ pc' = [pc EXCEPT ![w] = "open"]
    /\ UNCHANGED <<index, job, doc, pusher, counts, past>>

(* The bytes fclose leaves: over a longer document of another process its   *)
(* tail stays.                                                              *)
Written(w) ==
    {doc[w]} \union (IF node[fd[w]] \in {Broken, doc[w]} THEN {} ELSE {Broken})

(* Defect: the file is not closed. *)
WriteTmpUnclosed(w) ==
    /\ pc[w] = "open"
    /\ \E b \in Written(w) : node' = [node EXCEPT ![fd[w]] = b]
    /\ Touch({k \in Key : at[<<"doc", k>>] = fd[w]})
    /\ pc' = [pc EXCEPT ![w] = "written"]
    /\ UNCHANGED <<at, index, job, doc, fd, pusher, counts, past>>

(* fprintf and fclose are not checked. *)
WriteTmp(w) ==
    /\ pc[w] = "open"
    /\ fd' = [fd EXCEPT ![w] = NoInode] /\ UNCHANGED at
    /\ \/ /\ \E b \in Written(w) : node' = Kept([node EXCEPT ![fd[w]] = b])
          /\ UNCHANGED <<spoiled, troubles>>
       \/ /\ Trouble /\ node' = Kept([node EXCEPT ![fd[w]] = Broken])
          /\ spoiled' = spoiled \union {KeyOf[job[w].file]}
    /\ Touch({k \in Key : at[<<"doc", k>>] = fd[w]})
    /\ pc' = [pc EXCEPT ![w] = "written"]
    /\ UNCHANGED <<index, job, doc, pusher, updates, pushes, may, replaced>>

(* rename takes whatever <name>.tmp is now. *)
Rename(w) ==
    /\ pc[w] = "written" /\ Present(Tmp(w))
    /\ at' = [at EXCEPT ![Goal(w)] = at[Tmp(w)], ![Tmp(w)] = NoInode]
    /\ UNCHANGED fd /\ node' = Kept(node)
    /\ LET k == KeyOf[job[w].file]  field == job[w].field  val == job[w].val IN
       /\ may' = [may EXCEPT ![k][field] =
                    {val} \union {job[u].val : u \in {v \in Rivals(w, k) : job[v].field = field}}]
       /\ replaced' = (replaced \union {<<v, k>> : v \in
                         {u \in Writer : pc[u] # "idle" /\ job[u].field = field
                                        /\ job[u].val # val}}) \ {<<w, k>>}
       /\ Touch({k})
    /\ pc' = [pc EXCEPT ![w] = "next"] /\ doc' = [doc EXCEPT ![w] = <<>>]
    /\ UNCHANGED <<index, job, pusher, counts, spoiled>>

RenameFails(w) ==
    /\ pc[w] = "written" /\ ~Present(Tmp(w))
    /\ job' = [job EXCEPT ![w].errors = TRUE]
    /\ pc' = [pc EXCEPT ![w] = "next"] /\ doc' = [doc EXCEPT ![w] = <<>>]
    /\ UNCHANGED <<store, fd, pusher, counts, past, changed, pushed>>

(* Exit code 1 if an error was counted. *)
Returns0(w) == pc[w] = "next" /\ job[w].left = {} /\ ~job[w].errors

Return(w) ==
    /\ pc[w] = "next" /\ job[w].left = {}
    /\ pc' = [pc EXCEPT ![w] = "idle"] /\ job' = [job EXCEPT ![w] = <<>>]
    /\ UNCHANGED <<store, doc, fd, pusher, counts, past, changed, pushed>>

CrashWriter(w) ==
    /\ Trouble /\ UNCHANGED <<at, index>> /\ pc[w] # "idle"
    /\ pc' = [pc EXCEPT ![w] = "idle"] /\ fd' = [fd EXCEPT ![w] = NoInode]
    /\ node' = Kept(node)
    /\ job' = [job EXCEPT ![w] = <<>>] /\ doc' = [doc EXCEPT ![w] = <<>>]
    /\ UNCHANGED <<pusher, updates, pushes, past, changed, pushed>>

(* `edit`: the user saves bytes that are no document. *)
BreakByHand(k) ==
    /\ Trouble /\ Whole(<<"doc", k>>)
    /\ node' = [node EXCEPT ![at[<<"doc", k>>]] = Broken]
    /\ Touch({k}) /\ spoiled' = spoiled \union {k}
    /\ UNCHANGED <<at, index, writers, pusher, updates, pushes, may, replaced>>

-----------------------------------------------------------------------------
(* push: every name that contains ".wmeta.json", which is both kinds. *)

PushStart ==
    /\ ~push /\ pushes < MaxPushes
    /\ push' = TRUE /\ rows' = {} /\ rejected' = FALSE /\ unread' = {} /\ lost' = {}
    /\ due' = {e \in Entry : Present(e)}
    /\ changed' = {} /\ pushed' = 1 /\ pushes' = pushes + 1
    /\ UNCHANGED <<store, writers, updates, troubles, past>>

(* Defect: a document that is rejected is not counted. *)
PushReadQuietly(e) ==
    /\ push /\ e \in due /\ Present(e)
    /\ rows' = IF Whole(e) THEN rows \union {<<e, Bytes(e)>>} ELSE rows
    /\ due' = due \ {e}
    /\ UNCHANGED <<store, writers, push, rejected, unread, lost, counts, past, changed,
                   pushed>>

(* The entry is read, checked, and compacted into a row or rejected; of a    *)
(* rejected one a copy goes to the quarantine, which nothing reads.         *)
PushRead(e) ==
    /\ push /\ e \in due /\ Present(e)
    /\ IF Whole(e) THEN rows' = rows \union {<<e, Bytes(e)>>} /\ UNCHANGED rejected
                   ELSE rejected' = TRUE /\ UNCHANGED rows
    /\ due' = due \ {e}
    /\ UNCHANGED <<store, writers, push, unread, lost, counts, past, changed, pushed>>

(* An entry that is there cannot be read. *)
PushReadFails(e) ==
    /\ push /\ e \in due /\ Present(e) /\ Trouble
    /\ rejected' = TRUE /\ unread' = IF e[1] = "doc" THEN unread \union {e[2]} ELSE unread
    /\ due' = due \ {e}
    /\ UNCHANGED <<store, writers, push, rows, lost, updates, pushes, past, changed,
                   pushed>>

(* The entry was renamed away: readdir skips it, or fopen fails. *)
PushGone(e) ==
    /\ push /\ e \in due /\ ~Present(e)
    /\ due' = due \ {e} /\ rejected' \in {rejected, TRUE}
    /\ UNCHANGED <<store, writers, push, rows, unread, lost, counts, past, changed, pushed>>

(* readdir may return an entry that came after the directory was opened. *)
PushFinds(e) ==
    /\ push /\ Present(e) /\ e \notin due /\ \A r \in rows : r[1] # e
    /\ e[2] \in changed \/ e[1] = "tmp"
    /\ due' = due \union {e}
    /\ UNCHANGED <<store, writers, push, rows, rejected, unread, lost, counts, past,
                   changed, pushed>>

(* Defect: readdir is left at the first entry. *)
PushSwapEarly ==
    /\ push
    /\ index' = rows /\ push' = FALSE
    /\ pushed' = IF rejected THEN 2 ELSE 0
    /\ rows' = {} /\ rejected' = FALSE /\ due' = {}
    /\ UNCHANGED <<at, node, writers, unread, lost, counts, past, changed>>

(* fclose and rename of the temporary index.  Its writes are not checked, so *)
(* that rows may be missing from it; what is left of one that was cut is no *)
(* row.                                                                     *)
PushSwap ==
    /\ push /\ due = {}
    /\ \/ index' = rows /\ UNCHANGED troubles
       \/ Trouble /\ index' \in SUBSET rows
    /\ lost' = {k \in Key : \E r \in rows \ index' : r[1] = <<"doc", k>>}
    /\ push' = FALSE /\ pushed' = IF rejected THEN 2 ELSE 0
    /\ rows' = {} /\ rejected' = FALSE
    /\ UNCHANGED <<at, node, writers, due, unread, updates, pushes, past, changed>>

(* It is killed, or it cannot replace the index: exit code 1. *)
CrashPush ==
    /\ Trouble /\ push
    /\ push' = FALSE /\ rows' = {} /\ due' = {} /\ rejected' = FALSE /\ changed' = {}
    /\ unread' = {} /\ lost' = {}
    /\ UNCHANGED <<store, writers, updates, pushes, past, pushed>>

Update(w) ==
    \/ \E S \in Folder, o \in Offer : Annotate(w, S, o[1], o[2])
    \/ \E file \in File : Load(w, file) \/ EditTemplate(w, file)
    \/ FileFails(w) \/ OpenTmp(w) \/ WriteTmp(w) \/ Rename(w) \/ RenameFails(w)
    \/ Return(w) \/ CrashWriter(w)

Push ==
    \/ PushStart \/ PushSwap \/ CrashPush
    \/ \E e \in Entry : PushRead(e) \/ PushReadFails(e) \/ PushGone(e) \/ PushFinds(e)

Next ==
    \/ \E w \in Writer : Update(w)
    \/ \E k \in Key : BreakByHand(k)
    \/ Push

Spec == Init /\ [][Next]_vars

-----------------------------------------------------------------------------
(* A command that is killed, at whatever step, leaves every document either  *)
(* as it was or as it was to become: none is ever cut short under its name   *)
(* (write_doc_atomic).  Excepted are documents that two processes wrote at   *)
(* once, those of which a read or a write failed, and those the user broke.  *)
DocsWhole ==
    \A k \in Key \ spoiled : Present(<<"doc", k>>) => Bytes(<<"doc", k>>) # Broken

(* Each field of a document holds the last annotation that succeeded, or one *)
(* that was started after it and never returned: updating one field forgets  *)
(* no other (update_memory_file), with the exceptions of DocsWhole (a        *)
(* document that cannot be read is replaced by a new one, and the command    *)
(* returns 0) and of documents in which a value spells the quoted name of a  *)
(* later field.                                                              *)
AcksKept ==
    \A k \in Key \ spoiled, f \in Field :
        LET e == <<"doc", k>> IN
        IF Whole(e) THEN Bytes(e).body[f] \in may[k][f] ELSE Default \in may[k][f]

(* A command on a folder that returns 0 has given its annotation to every    *)
(* file, though files fail one by one and others write between them: a file  *)
(* has it, unless another command has since put another value in that field *)
(* (apply_memory_recursive, apply_to_path).                                  *)
FolderTold ==
    \A w \in Writer : Returns0(w) =>
        \A file \in job[w].all : KeyOf[file] \notin spoiled =>
            LET e == <<"doc", KeyOf[file]>> IN
            Whole(e) /\ (<<w, KeyOf[file]>> \in replaced \/ Bytes(e).body[job[w].field] = job[w].val)

(* The rows a set of rows has for an entry are what the entry holds. *)
Tells(R, e) ==
    {r[2] : r \in {s \in R : s[1] = e}} = IF Whole(e) THEN {Bytes(e)} ELSE {}

(* The index a push leaves has, for every document left alone while push     *)
(* ran, one row with its latest bytes, and none for a document that is not *)
(* there or is broken; only of a document that could not be read, which push *)
(* tells by its code, or that a failed write of the index left out, which it *)
(* does not, there is no row.  Push returns 0 only if none of the documents *)
(* is broken or could not be read (wos_memory_push).                         *)
IndexCurrent ==
    pushed # 1 => \A k \in Key \ changed :
        LET e == <<"doc", k>> IN
        /\ IF k \in unread \union lost THEN \A r \in index : r[1] # e ELSE Tells(index, e)
        /\ pushed = 0 => k \notin unread /\ (Present(e) => Whole(e))

(* Two statements the code does not keep (README, section 3).               *)

(* README: "push -> truth enforcement", "JSONL -> clean memory over time".   *)
(* An index that push reports good has one row for each file.                *)
OneRowPerFile ==
    pushed = 0 => \A r, s \in index : r[2].path = s[2].path => r = s

(* README: "Bad JSON is rejected. Not hidden."  A document the user broke is *)
(* not replaced until the user mends it.                                     *)
BadJsonStays ==
    [][\A k \in Key :
         Present(<<"doc", k>>) /\ Bytes(<<"doc", k>>) = Broken =>
            at'[<<"doc", k>>] = at[<<"doc", k>>]]_vars

-----------------------------------------------------------------------------
(* The strengthenings the theorems of MemoryProofs rest on. *)

Mine(w) == KeyOf[job[w].file]

(* A name stands for an inode of its own document, and no inode has two.     *)
NamesInv ==
    /\ DOMAIN job = Writer /\ DOMAIN doc = Writer
    /\ fd \in [Writer -> Inode \union {NoInode}]
    /\ \A w \in Writer : pc[w] = "open" => fd[w][1] = Mine(w)
    /\ \A e \in Entry : Present(e) => at[e][1] = e[2]
    /\ \A k \in Key : Present(<<"doc", k>>) => at[<<"doc", k>>] # at[<<"tmp", k>>]

(* A document nothing happened to has one writer at most, and what it has    *)
(* written to <name>.tmp is its document.                                   *)
AloneInv ==
    \A w \in Writer : InFlight(w) /\ Mine(w) \notin spoiled =>
        /\ \A u \in Writer : InFlight(u) /\ Mine(u) = Mine(w) => u = w
        /\ pc[w] = "open" => at[Tmp(w)] = fd[w] /\ node[fd[w]] = Broken
        /\ pc[w] = "written" => Present(Tmp(w)) /\ Bytes(Tmp(w)) = doc[w]

(* What a writer carries is its annotation and otherwise what AcksKept allows. *)
CarryInv ==
    \A w \in Writer : InFlight(w) /\ Mine(w) \notin spoiled =>
        \A f \in Field : IF f = job[w].field THEN doc[w].body[f] = job[w].val
                         ELSE doc[w].body[f] \in may[Mine(w)][f]

(* A command has been with a file and left it. *)
DoneWith(w, file) ==
    /\ pc[w] # "idle" /\ ~job[w].errors /\ file \in job[w].all \ job[w].left
    /\ ~(InFlight(w) /\ job[w].file = file)

(* Such a file has the command's value, and who updates another field of it  *)
(* carries that value too.                                                  *)
DoneHas(w, file) ==
    LET e == <<"doc", KeyOf[file]>> IN
    /\ Whole(e)
    /\ <<w, KeyOf[file]>> \notin replaced =>
         /\ Bytes(e).body[job[w].field] = job[w].val
         /\ \A u \in Writer :
              InFlight(u) /\ Mine(u) = KeyOf[file] /\ job[u].field # job[w].field
                => doc[u].body[job[w].field] = job[w].val

DoneInv ==
    \A w \in Writer, file \in File :
        DoneWith(w, file) /\ KeyOf[file] \notin spoiled => DoneHas(w, file)

(* The same of a push under way: what it has still to read has no row yet. *)
PushInv ==
    push => /\ pushed = 1 /\ lost = {}
            /\ \A k \in Key \ changed :
                 LET e == <<"doc", k>> IN
                 IF e \in due THEN k \notin unread /\ \A r \in rows : r[1] # e
                 ELSE IF k \in unread THEN rejected /\ \A r \in rows : r[1] # e
                 ELSE Tells(rows, e) /\ (Present(e) => Whole(e) \/ rejected)

=============================================================================
