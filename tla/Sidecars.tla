------------------------------ MODULE Sidecars ------------------------------
(***************************************************************************)
(* imeta: a <file>.imeta sidecar beside every file of one directory.  Four *)
(* actors write sidecars without locks and without temporary files: the    *)
(* daemon imeta-watchd, which binds a file when inotify says that a write  *)
(* is complete; the commands `imeta scan` and `imeta bind-missing`, which  *)
(* meet in .imeta/index.tsv, which `imeta reconcile` and `imeta doctor`    *)
(* report on; `imeta bind` on one file; and the GUI, which loads a sidecar, *)
(* lets the user annotate it and saves it.                                 *)
(***************************************************************************)
EXTENDS Naturals, Sequences, FiniteSets

CONSTANTS
    Asset, NoAsset,     \* the files users keep in the directory
    Unlisted,           \* those scan passes over: links, a.out, *.exe, *.dll
    Content, Partial,   \* finished contents; a file that is being written
    NoFile,
    Digest, Hash,       \* FNV-1a64 of each content
    NoHash,             \* a sidecar drafted by the GUI has no digest
    Tag,                \* what a user may annotate
    Missing, Broken,    \* no sidecar; a sidecar that is not whole JSON
    Daemon, Gui,        \* which actors take part
    Script, Button,     \* the command lines users type, and those the GUI runs
    Crashes, Faults,    \* a process may be killed; a call may fail
    QueueMax, BufferMax, MaxRows, \* limits: inotify queue, read buffer, index table
    MaxEdits, MaxSaves, MaxRuns   \* bounds: edits, saves, commands and restarts

Doc == [of : Asset, hash : Digest \union {NoHash}, tags : SUBSET Tag]
Row == {"FILE", "SIDECAR"} \X Asset

ASSUME SidecarsAssumption ==
    /\ NoAsset \notin Asset /\ IsFiniteSet(Asset) /\ Unlisted \subseteq Asset
    /\ Partial \notin Content /\ NoFile \notin Content \union {Partial}
    /\ Hash \in [Content \union {Partial} -> Digest] /\ NoHash \notin Digest
    /\ Missing \notin Doc /\ Broken \notin Doc /\ Missing # Broken
    /\ {Daemon, Gui, Crashes, Faults} \subseteq BOOLEAN
    /\ Script \union Button \subseteq Seq({"scan", "bind", "file"})
    /\ {QueueMax, BufferMax} \subseteq Nat \ {0}
    /\ {MaxRows, MaxEdits, MaxSaves, MaxRuns} \subseteq Nat

VARIABLES
    content, sidecar,   \* the directory
    daemon, running,    \* where main is in its loop; g_running
    queue, batch,       \* events in the kernel, and in the daemon's buffer
    bind,               \* imeta_bind_file in the daemon and in bind-missing
    script, cli,        \* the commands still to run, and the running one
    index, rows, todo,  \* index.tsv; what scan has written of it; what is left
    gui, current, editor, draft,    \* the GUI, and the document it saves
    edits, saves, runs,
    arrived,    \* history: files that appeared since the daemon was first started
    told,       \* history: files whose last finished write the daemon knows of, and did
                \* not fail to bind before it opened the sidecar
    kept,       \* history: the tags last saved for each file, see TagsKept
    cut,        \* history: bind-missing went by less than what a scan found: the scan
                \* was killed or failed, or the index was not read to its end
    raced,      \* history: files two were at at once, or a write failed on
    steady      \* history: nothing has come or gone since the last scan that opened
                \* the index, and it missed nothing

dir     == <<content, sidecar>>
watchd  == <<daemon, running, queue, batch>>
command == <<script, cli, index, rows, todo>>
editing == <<gui, current, editor, draft>>
count   == <<edits, saves, runs>>
history == <<arrived, told, kept, cut, raced, steady>>
vars    == <<dir, watchd, bind, command, editing, count, history>>

NoBind == [at |-> "idle", file |-> NoAsset, hash |-> NoHash]
Event  == {"asset", "sidecar"} \X Asset

TypeOK ==
    /\ content \in [Asset -> Content \union {Partial, NoFile}]
    /\ sidecar \in [Asset -> Doc \union {Missing, Broken}]
    /\ daemon \in {"down", "check", "enter", "read", "batch"} /\ running \in BOOLEAN
    /\ queue \in Seq(Event) /\ Len(queue) <= QueueMax
    /\ batch \in Seq(Event) /\ Len(batch) <= BufferMax
    /\ bind \in [{"watchd", "cli"} -> [at : {"idle", "hash", "open", "write"},
                  file : Asset \union {NoAsset}, hash : Digest \union {NoHash}]]
    /\ bind["watchd"].at # "idle" => daemon = "batch"
    /\ bind["cli"].at # "idle" => cli \in {"bind", "file"}
    /\ cli \in {"idle", "scan", "bind", "file"}
    /\ index \subseteq Row /\ rows \subseteq Row /\ todo \subseteq Row
    /\ gui \in {"ready", "waiting", "tagging", "saving", "writing", "retagging"}
    /\ current \in Asset \union {NoAsset}
    /\ editor \in Doc \union {Broken} /\ draft \in [file : Asset, doc : Doc] \union {NoAsset}
    /\ arrived \subseteq Asset /\ told \subseteq Asset
    /\ kept \in [Asset -> SUBSET Tag] /\ raced \subseteq Asset
    /\ {cut, steady} \subseteq BOOLEAN

Init ==
    /\ content \in [Asset -> Content \union {NoFile}]
    /\ sidecar = [a \in Asset |-> Missing]
    /\ daemon = "down" /\ running = FALSE /\ queue = <<>> /\ batch = <<>>
    /\ bind = [b \in {"watchd", "cli"} |-> NoBind]
    /\ script = <<>> /\ cli = "idle" /\ index = {} /\ rows = {} /\ todo = {}
    /\ gui = "ready" /\ current = NoAsset /\ editor = Broken /\ draft = NoAsset
    /\ edits = 0 /\ saves = 0 /\ runs = 0
    /\ arrived = {} /\ told = {} /\ kept = [a \in Asset |-> {}]
    /\ cut = FALSE /\ raced = {} /\ steady = FALSE

-----------------------------------------------------------------------------
(* The kernel.  An event equal to the last one waiting is merged with it; a  *)
(* full queue drops it, and the overflow event has no name: it is passed     *)
(* over.                                                                     *)
Heard(e) == \/ daemon # "down" /\ Len(queue) < QueueMax
            \/ daemon # "down" /\ queue[Len(queue)] = e
Post(e) ==
    queue' = IF ~Heard(e) \/ (queue # <<>> /\ queue[Len(queue)] = e) THEN queue
             ELSE Append(queue, e)

(* The daemon has an event of a finished write of a, or is binding a.        *)
Pending(a) == \/ \E i \in DOMAIN queue : queue[i] = <<"asset", a>>
              \/ \E i \in DOMAIN batch : batch[i] = <<"asset", a>>
AtHand(a)  == Pending(a) \/ bind["watchd"].file = a

(* The GUI is in write_text, between the open and the write.                 *)
Saving(a) == gui \in {"writing", "retagging"} /\ draft.file = a

Stands(r) == IF r[1] = "FILE" THEN content[r[2]] # NoFile ELSE sidecar[r[2]] # Missing
Listed(r) == Stands(r) /\ (r[1] = "FILE" => r[2] \notin Unlisted)
Settle    == steady' = (steady /\ \A r \in Row : Stands(r)' = Stands(r))

(* Users.  A file is written in place, and closed, or moved in whole. *)
OpenFile(a) ==
    /\ edits < MaxEdits /\ edits' = edits + 1
    /\ content[a] # Partial
    /\ content' = [content EXCEPT ![a] = Partial]
    /\ UNCHANGED <<sidecar, watchd, bind, command, editing, saves, runs, arrived, told,
                   kept, cut, raced>>
    /\ Settle

Finish(a, c) ==
    /\ content' = [content EXCEPT ![a] = c]
    /\ Post(<<"asset", a>>)
    /\ told' = IF Heard(<<"asset", a>>) THEN told \union {a} ELSE told \ {a}
    /\ arrived' = IF runs > 0 THEN arrived \union {a} ELSE arrived
    /\ kept' = IF Heard(<<"asset", a>>) THEN [kept EXCEPT ![a] = {}] ELSE kept
    /\ raced' = IF Saving(a) \/ (bind["cli"].file = a /\ bind["cli"].at # "hash")
                THEN raced \union {a}
                ELSE IF Heard(<<"asset", a>>) THEN raced \ {a} ELSE raced
    /\ UNCHANGED <<sidecar, daemon, running, batch, bind, command, editing,
                   saves, runs, cut>>
    /\ Settle

CloseFile(a, c) == content[a] = Partial /\ Finish(a, c) /\ UNCHANGED edits
MoveIn(a, c)    == /\ edits < MaxEdits /\ edits' = edits + 1
                   /\ content[a] # Partial
                   /\ Finish(a, c)

RemoveFile(a) ==
    /\ edits < MaxEdits /\ edits' = edits + 1
    /\ content[a] \in Content
    /\ content' = [content EXCEPT ![a] = NoFile]
    /\ UNCHANGED <<sidecar, watchd, bind, command, editing, saves, runs, arrived, told,
                   kept, cut, raced>>
    /\ Settle

-----------------------------------------------------------------------------
(* imeta_bind_file in process b. *)

BindTo(b, at) == bind' = [bind EXCEPT ![b].at = at]

(* A call fails before the sidecar is open: stat, digest or fopen.  The      *)
(* daemon logs it, and nothing tries again.                                  *)
BindFails(b) ==
    /\ Faults /\ bind[b].at \in {"hash", "open"}
    /\ bind' = [bind EXCEPT ![b] = NoBind]
    /\ told' = IF b = "cli" \/ Pending(bind[b].file) THEN told ELSE told \ {bind[b].file}
    /\ UNCHANGED <<dir, watchd, command, editing, count, arrived, kept, cut, raced, steady>>

(* stat and digest of the file, or an error when it is gone. *)
BindHash(b) ==
    /\ bind[b].at = "hash"
    /\ LET now == content[bind[b].file] IN
       bind' = [bind EXCEPT ![b] =
                  IF now = NoFile THEN NoBind
                  ELSE [@ EXCEPT !.at = "open", !.hash = Hash[now]]]
    /\ UNCHANGED <<dir, watchd, command, editing, count, history>>

(* fopen "w": whatever the sidecar held is gone, by request if the user      *)
(* named the file.                                                          *)
BindOpen(b) ==
    /\ bind[b].at = "open" /\ BindTo(b, "write")
    /\ sidecar' = [sidecar EXCEPT ![bind[b].file] = Broken]
    /\ kept' = IF b = "cli" /\ cli = "file" THEN [kept EXCEPT ![bind[b].file] = {}] ELSE kept
    /\ raced' = IF Saving(bind[b].file) THEN raced \union {bind[b].file} ELSE raced
    /\ UNCHANGED <<content, watchd, command, editing, count, arrived, told, cut>>
    /\ Settle

(* Written over what another process has written since the file was opened, *)
(* the shorter text leaves a tail of the longer one.                         *)
Over(a, doc) == IF sidecar[a] \in {Broken, doc} THEN {doc} ELSE {doc, Broken}

(* A fresh document: digest of the file, annotation empty. *)
BindWrite(b) ==
    /\ bind[b].at = "write"
    /\ LET asset == bind[b].file
           fresh == [of |-> asset, hash |-> bind[b].hash, tags |-> {}] IN
       /\ \E d \in Over(asset, fresh) : sidecar' = [sidecar EXCEPT ![asset] = d]
       /\ Post(<<"sidecar", asset>>)
    /\ bind' = [bind EXCEPT ![b] = NoBind]
    /\ UNCHANGED <<content, daemon, running, batch, command, editing, count, history>>

(* Nobody looks at what fprintf and fclose return: a document that did not   *)
(* reach the disk whole counts as bound.                                     *)
BindLoses(b) ==
    /\ Faults /\ bind[b].at = "write"
    /\ LET asset == bind[b].file IN
       /\ \E d \in {sidecar[asset], Broken} : sidecar' = [sidecar EXCEPT ![asset] = d]
       /\ Post(<<"sidecar", asset>>)
       /\ raced' = raced \union {asset}
    /\ bind' = [bind EXCEPT ![b] = NoBind]
    /\ UNCHANGED <<content, daemon, running, batch, command, editing, count, arrived, told,
                   kept, cut, steady>>

-----------------------------------------------------------------------------
(* imeta-watchd *)

(* systemd starts it: files that are there already are not bound. *)
WatchdStart ==
    /\ Daemon /\ daemon = "down" /\ runs < MaxRuns /\ runs' = runs + 1
    /\ daemon' = "check" /\ running' = TRUE
    /\ UNCHANGED <<dir, queue, batch, bind, command, editing, edits, saves, history>>

(* The end of main, or of the process: the kernel drops the queue. *)
Down ==
    /\ daemon' = "down" /\ queue' = <<>> /\ batch' = <<>>
    /\ bind' = [bind EXCEPT !["watchd"] = NoBind]
    /\ LET lost == queue \o batch IN
       told' = told \ ({lost[i][2] : i \in DOMAIN lost} \union {bind["watchd"].file})
    /\ UNCHANGED <<dir, running, command, editing, count, arrived, kept, cut, raced, steady>>

(* while (g_running) *)
WatchdCheck ==
    /\ daemon = "check"
    /\ IF running THEN /\ daemon' = "enter"
                       /\ UNCHANGED <<dir, running, queue, batch, bind, command,
                                      editing, count, history>>
                  ELSE Down

WatchdEnter ==
    /\ daemon = "enter" /\ daemon' = "read"
    /\ UNCHANGED <<dir, running, queue, batch, bind, command, editing, count, history>>

(* Defect: of what a read returned only the first event is looked at. *)
WatchdReadFirst ==
    /\ daemon = "read" /\ queue # <<>>
    /\ batch' = SubSeq(queue, 1, 1) /\ queue' = <<>>
    /\ daemon' = "batch"
    /\ UNCHANGED <<dir, running, bind, command, editing, count, history>>

WatchdRead ==
    /\ daemon = "read" /\ queue # <<>>
    /\ LET n == IF Len(queue) < BufferMax THEN Len(queue) ELSE BufferMax IN
       /\ batch' = SubSeq(queue, 1, n)
       /\ queue' = SubSeq(queue, n + 1, Len(queue))
    /\ daemon' = "batch"
    /\ UNCHANGED <<dir, running, bind, command, editing, count, history>>

(* Defect: a file that has a sidecar is not bound again. *)
WatchdEventOnce ==
    /\ daemon = "batch" /\ batch # <<>> /\ bind["watchd"].at = "idle"
    /\ batch' = Tail(batch)
    /\ LET e == Head(batch) IN
       bind' = IF \/ e[1] = "sidecar" \/ content[e[2]] = NoFile
                  \/ sidecar[e[2]] # Missing
               THEN bind
               ELSE [bind EXCEPT !["watchd"] =
                       [at |-> "hash", file |-> e[2], hash |-> NoHash]]
    /\ UNCHANGED <<dir, daemon, running, queue, command, editing, count, history>>

(* maybe_bind_finished_file; names that end in .imeta are ignored. *)
WatchdEvent ==
    /\ daemon = "batch" /\ batch # <<>> /\ bind["watchd"].at = "idle"
    /\ batch' = Tail(batch)
    /\ LET e == Head(batch) IN
       bind' = IF e[1] = "sidecar" \/ content[e[2]] = NoFile THEN bind
               ELSE [bind EXCEPT !["watchd"] =
                       [at |-> "hash", file |-> e[2], hash |-> NoHash]]
    /\ UNCHANGED <<dir, daemon, running, queue, command, editing, count, history>>

(* Defect: the loop goes on while the file is being bound. *)
WatchdLoopEarly ==
    /\ daemon = "batch" /\ batch = <<>>
    /\ daemon' = "check"
    /\ UNCHANGED <<dir, running, queue, batch, bind, command, editing, count, history>>

WatchdLoop ==
    /\ daemon = "batch" /\ batch = <<>> /\ bind["watchd"].at = "idle"
    /\ daemon' = "check"
    /\ UNCHANGED <<dir, running, queue, batch, bind, command, editing, count, history>>

(* SIGTERM: a read that blocks returns EINTR.  The handler is reset when it  *)
(* runs, so that a second signal kills.                                      *)
Signal ==
    /\ Daemon /\ daemon # "down" /\ Crashes
    /\ IF running
       THEN /\ running' = FALSE
            /\ daemon' = IF daemon = "read" THEN "check" ELSE daemon
            /\ UNCHANGED <<dir, queue, batch, bind, command, editing, count, history>>
       ELSE Down

WatchdDies == Daemon /\ daemon # "down" /\ Crashes /\ Down

-----------------------------------------------------------------------------
(* imeta scan, imeta bind-missing, imeta bind *)

(* A user types a command line, whatever the GUI is at. *)
Ask ==
    /\ script = <<>> /\ cli = "idle"
    /\ runs < MaxRuns /\ runs' = runs + 1
    /\ script' \in Script
    /\ UNCHANGED <<dir, watchd, bind, cli, index, rows, todo, editing, edits,
                   saves, history>>

(* The GUI's "bind folder" runs <<"scan", "bind", "scan">> and looks at no    *)
(* exit code; its "bind selected" runs <<"file">>.  It waits for them.       *)
Press ==
    /\ Gui /\ gui = "ready" /\ script = <<>> /\ cli = "idle"
    /\ runs < MaxRuns /\ runs' = runs + 1
    /\ script' \in Button /\ gui' = "waiting"
    /\ UNCHANGED <<dir, watchd, bind, cli, index, rows, todo, current, editor, draft, edits,
                   saves, history>>

Return ==
    /\ gui = "waiting" /\ script = <<>> /\ gui' = "ready"
    /\ UNCHANGED <<dir, watchd, bind, command, current, editor, draft, count, history>>

(* A command of the script is over, in whatever way. *)
CommandOver ==
    /\ cli' = "idle" /\ script' = Tail(script) /\ rows' = {} /\ todo' = {}

(* Defect: the rows are appended to the index. *)
ScanStartAppends ==
    /\ cli = "idle" /\ script # <<>> /\ Head(script) = "scan"
    /\ cli' = "scan" /\ rows' = index /\ todo' = Row
    /\ steady' = TRUE
    /\ UNCHANGED <<dir, watchd, bind, script, index, editing, count, arrived, told, kept,
                   cut, raced>>

(* fopen "w" empties the index. *)
ScanStart ==
    /\ cli = "idle" /\ script # <<>> /\ Head(script) = "scan"
    /\ cli' = "scan" /\ index' = {} /\ rows' = {} /\ todo' = Row
    /\ steady' = TRUE
    /\ UNCHANGED <<dir, watchd, bind, script, editing, count, arrived, told, kept, cut,
                   raced>>

(* The index cannot be opened, and stays as it was. *)
ScanFails ==
    /\ Faults /\ cli = "idle" /\ script # <<>> /\ Head(script) = "scan"
    /\ CommandOver
    /\ cut' = (cut \/ Tail(script) # <<>>)
    /\ UNCHANGED <<dir, watchd, bind, index, editing, count, arrived, told, kept, raced,
                   steady>>

(* Entries come in any order; what is written reaches the disk now or later. *)
ScanEntry(r) ==
    /\ cli = "scan" /\ r \in todo /\ todo' = todo \ {r}
    /\ rows' = IF Listed(r) THEN rows \union {r} ELSE rows
    /\ index' \in {index, rows, rows'}
    /\ UNCHANGED <<dir, watchd, bind, script, cli, editing, count, history>>

(* An entry is left out: lstat, opendir or readdir fails. *)
ScanMisses(r) ==
    /\ Faults /\ cli = "scan" /\ r \in todo /\ todo' = todo \ {r}
    /\ cut' = (cut \/ Tail(script) # <<>>) /\ steady' = FALSE
    /\ UNCHANGED <<dir, watchd, bind, script, cli, index, rows, editing, count, arrived, told,
                   kept, raced>>

ScanDone ==
    /\ cli = "scan" /\ todo = {}
    /\ index' = rows /\ CommandOver
    /\ UNCHANGED <<dir, watchd, bind, editing, count, history>>

(* Nobody looks at what fprintf and fclose return: rows are lost, and the    *)
(* remains of one join the next into rows of any kind and name.              *)
ScanLoses ==
    /\ Faults /\ cli = "scan" /\ todo = {}
    /\ index' \in SUBSET Row /\ CommandOver
    /\ cut' = (cut \/ Tail(script) # <<>>) /\ steady' = FALSE
    /\ UNCHANGED <<dir, watchd, bind, editing, count, arrived, told, kept, raced>>

(* What the rows of an index say: files without a sidecar, sidecars without  *)
(* a file, and how many of a kind there are.  reconcile and bind-missing     *)
(* load at most MaxRows rows, and an index that is longer is an error.       *)
Loads(ix)      == Cardinality(ix) <= MaxRows
MissingIn(ix)  == {a \in Asset : <<"FILE", a>> \in ix /\ <<"SIDECAR", a>> \notin ix}
OrphansIn(ix)  == {a \in Asset : <<"SIDECAR", a>> \in ix /\ <<"FILE", a>> \notin ix}
Count(ix, kind) == Cardinality({r \in ix : r[1] = kind})

(* Defect: every indexed file is bound. *)
BindMissingAll ==
    /\ cli = "idle" /\ script # <<>> /\ Head(script) = "bind"
    /\ cli' = "bind" /\ rows' = {}
    /\ todo' = {r \in index : r[1] = "FILE"}
    /\ UNCHANGED <<dir, watchd, bind, script, index, editing, count, history>>

(* The index is loaded once; a sidecar is missing when the index has no row  *)
(* for it.                                                                  *)
BindMissing ==
    /\ cli = "idle" /\ script # <<>> /\ Head(script) = "bind"
    /\ cli' = "bind" /\ rows' = {}
    /\ todo' = IF Loads(index) THEN {"FILE"} \X MissingIn(index) ELSE {}
    /\ UNCHANGED <<dir, watchd, bind, script, index, editing, count, history>>

(* A read of the index that fails counts as its end. *)
BindMissingMisreads ==
    /\ Faults /\ cli = "idle" /\ script # <<>> /\ Head(script) = "bind"
    /\ cli' = "bind" /\ rows' = {}
    /\ \E seen \in SUBSET index : todo' = {"FILE"} \X MissingIn(seen)
    /\ cut' = TRUE
    /\ UNCHANGED <<dir, watchd, bind, script, index, editing, count, arrived, told, kept,
                   raced, steady>>

BindNext(r) ==
    /\ cli = "bind" /\ r \in todo /\ bind["cli"].at = "idle"
    /\ todo' = todo \ {r}
    /\ bind' = [bind EXCEPT !["cli"] = [at |-> "hash", file |-> r[2], hash |-> NoHash]]
    /\ UNCHANGED <<dir, watchd, script, cli, index, rows, editing, count, history>>

BindMissingDone ==
    /\ cli = "bind" /\ todo = {} /\ bind["cli"].at = "idle"
    /\ CommandOver
    /\ UNCHANGED <<dir, watchd, bind, index, editing, count, history>>

(* imeta bind <file> *)
BindFile(a) ==
    /\ cli = "idle" /\ script # <<>> /\ Head(script) = "file"
    /\ cli' = "file"
    /\ bind' = [bind EXCEPT !["cli"] = [at |-> "hash", file |-> a, hash |-> NoHash]]
    /\ UNCHANGED <<dir, watchd, script, index, rows, todo, editing, count, history>>

BindFileDone ==
    /\ cli = "file" /\ bind["cli"].at = "idle"
    /\ CommandOver
    /\ UNCHANGED <<dir, watchd, bind, index, editing, count, history>>

(* A scan that is killed may leave half a last row. *)
CommandDies ==
    /\ Crashes /\ cli # "idle" /\ CommandOver
    /\ bind' = [bind EXCEPT !["cli"] = NoBind]
    /\ cut' = (cut \/ (cli = "scan" /\ Tail(script) # <<>>))
    /\ raced' = IF bind["cli"].at = "write" THEN raced \union {bind["cli"].file} ELSE raced
    /\ steady' = (steady /\ cli # "scan")
    /\ index' \in {index} \union (IF cli = "scan" THEN {index \union {r} : r \in Row} ELSE {})
    /\ UNCHANGED <<dir, watchd, editing, count, arrived, told, kept>>

-----------------------------------------------------------------------------
(* The GUI: one thread. *)

GuiFree == Gui /\ gui = "ready"

Default(a) == [of |-> a, hash |-> NoHash, tags |-> {}]

(* load_sidecar_data: what does not parse counts as no sidecar. *)
Parsed(d, a) == IF d \in Doc THEN d ELSE Default(a)

(* load_selected_file: a sidecar that does not parse leaves in the editor    *)
(* what was there before.                                                    *)
Select(a) ==
    /\ GuiFree /\ current' = a
    /\ editor' = CASE sidecar[a] = Missing -> Default(a)
                   [] sidecar[a] = Broken  -> editor
                   [] OTHER                -> sidecar[a]
    /\ UNCHANGED <<dir, watchd, bind, command, gui, draft, count, history>>

(* The user types in the editor, or the tag and field buttons do. *)
Annotate(tags) ==
    /\ GuiFree /\ editor \in Doc /\ tags # editor.tags
    /\ editor' = [editor EXCEPT !.tags = tags]
    /\ UNCHANGED <<dir, watchd, bind, command, gui, current, draft, count, history>>

Save ==
    /\ GuiFree /\ current # NoAsset /\ editor \in Doc
    /\ saves < MaxSaves /\ saves' = saves + 1
    /\ gui' = "saving" /\ draft' = [file |-> current, doc |-> editor]
    /\ UNCHANGED <<dir, watchd, bind, command, current, editor, edits, runs, history>>

(* bulk_append_tags on one file: `imeta remember` runs between the load and  *)
(* the save.                                                                 *)
BulkTag(a, t) ==
    /\ GuiFree /\ saves < MaxSaves /\ saves' = saves + 1
    /\ draft' = [file |-> a,
                  doc |-> [Parsed(sidecar[a], a) EXCEPT !.tags = @ \union {t}]]
    /\ gui' = "tagging"
    /\ UNCHANGED <<dir, watchd, bind, command, current, editor, edits, runs, history>>

(* The document to save has another digest than the file, the daemon is at   *)
(* the file, or a command writes its sidecar.                                *)
Unfit == \/ LET now == content[draft.file] IN now \notin Content \/ draft.doc.hash # Hash[now]
         \/ AtHand(draft.file)
         \/ bind["cli"].file = draft.file /\ bind["cli"].at = "write"

(* A command is binding a, or is to bind what an older index lacks. *)
BindDue(a) == bind["cli"].file = a \/ \E i \in DOMAIN script : script[i] = "bind"

(* Defect: the document is written over the old one. *)
SaveOpenOver ==
    /\ gui \in {"saving", "tagging"}
    /\ gui' = IF gui = "tagging" THEN "retagging" ELSE "writing"
    /\ raced' = IF Unfit THEN raced \union {draft.file} ELSE raced
    /\ UNCHANGED <<dir, watchd, bind, command, current, editor, draft, count, arrived,
                   told, kept, cut, steady>>

(* Path.write_text: open with "w", then write.  After a bulk change the      *)
(* editor shows the current file as it is on disk.                           *)
SaveOpen ==
    /\ gui \in {"saving", "tagging"}
    /\ sidecar' = [sidecar EXCEPT ![draft.file] = Broken]
    /\ gui' = IF gui = "tagging" THEN "retagging" ELSE "writing"
    /\ raced' = IF Unfit THEN raced \union {draft.file} ELSE raced
    /\ UNCHANGED <<content, watchd, bind, command, current, editor, draft, count,
                   arrived, told, kept, cut>>
    /\ Settle

SaveWrite ==
    /\ gui \in {"writing", "retagging"}
    /\ \E d \in Over(draft.file, draft.doc) :
         /\ sidecar' = [sidecar EXCEPT ![draft.file] = d]
         /\ kept' = [kept EXCEPT ![draft.file] =
                       IF \/ AtHand(draft.file) \/ BindDue(draft.file)
                          \/ sidecar[draft.file] # Broken
                       THEN {} ELSE draft.doc.tags]
         /\ editor' = IF gui = "writing" \/ current = NoAsset THEN editor
                      ELSE Parsed(sidecar'[current], current)
    /\ Post(<<"sidecar", draft.file>>)
    /\ gui' = "ready" /\ draft' = NoAsset
    /\ UNCHANGED <<content, daemon, running, batch, bind, command, current, count,
                   arrived, told, cut, raced, steady>>

(* The open or the write raises an exception, or the GUI is killed.          *)
SaveFails ==
    /\ Faults /\ gui \in {"saving", "tagging", "writing", "retagging"}
    /\ IF gui \in {"saving", "tagging"} THEN UNCHANGED <<sidecar, queue, kept, raced>>
       ELSE /\ \E d \in {sidecar[draft.file], Broken} :
                 sidecar' = [sidecar EXCEPT ![draft.file] = d]
            /\ Post(<<"sidecar", draft.file>>)
            /\ kept' = [kept EXCEPT ![draft.file] = {}]
            /\ raced' = raced \union {draft.file}
    /\ gui' = "ready" /\ draft' = NoAsset
    /\ \/ UNCHANGED <<current, editor>>
       \/ current' = NoAsset /\ editor' = Broken
    /\ UNCHANGED <<content, daemon, running, batch, bind, command, count, arrived, told, cut,
                   steady>>

-----------------------------------------------------------------------------
User == \E a \in Asset :
            \/ OpenFile(a) \/ RemoveFile(a)
            \/ \E c \in Content : CloseFile(a, c) \/ MoveIn(a, c)

Watchd ==
    \/ WatchdStart \/ WatchdCheck \/ WatchdEnter \/ WatchdRead \/ WatchdEvent
    \/ WatchdLoop
    \/ BindHash("watchd") \/ BindOpen("watchd") \/ BindWrite("watchd")

Cli ==
    \/ ScanStart \/ ScanDone \/ BindMissing \/ BindMissingDone \/ BindFileDone
    \/ \E a \in Asset : BindFile(a)
    \/ \E r \in Row : ScanEntry(r) \/ BindNext(r)
    \/ BindHash("cli") \/ BindOpen("cli") \/ BindWrite("cli")

Desk ==
    \/ \E a \in Asset : Select(a) \/ \E t \in Tag : BulkTag(a, t)
    \/ \E tags \in SUBSET Tag : Annotate(tags)
    \/ Save \/ SaveOpen \/ SaveWrite
    \/ Press \/ Return

Failure ==
    \/ \E b \in {"watchd", "cli"} : BindFails(b) \/ BindLoses(b)
    \/ ScanFails \/ ScanLoses \/ BindMissingMisreads
    \/ \E r \in Row : ScanMisses(r)
    \/ SaveFails

Next == User \/ Watchd \/ Signal \/ WatchdDies \/ Ask \/ Cli \/ CommandDies \/ Desk \/ Failure

Spec     == Init /\ [][Next]_vars
FairSpec == Spec /\ WF_vars(Watchd) /\ WF_vars(Cli)

-----------------------------------------------------------------------------
Fresh(a) == sidecar[a] \in Doc /\ sidecar[a].hash = Hash[content[a]]

(* When the daemon waits for events and none is on its way, the sidecar of   *)
(* every file whose last finished write it was told of has the digest of     *)
(* what the file holds: no event is bound too early, none is passed over     *)
(* behind another, no command writes an older digest over it, and a save in  *)
(* the GUI keeps it (main, maybe_bind_finished_file, imeta_bind_file,        *)
(* save_sidecar_data).  Excepted is a file that a command is binding or the  *)
(* GUI is writing to, and one on which that went wrong: it changed           *)
(* meanwhile, a write failed or was killed, a command and the GUI wrote its  *)
(* sidecar at once, or the GUI saved a document with another digest or while *)
(* the daemon was at the file.                                              *)
AtRest == daemon = "read" /\ queue = <<>>
SidecarsCurrent ==
    AtRest => \A a \in told \ (raced \union {bind["cli"].file}) :
                  content[a] \in Content /\ ~Saving(a) => Fresh(a)

(* The tags the user saved last stand in the sidecar until the file itself   *)
(* is written again and the daemon hears of it, or the user has it bound by  *)
(* name: whatever the daemon, the GUI on other files and "bind folder" did   *)
(* since, killed or not, since the index that bind-missing reads is the one  *)
(* its own scan has just written (bind_folder, imeta_bind_missing_path).     *)
(* The exceptions are a save that failed, or that was made while the daemon  *)
(* or a command was at the file or about to be, and a scan that is killed or *)
(* fails, for bind_folder does not look at its exit code and binds by the    *)
(* index it left, or an index that is not read to its end.                   *)
Still(a) == gui \in {"ready", "waiting"} /\ \A b \in DOMAIN bind : bind[b].file # a
TagsKept ==
    ~cut => \A a \in Asset : Still(a) /\ kept[a] # {} =>
        sidecar[a] \in Doc /\ kept[a] = sidecar[a].tags

(* Once users stop, every file the daemon was told of ends up with a sidecar *)
(* that describes it, also when the daemon is restarted in between, and      *)
(* though binds of other files fail; the exceptions are those of             *)
(* SidecarsCurrent.                                                          *)
ToldIsBound ==
    <>[](\A a \in told \ raced : content[a] \in Content /\ ~Saving(a) => Fresh(a))

(* After a scan that was not killed and in which no call failed, and until a *)
(* file or a sidecar comes or goes, the files reconcile reports without a    *)
(* sidecar, the sidecars it reports without a file, and the counts of doctor *)
(* are those of the directory, though both read only the index               *)
(* (imeta_reconcile_path, imeta_doctor_path).  Files that scan passes over   *)
(* do not count, and their sidecars are reported as without a file; an index *)
(* that is too long gives no report, and one that is not read to its end     *)
(* another.                                                                  *)
Seen == {a \in Asset \ Unlisted : content[a] # NoFile}
Has  == {a \in Asset : sidecar[a] # Missing}
ReportsTold ==
    steady /\ cli # "scan" =>
        /\ Loads(index) => MissingIn(index) = Seen \ Has /\ OrphansIn(index) = Has \ Seen
        /\ Count(index, "FILE") = Cardinality(Seen)
        /\ Count(index, "SIDECAR") = Cardinality(Has)

(* Four statements the code does not keep (run SidecarStaleIndex for        *)
(* CreatesOnly, README section 3 for the others).                           *)

(* imeta_watchd.c: it "auto-binds regular files ... after writes are         *)
(* complete".  Every file that appears ends up with a sidecar that fits it.  *)
EveryFileBound == <>[](\A a \in arrived : content[a] \in Content => Fresh(a))

(* imeta_watchd.c: "binds regular files only after writes are complete".  No *)
(* sidecar carries the digest of a file that was still being written.        *)
FinishedOnly == \A a \in Asset : sidecar[a] \in Doc => sidecar[a].hash # Hash[Partial]

(* bind_missing.c: "Creates .imeta sidecars for indexed files that do not    *)
(* already have them".                                                       *)
CreatesOnly ==
    [][cli = "bind" /\ bind["cli"].at = "open" /\ bind'["cli"].at = "write" =>
          sidecar[bind["cli"].file] = Missing]_vars

(* bind.c: the sidecar is for "image-pairing": the document beside a file is *)
(* the document of that file.                                                *)
Paired == \A a \in Asset : sidecar[a] \in Doc => sidecar[a].of = a

=============================================================================
