---------------------------- MODULE SidecarProofs ----------------------------
(***************************************************************************)
(* What the daemon, the commands, the GUI and the reports on the index     *)
(* promise about the sidecars of a directory, for every number of files,   *)
(* contents, tags, edits and restarts, every length of the kernel's queue  *)
(* and of the daemon's buffer, and every list of commands.                 *)
(***************************************************************************)
EXTENDS Sidecars, SequenceTheorems, FiniteSetTheorems, TLAPS

-----------------------------------------------------------------------------
(* What makes the properties inductive.                                     *)

Process == {"watchd", "cli"}

(* Only a bind and a save that have opened a sidecar write to it, and a     *)
(* sidecar never goes away.                                                 *)
ShapeInv ==
    /\ script \in Seq({"scan", "bind", "file"})
    /\ cli # "idle" => script # <<>> /\ Head(script) = cli
    /\ cli = "bind" => todo \subseteq {"FILE"} \X Asset
    /\ batch # <<>> => daemon = "batch"
    /\ \A b \in DOMAIN bind :
         /\ bind[b].at = "idle" => bind[b] = NoBind
         /\ bind[b].at # "idle" => bind[b].file \in Asset
         /\ bind[b].at \in {"open", "write"} => bind[b].hash \in Digest
         /\ bind[b].at = "write" => sidecar[bind[b].file] # Missing
    /\ gui \notin {"ready", "waiting"} => draft \in [file : Asset, doc : Doc]
    /\ gui \in {"writing", "retagging"} => sidecar[draft.file] # Missing

(* The index, and what scan has of it, are what was there since the scan began. *)
ReportInv ==
    steady =>
        IF cli = "scan" THEN rows = {r \in Row \ todo : Listed(r)}
                        ELSE index = {r \in Row : Listed(r)}

(* The sidecar the daemon and the commands should leave. *)
Described(a) == [of |-> a, hash |-> Hash[content[a]], tags |-> {}]

(* The daemon will still bind a as it is now. *)
Due(a) == \/ Pending(a)
          \/ /\ bind["watchd"].file = a
             /\ \/ bind["watchd"].at = "hash"
                \/ bind["watchd"].at = "open" /\ bind["watchd"].hash = Hash[content[a]]

(* At work on the sidecar of a with a digest of its own. *)
Holds(b, a) == bind[b].file = a /\ bind[b].at \in {"open", "write"}

Open(a) == \E b \in Process : bind[b].file = a /\ bind[b].at = "write"

CurrentInv ==
    /\ \A a \in Asset \ raced :
         /\ content[a] \in Content /\ Holds("cli", a) => bind["cli"].hash = Hash[content[a]]
         /\ Saving(a) =>
              /\ sidecar[a] = Broken /\ ~AtHand(a) /\ ~Open(a)
              /\ content[a] \in Content => draft.doc.hash = Hash[content[a]]
    /\ \A a \in told : content[a] \in Content /\ Holds("watchd", a) =>
         bind["watchd"].hash = Hash[content[a]] \/ Pending(a)
    /\ \A a \in told \ raced : content[a] \in Content =>
         \/ Due(a) \/ Saving(a)
         \/ sidecar[a] = Described(a)
         \/ Fresh(a) /\ ~Open(a)
         \/ sidecar[a] = Broken /\ Open(a)

(* Each list of commands binds only what it has scanned for. *)
ScansFirst ==
    \A s \in Script \union Button : \A i \in DOMAIN s : s[i] = "bind" => i > 1 /\ s[i - 1] = "scan"

(* No row of the index says that the sidecar a user saved is missing. *)
Covers(ix) == \A a \in Asset : kept[a] # {} => <<"SIDECAR", a>> \in ix

(* A bind-missing is running, or the list of commands has one to come. *)
Binds == \E i \in DOMAIN script : script[i] = "bind"

TagsInv ==
    /\ \A i \in DOMAIN script :
         i > 1 /\ script[i] = "bind" => script[i - 1] = "scan"
    /\ \A a \in Asset : kept[a] # {} => ~AtHand(a)
    /\ ~cut =>
         /\ cli = "idle" /\ script # <<>> /\ Head(script) = "bind" => Covers(index)
         /\ cli = "scan" /\ Binds => Covers(rows \union todo)
         /\ cli = "bind" => \A a \in Asset :
              kept[a] # {} => <<"FILE", a>> \notin todo /\ bind["cli"].file # a
         /\ bind["cli"].at = "write" => kept[bind["cli"].file] = {}
         /\ \A a \in Asset : kept[a] # {} /\ ~Saving(a) =>
              sidecar[a] \in Doc /\ sidecar[a].tags = kept[a]

-----------------------------------------------------------------------------
(* Which steps change what.                                                 *)

Finishes == \E a \in Asset, c \in Content : CloseFile(a, c) \/ MoveIn(a, c)
Edits    == \E a \in Asset : OpenFile(a) \/ RemoveFile(a)
Stops    == WatchdCheck \/ Signal \/ WatchdDies
Queries  == \E r \in Row : ScanEntry(r) \/ BindNext(r)
Misses   == \E r \in Row : ScanMisses(r)
Losses   == ScanFails \/ ScanLoses \/ BindMissingMisreads

LEMMA Moves ==
  ASSUME Next
  PROVE  /\ \/ UNCHANGED dir
            \/ Edits \/ Finishes \/ SaveOpen \/ SaveWrite \/ SaveFails
            \/ \E b \in Process : BindOpen(b) \/ BindWrite(b) \/ BindLoses(b)
         /\ \/ UNCHANGED watchd
            \/ Finishes \/ SaveWrite \/ SaveFails \/ Stops
            \/ WatchdStart \/ WatchdEnter \/ WatchdRead \/ WatchdEvent \/ WatchdLoop
            \/ \E b \in Process : BindWrite(b) \/ BindLoses(b)
         /\ \/ UNCHANGED bind
            \/ Stops \/ WatchdEvent \/ CommandDies
            \/ \E b \in Process : BindHash(b) \/ BindOpen(b) \/ BindWrite(b)
            \/ \E b \in Process : BindFails(b) \/ BindLoses(b)
            \/ \E r \in Row : BindNext(r)
            \/ \E a \in Asset : BindFile(a)
         /\ \/ UNCHANGED command
            \/ Ask \/ Press \/ ScanStart \/ ScanDone \/ BindMissing \/ BindMissingDone
            \/ BindFileDone \/ Queries \/ CommandDies \/ Misses \/ Losses
            \/ \E a \in Asset : BindFile(a)
         /\ \/ UNCHANGED editing
            \/ Desk \/ SaveFails
         /\ \/ UNCHANGED history
            \/ Edits \/ Finishes \/ Stops \/ ScanStart \/ CommandDies \/ SaveOpen \/ SaveWrite
            \/ SaveFails \/ Misses \/ Losses
            \/ \E b \in Process : BindOpen(b) \/ BindFails(b) \/ BindLoses(b)
<1> USE DEF Next, User, Watchd, Cli, Desk, Failure, Process, Edits, Finishes, Stops, Queries,
            Misses, Losses, WatchdStart, WatchdEnter, WatchdRead, WatchdEvent, WatchdLoop,
            BindHash, Ask, Press, Return, ScanStart, ScanDone, BindMissing, BindMissingDone,
            BindFileDone, Select, BulkTag, Annotate, Save
<1>1. \/ UNCHANGED dir
      \/ Edits \/ Finishes \/ SaveOpen \/ SaveWrite \/ SaveFails
      \/ \E b \in Process : BindOpen(b) \/ BindWrite(b) \/ BindLoses(b)
  BY DEF WatchdCheck, Signal, WatchdDies, Down, BindFile, ScanEntry, BindNext, CommandDies,
         BindFails, ScanFails, ScanMisses, ScanLoses, BindMissingMisreads, dir
<1>2. \/ UNCHANGED watchd
      \/ Finishes \/ SaveWrite \/ SaveFails \/ Stops
      \/ WatchdStart \/ WatchdEnter \/ WatchdRead \/ WatchdEvent \/ WatchdLoop
      \/ \E b \in Process : BindWrite(b) \/ BindLoses(b)
  BY DEF OpenFile, RemoveFile, BindOpen, BindFile, ScanEntry, BindNext, CommandDies, SaveOpen,
         BindFails, ScanFails, ScanMisses, ScanLoses, BindMissingMisreads
<1>3. \/ UNCHANGED bind
      \/ Stops \/ WatchdEvent \/ CommandDies
      \/ \E b \in Process : BindHash(b) \/ BindOpen(b) \/ BindWrite(b)
      \/ \E b \in Process : BindFails(b) \/ BindLoses(b)
      \/ \E r \in Row : BindNext(r)
      \/ \E a \in Asset : BindFile(a)
  BY DEF OpenFile, RemoveFile, CloseFile, MoveIn, Finish, ScanEntry, SaveOpen, SaveWrite,
         SaveFails, ScanFails, ScanMisses, ScanLoses, BindMissingMisreads
<1>4. \/ UNCHANGED command
      \/ Ask \/ Press \/ ScanStart \/ ScanDone \/ BindMissing \/ BindMissingDone
      \/ BindFileDone \/ Queries \/ CommandDies \/ Misses \/ Losses
      \/ \E a \in Asset : BindFile(a)
  BY DEF OpenFile, RemoveFile, CloseFile, MoveIn, Finish, WatchdCheck, Signal, WatchdDies, Down,
         BindOpen, BindWrite, SaveOpen, SaveWrite, SaveFails, BindFails, BindLoses
<1>5. UNCHANGED editing \/ Desk \/ SaveFails
  BY DEF OpenFile, RemoveFile, CloseFile, MoveIn, Finish, WatchdCheck, Signal, WatchdDies, Down,
         BindOpen, BindWrite, BindFile, ScanEntry, BindNext, CommandDies, BindFails, BindLoses,
         ScanFails, ScanMisses, ScanLoses, BindMissingMisreads
<1>6. \/ UNCHANGED history
      \/ Edits \/ Finishes \/ Stops \/ ScanStart \/ CommandDies \/ SaveOpen \/ SaveWrite
      \/ SaveFails \/ Misses \/ Losses
      \/ \E b \in Process : BindOpen(b) \/ BindFails(b) \/ BindLoses(b)
  BY DEF BindWrite, BindFile, ScanEntry, BindNext
<1> QED
  BY <1>1, <1>2, <1>3, <1>4, <1>5, <1>6

-----------------------------------------------------------------------------
(* Types and shape, one part of the state after the other.                  *)

BindState == [at : {"idle", "hash", "open", "write"}, file : Asset \union {NoAsset},
              hash : Digest \union {NoHash}]

DirOK ==
    /\ content \in [Asset -> Content \union {Partial, NoFile}]
    /\ sidecar \in [Asset -> Doc \union {Missing, Broken}]

WatchdOK ==
    /\ daemon \in {"down", "check", "enter", "read", "batch"} /\ running \in BOOLEAN
    /\ queue \in Seq(Event) /\ Len(queue) <= QueueMax
    /\ batch \in Seq(Event) /\ Len(batch) <= BufferMax
    /\ batch # <<>> => daemon = "batch"

BindOK ==
    /\ bind \in [Process -> BindState]
    /\ \A b \in Process :
         /\ bind[b].at = "idle" => bind[b] = NoBind
         /\ bind[b].at # "idle" => bind[b].file \in Asset
         /\ bind[b].at \in {"open", "write"} => bind[b].hash \in Digest

WorkOK ==
    /\ bind["watchd"].at # "idle" => daemon = "batch"
    /\ bind["cli"].at # "idle" => cli \in {"bind", "file"}

OpenOK ==
    /\ \A b \in Process : bind[b].at = "write" => sidecar[bind[b].file] # Missing
    /\ gui \in {"writing", "retagging"} => sidecar[draft.file] # Missing

CommandOK ==
    /\ script \in Seq({"scan", "bind", "file"})
    /\ cli \in {"idle", "scan", "bind", "file"}
    /\ cli # "idle" => script # <<>> /\ Head(script) = cli
    /\ index \subseteq Row /\ rows \subseteq Row /\ todo \subseteq Row
    /\ cli = "bind" => todo \subseteq {"FILE"} \X Asset

DeskOK ==
    /\ gui \in {"ready", "waiting", "tagging", "saving", "writing", "retagging"}
    /\ current \in Asset \union {NoAsset}
    /\ editor \in Doc \union {Broken} /\ draft \in [file : Asset, doc : Doc] \union {NoAsset}
    /\ gui \notin {"ready", "waiting"} => draft \in [file : Asset, doc : Doc]

HistoryOK ==
    /\ arrived \subseteq Asset /\ told \subseteq Asset
    /\ kept \in [Asset -> SUBSET Tag] /\ raced \subseteq Asset
    /\ {cut, steady} \subseteq BOOLEAN

Inv == /\ DirOK /\ WatchdOK /\ BindOK /\ WorkOK /\ OpenOK
       /\ CommandOK /\ DeskOK /\ HistoryOK

LEMMA Limits == /\ QueueMax \in Nat \ {0} /\ BufferMax \in Nat \ {0} /\ MaxRows \in Nat
                /\ {Daemon, Gui, Crashes, Faults} \subseteq BOOLEAN
  BY SidecarsAssumption

LEMMA Parts == Inv <=> TypeOK /\ ShapeInv
<1>1. ASSUME bind \in [Process -> BindState]
      PROVE  DOMAIN bind = Process
  BY <1>1
<1>2. Inv => TypeOK
  BY DEF Inv, DirOK, WatchdOK, BindOK, WorkOK, CommandOK, DeskOK, HistoryOK, TypeOK, Process,
         BindState
<1>3. Inv => ShapeInv
  BY <1>1 DEF Inv, WatchdOK, BindOK, OpenOK, CommandOK, DeskOK, ShapeInv
<1>4. TypeOK /\ ShapeInv => Inv
  BY <1>1 DEF Inv, DirOK, WatchdOK, BindOK, WorkOK, OpenOK, CommandOK, DeskOK, HistoryOK,
              TypeOK, ShapeInv, Process, BindState
<1> QED
  BY <1>2, <1>3, <1>4

LEMMA InvInit == Init => Inv
<1> SUFFICES ASSUME Init PROVE Inv
  OBVIOUS
<1>1. bind \in [Process -> BindState] /\ \A b \in Process : bind[b] = NoBind
  BY DEF Init, Process, BindState, NoBind
<1>2. NoBind.at = "idle" /\ NoBind.file = NoAsset
  BY DEF NoBind
<1>3. DirOK /\ DeskOK /\ HistoryOK
  <2>1. DirOK /\ DeskOK
    BY DEF Init, DirOK, DeskOK
  <2>2. HistoryOK
    BY DEF Init, HistoryOK
  <2> QED
    BY <2>1, <2>2
<1>4. WatchdOK /\ CommandOK
  <2>1. <<>> \in Seq(Event) /\ <<>> \in Seq({"scan", "bind", "file"}) /\ Len(<<>>) = 0
    BY EmptySeq
  <2>2. 0 <= QueueMax /\ 0 <= BufferMax
    BY Limits
  <2>3. Len(queue) <= QueueMax /\ Len(batch) <= BufferMax
    BY <2>1, <2>2 DEF Init
  <2>4. WatchdOK
    BY <2>1, <2>3 DEF Init, WatchdOK
  <2>5. CommandOK
    BY <2>1 DEF Init, CommandOK
  <2> QED
    BY <2>4, <2>5
<1>5. BindOK
  BY <1>1, <1>2 DEF BindOK
<1>6. WorkOK /\ OpenOK
  BY <1>1, <1>2 DEF Init, WorkOK, OpenOK, Process
<1> QED
  BY <1>3, <1>4, <1>5, <1>6 DEF Inv

LEMMA Posted ==
  ASSUME WatchdOK, NEW e \in Event, Post(e)
  PROVE  /\ queue' \in Seq(Event) /\ Len(queue') <= QueueMax
         /\ \A i \in DOMAIN queue : i \in DOMAIN queue' /\ queue'[i] = queue[i]
         /\ Heard(e) => \E i \in DOMAIN queue' : queue'[i] = e
         /\ \A i \in DOMAIN queue' : \/ Heard(e) /\ queue'[i] = e
                                     \/ \E j \in DOMAIN queue : queue[j] = queue'[i]
<1>1. queue \in Seq(Event) /\ Len(queue) \in Nat /\ DOMAIN queue = 1 .. Len(queue)
      /\ Len(queue) <= QueueMax
  BY LenProperties DEF WatchdOK
<1>2. CASE ~Heard(e) \/ (queue # <<>> /\ queue[Len(queue)] = e)
  <2>1. queue' = queue
    BY <1>2 DEF Post
  <2>2. ASSUME Heard(e)
        PROVE  Len(queue) \in DOMAIN queue /\ queue[Len(queue)] = e
    <3>1. Len(queue) # 0
      BY <1>1, <1>2, <2>2, EmptySeq
    <3> QED
      BY <1>1, <1>2, <2>2, <3>1
  <2> QED
    BY <1>1, <2>1, <2>2
<1>3. CASE Heard(e) /\ ~(queue # <<>> /\ queue[Len(queue)] = e)
  <2>1. queue' = Append(queue, e)
    BY <1>3 DEF Post
  <2>2. Len(queue) < QueueMax
    <3>1. CASE queue = <<>>
      <4>1. Len(queue) = 0
        BY <3>1, EmptySeq
      <4> QED
        BY <4>1, Limits
    <3>2. CASE queue # <<>>
      BY <1>3, <3>2 DEF Heard
    <3> QED
      BY <3>1, <3>2
  <2>3. /\ Append(queue, e) \in Seq(Event) /\ Len(Append(queue, e)) = Len(queue) + 1
        /\ \A i \in 1 .. Len(queue) : Append(queue, e)[i] = queue[i]
        /\ Append(queue, e)[Len(queue) + 1] = e
    BY <1>1, AppendProperties
  <2>4. DOMAIN queue' = 1 .. Len(queue) + 1
    BY <2>1, <2>3, LenProperties
  <2>5. Len(queue') <= QueueMax
    BY <1>1, <2>1, <2>2, <2>3, Limits
  <2>6. \A i \in DOMAIN queue : i \in DOMAIN queue' /\ queue'[i] = queue[i]
    BY <1>1, <2>1, <2>3, <2>4
  <2>7. Len(queue) + 1 \in DOMAIN queue' /\ queue'[Len(queue) + 1] = e
    BY <1>1, <2>1, <2>3, <2>4
  <2>8. \A i \in DOMAIN queue' : i \in DOMAIN queue \/ i = Len(queue) + 1
    BY <1>1, <2>4
  <2> QED
    BY <1>3, <2>1, <2>3, <2>5, <2>6, <2>7, <2>8
<1> QED
  BY <1>2, <1>3

(* A read takes events from the queue to the batch, and makes none up.      *)
LEMMA ReadTakes ==
  ASSUME WatchdOK, WatchdRead
  PROVE  /\ queue' \in Seq(Event) /\ Len(queue') <= QueueMax
         /\ batch' \in Seq(Event) /\ Len(batch') <= BufferMax
         /\ \A i \in DOMAIN queue : \/ \E j \in DOMAIN queue' : queue'[j] = queue[i]
                                    \/ \E j \in DOMAIN batch' : batch'[j] = queue[i]
         /\ \A i \in DOMAIN queue' : \E j \in DOMAIN queue : queue[j] = queue'[i]
         /\ \A i \in DOMAIN batch' : \E j \in DOMAIN queue : queue[j] = batch'[i]
<1> DEFINE len == Len(queue)
           n   == IF len < BufferMax THEN len ELSE BufferMax
<1>1. queue \in Seq(Event) /\ len \in Nat /\ DOMAIN queue = 1 .. len /\ len <= QueueMax
  BY LenProperties DEF WatchdOK
<1>2. \A i \in 1 .. len : queue[i] \in Event
  BY <1>1, ElementOfSeq
<1>3. n \in Nat /\ n <= len /\ n <= BufferMax
  BY <1>1, Limits
<1>4. batch' = SubSeq(queue, 1, n) /\ queue' = SubSeq(queue, n + 1, len)
  BY DEF WatchdRead
<1> HIDE DEF len, n
<1>5. /\ batch' \in Seq(Event) /\ Len(batch') = (IF 1 <= n THEN n - 1 + 1 ELSE 0)
      /\ \A i \in 1 .. n - 1 + 1 : batch'[i] = queue[1 + i - 1]
  <2>1. \A i \in 1 .. n : queue[i] \in Event
    BY <1>1, <1>2, <1>3
  <2> QED
    BY <1>3, <1>4, <2>1, SubSeqProperties
<1>6. /\ queue' \in Seq(Event) /\ Len(queue') = (IF n + 1 <= len THEN len - (n + 1) + 1 ELSE 0)
      /\ \A i \in 1 .. len - (n + 1) + 1 : queue'[i] = queue[n + 1 + i - 1]
  <2>1. \A i \in n + 1 .. len : queue[i] \in Event
    BY <1>1, <1>2, <1>3
  <2>2. n + 1 \in Int /\ len \in Int
    BY <1>1, <1>3
  <2> QED
    BY <1>4, <2>1, <2>2, SubSeqProperties
<1>7. Len(batch') = n /\ Len(queue') = len - n
  BY <1>1, <1>3, <1>5, <1>6
<1>8. DOMAIN batch' = 1 .. n /\ DOMAIN queue' = 1 .. len - n
  BY <1>5, <1>6, <1>7, LenProperties
<1>9. ASSUME NEW i \in DOMAIN queue
      PROVE  \/ \E j \in DOMAIN queue' : queue'[j] = queue[i]
             \/ \E j \in DOMAIN batch' : batch'[j] = queue[i]
  <2>1. CASE i <= n
    <3>1. i \in 1 .. n /\ i \in 1 .. n - 1 + 1 /\ 1 + i - 1 = i
      BY <1>1, <1>3, <2>1
    <3>2. i \in DOMAIN batch' /\ batch'[i] = queue[i]
      BY <1>5, <1>8, <3>1
    <3> QED
      BY <3>2
  <2>2. CASE i > n
    <3>1. i - n \in 1 .. len - n /\ i - n \in 1 .. len - (n + 1) + 1 /\ n + 1 + (i - n) - 1 = i
      BY <1>1, <1>3, <2>2
    <3>2. i - n \in DOMAIN queue' /\ queue'[i - n] = queue[i]
      BY <1>6, <1>8, <3>1
    <3> QED
      BY <3>2
  <2> QED
    BY <1>1, <1>3, <2>1, <2>2
<1>10. ASSUME NEW i \in DOMAIN queue'
       PROVE  \E j \in DOMAIN queue : queue[j] = queue'[i]
  <2>1. i \in 1 .. len - (n + 1) + 1 /\ n + 1 + i - 1 \in DOMAIN queue
    BY <1>1, <1>3, <1>8, <1>10
  <2> QED
    BY <1>6, <2>1
<1>11. ASSUME NEW i \in DOMAIN batch'
       PROVE  \E j \in DOMAIN queue : queue[j] = batch'[i]
  <2>1. i \in 1 .. n - 1 + 1 /\ 1 + i - 1 \in DOMAIN queue
    BY <1>1, <1>3, <1>8, <1>11
  <2> QED
    BY <1>5, <2>1
<1> QED
  BY <1>1, <1>3, <1>5, <1>6, <1>7, <1>9, <1>10, <1>11, Limits

LEMMA EventTakes ==
  ASSUME WatchdOK, batch # <<>>
  PROVE  /\ Head(batch) \in Event /\ Tail(batch) \in Seq(Event) /\ Len(Tail(batch)) <= BufferMax
         /\ \A i \in DOMAIN batch : \/ batch[i] = Head(batch)
                                    \/ \E j \in DOMAIN Tail(batch) : Tail(batch)[j] = batch[i]
         /\ \A i \in DOMAIN Tail(batch) : \E j \in DOMAIN batch : batch[j] = Tail(batch)[i]
         /\ \E j \in DOMAIN batch : batch[j] = Head(batch)
<1>1. batch \in Seq(Event) /\ Len(batch) \in Nat /\ DOMAIN batch = 1 .. Len(batch)
      /\ Len(batch) <= BufferMax
  BY LenProperties DEF WatchdOK
<1>2. /\ Head(batch) \in Event /\ Tail(batch) \in Seq(Event) /\ Len(Tail(batch)) = Len(batch) - 1
      /\ \A i \in 1 .. Len(Tail(batch)) : Tail(batch)[i] = batch[i + 1]
  BY <1>1, HeadTailProperties
<1>3. Head(batch) = batch[1]
  BY <1>1
<1>4. DOMAIN Tail(batch) = 1 .. Len(batch) - 1
  BY <1>2, LenProperties
<1>5. ASSUME NEW i \in DOMAIN batch, i # 1
      PROVE  \E j \in DOMAIN Tail(batch) : Tail(batch)[j] = batch[i]
  <2>1. i - 1 \in DOMAIN Tail(batch) /\ i - 1 + 1 = i /\ i - 1 \in 1 .. Len(Tail(batch))
    BY <1>1, <1>2, <1>4, <1>5
  <2> QED
    BY <1>2, <2>1
<1>6. Len(Tail(batch)) <= BufferMax
  BY <1>1, <1>2, Limits
<1>7. ASSUME NEW i \in DOMAIN Tail(batch)
      PROVE  \E j \in DOMAIN batch : batch[j] = Tail(batch)[i]
  <2>1. i + 1 \in DOMAIN batch /\ i \in 1 .. Len(Tail(batch))
    BY <1>1, <1>2, <1>4, <1>7
  <2> QED
    BY <1>2, <2>1
<1>8. 1 \in DOMAIN batch
  BY <1>1, EmptySeq
<1> QED
  BY <1>2, <1>3, <1>5, <1>6, <1>7, <1>8

(* What a writer leaves in a sidecar.                                       *)
LEMMA Written ==
  ASSUME Inv, NEW b \in Process
  PROVE  /\ BindOpen(b) \/ BindWrite(b) \/ BindLoses(b) => bind[b].file \in Asset
         /\ BindOpen(b) => sidecar' = [sidecar EXCEPT ![bind[b].file] = Broken]
         /\ BindWrite(b) => \E d \in Doc \union {Broken} :
              /\ sidecar' = [sidecar EXCEPT ![bind[b].file] = d]
              /\ d \in Over(bind[b].file, [of |-> bind[b].file, hash |-> bind[b].hash, tags |-> {}])
         /\ SaveOpen => /\ draft \in [file : Asset, doc : Doc]
                        /\ sidecar' = [sidecar EXCEPT ![draft.file] = Broken]
         /\ SaveWrite => /\ draft \in [file : Asset, doc : Doc]
                         /\ \E d \in Over(draft.file, draft.doc) : d \in Doc \union {Broken} /\
                              sidecar' = [sidecar EXCEPT ![draft.file] = d]
         /\ BindLoses(b) => \E d \in Doc \union {Broken} :
                              sidecar' = [sidecar EXCEPT ![bind[b].file] = d]
         /\ SaveFails => /\ draft \in [file : Asset, doc : Doc]
                         /\ \/ sidecar' = sidecar /\ gui \in {"saving", "tagging"}
                            \/ \E d \in Doc \union {Broken} :
                                 sidecar' = [sidecar EXCEPT ![draft.file] = d]
<1>0. sidecar \in [Asset -> Doc \union {Missing, Broken}] /\ OpenOK
  BY DEF Inv, DirOK
<1>1. BindOpen(b) \/ BindWrite(b) \/ BindLoses(b) => bind[b].file \in Asset
  BY DEF BindOpen, BindWrite, BindLoses, Inv, BindOK
<1>2. ASSUME BindWrite(b)
      PROVE  [of |-> bind[b].file, hash |-> bind[b].hash, tags |-> {}] \in Doc
  <2>1. bind[b].file \in Asset /\ bind[b].hash \in Digest
    BY <1>2 DEF BindWrite, Inv, BindOK
  <2> QED
    BY <2>1 DEF Doc
<1>3. ASSUME BindWrite(b)
      PROVE  \E d \in Doc \union {Broken} :
              /\ sidecar' = [sidecar EXCEPT ![bind[b].file] = d]
              /\ d \in Over(bind[b].file, [of |-> bind[b].file, hash |-> bind[b].hash, tags |-> {}])
  BY <1>2, <1>3 DEF BindWrite, Over
<1>4. SaveOpen \/ SaveWrite \/ SaveFails => draft \in [file : Asset, doc : Doc]
  BY DEF SaveOpen, SaveWrite, SaveFails, Inv, DeskOK
<1>5. SaveWrite => \E d \in Over(draft.file, draft.doc) : d \in Doc \union {Broken} /\
                              sidecar' = [sidecar EXCEPT ![draft.file] = d]
  BY <1>4 DEF SaveWrite, Over
<1>6. BindLoses(b) => \E d \in Doc \union {Broken} : sidecar' = [sidecar EXCEPT ![bind[b].file] = d]
  <2>1. ASSUME BindLoses(b)
        PROVE  sidecar[bind[b].file] \in Doc \union {Broken}
    BY <1>0, <1>1, <2>1 DEF BindLoses, OpenOK
  <2> QED
    BY <2>1 DEF BindLoses
<1>7. ASSUME SaveFails, gui \notin {"saving", "tagging"}
      PROVE  \E d \in Doc \union {Broken} : sidecar' = [sidecar EXCEPT ![draft.file] = d]
  <2>1. draft.file \in Asset /\ gui \in {"writing", "retagging"}
    BY <1>4, <1>7 DEF SaveFails
  <2>2. sidecar[draft.file] \in Doc \union {Broken}
    BY <1>0, <2>1 DEF OpenOK
  <2> QED
    BY <1>7, <2>2 DEF SaveFails
<1>8. SaveFails /\ gui \in {"saving", "tagging"} => sidecar' = sidecar
  BY DEF SaveFails
<1> QED
  BY <1>1, <1>3, <1>4, <1>5, <1>6, <1>7, <1>8 DEF BindOpen, SaveOpen

(* Whoever writes, no sidecar goes away, and each is whole or broken.       *)
LEMMA SidecarMoves ==
  ASSUME Inv, Next
  PROVE  /\ \A a \in Asset : sidecar[a] # Missing => sidecar'[a] # Missing
         /\ sidecar' \in [Asset -> Doc \union {Missing, Broken}]
<1>1. ASSUME NEW a \in Asset, NEW d \in Doc \union {Broken},
             sidecar' = [sidecar EXCEPT ![a] = d]
      PROVE  /\ \A c \in Asset : sidecar[c] # Missing => sidecar'[c] # Missing
             /\ sidecar' \in [Asset -> Doc \union {Missing, Broken}]
  <2>1. d # Missing
    BY SidecarsAssumption
  <2> QED
    BY <1>1, <2>1 DEF Inv, DirOK
<1>2. CASE sidecar' = sidecar
  BY <1>2 DEF Inv, DirOK
<1>3. ASSUME NEW b \in Process, BindOpen(b) \/ BindWrite(b) \/ BindLoses(b)
      PROVE  \E a \in Asset, d \in Doc \union {Broken} : sidecar' = [sidecar EXCEPT ![a] = d]
  <2>1. bind[b].file \in Asset
    BY <1>3, Written
  <2>2. \E d \in Doc \union {Broken} : sidecar' = [sidecar EXCEPT ![bind[b].file] = d]
    BY <1>3, Written
  <2> QED
    BY <2>1, <2>2
<1>4. ASSUME SaveOpen \/ SaveWrite \/ SaveFails, sidecar' # sidecar
      PROVE  \E a \in Asset, d \in Doc \union {Broken} : sidecar' = [sidecar EXCEPT ![a] = d]
  <2>1. draft.file \in Asset
    BY <1>4, Written DEF Process
  <2>2. \E d \in Doc \union {Broken} : sidecar' = [sidecar EXCEPT ![draft.file] = d]
    BY <1>4, Written DEF Process
  <2> QED
    BY <2>1, <2>2
<1>5. ASSUME Edits \/ Finishes \/ UNCHANGED dir
      PROVE  sidecar' = sidecar
  BY <1>5 DEF Edits, Finishes, OpenFile, RemoveFile, CloseFile, MoveIn, Finish, dir
<1> QED
  BY <1>1, <1>2, <1>3, <1>4, <1>5, Moves

LEMMA DirStep == ASSUME Inv, Next PROVE DirOK'
<1>1. content' \in [Asset -> Content \union {Partial, NoFile}]
  <2>0. content \in [Asset -> Content \union {Partial, NoFile}]
    BY DEF Inv, DirOK
  <2>1. CASE Edits \/ Finishes
    BY <2>0, <2>1 DEF Edits, Finishes, OpenFile, RemoveFile, CloseFile, MoveIn, Finish
  <2>2. CASE content' = content
    BY <2>0, <2>2
  <2>3. ASSUME \/ UNCHANGED dir \/ SaveOpen \/ SaveWrite \/ SaveFails
               \/ \E b \in Process : BindOpen(b) \/ BindWrite(b) \/ BindLoses(b)
        PROVE  content' = content
    BY <2>3 DEF dir, SaveOpen, SaveWrite, SaveFails, BindOpen, BindWrite, BindLoses
  <2> QED
    BY <2>1, <2>2, <2>3, Moves
<1> QED
  BY <1>1, SidecarMoves DEF DirOK

LEMMA WatchdStep == ASSUME Inv, Next PROVE WatchdOK'
<1>0. /\ daemon \in {"down", "check", "enter", "read", "batch"} /\ running \in BOOLEAN
      /\ queue \in Seq(Event) /\ Len(queue) <= QueueMax
      /\ batch \in Seq(Event) /\ Len(batch) <= BufferMax
      /\ batch # <<>> => daemon = "batch"
  BY DEF Inv, WatchdOK
<1>1. WatchdOK
  BY DEF Inv
<1>2. <<>> \in Seq(Event) /\ Len(<<>>) <= QueueMax /\ Len(<<>>) <= BufferMax
  BY EmptySeq, Limits
<1>3. ASSUME NEW e \in Event, Post(e), UNCHANGED <<daemon, running, batch>>
      PROVE  WatchdOK'
  BY <1>0, <1>1, <1>3, Posted DEF WatchdOK
<1>4. CASE UNCHANGED watchd
  BY <1>0, <1>4 DEF watchd, WatchdOK
<1>5. CASE Finishes
  <2>1. PICK a \in Asset : Post(<<"asset", a>>) /\ UNCHANGED <<daemon, running, batch>>
    BY <1>5 DEF Finishes, CloseFile, MoveIn, Finish
  <2> QED
    BY <1>3, <2>1 DEF Event
<1>6. CASE SaveWrite \/ SaveFails
  <2>1. \/ Post(<<"sidecar", draft.file>>) /\ UNCHANGED <<daemon, running, batch>>
        \/ UNCHANGED watchd
    BY <1>6 DEF SaveWrite, SaveFails, watchd
  <2>2. draft.file \in Asset
    BY <1>6, Written DEF Process
  <2> QED
    BY <1>3, <1>4, <2>1, <2>2 DEF Event
<1>7. ASSUME NEW b \in Process, BindWrite(b) \/ BindLoses(b)
      PROVE  WatchdOK'
  <2>1. Post(<<"sidecar", bind[b].file>>) /\ UNCHANGED <<daemon, running, batch>>
    BY <1>7 DEF BindWrite, BindLoses
  <2>2. bind[b].file \in Asset
    BY <1>7, Written
  <2> QED
    BY <1>3, <2>1, <2>2 DEF Event
<1>8. CASE Stops
  <2>1. ASSUME Down PROVE WatchdOK'
    BY <1>0, <1>2, <2>1 DEF Down, WatchdOK
  <2>2. ASSUME ~Down, WatchdCheck \/ Signal
        PROVE  /\ UNCHANGED <<queue, batch>> /\ running' \in BOOLEAN
               /\ daemon = "batch" => daemon' = "batch"
               /\ daemon' \in {"down", "check", "enter", "read", "batch"}
    BY <1>0, <2>2 DEF WatchdCheck, Signal
  <2>3. ASSUME ~Down, WatchdCheck \/ Signal
        PROVE  WatchdOK'
    BY <1>0, <2>2, <2>3 DEF WatchdOK
  <2> QED
    BY <1>8, <2>1, <2>3 DEF Stops, WatchdDies
<1>9. CASE WatchdStart \/ WatchdEnter \/ WatchdLoop
  <2>1. /\ UNCHANGED <<queue, batch>> /\ running' \in BOOLEAN /\ batch = <<>>
        /\ daemon' \in {"down", "check", "enter", "read", "batch"}
    BY <1>0, <1>9 DEF WatchdStart, WatchdEnter, WatchdLoop
  <2> QED
    BY <1>0, <2>1 DEF WatchdOK
<1>10. CASE WatchdRead
  <2>1. daemon' = "batch" /\ running' = running
    BY <1>10 DEF WatchdRead
  <2> QED
    BY <1>0, <1>1, <1>10, <2>1, ReadTakes DEF WatchdOK
<1>11. CASE WatchdEvent
  <2>1. daemon' = "batch" /\ running' = running /\ queue' = queue /\ batch # <<>>
        /\ batch' = Tail(batch)
    BY <1>11 DEF WatchdEvent
  <2> QED
    BY <1>0, <1>1, <2>1, EventTakes DEF WatchdOK
<1> QED
  BY <1>4, <1>5, <1>6, <1>7, <1>8, <1>9, <1>10, <1>11, Moves

(* What a process binds after a step, if it is still about it.              *)
Fits(n) ==
    /\ n \in BindState
    /\ n.at = "idle" => n = NoBind
    /\ n.at # "idle" => n.file \in Asset
    /\ n.at \in {"open", "write"} => n.hash \in Digest

Took(b, n) == bind' = [bind EXCEPT ![b] = n] /\ Fits(n)

LEMMA BindMoves ==
  ASSUME Inv
  PROVE  /\ \A b \in Process :
              /\ BindHash(b) => \E n : Took(b, n) /\
                   n = IF content[bind[b].file] = NoFile THEN NoBind
                       ELSE [at |-> "open", file |-> bind[b].file, hash |-> Hash[content[bind[b].file]]]
              /\ BindOpen(b) => Took(b, [at |-> "write", file |-> bind[b].file, hash |-> bind[b].hash])
              /\ BindWrite(b) \/ BindFails(b) \/ BindLoses(b) => Took(b, NoBind)
         /\ Down => Took("watchd", NoBind)
         /\ WatchdEvent => bind' = bind \/
              Took("watchd", [at |-> "hash", file |-> Head(batch)[2], hash |-> NoHash])
         /\ CommandDies => Took("cli", NoBind)
         /\ \A r \in Row : BindNext(r) =>
              Took("cli", [at |-> "hash", file |-> r[2], hash |-> NoHash])
         /\ \A a \in Asset : BindFile(a) =>
              Took("cli", [at |-> "hash", file |-> a, hash |-> NoHash])
<1>1. Fits(NoBind)
  BY DEF Fits, NoBind, BindState
<1>2. ASSUME NEW a \in Asset
      PROVE  /\ Fits([at |-> "hash", file |-> a, hash |-> NoHash])
             /\ \A h \in Digest, at \in {"open", "write"} : Fits([at |-> at, file |-> a, hash |-> h])
  BY DEF Fits, BindState
<1>3. ASSUME NEW b \in Process
      PROVE  /\ bind[b].at \in {"hash", "open", "write"} => bind[b].file \in Asset
             /\ bind[b].at \in {"open", "write"} => bind[b].hash \in Digest
             /\ bind[b] \in BindState
  BY DEF Inv, BindOK
<1>4. ASSUME NEW b \in Process, BindHash(b)
      PROVE  \E n : Took(b, n) /\
                   n = IF content[bind[b].file] = NoFile THEN NoBind
                       ELSE [at |-> "open", file |-> bind[b].file, hash |-> Hash[content[bind[b].file]]]
  <2>1. CASE content[bind[b].file] = NoFile
    BY <1>1, <1>4, <2>1 DEF BindHash, Took
  <2>2. CASE content[bind[b].file] # NoFile
    <3>1. bind[b].file \in Asset
      BY <1>3, <1>4 DEF BindHash
    <3>2. Hash[content[bind[b].file]] \in Digest
      BY <2>2, <3>1, SidecarsAssumption DEF Inv, DirOK
    <3>3. [bind[b] EXCEPT !.at = "open", !.hash = Hash[content[bind[b].file]]]
            = [at |-> "open", file |-> bind[b].file, hash |-> Hash[content[bind[b].file]]]
      <4>1. ASSUME NEW m \in BindState, NEW h \in Digest
            PROVE  [m EXCEPT !.at = "open", !.hash = h] = [at |-> "open", file |-> m.file, hash |-> h]
        <5>1. PICK e : e = [m EXCEPT !.at = "open", !.hash = h]
          OBVIOUS
        <5>2. e \in BindState /\ e.at = "open" /\ e.file = m.file /\ e.hash = h
          BY <5>1 DEF BindState
        <5>3. e = [at |-> e.at, file |-> e.file, hash |-> e.hash]
          BY <5>2 DEF BindState
        <5> QED
          BY <5>1, <5>2, <5>3
      <4> QED
        BY <1>3, <3>2, <4>1
    <3>4. bind' = [bind EXCEPT ![b] = [bind[b] EXCEPT !.at = "open",
                                                    !.hash = Hash[content[bind[b].file]]]]
      BY <1>3, <1>4, <2>2 DEF BindHash, Inv, BindOK
    <3> QED
      BY <1>2, <2>2, <3>1, <3>2, <3>3, <3>4 DEF Took
  <2> QED
    BY <2>1, <2>2
<1>5. ASSUME NEW b \in Process, BindOpen(b)
      PROVE  Took(b, [at |-> "write", file |-> bind[b].file, hash |-> bind[b].hash])
  <2>1. bind' = [bind EXCEPT ![b] = [bind[b] EXCEPT !.at = "write"]]
    BY <1>5 DEF BindOpen, BindTo, Inv, BindOK
  <2>2. [bind[b] EXCEPT !.at = "write"]
          = [at |-> "write", file |-> bind[b].file, hash |-> bind[b].hash]
    BY <1>3 DEF BindState
  <2>3. bind[b].file \in Asset /\ bind[b].hash \in Digest
    BY <1>3, <1>5 DEF BindOpen
  <2> QED
    BY <1>2, <2>1, <2>2, <2>3 DEF Took
<1>6. /\ \A b \in Process : BindWrite(b) \/ BindFails(b) \/ BindLoses(b) => Took(b, NoBind)
      /\ Down => Took("watchd", NoBind)
      /\ CommandDies => Took("cli", NoBind)
  BY <1>1 DEF BindWrite, BindFails, BindLoses, Down, CommandDies, Took
<1>7. ASSUME WatchdEvent, bind' # bind
      PROVE  Took("watchd", [at |-> "hash", file |-> Head(batch)[2], hash |-> NoHash])
  <2>1. batch # <<>>
    BY <1>7 DEF WatchdEvent
  <2>2. Head(batch)[2] \in Asset
    BY <2>1, EventTakes DEF Inv, Event
  <2> QED
    BY <1>2, <1>7, <2>2 DEF WatchdEvent, Took
<1>8. \A r \in Row : BindNext(r) => Took("cli", [at |-> "hash", file |-> r[2], hash |-> NoHash])
  BY <1>2 DEF BindNext, Took, Row
<1>9. \A a \in Asset : BindFile(a) => Took("cli", [at |-> "hash", file |-> a, hash |-> NoHash])
  BY <1>2 DEF BindFile, Took
<1> QED
  BY <1>4, <1>5, <1>6, <1>7, <1>8, <1>9

LEMMA Taken ==
  ASSUME Inv, NEW b \in Process, NEW n, Took(b, n)
  PROVE  /\ bind'[b] = n /\ n \in BindState
         /\ \A c \in Process \ {b} : bind'[c] = bind[c]
         /\ BindOK'
<1>1. bind \in [Process -> BindState]
  BY DEF Inv, BindOK
<1>2. /\ bind'[b] = n /\ n \in BindState
      /\ \A c \in Process \ {b} : bind'[c] = bind[c]
      /\ bind' \in [Process -> BindState]
  BY <1>1 DEF Took, Fits
<1>3. BindOK'
  BY <1>2 DEF Took, Fits, Inv, BindOK
<1> QED
  BY <1>2, <1>3

(* Every step but the stutters of bind is of one process.                   *)
LEMMA BindStep ==
  ASSUME Inv, Next
  PROVE  /\ BindOK'
         /\ bind' = bind \/ \E b \in Process : \E n : Took(b, n)
<1>1. bind' = bind => BindOK'
  BY DEF Inv, BindOK
<1>2. \A b \in Process :
        BindHash(b) \/ BindOpen(b) \/ BindWrite(b) \/ BindFails(b) \/ BindLoses(b) =>
            \E n : Took(b, n)
  BY BindMoves
<1>3. Stops => bind' = bind \/ \E n : Took("watchd", n)
  <2>1. Down => \E n : Took("watchd", n)
    BY BindMoves
  <2>2. Stops /\ ~Down => bind' = bind
    BY DEF Stops, WatchdCheck, Signal, WatchdDies
  <2> QED
    BY <2>1, <2>2
<1>4. WatchdEvent => bind' = bind \/ \E n : Took("watchd", n)
  BY BindMoves
<1>5. CommandDies \/ (\E r \in Row : BindNext(r)) \/ (\E a \in Asset : BindFile(a)) =>
        \E n : Took("cli", n)
  BY BindMoves
<1>6. bind' = bind \/ \E b \in Process : \E n : Took(b, n)
  BY <1>2, <1>3, <1>4, <1>5, Moves DEF Process
<1> QED
  BY <1>1, <1>6, Taken

LEMMA WorkStep == ASSUME Inv, Next PROVE WorkOK'
<1>0. /\ bind["watchd"].at # "idle" => daemon = "batch"
      /\ bind["cli"].at # "idle" => cli \in {"bind", "file"}
      /\ NoBind.at = "idle"
  BY DEF Inv, WorkOK, NoBind
<1>1. ASSUME NEW b \in Process,
             BindHash(b) \/ BindOpen(b) \/ BindWrite(b) \/ BindFails(b) \/ BindLoses(b)
      PROVE  UNCHANGED <<daemon, cli>> /\ bind[b].at # "idle" /\
             \A c \in Process \ {b} : bind'[c] = bind[c]
  <2>1. UNCHANGED <<daemon, cli>> /\ bind[b].at # "idle"
    BY <1>1 DEF BindHash, BindOpen, BindWrite, BindFails, BindLoses, watchd, command
  <2>2. \E n : Took(b, n)
    BY <1>1, BindMoves
  <2> QED
    BY <2>1, <2>2, Taken
<1>2. ASSUME NEW b \in Process,
             BindHash(b) \/ BindOpen(b) \/ BindWrite(b) \/ BindFails(b) \/ BindLoses(b)
      PROVE  WorkOK'
  BY <1>0, <1>1, <1>2 DEF WorkOK, Process
<1>3. CASE bind' = bind /\ cli' = cli /\ (daemon = "batch" => daemon' = "batch")
  BY <1>0, <1>3 DEF WorkOK
<1>4. CASE Down
  <2>1. Took("watchd", NoBind)
    BY <1>4, BindMoves
  <2>2. bind'["watchd"] = NoBind /\ bind'["cli"] = bind["cli"]
    BY <2>1, Taken DEF Process
  <2>3. cli' = cli
    BY <1>4 DEF Down, command
  <2> QED
    BY <1>0, <2>2, <2>3 DEF WorkOK
<1>5. CASE CommandDies
  <2>1. Took("cli", NoBind)
    BY <1>5, BindMoves
  <2>2. bind'["cli"] = NoBind /\ bind'["watchd"] = bind["watchd"]
    BY <2>1, Taken DEF Process
  <2>3. daemon' = daemon
    BY <1>5 DEF CommandDies, watchd
  <2> QED
    BY <1>0, <2>2, <2>3 DEF WorkOK
<1>6. CASE WatchdEvent
  <2>1. daemon' = "batch" /\ cli' = cli
    BY <1>6 DEF WatchdEvent, command
  <2>2. bind'["cli"] = bind["cli"]
    <3>1. bind' = bind \/ \E n : Took("watchd", n)
      BY <1>6, BindMoves
    <3> QED
      BY <3>1, Taken DEF Process
  <2> QED
    BY <1>0, <2>1, <2>2 DEF WorkOK
<1>7. ASSUME \/ \E r \in Row : BindNext(r)
             \/ \E a \in Asset : BindFile(a)
      PROVE  WorkOK'
  <2>1. daemon' = daemon /\ cli' \in {"bind", "file"}
    BY <1>7 DEF BindNext, BindFile, watchd
  <2>2. bind'["watchd"] = bind["watchd"]
    <3>1. \E n : Took("cli", n)
      BY <1>7, BindMoves
    <3> QED
      BY <3>1, Taken DEF Process
  <2> QED
    BY <1>0, <2>1, <2>2 DEF WorkOK
<1>8. ASSUME bind' = bind, ~Down, ~CommandDies,
             ~\E r \in Row : BindNext(r), ~\E a \in Asset : BindFile(a)
      PROVE  WorkOK'
  <2>1. daemon = "batch" /\ daemon' # "batch" => bind["watchd"].at = "idle"
    BY <1>8, Moves DEF watchd, Finishes, CloseFile, MoveIn, Finish, SaveWrite, SaveFails, Stops,
         WatchdCheck, Signal, WatchdDies, WatchdStart, WatchdEnter, WatchdRead, WatchdEvent,
         WatchdLoop, BindWrite, BindLoses
  <2>2. cli' # cli => bind["cli"].at = "idle"
    BY <1>0, <1>8, Moves DEF command, Ask, Press, ScanStart, ScanDone, BindMissing,
         BindMissingDone, BindFileDone, Queries, ScanEntry, Misses, ScanMisses, Losses, ScanFails,
         ScanLoses, BindMissingMisreads, CommandOver
  <2> QED
    BY <1>0, <1>8, <2>1, <2>2 DEF WorkOK
<1>9. Stops /\ ~Down => bind' = bind
  BY DEF Stops, WatchdCheck, Signal, WatchdDies
<1> QED
  BY <1>2, <1>4, <1>5, <1>6, <1>7, <1>8, <1>9, Moves

(* Why a process binds something else after a step.                         *)
LEMMA BindOf ==
  ASSUME Inv, Next, NEW b \in Process
  PROVE  \/ bind'[b] = bind[b]
         \/ BindHash(b) \/ BindOpen(b) \/ BindWrite(b) \/ BindFails(b) \/ BindLoses(b)
         \/ bind'[b] = NoBind /\ ((b = "watchd" /\ Down) \/ (b = "cli" /\ CommandDies))
         \/ bind[b].at = "idle" /\ bind'[b].at = "hash" /\ (b = "cli" \/ WatchdEvent)
<1>1. ASSUME NEW c \in Process,
             BindHash(c) \/ BindOpen(c) \/ BindWrite(c) \/ BindFails(c) \/ BindLoses(c)
      PROVE  c = b \/ bind'[b] = bind[b]
  <2>1. \E n : Took(c, n)
    BY <1>1, BindMoves
  <2> QED
    BY <2>1, Taken
<1>2. CASE Stops
  <2>1. bind' = bind \/ Down
    BY <1>2 DEF Stops, WatchdCheck, Signal, WatchdDies
  <2>2. Down => Took("watchd", NoBind)
    BY BindMoves
  <2> QED
    BY <2>1, <2>2, Taken DEF Process
<1>3. CASE CommandDies
  <2>1. Took("cli", NoBind)
    BY <1>3, BindMoves
  <2> QED
    BY <1>3, <2>1, Taken DEF Process
<1>4. CASE WatchdEvent
  <2>1. bind["watchd"].at = "idle"
    BY <1>4 DEF WatchdEvent
  <2>2. bind' = bind \/ \E n : Took("watchd", n) /\ n.at = "hash"
    <3>1. bind' = bind \/ Took("watchd", [at |-> "hash", file |-> Head(batch)[2], hash |-> NoHash])
      BY <1>4, BindMoves
    <3> QED
      BY <3>1
  <2> QED
    BY <1>4, <2>1, <2>2, Taken DEF Process
<1>5. ASSUME \/ \E r \in Row : BindNext(r)
             \/ \E a \in Asset : BindFile(a)
      PROVE  bind'[b] = bind[b] \/ (b = "cli" /\ bind[b].at = "idle" /\ bind'[b].at = "hash")
  <2>1. bind["cli"].at = "idle"
    BY <1>5 DEF BindNext, BindFile, Inv, WorkOK
  <2>2. \E a : Took("cli", [at |-> "hash", file |-> a, hash |-> NoHash])
    BY <1>5, BindMoves
  <2>3. \E n : Took("cli", n) /\ n.at = "hash"
    <3>1. PICK a : Took("cli", [at |-> "hash", file |-> a, hash |-> NoHash])
      BY <2>2
    <3> QED
      BY <3>1
  <2> QED
    BY <2>1, <2>3, Taken DEF Process
<1> QED
  BY <1>1, <1>2, <1>3, <1>4, <1>5, Moves

(* A sidecar is open for writing only when the process has opened it.       *)
LEMMA OpenOf ==
  ASSUME Inv, Next, NEW b \in Process, bind'[b].at = "write"
  PROVE  bind'[b] = bind[b] \/ BindOpen(b)
<1>1. BindHash(b) => bind'[b].at # "write"
  <2>1. ASSUME BindHash(b)
        PROVE  \E n : Took(b, n) /\ n.at # "write"
    <3>1. PICK n : Took(b, n) /\
            n = IF content[bind[b].file] = NoFile THEN NoBind
                ELSE [at |-> "open", file |-> bind[b].file, hash |-> Hash[content[bind[b].file]]]
      BY <2>1, BindMoves
    <3>2. n.at # "write"
      BY <3>1 DEF NoBind
    <3> QED
      BY <3>1, <3>2
  <2> QED
    BY <2>1, Taken
<1>2. BindWrite(b) \/ BindFails(b) \/ BindLoses(b) => bind'[b] = NoBind
  BY BindMoves, Taken
<1> QED
  BY <1>1, <1>2, BindOf DEF NoBind

LEMMA OpenStep == ASSUME Inv, Next PROVE OpenOK'
<1>1. ASSUME NEW b \in Process, bind'[b].at = "write"
      PROVE  sidecar'[bind'[b].file] # Missing
  <2>1. CASE bind'[b] = bind[b]
    BY <1>1, <2>1, SidecarMoves DEF Inv, OpenOK, BindOK
  <2>2. CASE BindOpen(b)
    <3>1. bind'[b].file = bind[b].file
      <4>1. Took(b, [at |-> "write", file |-> bind[b].file, hash |-> bind[b].hash])
        BY <2>2, BindMoves
      <4>2. bind'[b] = [at |-> "write", file |-> bind[b].file, hash |-> bind[b].hash]
        BY <4>1, Taken
      <4> QED
        BY <4>2
    <3>2. sidecar'[bind[b].file] = Broken
      BY <2>2, Written DEF Inv, DirOK
    <3> QED
      BY <3>1, <3>2, SidecarsAssumption
  <2> QED
    BY <1>1, <2>1, <2>2, OpenOf
<1>2. ASSUME gui' \in {"writing", "retagging"}
      PROVE  sidecar'[draft'.file] # Missing
  <2>1. CASE SaveOpen
    <3>1. draft' = draft /\ draft.file \in Asset
      BY <2>1, Written DEF SaveOpen, Process
    <3>2. sidecar'[draft.file] = Broken
      BY <2>1, <3>1, Written DEF Inv, DirOK, Process
    <3> QED
      BY <3>1, <3>2, SidecarsAssumption
  <2>2. ASSUME ~SaveOpen
        PROVE  UNCHANGED <<gui, draft>>
    BY <1>2, <2>2, Moves DEF editing, Desk, Select, BulkTag, Annotate, Save, SaveWrite,
         SaveFails, Press, Return
  <2>3. ASSUME ~SaveOpen
        PROVE  draft.file \in Asset /\ sidecar[draft.file] # Missing
    BY <1>2, <2>2, <2>3 DEF Inv, OpenOK, DeskOK
  <2> QED
    BY <2>1, <2>2, <2>3, SidecarMoves
<1> QED
  BY <1>1, <1>2 DEF OpenOK

LEMMA OverScript ==
  ASSUME Inv, script # <<>> \/ cli # "idle"
  PROVE  /\ Tail(script) \in Seq({"scan", "bind", "file"}) /\ script # <<>>
         /\ cli # "idle" => Head(script) = cli
<1>1. /\ script \in Seq({"scan", "bind", "file"}) /\ script # <<>>
      /\ cli # "idle" => Head(script) = cli
  BY DEF Inv, CommandOK
<1> QED
  BY <1>1, HeadTailProperties

LEMMA CommandStep == ASSUME Inv, Next PROVE CommandOK'
<1>0. /\ script \in Seq({"scan", "bind", "file"})
      /\ cli \in {"idle", "scan", "bind", "file"}
      /\ cli # "idle" => script # <<>> /\ Head(script) = cli
      /\ index \subseteq Row /\ rows \subseteq Row /\ todo \subseteq Row
      /\ cli = "bind" => todo \subseteq {"FILE"} \X Asset
  BY DEF Inv, CommandOK
<1>1. CASE UNCHANGED command
  BY <1>0, <1>1 DEF command, CommandOK
<1>2. CASE Ask \/ Press
  <2>1. cli = "idle" /\ UNCHANGED <<cli, index, rows, todo>>
        /\ script' \in Seq({"scan", "bind", "file"})
    BY <1>2, SidecarsAssumption DEF Ask, Press
  <2> QED
    BY <1>0, <2>1 DEF CommandOK
<1>3. CASE ScanStart
  <2>1. /\ script' = script /\ script # <<>> /\ Head(script) = "scan" /\ cli' = "scan"
        /\ index' \subseteq Row /\ rows' \subseteq Row /\ todo' \subseteq Row
    BY <1>0, <1>3 DEF ScanStart
  <2> QED
    BY <1>0, <2>1 DEF CommandOK
<1>4. ASSUME script # <<>> \/ cli # "idle", CommandOver, index' \subseteq Row
      PROVE  CommandOK'
  <2>1. Tail(script) \in Seq({"scan", "bind", "file"})
    BY <1>4, OverScript
  <2> QED
    BY <1>4, <2>1 DEF CommandOver, CommandOK
<1>5. CASE ScanDone \/ BindMissingDone \/ BindFileDone \/ CommandDies \/ ScanFails \/ ScanLoses
  <2>1. CASE ScanDone \/ BindMissingDone \/ BindFileDone \/ ScanFails \/ ScanLoses
    <3>1. (script # <<>> \/ cli # "idle") /\ CommandOver /\ index' \subseteq Row
      BY <1>0, <2>1 DEF ScanDone, BindMissingDone, BindFileDone, ScanFails, ScanLoses
    <3> QED
      BY <1>4, <3>1
  <2>2. CASE CommandDies
    <3>1. cli # "idle" /\ CommandOver
      BY <2>2 DEF CommandDies
    <3>2. index' = index \/ \E r \in Row : index' = index \union {r}
      BY <2>2 DEF CommandDies
    <3>3. index' \subseteq Row
      BY <1>0, <3>2
    <3> QED
      BY <1>4, <3>1, <3>3
  <2> QED
    BY <1>5, <2>1, <2>2
<1>6. CASE BindMissing \/ BindMissingMisreads
  <2>1. /\ script' = script /\ script # <<>> /\ Head(script) = "bind" /\ cli' = "bind"
        /\ index' = index /\ rows' \subseteq Row /\ todo' \subseteq {"FILE"} \X Asset
    BY <1>0, <1>6 DEF BindMissing, BindMissingMisreads, MissingIn
  <2>2. {"FILE"} \X Asset \subseteq Row
    BY DEF Row
  <2> QED
    BY <1>0, <2>1, <2>2 DEF CommandOK
<1>7. ASSUME NEW a \in Asset, BindFile(a)
      PROVE  CommandOK'
  <2>1. /\ script' = script /\ script # <<>> /\ Head(script) = "file" /\ cli' = "file"
        /\ UNCHANGED <<index, rows, todo>>
    BY <1>7 DEF BindFile
  <2> QED
    BY <1>0, <2>1 DEF CommandOK
<1>8. ASSUME NEW r \in Row, ScanEntry(r) \/ BindNext(r) \/ ScanMisses(r)
      PROVE  CommandOK'
  <2>1. /\ UNCHANGED <<script, cli>>
        /\ index' \subseteq Row /\ rows' \subseteq Row /\ todo' \subseteq todo
    BY <1>0, <1>8 DEF ScanEntry, BindNext, ScanMisses
  <2> QED
    BY <1>0, <2>1 DEF CommandOK
<1> QED
  BY <1>1, <1>2, <1>3, <1>5, <1>6, <1>7, <1>8, Moves DEF Queries, Misses, Losses

LEMMA DeskStep == ASSUME Inv, Next PROVE DeskOK'
<1>0. /\ gui \in {"ready", "waiting", "tagging", "saving", "writing", "retagging"}
      /\ current \in Asset \union {NoAsset}
      /\ editor \in Doc \union {Broken} /\ draft \in [file : Asset, doc : Doc] \union {NoAsset}
      /\ gui \notin {"ready", "waiting"} => draft \in [file : Asset, doc : Doc]
      /\ sidecar \in [Asset -> Doc \union {Missing, Broken}]
  BY DEF Inv, DeskOK, DirOK
<1>1. ASSUME UNCHANGED editing
      PROVE  DeskOK'
  BY <1>0, <1>1 DEF editing, DeskOK
<1>2. \A a \in Asset : Default(a) \in Doc
  BY DEF Default, Doc
<1>3. ASSUME NEW a \in Asset, NEW d \in Doc \union {Missing, Broken}
      PROVE  Parsed(d, a) \in Doc
  BY <1>2 DEF Parsed
<1>4. ASSUME NEW d \in Doc, NEW tags \in SUBSET Tag
      PROVE  [d EXCEPT !.tags = tags] \in Doc
  BY DEF Doc
<1>5. \A d \in Doc : d.tags \subseteq Tag
  BY DEF Doc
<1>6. ASSUME NEW a \in Asset, Select(a)
      PROVE  DeskOK'
  <2>1. editor' \in Doc \union {Broken}
    BY <1>0, <1>2, <1>6 DEF Select
  <2>2. current' = a /\ UNCHANGED <<gui, draft>>
    BY <1>6 DEF Select
  <2> QED
    BY <1>0, <2>1, <2>2 DEF DeskOK
<1>7. ASSUME NEW a \in Asset, NEW t \in Tag, BulkTag(a, t)
      PROVE  DeskOK'
  <2>1. PICK d \in Doc : d = Parsed(sidecar[a], a)
    BY <1>0, <1>3
  <2>2. [d EXCEPT !.tags = d.tags \union {t}] \in Doc
    BY <1>4, <1>5
  <2>3. draft' = [file |-> a, doc |-> [d EXCEPT !.tags = d.tags \union {t}]]
    BY <1>7, <2>1 DEF BulkTag
  <2>4. draft' \in [file : Asset, doc : Doc]
    BY <2>2, <2>3
  <2>5. gui' = "tagging" /\ UNCHANGED <<current, editor>>
    BY <1>7 DEF BulkTag
  <2> QED
    BY <1>0, <2>4, <2>5 DEF DeskOK
<1>8. ASSUME NEW tags \in SUBSET Tag, Annotate(tags)
      PROVE  DeskOK'
  <2>1. editor' \in Doc
    BY <1>4, <1>8 DEF Annotate
  <2>2. UNCHANGED <<gui, current, draft>>
    BY <1>8 DEF Annotate
  <2> QED
    BY <1>0, <2>1, <2>2 DEF DeskOK
<1>9. CASE Save
  <2>1. draft' \in [file : Asset, doc : Doc]
    BY <1>0, <1>9 DEF Save
  <2>2. gui' = "saving" /\ UNCHANGED <<current, editor>>
    BY <1>9 DEF Save
  <2> QED
    BY <1>0, <2>1, <2>2 DEF DeskOK
<1>10. CASE SaveOpen
  <2>1. /\ gui \in {"saving", "tagging"} /\ gui' \in {"writing", "retagging"}
        /\ UNCHANGED <<current, editor, draft>>
    BY <1>10 DEF SaveOpen
  <2> QED
    BY <1>0, <2>1 DEF DeskOK
<1>11. CASE SaveWrite
  <2>1. gui' = "ready" /\ draft' = NoAsset /\ current' = current
    BY <1>11 DEF SaveWrite
  <2>2. sidecar' \in [Asset -> Doc \union {Missing, Broken}]
    BY SidecarMoves
  <2>3. editor' \in {editor, Parsed(sidecar'[current], current)}
        /\ (current = NoAsset => editor' = editor)
    BY <1>11 DEF SaveWrite
  <2>4. editor' \in Doc \union {Broken}
    <3>1. CASE current = NoAsset
      BY <1>0, <2>3, <3>1
    <3>2. CASE current \in Asset
      BY <1>0, <1>3, <2>2, <2>3, <3>2
    <3> QED
      BY <1>0, <3>1, <3>2
  <2> QED
    BY <1>0, <2>1, <2>4 DEF DeskOK
<1>12. CASE Press \/ Return
  <2>1. gui' \in {"ready", "waiting"} /\ UNCHANGED <<current, editor, draft>>
    BY <1>12 DEF Press, Return
  <2> QED
    BY <1>0, <2>1 DEF DeskOK
<1>13. CASE SaveFails
  <2>1. /\ gui' = "ready" /\ draft' = NoAsset /\ current' \in {current, NoAsset}
        /\ editor' \in {editor, Broken}
    BY <1>13 DEF SaveFails
  <2> QED
    BY <1>0, <2>1 DEF DeskOK
<1> QED
  BY <1>1, <1>6, <1>7, <1>8, <1>9, <1>10, <1>11, <1>12, <1>13, Moves DEF Desk

LEMMA HistoryStep == ASSUME Inv, Next PROVE HistoryOK'
<1>0. /\ arrived \subseteq Asset /\ told \subseteq Asset
      /\ kept \in [Asset -> SUBSET Tag] /\ raced \subseteq Asset
      /\ cut \in BOOLEAN /\ steady \in BOOLEAN
  BY DEF Inv, HistoryOK
<1>1. CASE UNCHANGED history
  BY <1>0, <1>1 DEF history, HistoryOK
<1>2. Settle => steady' \in BOOLEAN
  BY DEF Settle
<1>3. CASE Edits
  <2>1. UNCHANGED <<arrived, told, kept, cut, raced>> /\ Settle
    BY <1>3 DEF Edits, OpenFile, RemoveFile
  <2> QED
    BY <1>0, <1>2, <2>1 DEF HistoryOK
<1>4. CASE Finishes
  <2>1. PICK a \in Asset, c \in Content : Finish(a, c)
    BY <1>4 DEF Finishes, CloseFile, MoveIn
  <2>2. arrived' \subseteq Asset /\ told' \subseteq Asset /\ raced' \subseteq Asset
    BY <1>0, <2>1 DEF Finish
  <2>3. cut' = cut /\ Settle
    BY <2>1 DEF Finish
  <2>4. kept' \in [Asset -> SUBSET Tag]
    BY <1>0, <2>1 DEF Finish
  <2> QED
    BY <1>0, <1>2, <2>2, <2>3, <2>4 DEF HistoryOK
<1>5. CASE Stops
  <2>1. UNCHANGED <<arrived, kept, cut, raced, steady>> /\ told' \subseteq told
    BY <1>5 DEF Stops, WatchdCheck, Signal, WatchdDies, Down, history
  <2> QED
    BY <1>0, <2>1 DEF HistoryOK
<1>6. CASE ScanStart
  BY <1>0, <1>6 DEF ScanStart, HistoryOK
<1>7. CASE CommandDies
  <2>1. UNCHANGED <<arrived, told, kept>> /\ cut' \in BOOLEAN /\ steady' \in BOOLEAN
    BY <1>7 DEF CommandDies
  <2>2. raced' \subseteq Asset
    BY <1>0, <1>7 DEF CommandDies, Inv, BindOK, Process
  <2> QED
    BY <1>0, <2>1, <2>2 DEF HistoryOK
<1>8. ASSUME NEW b \in Process, BindOpen(b)
      PROVE  HistoryOK'
  <2>1. UNCHANGED <<arrived, told, cut>> /\ Settle
    BY <1>8 DEF BindOpen
  <2>2. kept' \in [Asset -> SUBSET Tag]
    BY <1>0, <1>8 DEF BindOpen
  <2>3. raced' \subseteq raced \union {bind[b].file} /\ bind[b].file \in Asset
    BY <1>8, Written DEF BindOpen
  <2> QED
    BY <1>0, <1>2, <2>1, <2>2, <2>3 DEF HistoryOK
<1>9. CASE SaveOpen
  <2>1. UNCHANGED <<arrived, told, kept, cut>> /\ Settle
    BY <1>9 DEF SaveOpen
  <2>2. raced' \subseteq raced \union {draft.file} /\ draft.file \in Asset
    BY <1>9, Written DEF SaveOpen, Process
  <2> QED
    BY <1>0, <1>2, <2>1, <2>2 DEF HistoryOK
<1>10. CASE SaveWrite
  <2>1. UNCHANGED <<arrived, told, cut, raced, steady>>
    BY <1>10 DEF SaveWrite
  <2>2. draft.doc.tags \subseteq Tag
    <3>1. draft.doc \in Doc
      BY <1>10, Written DEF Process
    <3> QED
      BY <3>1 DEF Doc
  <2>3. kept' \in [Asset -> SUBSET Tag]
    BY <1>0, <1>10, <2>2 DEF SaveWrite
  <2> QED
    BY <1>0, <2>1, <2>3 DEF HistoryOK
<1>11. CASE SaveFails
  <2>1. UNCHANGED <<arrived, told, cut, steady>> /\ draft.file \in Asset
    BY <1>11, Written DEF SaveFails, Process
  <2>2. kept' \in {kept, [kept EXCEPT ![draft.file] = {}]}
        /\ raced' \in {raced, raced \union {draft.file}}
    BY <1>11 DEF SaveFails
  <2> QED
    BY <1>0, <2>1, <2>2 DEF HistoryOK
<1>12. ASSUME NEW b \in Process, BindFails(b) \/ BindLoses(b)
       PROVE  HistoryOK'
  <2>1. /\ UNCHANGED <<arrived, kept, cut, steady>> /\ told' \subseteq told
        /\ raced' \subseteq raced \union {bind[b].file}
    BY <1>12 DEF BindFails, BindLoses
  <2>2. bind[b].file \in Asset
    BY <1>12 DEF BindFails, BindLoses, Inv, BindOK
  <2> QED
    BY <1>0, <2>1, <2>2 DEF HistoryOK
<1>13. CASE Misses \/ Losses
  <2>1. /\ UNCHANGED <<arrived, told, kept, raced>> /\ cut' \in BOOLEAN
        /\ steady' \in {steady, FALSE}
    BY <1>0, <1>13 DEF Misses, ScanMisses, Losses, ScanFails, ScanLoses, BindMissingMisreads
  <2> QED
    BY <1>0, <2>1 DEF HistoryOK
<1> QED
  BY <1>1, <1>3, <1>4, <1>5, <1>6, <1>7, <1>8, <1>9, <1>10, <1>11, <1>12, <1>13, Moves

LEMMA InvStep == Inv /\ [Next]_vars => Inv'
<1>1. ASSUME Inv, Next PROVE Inv'
  BY <1>1, DirStep, WatchdStep, BindStep, WorkStep, OpenStep, CommandStep, DeskStep,
     HistoryStep DEF Inv
<1>2. ASSUME Inv, UNCHANGED vars PROVE Inv'
  BY <1>2 DEF vars, dir, watchd, command, editing, count, history, Inv, DirOK, WatchdOK, BindOK,
      WorkOK, OpenOK, CommandOK, DeskOK, HistoryOK
<1> QED
  BY <1>1, <1>2

(* Whatever is edited, saved, bound or killed, the directory, the kernel's  *)
(* queue, the daemon, the running command and the editor are of their       *)
(* types, and the daemon binds only what its read gave it.                  *)
THEOREM SidecarsTypeCorrect == Spec => []TypeOK
<1>1. Inv => TypeOK
  BY Parts
<1> QED
  BY <1>1, InvInit, InvStep, PTL DEF Spec

-----------------------------------------------------------------------------
(* Reports: the index is the directory.                                     *)

LEMMA StandsStay ==
  ASSUME Inv, Next, steady', ~ScanStart
  PROVE  steady /\ \A r \in Row : Stands(r)' <=> Stands(r)
<1>1. ASSUME Settle
      PROVE  steady /\ \A r \in Row : Stands(r)' <=> Stands(r)
  BY <1>1 DEF Settle, Inv, HistoryOK
<1>2. ASSUME steady' = steady, UNCHANGED content,
             \A a \in Asset : sidecar'[a] # Missing => sidecar[a] # Missing
      PROVE  steady /\ \A r \in Row : Stands(r)' <=> Stands(r)
  <2>1. \A a \in Asset : sidecar'[a] # Missing <=> sidecar[a] # Missing
    BY <1>2, SidecarMoves
  <2> QED
    BY <1>2, <2>1 DEF Stands, Row
<1>3. ASSUME steady' = steady, UNCHANGED dir
      PROVE  steady /\ \A r \in Row : Stands(r)' <=> Stands(r)
  BY <1>2, <1>3 DEF dir
<1>4. CASE Edits \/ Finishes \/ SaveOpen \/ \E b \in Process : BindOpen(b)
  BY <1>1, <1>4 DEF Edits, Finishes, OpenFile, RemoveFile, CloseFile, MoveIn, Finish, SaveOpen,
     BindOpen
<1>5. ASSUME NEW b \in Process, BindWrite(b) \/ BindLoses(b)
      PROVE  steady /\ \A r \in Row : Stands(r)' <=> Stands(r)
  <2>1. steady' = steady /\ UNCHANGED content
    BY <1>5 DEF BindWrite, BindLoses, history
  <2>2. bind[b].file \in Asset /\ sidecar[bind[b].file] # Missing
    BY <1>5, Written DEF BindWrite, BindLoses, Inv, OpenOK
  <2>3. \A a \in Asset \ {bind[b].file} : sidecar'[a] = sidecar[a]
    BY <1>5, <2>2, Written DEF Inv, DirOK
  <2> QED
    BY <1>2, <2>1, <2>2, <2>3
<1>6. CASE SaveWrite
  <2>1. steady' = steady /\ UNCHANGED content
    BY <1>6 DEF SaveWrite
  <2>2. draft.file \in Asset /\ sidecar[draft.file] # Missing
    BY <1>6, Written DEF SaveWrite, Inv, OpenOK, Process
  <2>3. \A a \in Asset \ {draft.file} : sidecar'[a] = sidecar[a]
    BY <1>6, <2>2, Written DEF Inv, DirOK, Process
  <2> QED
    BY <1>2, <2>1, <2>2, <2>3
<1>7. CASE CommandDies
  <2>1. steady' = (steady /\ cli # "scan") /\ UNCHANGED dir
    BY <1>7 DEF CommandDies
  <2>2. steady' = steady
    BY <2>1 DEF Inv, HistoryOK
  <2> QED
    BY <1>3, <2>1, <2>2
<1>8. ASSUME UNCHANGED dir,
             UNCHANGED history \/ Stops \/ Losses \/ Misses \/ \E b \in Process : BindFails(b)
      PROVE  steady /\ \A r \in Row : Stands(r)' <=> Stands(r)
  <2>1. steady' = steady
    BY <1>8 DEF history, Stops, WatchdCheck, Signal, WatchdDies, Down, Losses, ScanFails,
       ScanLoses, BindMissingMisreads, Misses, ScanMisses, BindFails
  <2> QED
    BY <1>3, <1>8, <2>1
<1>9. CASE SaveFails
  <2>1. steady' = steady /\ UNCHANGED content
    BY <1>9 DEF SaveFails
  <2>2. draft.file \in Asset
    BY <1>9, Written DEF Process
  <2>3. \/ sidecar' = sidecar
        \/ /\ sidecar[draft.file] # Missing
           /\ \E d : sidecar' = [sidecar EXCEPT ![draft.file] = d]
    BY <1>9 DEF SaveFails, Inv, OpenOK
  <2>4. \A a \in Asset : sidecar'[a] # Missing => sidecar[a] # Missing
    BY <2>2, <2>3 DEF Inv, DirOK
  <2> QED
    BY <1>2, <2>1, <2>4
<1>10. Misses \/ Losses \/ (\E b \in Process : BindFails(b)) => UNCHANGED dir
  BY DEF Losses, ScanFails, ScanLoses, BindMissingMisreads, Misses, ScanMisses, BindFails
<1> QED
  BY <1>4, <1>5, <1>6, <1>7, <1>8, <1>9, <1>10, Moves

LEMMA ListedStays ==
  ASSUME Inv, Next, steady', ~ScanStart
  PROVE  steady /\ \A r \in Row : Listed(r)' <=> Listed(r)
BY StandsStay DEF Listed

LEMMA ReportStep == ASSUME Inv, Next, ReportInv PROVE ReportInv'
<1> SUFFICES ASSUME steady'
             PROVE  IF cli' = "scan" THEN rows' = {r \in Row \ todo' : Listed(r)'}
                                     ELSE index' = {r \in Row : Listed(r)'}
  BY DEF ReportInv
<1>1. CASE ScanStart
  <2>1. cli' = "scan" /\ rows' = {} /\ todo' = Row
    BY <1>1 DEF ScanStart
  <2> QED
    BY <2>1
<1>2. ASSUME ~ScanStart
      PROVE  /\ \A r \in Row : Listed(r)' <=> Listed(r)
             /\ cli = "scan" => rows = {r \in Row \ todo : Listed(r)}
             /\ cli # "scan" => index = {r \in Row : Listed(r)}
  BY <1>2, ListedStays DEF ReportInv
<1>3. CASE ~ScanStart /\ cli = "scan" /\ UNCHANGED <<cli, rows, todo>>
  BY <1>2, <1>3
<1>4. CASE ~ScanStart /\ cli # "scan" /\ cli' # "scan" /\ UNCHANGED index
  BY <1>2, <1>4
<1>5. ASSUME NEW r \in Row, ScanEntry(r)
      PROVE  IF cli' = "scan" THEN rows' = {q \in Row \ todo' : Listed(q)'}
                              ELSE index' = {q \in Row : Listed(q)'}
  <2>1. cli = "scan" /\ cli' = "scan" /\ r \in todo /\ todo' = todo \ {r}
    BY <1>5 DEF ScanEntry, CommandOver
  <2>2. ~ScanStart
    BY <2>1 DEF ScanStart
  <2>3. rows' = IF Listed(r) THEN rows \union {r} ELSE rows
    BY <1>5 DEF ScanEntry
  <2> QED
    BY <1>2, <2>1, <2>2, <2>3
<1>6. CASE ScanDone
  <2>1. cli = "scan" /\ todo = {} /\ index' = rows /\ cli' = "idle"
    BY <1>6 DEF ScanDone, CommandOver
  <2>2. ~ScanStart
    BY <2>1 DEF ScanStart
  <2> QED
    BY <1>2, <2>1, <2>2
<1>7. CASE CommandDies
  <2>1. cli # "scan" /\ cli' = "idle" /\ UNCHANGED index
    <3>1. cli # "scan"
      BY <1>7 DEF CommandDies
    <3> QED
      BY <1>7, <3>1 DEF CommandDies, CommandOver
  <2>2. ~ScanStart
    BY <1>7 DEF ScanStart, CommandDies
  <2> QED
    BY <1>4, <2>1, <2>2
<1>8. CASE Ask \/ Press \/ ScanFails \/ BindMissingMisreads \/ BindMissing \/ BindMissingDone \/ BindFileDone
        \/ (\E r \in Row : BindNext(r)) \/ (\E a \in Asset : BindFile(a))
  <2>1. cli # "scan" /\ cli' # "scan" /\ UNCHANGED index
    BY <1>8 DEF Ask, Press, ScanFails, BindMissingMisreads, BindMissing, BindMissingDone, BindFileDone, BindNext, BindFile, CommandOver
  <2> QED
    BY <1>1, <1>4, <2>1
<1>9. CASE UNCHANGED command
  BY <1>1, <1>3, <1>4, <1>9 DEF command
<1>10. ~ScanLoses /\ ~Misses
  BY DEF ScanLoses, Misses, ScanMisses
<1> QED
  BY <1>1, <1>5, <1>6, <1>7, <1>8, <1>9, <1>10, Moves DEF Queries, Losses

(* As many rows of a kind as files, or sidecars, that they stand for.       *)
LEMMA CountsRows ==
  ASSUME NEW S \in SUBSET Asset, NEW kind \in {"FILE", "SIDECAR"}, NEW ix \in SUBSET Row,
         \A a \in Asset : <<kind, a>> \in ix <=> a \in S
  PROVE  Count(ix, kind) = Cardinality(S)
<1> DEFINE T == {r \in ix : r[1] = kind}
           f == [a \in S |-> <<kind, a>>]
<1>1. IsFiniteSet(S)
  BY SidecarsAssumption, FS_Subset
<1>2. \A r \in T : r[2] \in S /\ r = <<kind, r[2]>>
  BY DEF Row
<1>3. \A a \in S : <<kind, a>> \in T
  OBVIOUS
<1>4. f \in Bijection(S, T)
  <2>1. f \in [S -> T]
    BY <1>3
  <2>2. \A a, b \in S : f[a] = f[b] => a = b
    OBVIOUS
  <2>3. \A r \in T : \E a \in S : f[a] = r
    BY <1>2
  <2> HIDE DEF f, T
  <2> QED
    BY <2>1, <2>2, <2>3 DEF Bijection, Injection, Surjection, IsInjective
<1> HIDE DEF f, T
<1>5. Cardinality(T) = Cardinality(S)
  BY <1>1, <1>4, FS_Bijection DEF ExistsBijection
<1> QED
  BY <1>5 DEF Count, T

(* After a scan that nobody killed and that missed nothing, and until a     *)
(* file or a sidecar comes or goes, what imeta reconcile and imeta doctor   *)
(* report of the index is true of the directory, but for the files scan     *)
(* passes over; an index longer than reconcile's table gives no report      *)
(* (imeta_scan_path, imeta_reconcile_path, imeta_doctor_path).              *)
THEOREM ReportsTellTruth == Spec => []ReportsTold
<1>1. Init => ReportInv
  BY DEF Init, ReportInv
<1>2. Inv /\ ReportInv /\ [Next]_vars => ReportInv'
  <2>1. ASSUME ReportInv, UNCHANGED vars PROVE ReportInv'
    <3>1. UNCHANGED <<content, sidecar, cli, rows, todo, index, steady>>
      BY <2>1 DEF vars, dir, command, history
    <3>2. \A r \in Row : Listed(r)' <=> Listed(r)
      BY <3>1 DEF Listed, Stands
    <3> QED
      BY <2>1, <3>1, <3>2 DEF ReportInv
  <2> QED
    BY <2>1, ReportStep
<1>3. Inv /\ ReportInv => ReportsTold
  <2> SUFFICES ASSUME Inv, ReportInv, steady, cli # "scan"
               PROVE  ReportsTold
    BY DEF ReportsTold
  <2>1. index = {r \in Row : Listed(r)}
    BY DEF ReportInv
  <2>2. /\ \A a \in Asset : <<"FILE", a>> \in index <=> a \in Seen
        /\ \A a \in Asset : <<"SIDECAR", a>> \in index <=> a \in Has
    BY <2>1 DEF Row, Listed, Stands, Seen, Has
  <2>3. index \in SUBSET Row /\ Seen \in SUBSET Asset /\ Has \in SUBSET Asset
    BY <2>1 DEF Seen, Has
  <2>4. Count(index, "FILE") = Cardinality(Seen)
    BY <2>2, <2>3, CountsRows
  <2>5. Count(index, "SIDECAR") = Cardinality(Has)
    BY <2>2, <2>3, CountsRows
  <2>6. MissingIn(index) = Seen \ Has /\ OrphansIn(index) = Has \ Seen
    BY <2>2, <2>3 DEF MissingIn, OrphansIn
  <2> QED
    BY <2>4, <2>5, <2>6 DEF ReportsTold
<1> QED
  BY <1>1, <1>2, <1>3, InvInit, InvStep, PTL DEF Spec

-----------------------------------------------------------------------------
(* The daemon: what it was told of, it will bind or has bound.              *)

(* A process binds nothing unless it runs a command that does.              *)
LEMMA AtWork ==
  ASSUME Inv
  PROVE  /\ BindOpen("cli") \/ BindWrite("cli") => cli \in {"bind", "file"}
         /\ cli \notin {"bind", "file"} => bind["cli"] = NoBind
         /\ NoBind.at = "idle" /\ NoBind.file = NoAsset
<1>1. cli \notin {"bind", "file"} => bind["cli"] = NoBind
  BY DEF Inv, WorkOK, BindOK, Process
<1>2. NoBind.at = "idle" /\ NoBind.file = NoAsset
  BY DEF NoBind
<1>3. BindOpen("cli") \/ BindWrite("cli") => bind["cli"].at # "idle"
  BY DEF BindOpen, BindWrite
<1> QED
  BY <1>1, <1>2, <1>3 DEF Inv, WorkOK

(* A save goes on until its write.                                          *)
LEMMA SavingMoves ==
  ASSUME Next, NEW a \in Asset
  PROVE  /\ Saving(a)' /\ ~SaveOpen => Saving(a) /\ draft' = draft
         /\ Saving(a) /\ ~SaveWrite /\ ~SaveFails => Saving(a)'
         /\ SaveFails /\ draft.file = a => gui \in {"saving", "tagging"} \/ Saving(a)
         /\ SaveOpen /\ draft.file = a => Saving(a)'
         /\ SaveWrite /\ draft.file = a => Saving(a)
<1>1. UNCHANGED editing => (Saving(a)' <=> Saving(a)) /\ draft' = draft
  BY DEF editing, Saving
<1>2. ASSUME Desk, ~SaveOpen, ~SaveWrite
      PROVE  gui \in {"ready", "waiting"} /\ gui' \in {"ready", "waiting", "saving", "tagging"}
  BY <1>2 DEF Desk, Select, BulkTag, Annotate, Save, GuiFree, Press, Return
<1>3. SaveOpen => gui \in {"saving", "tagging"} /\ gui' \in {"writing", "retagging"} /\ draft' = draft
  BY DEF SaveOpen
<1>4. /\ SaveWrite => gui \in {"writing", "retagging"} /\ gui' = "ready"
      /\ SaveFails => gui \in {"saving", "tagging", "writing", "retagging"} /\ gui' = "ready"
  BY DEF SaveWrite, SaveFails
<1> QED
  BY <1>1, <1>2, <1>3, <1>4, Moves DEF Saving

(* A sidecar changes only when a bind or a save opens or writes it.         *)
LEMMA SidecarStays ==
  ASSUME Inv, Next, NEW a \in Asset,
         \A b \in Process : bind[b].file = a => ~BindOpen(b) /\ ~BindWrite(b) /\ ~BindLoses(b),
         draft.file = a => ~SaveOpen /\ ~SaveWrite /\ (SaveFails => gui \in {"saving", "tagging"})
  PROVE  sidecar'[a] = sidecar[a]
<1>1. ASSUME NEW b \in Process, BindOpen(b) \/ BindWrite(b) \/ BindLoses(b)
      PROVE  sidecar'[a] = sidecar[a]
  <2>1. \E d : sidecar' = [sidecar EXCEPT ![bind[b].file] = d]
    BY <1>1, Written
  <2> QED
    BY <1>1, <2>1 DEF Inv, DirOK
<1>2. ASSUME SaveOpen \/ SaveWrite
      PROVE  sidecar'[a] = sidecar[a]
  <2>1. \E d : sidecar' = [sidecar EXCEPT ![draft.file] = d]
    BY <1>2, Written DEF Process
  <2> QED
    BY <1>2, <2>1 DEF Inv, DirOK
<1>3. Edits \/ Finishes \/ UNCHANGED dir => sidecar' = sidecar
  BY DEF Edits, Finishes, OpenFile, RemoveFile, CloseFile, MoveIn, Finish, dir
<1>4. CASE SaveFails
  <2>1. CASE gui \in {"saving", "tagging"}
    BY <1>4, <2>1 DEF SaveFails
  <2>2. CASE gui \notin {"saving", "tagging"}
    <3>1. \E d : sidecar' = [sidecar EXCEPT ![draft.file] = d]
      BY <1>4, <2>2 DEF SaveFails
    <3> QED
      BY <1>4, <2>2, <3>1 DEF Inv, DirOK
  <2> QED
    BY <2>1, <2>2
<1> QED
  BY <1>1, <1>2, <1>3, <1>4, Moves

(* A finished write of a file the daemon hears of is pending, and no bind   *)
(* of a command that has read the file before, and no save, goes unnoticed. *)
LEMMA FinishMoves ==
  ASSUME Inv, NEW a \in Asset, NEW c \in Content, Finish(a, c)
  PROVE  /\ a \in told' => Pending(a)'
         /\ Holds("cli", a) \/ Saving(a) => a \in raced'
         /\ UNCHANGED editing
         /\ \A d \in Asset \ {a} : /\ d \in told' <=> d \in told
                                   /\ d \in raced' <=> d \in raced
         /\ \A d \in Asset \ {a} : content'[d] = content[d]
         /\ bind' = bind
<1>1. a \in told' => Pending(a)'
  <2>1. a \in told' => Heard(<<"asset", a>>)
    BY DEF Finish
  <2>2. Post(<<"asset", a>>) /\ <<"asset", a>> \in Event /\ WatchdOK
    BY DEF Finish, Event, Inv
  <2>3. Heard(<<"asset", a>>) => \E i \in DOMAIN queue' : queue'[i] = <<"asset", a>>
    BY <2>2, Posted
  <2> QED
    BY <2>1, <2>3 DEF Pending
<1>2. Holds("cli", a) \/ Saving(a) => a \in raced'
  BY DEF Finish, Holds
<1> QED
  BY <1>1, <1>2 DEF Finish, Inv, DirOK, HistoryOK

(* The file a is not finished in this step.                                 *)
Left(a) == \A c \in Content : ~Finish(a, c)

LEMMA LeftMoves ==
  ASSUME Inv, Next, NEW a \in Asset, Left(a)
  PROVE  /\ content'[a] \in Content => content'[a] = content[a]
         /\ a \in told' => a \in told
         /\ a \notin raced' => a \notin raced
<1>1. CASE Finishes
  <2>1. PICK d \in Asset, c \in Content : Finish(d, c)
    BY <1>1 DEF Finishes, CloseFile, MoveIn
  <2> QED
    BY <2>1, FinishMoves DEF Left
<1>2. ASSUME NEW d \in Asset, OpenFile(d) \/ RemoveFile(d)
      PROVE  /\ content'[a] \in Content => content'[a] = content[a]
             /\ UNCHANGED <<told, raced>>
  <2>1. UNCHANGED <<told, raced>>
    BY <1>2 DEF OpenFile, RemoveFile
  <2>2. \E b \in {Partial, NoFile} : content' = [content EXCEPT ![d] = b]
    BY <1>2 DEF OpenFile, RemoveFile
  <2> QED
    BY <2>1, <2>2, SidecarsAssumption DEF Inv, DirOK
<1>3. ASSUME ~Edits, ~Finishes
      PROVE  content' = content
  BY <1>3, Moves DEF dir, SaveOpen, SaveWrite, SaveFails, BindOpen, BindWrite, BindLoses
<1>4. ASSUME ~Edits, ~Finishes
      PROVE  told' \subseteq told /\ raced \subseteq raced'
  BY <1>4, Moves DEF history, Stops, WatchdCheck, Signal, WatchdDies, Down, ScanStart, CommandDies,
     SaveOpen, SaveWrite, SaveFails, BindOpen, BindFails, BindLoses, Misses, ScanMisses, Losses,
     ScanFails, ScanLoses, BindMissingMisreads
<1> QED
  BY <1>1, <1>2, <1>3, <1>4 DEF Edits

(* When the daemon ends it knows of nothing that was waiting.               *)
LEMMA DownForgets ==
  ASSUME Inv, Down, NEW a \in Asset, Pending(a) \/ bind["watchd"].file = a
  PROVE  a \notin told'
<1> DEFINE lost == queue \o batch
<1>1. told' = told \ ({lost[i][2] : i \in DOMAIN lost} \union {bind["watchd"].file})
  BY DEF Down
<1>2. /\ queue \in Seq(Event) /\ Len(queue) \in Nat /\ DOMAIN queue = 1 .. Len(queue)
      /\ batch \in Seq(Event) /\ Len(batch) \in Nat /\ DOMAIN batch = 1 .. Len(batch)
  BY LenProperties DEF Inv, WatchdOK
<1>3. /\ lost \in Seq(Event) /\ Len(lost) = Len(queue) + Len(batch)
      /\ \A i \in 1 .. Len(queue) + Len(batch) :
           lost[i] = IF i <= Len(queue) THEN queue[i] ELSE batch[i - Len(queue)]
  BY <1>2, ConcatProperties
<1>4. DOMAIN lost = 1 .. Len(queue) + Len(batch)
  BY <1>3, LenProperties
<1> HIDE DEF lost
<1>5. ASSUME NEW i \in DOMAIN queue
      PROVE  i \in DOMAIN lost /\ lost[i] = queue[i]
  BY <1>2, <1>3, <1>4
<1>6. ASSUME NEW i \in DOMAIN batch
      PROVE  i + Len(queue) \in DOMAIN lost /\ lost[i + Len(queue)] = batch[i]
  <2>1. i + Len(queue) \in 1 .. Len(queue) + Len(batch) /\ ~(i + Len(queue) <= Len(queue))
        /\ i + Len(queue) - Len(queue) = i
    BY <1>2
  <2> QED
    BY <1>3, <1>4, <2>1
<1>7. Pending(a) => \E j \in DOMAIN lost : lost[j][2] = a
  <2>1. ASSUME NEW i \in DOMAIN queue, queue[i] = <<"asset", a>>
        PROVE  \E j \in DOMAIN lost : lost[j][2] = a
    BY <1>5, <2>1
  <2>2. ASSUME NEW i \in DOMAIN batch, batch[i] = <<"asset", a>>
        PROVE  \E j \in DOMAIN lost : lost[j][2] = a
    BY <1>6, <2>2
  <2> QED
    BY <2>1, <2>2 DEF Pending
<1> QED
  BY <1>1, <1>7

(* An event that waits goes on waiting, until the daemon looks at it.       *)
LEMMA PendingMoves ==
  ASSUME Inv, Next, NEW a \in Asset, Pending(a)
  PROVE  \/ Pending(a)'
         \/ Down
         \/ WatchdEvent /\ Head(batch) = <<"asset", a>>
<1>0. WatchdOK
  BY DEF Inv
<1>1. ASSUME UNCHANGED <<queue, batch>> PROVE Pending(a)'
  BY <1>1 DEF Pending
<1>2. ASSUME NEW e \in Event, Post(e), batch' = batch PROVE Pending(a)'
  <2>1. \A i \in DOMAIN queue : i \in DOMAIN queue' /\ queue'[i] = queue[i]
    BY <1>0, <1>2, Posted
  <2> QED
    BY <1>2, <2>1 DEF Pending
<1>3. CASE Finishes
  <2>1. PICK d \in Asset : Post(<<"asset", d>>) /\ UNCHANGED batch
    BY <1>3 DEF Finishes, CloseFile, MoveIn, Finish
  <2> QED
    BY <1>2, <2>1 DEF Event
<1>4. CASE SaveWrite \/ SaveFails
  <2>1. /\ Post(<<"sidecar", draft.file>>) \/ queue' = queue
        /\ UNCHANGED batch /\ draft.file \in Asset
    BY <1>4, Written DEF SaveWrite, SaveFails, Process
  <2> QED
    BY <1>1, <1>2, <2>1 DEF Event
<1>5. ASSUME NEW b \in Process, BindWrite(b) \/ BindLoses(b)
      PROVE  Pending(a)'
  <2>1. Post(<<"sidecar", bind[b].file>>) /\ UNCHANGED batch /\ bind[b].file \in Asset
    BY <1>5, Written DEF BindWrite, BindLoses
  <2> QED
    BY <1>2, <2>1 DEF Event
<1>6. CASE WatchdRead
  <2>1. batch = <<>>
    BY <1>0, <1>6 DEF WatchdRead, WatchdOK
  <2>2. PICK i \in DOMAIN queue : queue[i] = <<"asset", a>>
    <3>1. DOMAIN batch = {}
      BY <2>1
    <3> QED
      BY <3>1 DEF Pending
  <2> QED
    BY <1>0, <1>6, <2>2, ReadTakes DEF Pending
<1>7. CASE WatchdEvent /\ Head(batch) # <<"asset", a>>
  <2>1. batch # <<>> /\ batch' = Tail(batch) /\ queue' = queue
    BY <1>7 DEF WatchdEvent
  <2>2. \A i \in DOMAIN batch : \/ batch[i] = Head(batch)
                                \/ \E j \in DOMAIN Tail(batch) : Tail(batch)[j] = batch[i]
    BY <1>0, <2>1, EventTakes
  <2> QED
    BY <1>7, <2>1, <2>2 DEF Pending
<1>8. CASE WatchdStart \/ WatchdEnter \/ WatchdLoop \/ (Stops /\ ~Down) \/ UNCHANGED watchd
  <2>1. UNCHANGED <<queue, batch>>
    BY <1>8 DEF WatchdStart, WatchdEnter, WatchdLoop, Stops, WatchdCheck, Signal, WatchdDies, watchd
  <2> QED
    BY <1>1, <2>1
<1> QED
  BY <1>3, <1>4, <1>5, <1>6, <1>7, <1>8, Moves

(* What a process binds is what it bound before, or has just taken up.      *)
LEMMA FileOf ==
  ASSUME Inv, Next, NEW b \in Process
  PROVE  \/ bind'[b].file \in {bind[b].file, NoAsset}
         \/ bind[b].at = "idle" /\ bind'[b].at = "hash" /\ (b = "cli" \/ WatchdEvent)
<1>1. NoBind.file = NoAsset
  BY DEF NoBind
<1>2. ASSUME BindHash(b) \/ BindOpen(b) \/ BindWrite(b) \/ BindFails(b) \/ BindLoses(b)
      PROVE  \E n : Took(b, n) /\ n.file \in {bind[b].file, NoAsset}
  <2>1. ASSUME BindHash(b)
        PROVE  \E n : Took(b, n) /\ n.file \in {bind[b].file, NoAsset}
    <3>1. PICK n : Took(b, n) /\
            n = IF content[bind[b].file] = NoFile THEN NoBind
                ELSE [at |-> "open", file |-> bind[b].file, hash |-> Hash[content[bind[b].file]]]
      BY <2>1, BindMoves
    <3>2. n.file \in {bind[b].file, NoAsset}
      BY <1>1, <3>1
    <3> QED
      BY <3>1, <3>2
  <2>2. ASSUME BindOpen(b)
        PROVE  \E n : Took(b, n) /\ n.file \in {bind[b].file, NoAsset}
    <3>1. Took(b, [at |-> "write", file |-> bind[b].file, hash |-> bind[b].hash])
      BY <2>2, BindMoves
    <3> QED
      BY <3>1
  <2>3. BindWrite(b) \/ BindFails(b) \/ BindLoses(b) => Took(b, NoBind)
    BY BindMoves
  <2> QED
    BY <1>1, <1>2, <2>1, <2>2, <2>3
<1> QED
  BY <1>1, <1>2, BindOf, Taken

(* The daemon comes to a file only by an event of it.                       *)
LEMMA AtHandMoves ==
  ASSUME Inv, Next, NEW a \in Asset, ~AtHand(a),
         \A c \in Content : Finish(a, c) => ~Heard(<<"asset", a>>)
  PROVE  ~AtHand(a)'
<1>0. /\ WatchdOK /\ "watchd" \in Process /\ NoAsset # a
      /\ \A i \in DOMAIN queue : queue[i] # <<"asset", a>>
      /\ \A i \in DOMAIN batch : batch[i] # <<"asset", a>>
      /\ bind["watchd"].file # a
  BY SidecarsAssumption DEF Inv, AtHand, Pending, Process
<1>1. ASSUME NEW e \in Event, Post(e), batch' = batch, e = <<"asset", a>> => ~Heard(e)
      PROVE  ~Pending(a)'
  <2>1. \A i \in DOMAIN queue' : \/ Heard(e) /\ queue'[i] = e
                                 \/ \E j \in DOMAIN queue : queue[j] = queue'[i]
    BY <1>0, <1>1, Posted
  <2> QED
    BY <1>0, <1>1, <2>1 DEF Pending
<1>2. ~Pending(a)'
  <2>1. CASE Finishes
    <3>1. PICK d \in Asset, c \in Content : Finish(d, c)
      BY <2>1 DEF Finishes, CloseFile, MoveIn
    <3>2. Post(<<"asset", d>>) /\ batch' = batch /\ <<"asset", d>> \in Event
      BY <3>1 DEF Finish, Event
    <3>3. <<"asset", d>> = <<"asset", a>> => ~Heard(<<"asset", d>>)
      BY <3>1
    <3> QED
      BY <1>1, <3>2, <3>3
  <2>2. ASSUME SaveWrite \/ SaveFails \/ \E b \in Process : BindWrite(b) \/ BindLoses(b)
        PROVE  ~Pending(a)'
    <3>1. \E d \in Asset : (Post(<<"sidecar", d>>) \/ queue' = queue) /\ batch' = batch
      BY <2>2, Written DEF SaveWrite, SaveFails, BindWrite, BindLoses, Process
    <3>2. PICK d \in Asset : (Post(<<"sidecar", d>>) \/ queue' = queue) /\ batch' = batch
      BY <3>1
    <3>3. <<"sidecar", d>> \in Event /\ <<"sidecar", d>> # <<"asset", a>>
      BY DEF Event
    <3>4. CASE queue' = queue
      BY <1>0, <3>2, <3>4 DEF Pending
    <3> QED
      BY <1>1, <3>2, <3>3, <3>4
  <2>3. CASE WatchdRead
    <3>1. /\ \A i \in DOMAIN queue' : \E j \in DOMAIN queue : queue[j] = queue'[i]
          /\ \A i \in DOMAIN batch' : \E j \in DOMAIN queue : queue[j] = batch'[i]
      BY <1>0, <2>3, ReadTakes
    <3> QED
      BY <1>0, <3>1 DEF Pending
  <2>4. CASE WatchdEvent
    <3>1. batch # <<>> /\ batch' = Tail(batch) /\ queue' = queue
      BY <2>4 DEF WatchdEvent
    <3>2. \A i \in DOMAIN Tail(batch) : \E j \in DOMAIN batch : batch[j] = Tail(batch)[i]
      BY <1>0, <3>1, EventTakes
    <3> QED
      BY <1>0, <3>1, <3>2 DEF Pending
  <2>5. CASE Down
    <3>1. DOMAIN queue' = {} /\ DOMAIN batch' = {}
      BY <2>5 DEF Down
    <3> QED
      BY <3>1 DEF Pending
  <2>6. CASE WatchdStart \/ WatchdEnter \/ WatchdLoop \/ (Stops /\ ~Down) \/ UNCHANGED watchd
    <3>1. UNCHANGED <<queue, batch>>
      BY <2>6 DEF WatchdStart, WatchdEnter, WatchdLoop, Stops, WatchdCheck, Signal, WatchdDies, watchd
    <3> QED
      BY <1>0, <3>1 DEF Pending
  <2> QED
    BY <2>1, <2>2, <2>3, <2>4, <2>5, <2>6, Moves
<1>3. bind'["watchd"].file # a
  <2>1. ASSUME WatchdEvent, bind' # bind
        PROVE  bind'["watchd"].file # a
    <3>1. batch # <<>> /\ Head(batch)[1] # "sidecar"
      BY <2>1 DEF WatchdEvent
    <3>2. Head(batch) \in Event /\ \E j \in DOMAIN batch : batch[j] = Head(batch)
      BY <1>0, <3>1, EventTakes
    <3>3. Head(batch) = <<"asset", Head(batch)[2]>>
      BY <3>1, <3>2 DEF Event
    <3>4. Head(batch)[2] # a
      BY <1>0, <3>2, <3>3
    <3>5. bind'["watchd"] = [at |-> "hash", file |-> Head(batch)[2], hash |-> NoHash]
      BY <1>0, <2>1, BindMoves, Taken
    <3> QED
      BY <3>4, <3>5
  <2> QED
    BY <1>0, <2>1, FileOf
<1> QED
  BY <1>2, <1>3 DEF AtHand

(* The parts of CurrentInv, for one file. *)
FromCli(a) ==
    a \notin raced /\ content[a] \in Content /\ Holds("cli", a) =>
        bind["cli"].hash = Hash[content[a]]

FromSave(a) ==
    a \notin raced /\ Saving(a) =>
        /\ sidecar[a] = Broken /\ ~AtHand(a) /\ ~Open(a)
        /\ content[a] \in Content => draft.doc.hash = Hash[content[a]]

FromWatchd(a) ==
    a \in told /\ content[a] \in Content /\ Holds("watchd", a) =>
        bind["watchd"].hash = Hash[content[a]] \/ Pending(a)

Writing(a) == sidecar[a] = Broken /\ Open(a)

Tended(a) ==
    a \in told \ raced /\ content[a] \in Content =>
        \/ Due(a) \/ Saving(a)
        \/ sidecar[a] = Described(a)
        \/ Fresh(a) /\ ~Open(a)
        \/ Writing(a)

LEMMA CurrentParts ==
  ASSUME told \subseteq Asset
  PROVE  CurrentInv <=> \A a \in Asset :
                          FromCli(a) /\ FromSave(a) /\ FromWatchd(a) /\ Tended(a)
  BY DEF CurrentInv, FromCli, FromSave, FromWatchd, Tended, Writing

(* A bind reads the digest of what the file holds, and keeps it.            *)
LEMMA HashOf ==
  ASSUME Inv, NEW b \in Process, NEW a \in Asset
  PROVE  /\ BindHash(b) /\ Holds(b, a)' /\ content[a] \in Content =>
              bind[b].file = a /\ bind'[b].at = "open" /\ bind'[b].hash = Hash[content[a]]
         /\ BindOpen(b) => bind'[b].file = bind[b].file /\ bind'[b].hash = bind[b].hash
                           /\ bind'[b].at = "write" /\ bind[b].at = "open"
<1>1. ASSUME BindHash(b), Holds(b, a)'
      PROVE  bind[b].file = a /\ bind'[b].at = "open" /\ bind'[b].hash = Hash[content[a]]
  <2>1. PICK n : Took(b, n) /\
          n = IF content[bind[b].file] = NoFile THEN NoBind
              ELSE [at |-> "open", file |-> bind[b].file, hash |-> Hash[content[bind[b].file]]]
    BY <1>1, BindMoves
  <2>2. bind'[b] = n
    BY <2>1, Taken
  <2>3. bind'[b] # NoBind
    BY <1>1 DEF Holds, NoBind
  <2>4. bind'[b] = [at |-> "open", file |-> bind[b].file, hash |-> Hash[content[bind[b].file]]]
    BY <2>1, <2>2, <2>3
  <2> QED
    BY <1>1, <2>4 DEF Holds
<1>2. ASSUME BindOpen(b)
      PROVE  bind'[b].file = bind[b].file /\ bind'[b].hash = bind[b].hash
             /\ bind'[b].at = "write" /\ bind[b].at = "open"
  <2>1. bind'[b] = [at |-> "write", file |-> bind[b].file, hash |-> bind[b].hash]
    <3>1. Took(b, [at |-> "write", file |-> bind[b].file, hash |-> bind[b].hash])
      BY <1>2, BindMoves
    <3> QED
      BY <3>1, Taken
  <2> QED
    BY <1>2, <2>1 DEF BindOpen
<1> QED
  BY <1>1, <1>2

LEMMA FromCliStep ==
  ASSUME Inv, Next, NEW a \in Asset, FromCli(a)
  PROVE  FromCli(a)'
<1>1. CASE ~Left(a)
  BY <1>1, FinishMoves DEF Left, FromCli, Holds
<1>2. ASSUME Left(a), a \notin raced', content'[a] \in Content, Holds("cli", a)'
      PROVE  bind'["cli"].hash = Hash[content'[a]]
  <2>0. a \notin raced /\ content'[a] = content[a] /\ "cli" \in Process /\ NoBind.at = "idle"
    BY <1>2, LeftMoves DEF Process, NoBind
  <2>1. CASE bind'["cli"] = bind["cli"]
    BY <1>2, <2>0, <2>1 DEF FromCli, Holds
  <2>2. CASE BindHash("cli")
    BY <1>2, <2>0, <2>2, HashOf
  <2>3. CASE BindOpen("cli")
    BY <1>2, <2>0, <2>3, HashOf DEF FromCli, Holds
  <2>4. CASE BindWrite("cli") \/ BindFails("cli") \/ BindLoses("cli")
    <3>1. bind'["cli"] = NoBind
      BY <2>0, <2>4, BindMoves, Taken
    <3> QED
      BY <1>2, <2>0, <3>1 DEF Holds
  <2> QED
    BY <1>2, <2>0, <2>1, <2>2, <2>3, <2>4, BindOf DEF Holds
<1> QED
  BY <1>1, <1>2 DEF FromCli

LEMMA FromWatchdStep ==
  ASSUME Inv, Next, NEW a \in Asset, FromWatchd(a)
  PROVE  FromWatchd(a)'
<1>1. CASE ~Left(a)
  BY <1>1, FinishMoves DEF Left, FromWatchd
<1>2. ASSUME Left(a), a \in told', content'[a] \in Content, Holds("watchd", a)'
      PROVE  bind'["watchd"].hash = Hash[content'[a]] \/ Pending(a)'
  <2>0. /\ a \in told /\ content'[a] = content[a] /\ "watchd" \in Process /\ NoBind.at = "idle"
        /\ NoBind.file = NoAsset
    BY <1>2, LeftMoves DEF Process, NoBind
  <2>1. Pending(a) => Pending(a)'
    <3>1. Down => bind'["watchd"] = NoBind
      BY <2>0, BindMoves, Taken
    <3>2. WatchdEvent => bind["watchd"].at = "idle" /\ bind["watchd"] = NoBind
      BY DEF WatchdEvent, Inv, BindOK, Process
    <3>3. WatchdEvent => bind'["watchd"] = bind["watchd"] \/ bind'["watchd"].at = "hash"
      <4>1. WatchdEvent => /\ ~BindHash("watchd") /\ ~BindOpen("watchd") /\ ~BindWrite("watchd")
                           /\ ~BindFails("watchd") /\ ~BindLoses("watchd")
        BY <3>2 DEF BindHash, BindOpen, BindWrite, BindFails, BindLoses
      <4> QED
        BY <2>0, <3>2, <4>1, BindOf
    <3> QED
      BY <1>2, <2>0, <3>1, <3>2, <3>3, PendingMoves DEF Holds
  <2>2. CASE bind'["watchd"] = bind["watchd"]
    BY <1>2, <2>0, <2>1, <2>2 DEF FromWatchd, Holds
  <2>3. CASE BindHash("watchd")
    BY <1>2, <2>0, <2>3, HashOf
  <2>4. CASE BindOpen("watchd")
    BY <1>2, <2>0, <2>1, <2>4, HashOf DEF FromWatchd, Holds
  <2>5. CASE BindWrite("watchd") \/ BindFails("watchd") \/ BindLoses("watchd")
    <3>1. bind'["watchd"] = NoBind
      BY <2>0, <2>5, BindMoves, Taken
    <3> QED
      BY <1>2, <2>0, <3>1 DEF Holds
  <2> QED
    BY <1>2, <2>0, <2>2, <2>3, <2>4, <2>5, BindOf DEF Holds
<1> QED
  BY <1>1, <1>2 DEF FromWatchd

(* Who is about to bind a does so, or fails or is killed, which is told.    *)
LEMMA DueMoves ==
  ASSUME Inv, Next, NEW a \in Asset, Due(a), Left(a), a \in told', content'[a] \in Content
  PROVE  Due(a)' \/ Writing(a)'
<1>0. /\ content'[a] = content[a] /\ content[a] \in Content /\ "watchd" \in Process
      /\ NoBind.at = "idle" /\ content[a] # NoFile
  BY LeftMoves, SidecarsAssumption DEF Process, NoBind
<1>1. ~Down
  <2>1. Down => a \notin told'
    BY DownForgets DEF Due
  <2> QED
    BY <2>1
<1>2. CASE Pending(a)
  <2>1. CASE WatchdEvent /\ Head(batch) = <<"asset", a>>
    <3>1. bind' = [bind EXCEPT !["watchd"] = [at |-> "hash", file |-> a, hash |-> NoHash]]
      <4>1. Head(batch)[1] # "sidecar" /\ Head(batch)[2] = a
        BY <2>1
      <4> QED
        BY <1>0, <2>1, <4>1 DEF WatchdEvent
    <3>2. bind'["watchd"] = [at |-> "hash", file |-> a, hash |-> NoHash]
      BY <1>0, <3>1 DEF Inv, BindOK
    <3> QED
      BY <3>2 DEF Due
  <2> QED
    BY <1>1, <1>2, <2>1, PendingMoves DEF Due
<1>3. ASSUME bind["watchd"].file = a, bind["watchd"].at \in {"hash", "open"},
             bind["watchd"].at = "open" => bind["watchd"].hash = Hash[content[a]]
      PROVE  Due(a)' \/ Writing(a)'
  <2>1. CASE bind'["watchd"] = bind["watchd"]
    BY <1>0, <1>3, <2>1 DEF Due
  <2>2. CASE BindHash("watchd")
    <3>1. PICK n : Took("watchd", n) /\
            n = IF content[bind["watchd"].file] = NoFile THEN NoBind
                ELSE [at |-> "open", file |-> bind["watchd"].file,
                      hash |-> Hash[content[bind["watchd"].file]]]
      BY <1>0, <2>2, BindMoves
    <3>2. bind'["watchd"] = [at |-> "open", file |-> a, hash |-> Hash[content[a]]]
      BY <1>0, <1>3, <3>1, Taken
    <3> QED
      BY <1>0, <3>2 DEF Due
  <2>3. CASE BindOpen("watchd")
    <3>1. sidecar'[a] = Broken
      BY <1>0, <1>3, <2>3, Written DEF Inv, DirOK
    <3>2. bind'["watchd"].file = a /\ bind'["watchd"].at = "write"
      BY <1>0, <1>3, <2>3, HashOf
    <3> QED
      BY <1>0, <3>1, <3>2 DEF Writing, Open
  <2>4. ~BindWrite("watchd") /\ ~BindLoses("watchd")
    BY <1>3 DEF BindWrite, BindLoses
  <2>5. CASE BindFails("watchd")
    <3>1. Pending(a) /\ UNCHANGED <<queue, batch>>
      BY <1>3, <2>5 DEF BindFails, watchd
    <3> QED
      BY <3>1 DEF Due, Pending
  <2> QED
    BY <1>0, <1>1, <1>3, <2>1, <2>2, <2>3, <2>4, <2>5, BindOf
<1> QED
  BY <1>2, <1>3 DEF Due

(* Who writes to the sidecar of a file that is not due writes what is right. *)
LEMMA WritesRight ==
  ASSUME Inv, NEW b \in Process, NEW a \in Asset, BindWrite(b), bind[b].file = a,
         a \in told \ raced, content[a] \in Content, ~Due(a),
         FromCli(a), FromWatchd(a), sidecar[a] \in {Broken, Described(a)}
  PROVE  sidecar'[a] = Described(a)
<1>1. bind[b].hash = Hash[content[a]]
  BY DEF FromCli, FromWatchd, Holds, BindWrite, Due, Process
<1>2. [of |-> bind[b].file, hash |-> bind[b].hash, tags |-> {}] = Described(a)
  BY <1>1 DEF Described
<1>3. Over(a, Described(a)) = {Described(a)}
  BY DEF Over
<1>4. \E d \in Doc \union {Broken} : d \in Over(a, Described(a)) /\
         sidecar' = [sidecar EXCEPT ![a] = d]
  BY <1>2, Written
<1> QED
  BY <1>3, <1>4 DEF Inv, DirOK

(* While the GUI saves, no other process is at the file, or the user can    *)
(* tell: what it writes next is all there will be in the sidecar.           *)
LEMMA FromSaveStep ==
  ASSUME Inv, Next, NEW a \in Asset, FromSave(a)
  PROVE  FromSave(a)'
<1> SUFFICES ASSUME a \notin raced', Saving(a)'
             PROVE  /\ sidecar'[a] = Broken /\ ~AtHand(a)' /\ ~Open(a)'
                    /\ content'[a] \in Content => draft'.doc.hash = Hash[content'[a]]
  BY DEF FromSave
<1>1. Left(a)
  <2>1. ASSUME NEW c \in Content, Finish(a, c)
        PROVE  FALSE
    <3>1. UNCHANGED editing /\ (Saving(a) => a \in raced')
      BY <2>1, FinishMoves
    <3> QED
      BY <3>1 DEF editing, Saving
  <2> QED
    BY <2>1 DEF Left
<1>2. CASE SaveOpen
  <2>1. /\ draft' = draft /\ draft.file = a
        /\ UNCHANGED <<content, queue, batch, bind>>
    BY <1>2 DEF SaveOpen, Saving, watchd
  <2>2. /\ content[a] \in Content /\ draft.doc.hash = Hash[content[a]] /\ ~AtHand(a)
        /\ ~(bind["cli"].file = a /\ bind["cli"].at = "write")
    BY <1>2, <2>1 DEF SaveOpen, Unfit
  <2>3. sidecar'[a] = Broken
    BY <1>2, <2>1 DEF SaveOpen, Inv, DirOK
  <2> QED
    BY <2>1, <2>2, <2>3 DEF AtHand, Pending, Open, Process
<1>3. CASE ~SaveOpen
  <2>1. Saving(a) /\ draft' = draft
    BY <1>3, SavingMoves
  <2>2. /\ a \notin raced /\ sidecar[a] = Broken /\ ~AtHand(a) /\ ~Open(a)
        /\ content[a] \in Content => draft.doc.hash = Hash[content[a]]
    BY <1>1, <2>1, LeftMoves DEF FromSave
  <2>3. ~SaveWrite /\ ~SaveFails
    BY DEF SaveWrite, SaveFails, Saving
  <2>4. ASSUME NEW b \in Process, bind[b].file = a
        PROVE  ~BindOpen(b) /\ ~BindWrite(b) /\ ~BindLoses(b)
    <3>1. BindOpen(b) => a \in raced'
      BY <2>1, <2>4 DEF BindOpen
    <3>2. bind[b].at # "write"
      BY <2>2, <2>4 DEF Open
    <3> QED
      BY <3>1, <3>2 DEF BindWrite, BindLoses
  <2>5. sidecar'[a] = Broken
    BY <1>3, <2>2, <2>3, <2>4, SidecarStays
  <2>6. ~AtHand(a)'
    BY <1>1, <2>2, AtHandMoves DEF Left
  <2>7. ASSUME NEW b \in Process, bind'[b].file = a, bind'[b].at = "write"
        PROVE  FALSE
    <3>1. CASE bind'[b] = bind[b]
      BY <2>2, <2>7, <3>1 DEF Open
    <3>2. CASE BindOpen(b)
      BY <2>4, <2>7, <3>2, HashOf
    <3> QED
      BY <2>7, <3>1, <3>2, OpenOf
  <2> QED
    BY <1>1, <2>1, <2>2, <2>5, <2>6, <2>7, LeftMoves DEF Open
<1> QED
  BY <1>2, <1>3

(* What the GUI writes describes the file.                                  *)
LEMMA SavesRight ==
  ASSUME Inv, SaveWrite, NEW a \in Asset, draft.file = a, a \notin raced,
         content[a] \in Content, FromSave(a)
  PROVE  Fresh(a)' /\ ~Open(a)'
<1>1. Saving(a) /\ bind' = bind /\ content' = content
  BY DEF SaveWrite, Saving
<1>2. sidecar[a] = Broken /\ ~Open(a) /\ draft.doc.hash = Hash[content[a]]
  BY <1>1 DEF FromSave
<1>3. Over(a, draft.doc) = {draft.doc} /\ draft.doc \in Doc
  BY <1>2, Written DEF Over, Process
<1>4. sidecar'[a] = draft.doc
  BY <1>3, Written DEF Inv, DirOK, Process
<1> QED
  BY <1>1, <1>2, <1>3, <1>4 DEF Fresh, Open, Process

LEMMA TendedStep ==
  ASSUME Inv, Next, NEW a \in Asset, FromCli(a), FromSave(a), FromWatchd(a), Tended(a)
  PROVE  Tended(a)'
<1>1. CASE ~Left(a)
  BY <1>1, FinishMoves DEF Left, Tended, Due
<1>2. ASSUME Left(a), a \in told' \ raced', content'[a] \in Content
      PROVE  Due(a)' \/ Saving(a)' \/ sidecar'[a] = Described(a)'
             \/ (Fresh(a) /\ ~Open(a))' \/ Writing(a)'
  <2>0. /\ a \in told \ raced /\ content'[a] = content[a] /\ content[a] \in Content
        /\ Described(a)' = Described(a)
        /\ \A b \in Process : bind[b].file = a => ~BindLoses(b)
        /\ draft.file = a => (SaveFails => gui \in {"saving", "tagging"})
    BY <1>2, LeftMoves DEF Described, BindLoses, SaveFails
  <2>1. CASE Due(a)
    BY <1>2, <2>1, DueMoves
  <2>2. CASE Saving(a)
    <3>1. CASE SaveWrite
      <4>1. draft.file = a
        BY <2>2 DEF Saving
      <4> QED
        BY <2>0, <3>1, <4>1, SavesRight
    <3>2. ~SaveFails
      BY <2>0, <2>2 DEF Saving
    <3> QED
      BY <2>2, <3>1, <3>2, SavingMoves
  <2>3. CASE SaveOpen /\ draft.file = a
    BY <2>3, SavingMoves
  <2>4. ASSUME NEW b \in Process, BindOpen(b), bind[b].file = a
        PROVE  Writing(a)'
    <3>1. sidecar'[a] = Broken
      BY <2>4, Written DEF Inv, DirOK
    <3>2. bind'[b].file = a /\ bind'[b].at = "write"
      BY <2>4, HashOf
    <3> QED
      BY <3>1, <3>2 DEF Writing, Open
  <2>5. ASSUME ~Saving(a), ~(SaveOpen /\ draft.file = a),
               \A b \in Process : bind[b].file = a => ~BindOpen(b) /\ ~BindWrite(b)
        PROVE  sidecar'[a] = sidecar[a]
    BY <2>0, <2>5, SidecarStays, SavingMoves
  <2>6. ASSUME ~Due(a), NEW b \in Process, BindWrite(b), bind[b].file = a,
               sidecar[a] \in {Broken, Described(a)}
        PROVE  sidecar'[a] = Described(a)
    BY <2>0, <2>6, WritesRight
  <2>7. CASE ~Due(a) /\ ~Saving(a) /\ ~(SaveOpen /\ draft.file = a) /\ sidecar[a] = Described(a)
    BY <2>0, <2>4, <2>5, <2>6, <2>7
  <2>8. CASE ~Saving(a) /\ ~(SaveOpen /\ draft.file = a) /\ Fresh(a) /\ ~Open(a)
    <3>1. ASSUME NEW b \in Process, bind[b].file = a
          PROVE  ~BindWrite(b)
      BY <2>8, <3>1 DEF BindWrite, Open
    <3>2. ASSUME \A b \in Process : bind[b].file = a => ~BindOpen(b)
          PROVE  (Fresh(a) /\ ~Open(a))'
      <4>1. sidecar'[a] = sidecar[a]
        BY <2>5, <2>8, <3>1, <3>2
      <4>2. ASSUME NEW b \in Process, bind'[b].file = a, bind'[b].at = "write"
            PROVE  FALSE
        <5>1. CASE bind'[b] = bind[b]
          BY <2>8, <4>2, <5>1 DEF Open
        <5>2. CASE BindOpen(b)
          BY <3>2, <4>2, <5>2, HashOf
        <5> QED
          BY <4>2, <5>1, <5>2, OpenOf
      <4> QED
        BY <2>0, <2>8, <4>1, <4>2 DEF Fresh, Open
    <3> QED
      BY <2>4, <3>2
  <2>9. CASE ~Due(a) /\ ~Saving(a) /\ ~(SaveOpen /\ draft.file = a) /\ Writing(a)
    <3>1. PICK b \in Process : bind[b].file = a /\ bind[b].at = "write"
      BY <2>9 DEF Writing, Open
    <3>2. ASSUME bind'[b] # bind[b], ~BindWrite(b)
          PROVE  FALSE
      <4>1. ~BindHash(b) /\ ~BindOpen(b) /\ ~BindFails(b) /\ ~BindLoses(b)
        BY <2>0, <3>1 DEF BindHash, BindOpen, BindFails
      <4>2. CASE b = "watchd" /\ Down
        BY <1>2, <3>1, <4>2, DownForgets
      <4>3. CASE b = "cli" /\ CommandDies
        BY <1>2, <3>1, <4>3 DEF CommandDies
      <4> QED
        BY <3>1, <3>2, <4>1, <4>2, <4>3, BindOf
    <3>3. ASSUME sidecar'[a] = sidecar[a], bind'[b] = bind[b]
          PROVE  Writing(a)'
      BY <2>9, <3>1, <3>3 DEF Writing, Open
    <3> QED
      BY <2>0, <2>4, <2>5, <2>6, <2>9, <3>1, <3>2, <3>3 DEF Writing
  <2> QED
    BY <2>0, <2>1, <2>2, <2>3, <2>7, <2>8, <2>9 DEF Tended
<1> QED
  BY <1>1, <1>2 DEF Tended

LEMMA CurrentStep ==
  ASSUME Inv, CurrentInv, [Next]_vars
  PROVE  CurrentInv'
<1>1. \A a \in Asset : FromCli(a) /\ FromSave(a) /\ FromWatchd(a) /\ Tended(a)
  BY CurrentParts DEF Inv, HistoryOK
<1>2. told' \subseteq Asset
  BY InvStep DEF Inv, HistoryOK
<1>3. CASE Next
  <2>1. \A a \in Asset : FromCli(a)' /\ FromSave(a)' /\ FromWatchd(a)' /\ Tended(a)'
    BY <1>1, <1>3, FromCliStep, FromSaveStep, FromWatchdStep, TendedStep
  <2> QED
    BY <1>2, <2>1 DEF CurrentInv, FromCli, FromSave, FromWatchd, Tended, Writing
<1>4. CASE UNCHANGED vars
  BY <1>4 DEF vars, dir, watchd, editing, history, CurrentInv, Holds, Pending, AtHand, Saving,
     Due, Described, Fresh, Open
<1> QED
  BY <1>3, <1>4

(* While the daemon waits for events and none is on its way, each file      *)
(* whose last finished write it was told of, and did not fail to bind, has  *)
(* a sidecar with the digest of what the file holds, whatever commands run, *)
(* fail and are killed, whatever the GUI saves meanwhile, and however often *)
(* the daemon is stopped and started (main, maybe_bind_finished_file,       *)
(* imeta_bind_file, save_sidecar_data); but for the files SidecarsCurrent   *)
(* names: at work just then, two were at them at once, or a write to their  *)
(* sidecar failed unseen.                                                   *)
THEOREM WatchdKeepsCurrent == Spec => []SidecarsCurrent
<1>1. Init => CurrentInv
  <2>1. ASSUME Init PROVE CurrentInv
    <3>1. gui = "ready" /\ told = {} /\ \A b \in Process : bind[b] = NoBind
      BY <2>1 DEF Init, Process
    <3>2. \A a \in Asset : ~Holds("cli", a) /\ ~Holds("watchd", a) /\ ~Saving(a)
      BY <3>1 DEF Holds, NoBind, Process, Saving
    <3> QED
      BY <3>1, <3>2, CurrentParts DEF FromCli, FromSave, FromWatchd, Tended
  <2> QED
    BY <2>1
<1>2. Inv /\ CurrentInv /\ [Next]_vars => CurrentInv'
  BY CurrentStep
<1>3. Inv /\ CurrentInv => SidecarsCurrent
  <2> SUFFICES ASSUME Inv, CurrentInv, AtRest,
                      NEW a \in told \ (raced \union {bind["cli"].file}),
                      content[a] \in Content, ~Saving(a)
               PROVE  Fresh(a)
    BY DEF SidecarsCurrent
  <2>1. a \in Asset /\ Tended(a)
    BY CurrentParts DEF Inv, HistoryOK
  <2>2. daemon = "read" /\ queue = <<>> /\ batch = <<>>
    BY DEF AtRest, Inv, WatchdOK
  <2>3. bind["watchd"].file = NoAsset /\ "watchd" \in Process
    BY <2>2 DEF Inv, WorkOK, BindOK, Process, NoBind
  <2>4. ~Pending(a)
    <3>1. DOMAIN queue = {} /\ DOMAIN batch = {}
      BY <2>2
    <3> QED
      BY <3>1 DEF Pending
  <2>5. bind["watchd"].file # a /\ bind["cli"].file # a
    BY <2>1, <2>3, SidecarsAssumption
  <2>6. sidecar[a] = Described(a) \/ Fresh(a)
    BY <2>1, <2>4, <2>5 DEF Tended, Due, Writing, Open, Process
  <2>7. Described(a) \in Doc
    <3>1. Hash[content[a]] \in Digest
      BY SidecarsAssumption
    <3> QED
      BY <2>1, <3>1 DEF Described, Doc
  <2> QED
    BY <2>6, <2>7 DEF Fresh, Described
<1> QED
  BY <1>1, <1>2, <1>3, InvInit, InvStep, PTL DEF Spec

-----------------------------------------------------------------------------
(* Annotations: what a user saved stands, whatever "bind folder" does.      *)

(* In a list of commands each bind comes after a scan. *)
Ordered(s) == \A i \in DOMAIN s : i > 1 /\ s[i] = "bind" => s[i - 1] = "scan"

Unheard(a) == kept[a] # {} => ~AtHand(a)

Ready    == cli = "idle" /\ script # <<>> /\ Head(script) = "bind" => Covers(index)
Scanned  == cli = "scan" /\ Binds => Covers(rows \union todo)
Spared   == cli = "bind" => \A a \in Asset :
                kept[a] # {} => <<"FILE", a>> \notin todo /\ bind["cli"].file # a
Cleared  == bind["cli"].at = "write" => kept[bind["cli"].file] = {}
Kept(a)  == kept[a] # {} /\ ~Saving(a) => sidecar[a] \in Doc /\ sidecar[a].tags = kept[a]
Annotated == Ready /\ Scanned /\ Spared /\ Cleared /\ \A a \in Asset : Kept(a)

LEMMA TagsParts ==
  TagsInv <=> Ordered(script) /\ (\A a \in Asset : Unheard(a)) /\ (~cut => Annotated)
  BY DEF TagsInv, Ordered, Unheard, Annotated, Ready, Scanned, Spared, Cleared, Kept

LEMMA ListsBind ==
  ASSUME Inv, script # <<>>
  PROVE  /\ Head(script) = "bind" => Binds
         /\ Head(script) # "bind" /\ Tail(script) = <<>> => ~Binds
<1>1. script \in Seq({"scan", "bind", "file"}) /\ Len(script) \in Nat
      /\ DOMAIN script = 1 .. Len(script)
  BY LenProperties DEF Inv, CommandOK
<1>2. Len(script) > 0 /\ Head(script) = script[1] /\ Len(Tail(script)) = Len(script) - 1
  BY <1>1, EmptySeq, HeadTailProperties
<1>3. Tail(script) = <<>> => DOMAIN script = {1}
  <2>0. Len(<<>>) = 0
    BY EmptySeq
  <2>1. ASSUME Tail(script) = <<>>
        PROVE  Len(script) = 1
    <3>1. Len(Tail(script)) = 0
      BY <2>0, <2>1
    <3> HIDE <2>1
    <3> QED
      BY <1>1, <1>2, <3>1
  <2> QED
    BY <1>1, <2>1
<1> QED
  BY <1>1, <1>2, <1>3 DEF Binds

(* A command that is over leaves the rest of the list.                      *)
LEMMA OverLeaves ==
  ASSUME Inv, Ordered(script), script # <<>>, CommandOver
  PROVE  /\ Ordered(script') /\ cli' = "idle"
         /\ script' # <<>> /\ Head(script') = "bind" => Head(script) = "scan"
<1>1. script \in Seq({"scan", "bind", "file"})
  BY DEF Inv, CommandOK
<1>2. script' = Tail(script) /\ cli' = "idle"
  BY DEF CommandOver
<1>3. /\ script' \in Seq({"scan", "bind", "file"}) /\ Len(script') = Len(script) - 1
      /\ \A i \in 1 .. Len(script') : script'[i] = script[i + 1]
  BY <1>1, <1>2, HeadTailProperties
<1>4. /\ Len(script) \in Nat /\ DOMAIN script = 1 .. Len(script)
      /\ DOMAIN script' = 1 .. Len(script')
  BY <1>1, <1>3, LenProperties
<1>5. Ordered(script')
  <2>1. ASSUME NEW i \in DOMAIN script', i > 1, script'[i] = "bind"
        PROVE  script'[i - 1] = "scan"
    <3>1. /\ i + 1 \in DOMAIN script /\ i + 1 > 1 /\ i + 1 - 1 = i
          /\ i \in 1 .. Len(script') /\ i - 1 \in 1 .. Len(script') /\ i - 1 + 1 = i
      BY <1>3, <1>4, <2>1
    <3>2. script[i + 1] = "bind" /\ script'[i - 1] = script[i]
      BY <1>3, <2>1, <3>1
    <3> QED
      BY <3>1, <3>2 DEF Ordered
  <2> QED
    BY <2>1 DEF Ordered
<1>6. ASSUME script' # <<>>, Head(script') = "bind"
      PROVE  Head(script) = "scan"
  <2>1. Len(script') > 0
    BY <1>3, <1>6, EmptySeq
  <2>2. 1 \in 1 .. Len(script') /\ 2 \in DOMAIN script /\ 2 > 1 /\ 2 - 1 = 1 /\ 1 + 1 = 2
    BY <1>3, <1>4, <2>1
  <2>3. script[2] = "bind"
    BY <1>3, <1>6, <2>2
  <2>4. script[1] = "scan"
    BY <2>2, <2>3 DEF Ordered
  <2> QED
    BY <1>1, <2>4
<1> QED
  BY <1>2, <1>5, <1>6

LEMMA OrderedStep ==
  ASSUME ScansFirst, Inv, Next, Ordered(script)
  PROVE  /\ Ordered(script')
         /\ (Ask \/ Press) /\ script' # <<>> => Head(script') # "bind"
<1>1. CASE Ask \/ Press
  <2>1. script' \in Script \union Button /\ script' \in Seq({"scan", "bind", "file"})
    BY <1>1, SidecarsAssumption DEF Ask, Press
  <2>2. \A i \in DOMAIN script' : script'[i] = "bind" => i > 1 /\ script'[i - 1] = "scan"
    BY <2>1 DEF ScansFirst
  <2>3. ASSUME script' # <<>>
        PROVE  1 \in DOMAIN script' /\ Head(script') = script'[1]
    <3>1. Len(script') > 0 /\ DOMAIN script' = 1 .. Len(script')
      BY <2>1, <2>3, EmptySeq, LenProperties
    <3> QED
      BY <2>1, <3>1, LenProperties
  <2> QED
    BY <2>2, <2>3 DEF Ordered
<1>2. CASE ScanDone \/ BindMissingDone \/ BindFileDone \/ CommandDies \/ ScanFails \/ ScanLoses
  <2>1. script # <<>> /\ CommandOver
    BY <1>2 DEF ScanDone, BindMissingDone, BindFileDone, CommandDies, ScanFails, ScanLoses, Inv,
       CommandOK
  <2>2. ~Ask /\ ~Press
    BY <2>1 DEF Ask, Press
  <2> QED
    BY <2>1, <2>2, OverLeaves
<1>3. ASSUME ~Ask, ~Press, ~ScanDone, ~BindMissingDone, ~BindFileDone, ~CommandDies, ~ScanFails,
             ~ScanLoses
      PROVE  script' = script
  BY <1>3, Moves DEF command, ScanStart, BindMissing, Queries, ScanEntry, BindNext, BindFile,
     Misses, ScanMisses, Losses, BindMissingMisreads
<1> QED
  BY <1>1, <1>2, <1>3

(* Tags become the kept ones only by a save where neither the daemon nor a  *)
(* command is, and are forgotten when the daemon hears of the file, by a    *)
(* bind of the file by name, and by a save that fails.                      *)
Keeps(a) == SaveWrite /\ draft.file = a /\ ~AtHand(a) /\ ~BindDue(a) /\ sidecar[a] = Broken

LEMMA KeptMoves ==
  ASSUME Inv, Next
  PROVE  \A a \in Asset : kept'[a] # {} => kept'[a] = kept[a] \/ Keeps(a)
<1>1. kept \in [Asset -> SUBSET Tag]
  BY DEF Inv, HistoryOK
<1>2. ASSUME NEW b \in Process, BindOpen(b)
      PROVE  kept' = kept \/ kept' = [kept EXCEPT ![bind[b].file] = {}]
  BY <1>2 DEF BindOpen
<1>3. ASSUME NEW a \in Asset, NEW c \in Content, Finish(a, c)
      PROVE  kept' = kept \/ kept' = [kept EXCEPT ![a] = {}]
  BY <1>3 DEF Finish
<1>4. Finishes => \E a \in Asset, c \in Content : Finish(a, c)
  BY DEF Finishes, CloseFile, MoveIn
<1>5. UNCHANGED history \/ Edits \/ Stops \/ ScanStart \/ CommandDies \/ SaveOpen => kept' = kept
  BY DEF history, Edits, OpenFile, RemoveFile, Stops, WatchdCheck, Signal, WatchdDies, Down,
     ScanStart, CommandDies, SaveOpen
<1>6. Misses \/ Losses \/ (\E b \in Process : BindFails(b) \/ BindLoses(b)) => kept' = kept
  BY DEF Misses, ScanMisses, Losses, ScanFails, ScanLoses, BindMissingMisreads, BindFails, BindLoses
<1>7. SaveFails => kept' = kept \/ kept' = [kept EXCEPT ![draft.file] = {}]
  BY DEF SaveFails
<1>8. CASE SaveWrite
  <2>1. kept' = [kept EXCEPT ![draft.file] =
                   IF AtHand(draft.file) \/ BindDue(draft.file) \/ sidecar[draft.file] # Broken
                   THEN {} ELSE draft.doc.tags]
    BY <1>8 DEF SaveWrite
  <2> QED
    BY <1>1, <1>8, <2>1 DEF Keeps
<1> QED
  BY <1>1, <1>2, <1>3, <1>4, <1>5, <1>6, <1>7, <1>8, Moves

(* While a bind is to come, no save counts.                                 *)
LEMMA KeptBefore ==
  ASSUME Inv, Next, Binds
  PROVE  \A a \in Asset : kept'[a] # {} => kept'[a] = kept[a]
BY KeptMoves DEF Keeps, BindDue, Binds

(* A save counts only where the daemon is not, and until it hears.          *)
LEMMA UnheardStep ==
  ASSUME Inv, Next, NEW a \in Asset, Unheard(a)
  PROVE  Unheard(a)'
<1> SUFFICES ASSUME kept'[a] # {} PROVE ~AtHand(a)'
  BY DEF Unheard
<1>0. kept \in [Asset -> SUBSET Tag]
  BY DEF Inv, HistoryOK
<1>1. ~AtHand(a)
  BY KeptMoves DEF Unheard, Keeps
<1>2. ASSUME NEW c \in Content, Finish(a, c), Heard(<<"asset", a>>)
      PROVE  FALSE
  BY <1>0, <1>2 DEF Finish
<1> QED
  BY <1>1, <1>2, AtHandMoves

(* Each saved annotation stands.                                            *)
LEMMA KeptStep ==
  ASSUME Inv, Next, Annotated, NEW a \in Asset, Unheard(a)
  PROVE  Kept(a)'
<1>0. /\ Kept(a) /\ Cleared /\ Spared
      /\ sidecar \in [Asset -> Doc \union {Missing, Broken}] /\ kept \in [Asset -> SUBSET Tag]
  BY DEF Annotated, Inv, DirOK, HistoryOK
<1>1. CASE SaveWrite
  <2>1. /\ draft \in [file : Asset, doc : Doc] /\ gui' = "ready"
        /\ kept' = [kept EXCEPT ![draft.file] =
                      IF AtHand(draft.file) \/ BindDue(draft.file) \/ sidecar[draft.file] # Broken
                      THEN {} ELSE draft.doc.tags]
    BY <1>1, Written DEF SaveWrite, Process
  <2>2. \E d \in Over(draft.file, draft.doc) : sidecar' = [sidecar EXCEPT ![draft.file] = d]
    BY <1>1, Written DEF Process
  <2>3. CASE a = draft.file
    <3>1. ASSUME kept'[a] # {}
          PROVE  sidecar'[a] \in Doc /\ sidecar'[a].tags = kept'[a]
      <4>1. sidecar[a] = Broken /\ kept'[a] = draft.doc.tags
        BY <1>0, <2>1, <2>3, <3>1
      <4>2. Over(a, draft.doc) = {draft.doc}
        BY <4>1 DEF Over
      <4>3. sidecar'[a] = draft.doc /\ draft.doc \in Doc
        BY <1>0, <2>1, <2>2, <2>3, <4>2
      <4> QED
        BY <4>1, <4>3
    <3> QED
      BY <3>1 DEF Kept
  <2>4. CASE a # draft.file
    <3>1. sidecar'[a] = sidecar[a] /\ kept'[a] = kept[a]
      BY <1>0, <2>1, <2>2, <2>4
    <3> QED
      BY <1>0, <2>4, <3>1 DEF Kept, Saving
  <2> QED
    BY <2>3, <2>4
<1>2. CASE SaveOpen /\ draft.file = a
  BY <1>2, SavingMoves DEF Kept
<1>3. ASSUME NEW b \in Process, BindOpen(b) \/ BindWrite(b) \/ BindLoses(b), bind[b].file = a
      PROVE  kept'[a] = {}
  <2>1. kept'[a] # {} => kept'[a] = kept[a]
    <3>1. ~SaveWrite
      BY <1>3 DEF BindOpen, BindWrite, BindLoses, SaveWrite, editing
    <3> QED
      BY <3>1, KeptMoves DEF Keeps
  <2>2. CASE b = "watchd"
    <3>1. AtHand(a)
      BY <1>3, <2>2 DEF AtHand
    <3> QED
      BY <2>1, <3>1 DEF Unheard
  <2>3. CASE b = "cli"
    <3>1. CASE BindOpen(b) /\ cli = "file"
      <4>1. kept' = [kept EXCEPT ![a] = {}]
        BY <1>3, <2>3, <3>1 DEF BindOpen
      <4> QED
        BY <1>0, <4>1
    <3>2. CASE BindWrite(b) \/ BindLoses(b)
      <4>1. bind["cli"].at = "write"
        BY <2>3, <3>2 DEF BindWrite, BindLoses
      <4> QED
        BY <1>0, <1>3, <2>1, <2>3, <4>1 DEF Cleared
    <3>3. CASE BindOpen(b) /\ cli # "file"
      <4>1. cli = "bind"
        BY <2>3, <3>3, AtWork
      <4> QED
        BY <1>0, <1>3, <2>1, <2>3, <4>1 DEF Spared
    <3> QED
      BY <1>3, <3>1, <3>2, <3>3
  <2> QED
    BY <2>2, <2>3 DEF Process
<1>4. CASE SaveFails
  <2>1. CASE gui \in {"saving", "tagging"}
    <3>1. UNCHANGED <<sidecar, kept>> /\ ~Saving(a)
      BY <1>4, <2>1 DEF SaveFails, Saving
    <3> QED
      BY <1>0, <3>1 DEF Kept
  <2>2. CASE gui \notin {"saving", "tagging"} /\ a = draft.file
    <3>1. kept' = [kept EXCEPT ![a] = {}]
      BY <1>4, <2>2 DEF SaveFails
    <3> QED
      BY <1>0, <3>1 DEF Kept
  <2>3. CASE gui \notin {"saving", "tagging"} /\ a # draft.file
    <3>1. /\ kept' = [kept EXCEPT ![draft.file] = {}]
          /\ \E d : sidecar' = [sidecar EXCEPT ![draft.file] = d]
      BY <1>4, <2>3 DEF SaveFails
    <3>2. sidecar'[a] = sidecar[a] /\ kept'[a] = kept[a]
      BY <1>0, <2>3, <3>1
    <3> QED
      BY <1>0, <2>3, <3>2 DEF Kept, Saving
  <2> QED
    BY <2>1, <2>2, <2>3
<1>5. ASSUME ~SaveWrite, ~SaveFails, ~(SaveOpen /\ draft.file = a),
             \A b \in Process : bind[b].file = a => ~BindOpen(b) /\ ~BindWrite(b) /\ ~BindLoses(b)
      PROVE  Kept(a)'
  <2>1. sidecar'[a] = sidecar[a]
    BY <1>5, SidecarStays
  <2>2. kept'[a] # {} => kept'[a] = kept[a]
    BY <1>5, KeptMoves DEF Keeps
  <2>3. Saving(a) => Saving(a)'
    BY <1>5, SavingMoves
  <2> QED
    BY <1>0, <2>1, <2>2, <2>3 DEF Kept
<1> QED
  BY <1>1, <1>2, <1>3, <1>4, <1>5 DEF Kept

LEMMA ClearedStep ==
  ASSUME Inv, Next, Annotated
  PROVE  Cleared'
<1>0. Cleared /\ Spared
  BY DEF Annotated
<1>1. SUFFICES ASSUME bind'["cli"].at = "write"
               PROVE  kept'[bind'["cli"].file] = {}
  BY DEF Cleared
<1>2. "cli" \in Process
  BY DEF Process
<1>3. CASE BindOpen("cli")
  <2>1. bind'["cli"].file = bind["cli"].file /\ bind["cli"].file \in Asset
    BY <1>2, <1>3, HashOf, Written
  <2>2. cli \in {"bind", "file"}
    BY <1>2, <1>3, AtWork
  <2>3. kept' = IF cli = "file" THEN [kept EXCEPT ![bind["cli"].file] = {}] ELSE kept
    BY <1>3 DEF BindOpen
  <2> QED
    BY <1>0, <2>1, <2>2, <2>3 DEF Spared, Inv, HistoryOK
<1>4. CASE bind'["cli"] = bind["cli"] /\ ~BindOpen("cli")
  <2>1. bind["cli"].file \in Asset /\ kept[bind["cli"].file] = {}
    BY <1>0, <1>1, <1>2, <1>4 DEF Cleared, Inv, BindOK
  <2>2. ~Keeps(bind["cli"].file)
    BY DEF Keeps, BindDue
  <2> QED
    BY <1>4, <2>1, <2>2, KeptMoves
<1> QED
  BY <1>1, <1>2, <1>3, <1>4, OpenOf

(* While a scan is under way, what it has written and what it has yet to    *)
(* look at cover the saved sidecars.                                        *)
LEMMA ScannedStep ==
  ASSUME Inv, Next, Annotated, ~cut'
  PROVE  Scanned'
<1>0. Scanned /\ \A a \in Asset : Kept(a)
  BY DEF Annotated
<1>1. SUFFICES ASSUME cli' = "scan", Binds', NEW a \in Asset, kept'[a] # {}
               PROVE  <<"SIDECAR", a>> \in rows' \union todo'
  BY DEF Scanned, Covers
<1>2. <<"SIDECAR", a>> \in Row
  BY DEF Row
<1>3. CASE ScanStart
  BY <1>2, <1>3 DEF ScanStart
<1>4. ASSUME script' = script, cli = "scan"
      PROVE  <<"SIDECAR", a>> \in rows \union todo /\ sidecar[a] # Missing
  <2>1. kept[a] # {} /\ Binds
    BY <1>1, <1>4, KeptBefore DEF Binds
  <2>2. sidecar[a] # Missing
    <3>1. CASE Saving(a)
      BY <3>1 DEF Saving, Inv, OpenOK
    <3>2. CASE ~Saving(a)
      BY <1>0, <2>1, <3>2, SidecarsAssumption DEF Kept
    <3> QED
      BY <3>1, <3>2
  <2> QED
    BY <1>0, <1>4, <2>1, <2>2 DEF Scanned, Covers
<1>5. CASE \E r \in Row : ScanEntry(r)
  <2>1. PICK r \in Row : ScanEntry(r)
    BY <1>5
  <2>2. /\ cli = "scan" /\ script' = script /\ todo' = todo \ {r} /\ rows \subseteq rows'
        /\ Listed(r) => r \in rows'
    BY <2>1 DEF ScanEntry
  <2>3. Listed(<<"SIDECAR", a>>)
    BY <1>4, <2>2 DEF Listed, Stands
  <2> QED
    BY <1>4, <2>2, <2>3
<1>6. CASE Misses
  <2>1. cli = "scan" /\ script' = script /\ Tail(script) = <<>>
    BY <1>6 DEF Misses, ScanMisses
  <2>2. script # <<>> /\ Head(script) = "scan"
    BY <2>1 DEF Inv, CommandOK
  <2>3. ~Binds
    BY <2>1, <2>2, ListsBind
  <2> QED
    BY <1>1, <2>1, <2>3 DEF Binds
<1>7. ASSUME ~ScanStart, ~Misses, \A r \in Row : ~ScanEntry(r)
      PROVE  <<"SIDECAR", a>> \in rows' \union todo'
  <2>1. UNCHANGED command
    BY <1>1, <1>7, Moves DEF Queries, Ask, Press, ScanDone, BindMissing, BindMissingDone,
       BindFileDone, CommandOver, CommandDies, BindFile, BindNext, Losses, ScanFails, ScanLoses,
       BindMissingMisreads
  <2>2. script' = script /\ cli = "scan" /\ rows' = rows /\ todo' = todo
    BY <1>1, <2>1 DEF command
  <2> QED
    BY <1>4, <2>2
<1> QED
  BY <1>3, <1>5, <1>6, <1>7

(* Before bind-missing starts, the index covers them.                       *)
LEMMA ReadyStep ==
  ASSUME ScansFirst, Inv, Next, Ordered(script), Annotated, ~cut'
  PROVE  Ready'
<1>0. Ready /\ Scanned
  BY DEF Annotated
<1>1. SUFFICES ASSUME cli' = "idle", script' # <<>>, Head(script') = "bind",
                      NEW a \in Asset, kept'[a] # {}
               PROVE  <<"SIDECAR", a>> \in index'
  BY DEF Ready, Covers
<1>2. ~Ask /\ ~Press
  BY <1>1, OrderedStep
<1>3. CASE ScanDone
  <2>1. cli = "scan" /\ todo = {} /\ index' = rows /\ kept' = kept /\ CommandOver
    BY <1>3 DEF ScanDone, history
  <2>2. Binds
    <3>1. script # <<>> /\ Head(script) = "scan" /\ script' = Tail(script)
      BY <2>1 DEF CommandOver, Inv, CommandOK
    <3>2. script \in Seq({"scan", "bind", "file"})
      BY DEF Inv, CommandOK
    <3>3. /\ script' \in Seq({"scan", "bind", "file"}) /\ Len(script') = Len(script) - 1
          /\ \A i \in 1 .. Len(script') : script'[i] = script[i + 1]
      BY <3>1, <3>2, HeadTailProperties
    <3>4. Len(script') > 0 /\ Head(script') = script'[1] /\ Len(script') \in Nat
      BY <1>1, <3>3, EmptySeq, LenProperties
    <3>5. 1 \in 1 .. Len(script') /\ 2 \in 1 .. Len(script) /\ 1 + 1 = 2
          /\ DOMAIN script = 1 .. Len(script)
      BY <3>2, <3>3, <3>4, LenProperties
    <3>6. script[2] = "bind"
      BY <1>1, <3>3, <3>4, <3>5
    <3> QED
      BY <3>5, <3>6 DEF Binds
  <2> QED
    BY <1>0, <1>1, <2>1, <2>2 DEF Scanned, Covers
<1>4. ASSUME BindMissingDone \/ BindFileDone \/ CommandDies \/ ScanFails \/ ScanLoses
      PROVE  FALSE
  <2>1. script # <<>> /\ CommandOver /\ (cli # "idle" => Head(script) = cli)
    BY <1>4 DEF BindMissingDone, BindFileDone, CommandDies, ScanFails, ScanLoses, Inv, CommandOK
  <2>2. Head(script) = "scan" /\ script' = Tail(script)
    BY <1>1, <2>1, OverLeaves DEF CommandOver
  <2>3. CASE ScanFails \/ ScanLoses
    BY <1>1, <2>2, <2>3 DEF ScanFails, ScanLoses
  <2>4. CASE CommandDies
    <3>1. cli = "scan"
      BY <2>1, <2>2, <2>4 DEF CommandDies
    <3> QED
      BY <1>1, <2>2, <2>4, <3>1 DEF CommandDies
  <2>5. CASE BindMissingDone \/ BindFileDone
    BY <2>1, <2>2, <2>5 DEF BindMissingDone, BindFileDone
  <2> QED
    BY <1>4, <2>3, <2>4, <2>5
<1>5. ASSUME ~ScanDone
      PROVE  <<"SIDECAR", a>> \in index'
  <2>1. UNCHANGED command
    BY <1>1, <1>2, <1>4, <1>5, Moves DEF Queries, ScanStart, BindMissing, BindFile, BindNext,
       ScanEntry, Misses, ScanMisses, Losses, BindMissingMisreads
  <2>2. cli = "idle" /\ script # <<>> /\ Head(script) = "bind" /\ index' = index
    BY <1>1, <2>1 DEF command
  <2>3. Binds
    BY <2>2, ListsBind
  <2>4. kept[a] # {}
    BY <1>1, <2>3, KeptBefore
  <2> QED
    BY <1>0, <2>2, <2>4 DEF Ready, Covers
<1> QED
  BY <1>3, <1>5

(* bind-missing leaves them alone.                                          *)
LEMMA SparedStep ==
  ASSUME Inv, Next, Annotated, ~cut'
  PROVE  Spared'
<1>0. Ready /\ Spared
  BY DEF Annotated
<1>1. SUFFICES ASSUME cli' = "bind", NEW a \in Asset, kept'[a] # {}
               PROVE  <<"FILE", a>> \notin todo' /\ bind'["cli"].file # a
  BY DEF Spared
<1>2. "cli" \in Process /\ "watchd" \in Process /\ NoAsset # a /\ NoBind.file # a
  BY AtWork, SidecarsAssumption DEF Process
<1>3. CASE BindMissing
  <2>1. /\ cli = "idle" /\ script # <<>> /\ Head(script) = "bind"
        /\ bind' = bind /\ kept' = kept /\ index' = index
        /\ todo' \subseteq {"FILE"} \X MissingIn(index)
    BY <1>3 DEF BindMissing, history
  <2>2. a \notin MissingIn(index)
    BY <1>0, <1>1, <2>1 DEF Ready, Covers, MissingIn
  <2>3. bind'["cli"] = NoBind
    BY <2>1, AtWork
  <2> QED
    BY <1>2, <2>1, <2>2, <2>3
<1>4. CASE \E r \in Row : BindNext(r)
  <2>1. PICK r \in Row : BindNext(r)
    BY <1>4
  <2>2. cli = "bind" /\ r \in todo /\ todo' = todo \ {r} /\ kept' = kept
    BY <2>1 DEF BindNext, history
  <2>3. <<"FILE", a>> \notin todo /\ todo \subseteq {"FILE"} \X Asset
    BY <1>0, <1>1, <2>2 DEF Spared, Inv, CommandOK
  <2>4. r[2] # a
    BY <2>2, <2>3
  <2>5. Took("cli", [at |-> "hash", file |-> r[2], hash |-> NoHash])
    BY <2>1, BindMoves
  <2>6. bind'["cli"].file = r[2]
    BY <1>2, <2>5, Taken
  <2> QED
    BY <2>2, <2>3, <2>4, <2>6
<1>5. ASSUME ~BindMissing, \A r \in Row : ~BindNext(r)
      PROVE  <<"FILE", a>> \notin todo' /\ bind'["cli"].file # a
  <2>1. UNCHANGED command
    BY <1>1, <1>5, Moves DEF Queries, Ask, Press, ScanStart, ScanEntry, ScanDone,
       BindMissingDone, BindFileDone, CommandOver, CommandDies, BindFile, Misses, ScanMisses,
       Losses, ScanFails, ScanLoses, BindMissingMisreads
  <2>2. cli = "bind" /\ todo' = todo
    BY <1>1, <2>1 DEF command
  <2>3. Binds
    BY <2>2, ListsBind DEF Inv, CommandOK
  <2>4. kept[a] # {}
    BY <1>1, <2>3, KeptBefore
  <2>5. <<"FILE", a>> \notin todo /\ bind["cli"].file # a
    BY <1>0, <2>2, <2>4 DEF Spared
  <2>6. bind'["cli"].file # a
    <3>1. bind["cli"].at = "idle" /\ bind'["cli"].at = "hash" => FALSE
      <4>1. bind'["cli"].at = "hash" => bind' # bind \/ bind["cli"].at = "hash"
        OBVIOUS
      <4>2. \A c \in Asset : ~BindFile(c)
        BY <1>1 DEF BindFile
      <4>3. ASSUME \/ BindHash("cli") \/ BindOpen("cli") \/ BindWrite("cli")
                   \/ BindFails("cli") \/ BindLoses("cli")
            PROVE  bind["cli"].at # "idle"
        BY <4>3 DEF BindHash, BindOpen, BindWrite, BindFails, BindLoses
      <4>4. ASSUME \/ Stops \/ WatchdEvent
                   \/ BindHash("watchd") \/ BindOpen("watchd") \/ BindWrite("watchd")
                   \/ BindFails("watchd") \/ BindLoses("watchd")
            PROVE  bind'["cli"] = bind["cli"]
        <5>1. bind' = bind \/ \E n : Took("watchd", n)
          <6>1. Stops => bind' = bind \/ Down
            BY DEF Stops, WatchdCheck, Signal, WatchdDies
          <6> QED
            BY <1>2, <4>4, <6>1, BindMoves
        <5> QED
          BY <1>2, <5>1, Taken
      <4>5. ~CommandDies
        BY <1>1 DEF CommandDies, CommandOver
      <4>6. \/ UNCHANGED bind
            \/ Stops \/ WatchdEvent
            \/ \E b \in Process : BindHash(b) \/ BindOpen(b) \/ BindWrite(b)
            \/ \E b \in Process : BindFails(b) \/ BindLoses(b)
        BY <1>5, <4>2, <4>5, Moves
      <4>7. \/ UNCHANGED bind \/ bind["cli"].at # "idle" \/ bind'["cli"] = bind["cli"]
        BY <4>3, <4>4, <4>6 DEF Process
      <4> QED
        BY <4>1, <4>7
    <3> QED
      BY <1>2, <2>5, <3>1, FileOf
  <2> QED
    BY <2>2, <2>5, <2>6
<1> QED
  BY <1>3, <1>4, <1>5

LEMMA TagsStep ==
  ASSUME ScansFirst, Inv, TagsInv, [Next]_vars
  PROVE  TagsInv'
<1>0. Ordered(script) /\ (\A a \in Asset : Unheard(a)) /\ (~cut => Annotated)
  BY TagsParts
<1>1. CASE UNCHANGED vars
  BY <1>1 DEF TagsInv, Covers, Binds, AtHand, Pending, Saving, vars, dir, watchd, command, editing,
     count, history
<1>2. CASE Next
  <2>1. Ordered(script)' /\ \A a \in Asset : Unheard(a)'
    BY <1>0, <1>2, OrderedStep, UnheardStep
  <2>2. ASSUME ~cut'
        PROVE  Annotated'
    <3>1. ~cut
      <4>1. Finishes \/ Edits => cut' = cut
        BY DEF Finishes, Edits, CloseFile, MoveIn, Finish, OpenFile, RemoveFile
      <4>2. Stops => cut' = cut
        BY DEF Stops, WatchdCheck, Signal, WatchdDies, Down, history
      <4>3. ScanStart \/ SaveOpen \/ SaveWrite \/ (\E b \in Process : BindOpen(b)) => cut' = cut
        BY DEF ScanStart, SaveOpen, SaveWrite, BindOpen
      <4>4. CommandDies => (cut => cut')
        BY DEF CommandDies
      <4>5. UNCHANGED history => cut' = cut
        BY DEF history
      <4>6. SaveFails \/ (\E b \in Process : BindFails(b) \/ BindLoses(b)) => cut' = cut
        BY DEF SaveFails, BindFails, BindLoses
      <4>7. Misses \/ Losses => (cut => cut')
        BY DEF Misses, ScanMisses, Losses, ScanFails, ScanLoses, BindMissingMisreads
      <4> QED
        BY <1>2, <2>2, <4>1, <4>2, <4>3, <4>4, <4>5, <4>6, <4>7, Moves
    <3>2. Annotated
      BY <1>0, <3>1
    <3>3. Ready' /\ Scanned'
      BY <1>0, <1>2, <2>2, <3>2, ReadyStep, ScannedStep
    <3>4. Spared' /\ Cleared'
      BY <1>2, <2>2, <3>2, SparedStep, ClearedStep
    <3>5. \A a \in Asset : Kept(a)'
      BY <1>0, <1>2, <3>2, KeptStep
    <3> QED
      BY <3>3, <3>4, <3>5 DEF Annotated
  <2>3. Ordered(script)' /\ (\A a \in Asset : Unheard(a)') /\ (~cut' => Annotated') => TagsInv'
    BY DEF TagsInv, Ordered, Unheard, Annotated, Ready, Scanned, Spared, Cleared, Kept
  <2> QED
    BY <2>1, <2>2, <2>3
<1> QED
  BY <1>1, <1>2

(* The tags a user saved last stand in the sidecar until the file is        *)
(* written again and the daemon hears of it, or the user binds it by name,  *)
(* whatever the daemon, "bind folder", single binds and other saves do      *)
(* meanwhile, killed or not; but for a scan that is killed or misses a file *)
(* before a bind, an index not read to its end, a save that fails, and one  *)
(* where the daemon or a command is or is to come (bind_folder,             *)
(* imeta_bind_missing_path, maybe_bind_finished_file, save_sidecar_data).   *)
(* It takes that each bind-missing comes right after a scan, as bind_folder *)
(* has it.                                                                  *)
THEOREM AnnotationsStay == ASSUME ScansFirst PROVE Spec => []TagsKept
<1>1. Init => TagsInv
  <2> SUFFICES ASSUME Init PROVE TagsInv
    OBVIOUS
  <2>1. bind["cli"] = NoBind /\ NoBind.at = "idle"
    BY DEF Init, NoBind
  <2>2. /\ script = <<>> /\ cli = "idle" /\ gui = "ready"
        /\ \A a \in Asset : kept[a] = {}
    BY DEF Init
  <2>3. DOMAIN script = {}
    BY <2>2
  <2>4. Ordered(script) /\ \A a \in Asset : Unheard(a)
    BY <2>2, <2>3 DEF Ordered, Unheard
  <2>5. Annotated
    BY <2>1, <2>2 DEF Annotated, Ready, Scanned, Spared, Cleared, Kept
  <2> QED
    BY <2>4, <2>5, TagsParts
<1>2. Inv /\ TagsInv /\ [Next]_vars => TagsInv'
  BY TagsStep
<1>3. Inv /\ TagsInv => TagsKept
  BY DEF TagsInv, TagsKept, Still, Saving
<1> QED
  BY <1>1, <1>2, <1>3, InvInit, InvStep, PTL DEF Spec

=============================================================================
