---------------------------- MODULE MemoryProofs ----------------------------
(***************************************************************************)
(* The documents of the memory stay whole and keep what was acknowledged,  *)
(* a folder command and push tell the truth, and the memory keeps the      *)
(* promise of NotesPromise, for every number of writers, files, fields,    *)
(* annotations, kills and failing calls.                                   *)
(***************************************************************************)
EXTENDS MemoryPromise, TLAPS, FiniteSetTheorems

-----------------------------------------------------------------------------
(* Facts about the constants and about one step. *)

LEMMA Constants ==
  /\ Default \in Stored /\ Offer \subseteq Field \X Stored
  /\ NoInode \notin Inode /\ Broken \notin Doc
  /\ \A f \in File : KeyOf[f] \in Key
  /\ \A k \in Key : <<"doc", k>> \in Entry /\ <<"tmp", k>> \in Entry
  /\ \A k, l \in Key : <<"doc", k>> # <<"tmp", l>>
  BY MemoryAssumption DEF Stored, Entry

(* What is typed when a writer is on a file. *)
LEMMA OnAFile ==
  ASSUME TypeOK, NEW w \in Writer, InFlight(w)
  PROVE  /\ job[w] \in Job /\ doc[w] \in Doc /\ job[w].file \in File
         /\ Mine(w) \in Key /\ Tmp(w) \in Entry /\ Goal(w) \in Entry
         /\ Tmp(w) = <<"tmp", Mine(w)>> /\ Goal(w) = <<"doc", Mine(w)>>
<1>1. job[w] \in Job /\ doc[w] \in Doc /\ job[w].file = doc[w].path
  BY DEF TypeOK, InFlight
<1>2. job[w].file \in File
  BY <1>1 DEF Doc
<1> QED
  BY <1>1, <1>2, Constants DEF Mine, Tmp, Goal

(* An inode that is named or held keeps its bytes. *)
LEMMA KeptBytes ==
  ASSUME NEW b \in [Inode -> Doc \union {Broken}]
  PROVE  /\ Kept(b) \in [Inode -> Doc \union {Broken}]
         /\ \A e \in Entry : at'[e] \in Inode => Kept(b)[at'[e]] = b[at'[e]]
         /\ \A w \in Writer : fd'[w] \in Inode => Kept(b)[fd'[w]] = b[fd'[w]]
  BY DEF Kept

(* A process that opens <name>.tmp afresh finds a free inode: the others and *)
(* the document's name hold fewer than there are.                           *)
LEMMA FreeInodeFree ==
  ASSUME TypeOK, NamesInv, NEW w \in Writer, fd[w] = NoInode,
         NEW k \in Key, ~Present(<<"tmp", k>>)
  PROVE  FreeInode(k) \in Inode /\ FreeInode(k)[1] = k /\ Free(FreeInode(k))
<1>1. ASSUME \A n \in Copies : ~Free(<<k, n>>)
      PROVE  FALSE
  <2> DEFINE holder == [n \in Copies |-> IF at[<<"doc", k>>] = <<k, n>> THEN w
                                       ELSE CHOOSE u \in Writer : fd[u] = <<k, n>>]
  <2>1. ASSUME NEW n \in Copies
        PROVE  at[<<"doc", k>>] = <<k, n>> \/ \E u \in Writer : fd[u] = <<k, n>>
    <3>1. CASE \E e \in Entry : at[e] = <<k, n>>
      <4>1. PICK e \in Entry : at[e] = <<k, n>>
        BY <3>1
      <4>2. Present(e) /\ e[2] = k
        BY <4>1, Constants DEF NamesInv, Present, Inode
      <4>3. e = <<"doc", k>> \/ e = <<"tmp", k>>
        BY <4>2 DEF Entry
      <4> QED
        BY <4>1, <4>2, <4>3
    <3>2. CASE ~\E e \in Entry : at[e] = <<k, n>>
      BY <1>1, <3>2 DEF Free
    <3> QED
      BY <3>1, <3>2
  <2>2. holder \in [Copies -> Writer]
    BY <2>1
  <2>3. \E m, n \in Copies : m # n /\ holder[m] = holder[n]
    <3> HIDE DEF holder
    <3> QED
      BY <2>2, MemoryAssumption, FS_PigeonHole
  <2>4. ASSUME NEW m \in Copies, NEW n \in Copies, holder[m] = holder[n]
        PROVE  m = n
    <3>1. \A l \in Copies : at[<<"doc", k>>] # <<k, l>> =>
             holder[l] \in Writer /\ fd[holder[l]] = <<k, l>>
      BY <2>1
    <3>2. \A l \in Copies : at[<<"doc", k>>] = <<k, l>> => holder[l] = w
      OBVIOUS
    <3>3. \A l \in Copies : <<k, l>> # NoInode
      BY Constants DEF Inode
    <3> HIDE DEF holder
    <3> QED
      BY <2>4, <3>1, <3>2, <3>3
  <2> QED
    BY <2>3, <2>4
<1>2. PICK n \in Copies : Free(<<k, n>>)
  BY <1>1
<1> DEFINE m == CHOOSE n1 \in Copies : Free(<<k, n1>>)
<1>3. m \in Copies /\ Free(<<k, m>>)
  BY <1>2
<1>4. FreeInode(k) = <<k, m>>
  BY DEF FreeInode
<1> HIDE DEF m
<1> QED
  BY <1>3, <1>4 DEF Inode

(* OpenTmp empties no document: its inode is that of <name>.tmp, or free. *)
LEMMA OpenTmpInode ==
  ASSUME TypeOK, NamesInv, NEW w \in Writer, OpenTmp(w)
  PROVE  \E i \in Inode :
           /\ i[1] = Mine(w)
           /\ at' = [at EXCEPT ![Tmp(w)] = i] /\ fd' = [fd EXCEPT ![w] = i]
           /\ node' = [node EXCEPT ![i] = Broken]
           /\ \A e \in Entry \ {Tmp(w)} : at[e] # i
           /\ Touch({})
<1>1. InFlight(w) /\ fd[w] \notin Inode
  BY DEF OpenTmp, InFlight, TypeOK
<1>2. fd[w] = NoInode
  BY <1>1 DEF NamesInv
<1>3. /\ Mine(w) \in Key /\ Tmp(w) \in Entry /\ Tmp(w) = <<"tmp", Mine(w)>>
  BY <1>1, OnAFile
<1> DEFINE i == IF Present(Tmp(w)) THEN at[Tmp(w)] ELSE FreeInode(KeyOf[job[w].file])
<1>4. /\ at' = [at EXCEPT ![Tmp(w)] = i] /\ fd' = [fd EXCEPT ![w] = i]
      /\ node' = [node EXCEPT ![i] = Broken]
      /\ Touch({k \in Key : at[<<"doc", k>>] = i})
  BY DEF OpenTmp
<1>5. i \in Inode /\ i[1] = Mine(w) /\ \A e \in Entry \ {Tmp(w)} : at[e] # i
  <2>1. CASE Present(Tmp(w))
    <3>1. i = at[Tmp(w)] /\ i \in Inode /\ i[1] = Mine(w)
      BY <1>3, <2>1 DEF TypeOK, NamesInv, Present
    <3>2. ASSUME NEW e \in Entry \ {Tmp(w)}, at[e] = i
          PROVE  FALSE
      <4>1. Present(e) /\ e[2] = Mine(w)
        BY <3>1, <3>2, Constants DEF NamesInv, Present
      <4>2. e = <<"doc", Mine(w)>>
        BY <1>3, <3>2, <4>1 DEF Entry
      <4> QED
        BY <1>3, <3>1, <3>2, <4>1, <4>2 DEF NamesInv
    <3> QED
      BY <3>1, <3>2
  <2>2. CASE ~Present(Tmp(w))
    <3>1. i = FreeInode(Mine(w))
      BY <2>2 DEF Mine
    <3>2. i \in Inode /\ i[1] = Mine(w) /\ Free(i)
      BY <1>2, <1>3, <2>2, <3>1, FreeInodeFree
    <3> QED
      BY <3>2 DEF Free
  <2> QED
    BY <2>1, <2>2
<1>6. {k \in Key : at[<<"doc", k>>] = i} = {}
  <2> HIDE DEF i
  <2>1. ASSUME NEW k \in Key
        PROVE  <<"doc", k>> \in Entry /\ <<"doc", k>> # Tmp(w)
    BY <1>3, Constants
  <2> QED
    BY <1>5, <2>1
<1> HIDE DEF i
<1> QED
  BY <1>4, <1>5, <1>6

-----------------------------------------------------------------------------
(* Type correctness, and which inode belongs to which document. *)

TypeInv == TypeOK /\ NamesInv

(* The parts of a type that a step of a writer changes, taken one by one. *)
StoreOK ==
    /\ at \in [Entry -> Inode \union {NoInode}]
    /\ node \in [Inode -> Doc \union {Broken}]
    /\ \A e \in Entry : Present(e) => at[e][1] = e[2]
    /\ \A k \in Key : Present(<<"doc", k>>) => at[<<"doc", k>>] # at[<<"tmp", k>>]
WriterOK(w) ==
    /\ pc[w] \in {"idle", "next", "loaded", "open", "written"}
    /\ pc[w] # "idle" => job[w] \in Job
    /\ InFlight(w) => doc[w] \in Doc /\ doc[w].path = job[w].file
    /\ fd[w] \in Inode \union {NoInode}
    /\ pc[w] = "open" <=> fd[w] \in Inode
    /\ pc[w] = "open" => fd[w][1] = Mine(w)
Domains == DOMAIN pc = Writer /\ DOMAIN job = Writer /\ DOMAIN doc = Writer /\ DOMAIN fd = Writer
PushOK ==
    /\ index \subseteq Entry \X Doc /\ rows \subseteq Entry \X Doc /\ due \subseteq Entry
    /\ push \in BOOLEAN /\ rejected \in BOOLEAN /\ pushed \in 0 .. 2 /\ changed \subseteq Key
    /\ unread \subseteq Key /\ lost \subseteq Key
PastOK ==
    /\ may \in [Key -> [Field -> SUBSET Stored]]
    /\ spoiled \subseteq Key /\ replaced \subseteq Writer \X Key

LEMMA TypeParts ==
  ASSUME TypeInv
  PROVE  /\ StoreOK /\ Domains /\ PushOK /\ PastOK
         /\ pc = [w \in Writer |-> pc[w]] /\ fd = [w \in Writer |-> fd[w]]
         /\ \A w \in Writer : WriterOK(w)
<1>1. /\ StoreOK /\ Domains /\ PushOK /\ PastOK
      /\ pc = [w \in Writer |-> pc[w]] /\ fd = [w \in Writer |-> fd[w]]
  BY DEF TypeInv, TypeOK, NamesInv, StoreOK, Domains, PushOK, PastOK
<1>2. \A w \in Writer : WriterOK(w)
  BY DEF TypeInv, TypeOK, NamesInv, WriterOK
<1> QED
  BY <1>1, <1>2

LEMMA TypeAfter ==
  ASSUME StoreOK', Domains', PushOK', PastOK', \A w \in Writer : WriterOK(w)',
         pc' = [w \in Writer |-> pc'[w]], fd' = [w \in Writer |-> fd'[w]]
  PROVE  TypeInv'
<1>1. pc' \in [Writer -> {"idle", "next", "loaded", "open", "written"}]
  BY DEF WriterOK
<1>2. fd' \in [Writer -> Inode \union {NoInode}]
  BY DEF WriterOK
<1> QED
  BY <1>1, <1>2 DEF TypeInv, TypeOK, NamesInv, StoreOK, Domains, PushOK, PastOK, WriterOK

(* A step of a writer leaves the others where they are. *)
LEMMA OthersStay ==
  ASSUME TypeInv, NEW w \in Writer, Update(w)
  PROVE  /\ Domains'
         /\ pc' = [v \in Writer |-> pc'[v]] /\ fd' = [v \in Writer |-> fd'[v]]
         /\ \A v \in Writer \ {w} : /\ pc'[v] = pc[v] /\ job'[v] = job[v]
                                    /\ doc'[v] = doc[v] /\ fd'[v] = fd[v]
<1>0. Domains /\ pc = [v \in Writer |-> pc[v]] /\ fd = [v \in Writer |-> fd[v]]
  BY TypeParts
<1>1. CASE \E S \in Folder, o \in Offer : Annotate(w, S, o[1], o[2])
  BY <1>0, <1>1 DEF Annotate, Domains
<1>2. CASE \E file \in File : Load(w, file)
  BY <1>0, <1>2 DEF Load, Domains
<1>3. CASE \E file \in File : EditTemplate(w, file)
  BY <1>0, <1>3 DEF EditTemplate, Domains
<1>4. CASE FileFails(w)
  BY <1>0, <1>4 DEF FileFails, Domains
<1>5. CASE OpenTmp(w)
  BY <1>0, <1>5 DEF OpenTmp, Domains
<1>6. CASE WriteTmp(w)
  BY <1>0, <1>6 DEF WriteTmp, Domains
<1>7. CASE Rename(w)
  BY <1>0, <1>7 DEF Rename, Domains
<1>8. CASE RenameFails(w)
  BY <1>0, <1>8 DEF RenameFails, Domains
<1>9. CASE Return(w)
  BY <1>0, <1>9 DEF Return, Domains
<1>10. CASE CrashWriter(w)
  BY <1>0, <1>10 DEF CrashWriter, Domains
<1> QED
  BY <1>1, <1>2, <1>3, <1>4, <1>5, <1>6, <1>7, <1>8, <1>9, <1>10 DEF Update

(* Push and the hand of the user leave the writers alone. *)
LEMMA ElsewhereStay ==
  ASSUME Push \/ \E k \in Key : BreakByHand(k)
  PROVE  UNCHANGED writers /\ UNCHANGED <<may, replaced>>
  BY DEF Push, PushStart, PushSwap, CrashPush, PushRead, PushReadFails, PushGone, PushFinds, BreakByHand,
         writers, store, past

LEMMA PushSteps ==
  ASSUME Push
  PROVE  UNCHANGED <<at, node>> /\ UNCHANGED writers /\ UNCHANGED past
  BY DEF Push, PushStart, PushSwap, CrashPush, PushRead, PushReadFails, PushGone, PushFinds, store, writers, past

LEMMA TypeInit ==
  ASSUME Init
  PROVE  TypeInv
<1>1. StoreOK
  BY Constants DEF Init, StoreOK, Present
<1>2. Domains
  BY DEF Init, Domains
<1>3. push \in BOOLEAN /\ rejected \in BOOLEAN
  BY DEF Init
<1>4. pushed \in 0 .. 2
  BY DEF Init
<1>5. PushOK
  BY <1>3, <1>4 DEF Init, PushOK
<1>6. PastOK
  BY Constants DEF Init, PastOK
<1>7. \A w \in Writer : WriterOK(w)
  BY Constants DEF Init, WriterOK, InFlight
<1>8. /\ pc \in [Writer -> {"idle", "next", "loaded", "open", "written"}]
      /\ fd \in [Writer -> Inode \union {NoInode}]
  BY DEF Init
<1> QED
  BY <1>1, <1>2, <1>5, <1>6, <1>7, <1>8
  DEF TypeInv, TypeOK, NamesInv, StoreOK, Domains, PushOK, PastOK, WriterOK

(* load_existing_doc gives every field some text. *)
LEMMA LoadedType ==
  ASSUME TypeOK, NEW k \in Key
  PROVE  Loaded(k) \in [Field -> Stored]
<1>1. CASE Whole(<<"doc", k>>)
  <2>1. Bytes(<<"doc", k>>) \in Doc
    BY <1>1, Constants DEF Whole, Present, Bytes, TypeOK
  <2> QED
    BY <1>1, <2>1, Constants DEF Loaded, Extracted, Doc
<1>2. CASE ~Whole(<<"doc", k>>)
  BY <1>2, Constants DEF Loaded, Template
<1> QED
  BY <1>1, <1>2

(* The writer that takes the step. *)
LEMMA WriterStep ==
  ASSUME TypeInv, NEW w \in Writer, Update(w)
  PROVE  WriterOK(w)'
<1>0. Domains /\ WriterOK(w) /\ TypeOK /\ NamesInv
  BY TypeParts DEF TypeInv
<1>1. ASSUME NEW S \in Folder, NEW o \in Offer, Annotate(w, S, o[1], o[2])
      PROVE  WriterOK(w)'
  <2>1. /\ job'[w] = [all |-> S, left |-> S, file |-> NoFile, field |-> o[1],
                     val |-> o[2], errors |-> FALSE]
        /\ pc'[w] = "next" /\ fd'[w] = fd[w] /\ pc[w] = "idle"
    BY <1>0, <1>1 DEF Annotate, Domains
  <2>2. o[1] \in Field /\ o[2] \in Stored /\ S \subseteq File
    BY Constants, MemoryAssumption
  <2>3. job'[w] \in Job
    BY <2>1, <2>2 DEF Job
  <2> QED
    BY <1>0, <2>1, <2>3 DEF WriterOK, InFlight
<1>2. ASSUME NEW file \in File, Load(w, file)
      PROVE  WriterOK(w)'
  <2>1. /\ job'[w] = [job[w] EXCEPT !.left = @ \ {file}, !.file = file]
        /\ pc'[w] = "loaded" /\ fd'[w] = fd[w] /\ pc[w] = "next"
    BY <1>0, <1>2 DEF Load, Domains
  <2>5. PICK body \in {[Loaded(KeyOf[file]) EXCEPT ![job[w].field] = job[w].val],
                      [Template EXCEPT ![job[w].field] = job[w].val]} :
          doc'[w] = [path |-> file, body |-> body]
    BY <1>0, <1>2 DEF Load, Domains
  <2>2. job[w] \in Job
    BY <1>0, <2>1 DEF WriterOK
  <2>3. job'[w] \in Job /\ job'[w].file = file
    BY <2>1, <2>2 DEF Job
  <2>4. body \in [Field -> Stored]
    BY <1>0, <2>2, LoadedType, Constants DEF Job, Template
  <2> QED
    BY <1>0, <2>1, <2>3, <2>4, <2>5 DEF WriterOK, InFlight, Doc
<1>3. ASSUME NEW file \in File, EditTemplate(w, file)
      PROVE  WriterOK(w)'
  <2> DEFINE g == CHOOSE f \in Field : TRUE
  <2>1. /\ job'[w] = [all |-> {}, left |-> {}, file |-> file, field |-> g,
                     val |-> Default, errors |-> FALSE]
        /\ doc'[w] = [path |-> file, body |-> [f \in Field |-> Default]]
        /\ pc'[w] = "loaded" /\ fd'[w] = fd[w] /\ pc[w] = "idle"
    BY <1>0, <1>3 DEF EditTemplate, Domains, Template
  <2>2. g \in Field
    BY MemoryAssumption
  <2> HIDE DEF g
  <2>3. job'[w] \in Job /\ job'[w].file = file
    BY <2>1, <2>2, Constants DEF Job
  <2>4. doc'[w] \in Doc /\ doc'[w].path = file
    BY <2>1, Constants DEF Doc
  <2> QED
    BY <1>0, <2>1, <2>3, <2>4 DEF WriterOK, InFlight
<1>4. ASSUME FileFails(w)
      PROVE  WriterOK(w)'
  <2>1. /\ \/ \E file \in File : job'[w] = [job[w] EXCEPT !.left = @ \ {file}, !.errors = TRUE]
           \/ job'[w] = [job[w] EXCEPT !.errors = TRUE]
        /\ pc'[w] = "next" /\ fd'[w] = fd[w] /\ pc[w] \in {"next", "loaded"}
    <3>1. job[w].left \subseteq File \/ pc[w] # "next"
      BY <1>0 DEF WriterOK, Job
    <3> QED
      BY <1>0, <1>4, <3>1 DEF FileFails, Domains
  <2>2. job'[w] \in Job
    BY <1>0, <2>1 DEF WriterOK, Job
  <2> QED
    BY <1>0, <2>1, <2>2 DEF WriterOK, InFlight
<1>5. ASSUME OpenTmp(w)
      PROVE  WriterOK(w)'
  <2>1. PICK i \in Inode : i[1] = Mine(w) /\ fd' = [fd EXCEPT ![w] = i]
    BY <1>0, <1>5, OpenTmpInode
  <2>2. /\ pc[w] = "loaded" /\ pc'[w] = "open" /\ fd'[w] = i
        /\ job' = job /\ doc' = doc
    BY <1>0, <1>5, <2>1 DEF OpenTmp, Domains
  <2> QED
    BY <1>0, <2>1, <2>2 DEF WriterOK, InFlight, Mine
<1>6. ASSUME WriteTmp(w)
      PROVE  WriterOK(w)'
  <2>1. /\ pc[w] = "open" /\ pc'[w] = "written" /\ fd'[w] = NoInode
        /\ job' = job /\ doc' = doc
    BY <1>0, <1>6 DEF WriteTmp, Domains
  <2> QED
    BY <1>0, <2>1, Constants DEF WriterOK, InFlight
<1>7. ASSUME Rename(w)
      PROVE  WriterOK(w)'
  <2>1. pc[w] = "written" /\ pc'[w] = "next" /\ job' = job /\ fd' = fd
    BY <1>0, <1>7 DEF Rename, Domains
  <2> QED
    BY <1>0, <2>1 DEF WriterOK, InFlight
<1>8. ASSUME RenameFails(w)
      PROVE  WriterOK(w)'
  <2>1. /\ pc[w] = "written" /\ pc'[w] = "next" /\ fd' = fd
        /\ job'[w] = [job[w] EXCEPT !.errors = TRUE]
    BY <1>0, <1>8 DEF RenameFails, Domains
  <2>2. job'[w] \in Job
    BY <1>0, <2>1 DEF WriterOK, Job
  <2> QED
    BY <1>0, <2>1, <2>2 DEF WriterOK, InFlight
<1>9. ASSUME Return(w)
      PROVE  WriterOK(w)'
  <2>1. pc[w] = "next" /\ pc'[w] = "idle" /\ fd' = fd
    BY <1>0, <1>9 DEF Return, Domains
  <2> QED
    BY <1>0, <2>1 DEF WriterOK, InFlight
<1>10. ASSUME CrashWriter(w)
       PROVE  WriterOK(w)'
  <2>1. pc'[w] = "idle" /\ fd'[w] = NoInode
    BY <1>0, <1>10 DEF CrashWriter, Domains
  <2> QED
    BY <2>1, Constants DEF WriterOK, InFlight
<1> QED
  BY <1>1, <1>2, <1>3, <1>4, <1>5, <1>6, <1>7, <1>8, <1>9, <1>10 DEF Update

(* The steps of a writer that leave the documents alone. *)
Quiet(w) ==
    \/ \E S \in Folder, o \in Offer : Annotate(w, S, o[1], o[2])
    \/ \E file \in File : Load(w, file) \/ EditTemplate(w, file)
    \/ FileFails(w) \/ RenameFails(w) \/ Return(w)

LEMMA QuietSteps ==
  ASSUME NEW w \in Writer, Quiet(w)
  PROVE  UNCHANGED store /\ UNCHANGED <<fd, replaced, changed, pushed>> /\ UNCHANGED pusher
  BY DEF Quiet, Annotate, Load, EditTemplate, FileFails, RenameFails, Return, store, past

LEMMA StoreStep ==
  ASSUME TypeInv, Next
  PROVE  StoreOK'
<1>0. StoreOK /\ TypeOK /\ NamesInv
  BY TypeParts DEF TypeInv
<1>1. CASE UNCHANGED <<at, node>>
  BY <1>0, <1>1 DEF StoreOK, Present
<1>2. ASSUME NEW w \in Writer, OpenTmp(w)
      PROVE  StoreOK'
  <2>1. PICK i \in Inode :
           /\ i[1] = Mine(w)
           /\ at' = [at EXCEPT ![Tmp(w)] = i] /\ node' = [node EXCEPT ![i] = Broken]
           /\ \A e \in Entry \ {Tmp(w)} : at[e] # i
    BY <1>0, <1>2, OpenTmpInode
  <2>2. Tmp(w) \in Entry /\ Tmp(w) = <<"tmp", Mine(w)>> /\ Mine(w) \in Key
    BY <1>0, <1>2, OnAFile DEF OpenTmp, InFlight
  <2>3. \A e \in Entry : at'[e] = IF e = Tmp(w) THEN i ELSE at[e]
    BY <1>0, <2>1, <2>2 DEF StoreOK
  <2>4. at' \in [Entry -> Inode \union {NoInode}] /\ node' \in [Inode -> Doc \union {Broken}]
    BY <1>0, <2>1, <2>2 DEF StoreOK
  <2>5. ASSUME NEW e \in Entry, Present(e)'
        PROVE  at'[e][1] = e[2]
    BY <1>0, <2>1, <2>2, <2>3, <2>5 DEF StoreOK, Present
  <2>6. ASSUME NEW k \in Key, Present(<<"doc", k>>)'
        PROVE  at'[<<"doc", k>>] # at'[<<"tmp", k>>]
    <3>1. <<"doc", k>> \in Entry \ {Tmp(w)} /\ <<"tmp", k>> \in Entry
      BY <2>2, Constants
    <3>2. at'[<<"doc", k>>] = at[<<"doc", k>>] /\ Present(<<"doc", k>>)
      BY <2>3, <2>6, <3>1 DEF Present
    <3>3. at'[<<"tmp", k>>] = i \/ at'[<<"tmp", k>>] = at[<<"tmp", k>>]
      BY <2>3, <3>1
    <3> QED
      BY <1>0, <2>1, <3>1, <3>2, <3>3 DEF StoreOK
  <2> QED
    BY <2>4, <2>5, <2>6 DEF StoreOK
<1>3. ASSUME NEW w \in Writer, WriteTmp(w)
      PROVE  StoreOK'
  <2>1. at' = at /\ fd[w] \in Inode /\ doc[w] \in Doc
    BY <1>0, <1>3, OnAFile DEF WriteTmp, TypeOK, InFlight
  <2>2. PICK b \in Doc \union {Broken} : node' = Kept([node EXCEPT ![fd[w]] = b])
    BY <1>3, <2>1 DEF WriteTmp, Written
  <2>3. [node EXCEPT ![fd[w]] = b] \in [Inode -> Doc \union {Broken}]
    BY <1>0, <2>1 DEF StoreOK
  <2>4. node' \in [Inode -> Doc \union {Broken}]
    BY <2>2, <2>3, KeptBytes
  <2> QED
    BY <1>0, <2>1, <2>4 DEF StoreOK, Present
<1>4. ASSUME NEW w \in Writer, Rename(w)
      PROVE  StoreOK'
  <2>1. /\ Tmp(w) \in Entry /\ Tmp(w) = <<"tmp", Mine(w)>> /\ Mine(w) \in Key
        /\ Goal(w) \in Entry /\ Goal(w) = <<"doc", Mine(w)>> /\ Goal(w) # Tmp(w)
    BY <1>0, <1>4, OnAFile, Constants DEF Rename, InFlight
  <2>2. /\ \A e \in Entry : at'[e] = IF e = Tmp(w) THEN NoInode
                                      ELSE IF e = Goal(w) THEN at[Tmp(w)] ELSE at[e]
        /\ at' \in [Entry -> Inode \union {NoInode}]
    BY <1>0, <1>4, <2>1 DEF Rename, StoreOK
  <2>3. node' \in [Inode -> Doc \union {Broken}]
    BY <1>0, <1>4, KeptBytes DEF Rename, StoreOK
  <2>4. Present(Tmp(w)) /\ at[Tmp(w)][1] = Mine(w) /\ at[Tmp(w)] # NoInode
    BY <1>0, <1>4, <2>1 DEF Rename, StoreOK, Present
  <2>5. ASSUME NEW e \in Entry, Present(e)'
        PROVE  at'[e][1] = e[2]
    BY <1>0, <2>1, <2>2, <2>4, <2>5 DEF StoreOK, Present
  <2>6. ASSUME NEW k \in Key, Present(<<"doc", k>>)'
        PROVE  at'[<<"doc", k>>] # at'[<<"tmp", k>>]
    <3>1. CASE k = Mine(w)
      BY <2>1, <2>2, <2>4, <3>1
    <3>2. CASE k # Mine(w)
      <4>1. /\ <<"doc", k>> \in Entry /\ <<"tmp", k>> \in Entry
            /\ {<<"doc", k>>, <<"tmp", k>>} \intersect {Tmp(w), Goal(w)} = {}
        BY <2>1, <3>2, Constants
      <4>2. at'[<<"doc", k>>] = at[<<"doc", k>>] /\ at'[<<"tmp", k>>] = at[<<"tmp", k>>]
        BY <2>2, <4>1
      <4> QED
        BY <1>0, <2>6, <4>2 DEF StoreOK, Present
    <3> QED
      BY <3>1, <3>2
  <2> QED
    BY <2>2, <2>3, <2>5, <2>6 DEF StoreOK
<1>5. ASSUME NEW w \in Writer, CrashWriter(w)
      PROVE  StoreOK'
  <2>1. at' = at /\ node' \in [Inode -> Doc \union {Broken}]
    BY <1>0, <1>5, KeptBytes DEF CrashWriter, StoreOK
  <2> QED
    BY <1>0, <2>1 DEF StoreOK, Present
<1>6. ASSUME NEW k \in Key, BreakByHand(k)
      PROVE  StoreOK'
  <2>1. at' = at /\ node' \in [Inode -> Doc \union {Broken}]
    BY <1>0, <1>6 DEF BreakByHand, StoreOK
  <2> QED
    BY <1>0, <2>1 DEF StoreOK, Present
<1>7. CASE Push
  BY <1>1, <1>7, PushSteps
<1>8. ASSUME NEW w \in Writer, Quiet(w)
      PROVE  StoreOK'
  BY <1>1, <1>8, QuietSteps DEF store
<1> QED
  BY <1>2, <1>3, <1>4, <1>5, <1>6, <1>7, <1>8 DEF Next, Update, Quiet

LEMMA TouchType ==
  ASSUME NEW K \in SUBSET Key, Touch(K), PushOK
  PROVE  changed' \subseteq Key /\ pushed' \in 0 .. 2
  BY DEF Touch, PushOK

LEMMA PushStep ==
  ASSUME TypeInv, Next
  PROVE  PushOK'
<1>0. PushOK /\ StoreOK /\ TypeOK
  BY TypeParts DEF TypeInv
<1>1. ASSUME UNCHANGED index, UNCHANGED pusher, changed' \subseteq Key, pushed' \in 0 .. 2
      PROVE  PushOK'
  BY <1>0, <1>1 DEF PushOK, pusher
<1>2. ASSUME NEW w \in Writer, Quiet(w)
      PROVE  PushOK'
  BY <1>0, <1>1, <1>2, QuietSteps DEF PushOK, store
<1>3. ASSUME NEW w \in Writer, OpenTmp(w)
      PROVE  PushOK'
  BY <1>0, <1>1, <1>3, TouchType DEF OpenTmp
<1>4. ASSUME NEW w \in Writer, WriteTmp(w)
      PROVE  PushOK'
  BY <1>0, <1>1, <1>4, TouchType DEF WriteTmp
<1>5. ASSUME NEW w \in Writer, Rename(w)
      PROVE  PushOK'
  <2>1. {KeyOf[job[w].file]} \in SUBSET Key
    BY <1>0, <1>5, OnAFile DEF Rename, InFlight, Mine
  <2> QED
    BY <1>0, <1>1, <1>5, <2>1, TouchType DEF Rename
<1>6. ASSUME NEW w \in Writer, CrashWriter(w)
      PROVE  PushOK'
  BY <1>0, <1>1, <1>6 DEF CrashWriter, PushOK
<1>7. ASSUME NEW k \in Key, BreakByHand(k)
      PROVE  PushOK'
  BY <1>0, <1>1, <1>7, TouchType DEF BreakByHand
<1>8. CASE PushStart
  <2>1. pushed' \in 0 .. 2
    BY <1>8 DEF PushStart
  <2> QED
    BY <1>0, <1>8, <2>1 DEF PushStart, PushOK, store
<1>9. CASE PushSwap
  <2>1. pushed' \in 0 .. 2
    BY <1>9 DEF PushSwap
  <2> QED
    BY <1>0, <1>9, <2>1 DEF PushSwap, PushOK
<1>10. CASE CrashPush
  BY <1>0, <1>10 DEF CrashPush, PushOK, store
<1>11. ASSUME NEW e \in Entry, PushRead(e)
       PROVE  PushOK'
  <2>1. CASE Whole(e)
    <3>1. Bytes(e) \in Doc
      BY <1>0, <2>1 DEF Whole, Present, Bytes, TypeOK
    <3> QED
      BY <1>0, <1>11, <2>1, <3>1 DEF PushRead, PushOK, store
  <2>2. CASE ~Whole(e)
    BY <1>0, <1>11, <2>2 DEF PushRead, PushOK, store
  <2> QED
    BY <2>1, <2>2
<1>12. ASSUME NEW e \in Entry, PushGone(e)
       PROVE  PushOK'
  BY <1>0, <1>12 DEF PushGone, PushOK, store
<1>14. ASSUME NEW e \in Entry, PushReadFails(e)
       PROVE  PushOK'
  <2>1. e[1] = "doc" => e[2] \in Key
    BY DEF Entry
  <2> QED
    BY <1>0, <1>14, <2>1 DEF PushReadFails, PushOK, store
<1>13. ASSUME NEW e \in Entry, PushFinds(e)
       PROVE  PushOK'
  BY <1>0, <1>13 DEF PushFinds, PushOK, store
<1> QED
  BY <1>2, <1>3, <1>4, <1>5, <1>6, <1>7, <1>8, <1>9, <1>10, <1>11, <1>12, <1>13,
     <1>14
  DEF Next, Update, Quiet, Push

LEMMA PastStep ==
  ASSUME TypeInv, Next
  PROVE  PastOK'
<1>0. PastOK /\ TypeOK /\ \A w \in Writer : WriterOK(w)
  BY TypeParts DEF TypeInv
<1>1. CASE UNCHANGED past
  BY <1>0, <1>1 DEF past, PastOK
<1>2. ASSUME NEW w \in Writer, NEW file \in File, Load(w, file)
      PROVE  PastOK'
  <2>1. job[w] \in Job
    BY <1>0, <1>2 DEF Load, WriterOK
  <2>2. /\ may' = [may EXCEPT ![KeyOf[file]][job[w].field] = @ \union {job[w].val}]
        /\ spoiled' \subseteq spoiled \union {KeyOf[file]} /\ replaced' = replaced
    BY <1>2 DEF Load
  <2>3. may' \in [Key -> [Field -> SUBSET Stored]]
    BY <1>0, <2>1, <2>2, Constants DEF PastOK, Job
  <2> QED
    BY <1>0, <2>2, <2>3, Constants DEF PastOK
<1>3. ASSUME NEW w \in Writer, NEW file \in File, EditTemplate(w, file)
      PROVE  PastOK'
  BY <1>0, <1>3, Constants DEF EditTemplate, PastOK
<1>4. ASSUME NEW w \in Writer, WriteTmp(w)
      PROVE  PastOK'
  <2>1. Mine(w) \in Key
    BY <1>0, <1>4, OnAFile DEF WriteTmp, InFlight
  <2> QED
    BY <1>0, <1>4, <2>1 DEF WriteTmp, PastOK, Mine
<1>5. ASSUME NEW w \in Writer, Rename(w)
      PROVE  PastOK'
  <2>1. job[w] \in Job /\ Mine(w) \in Key
    BY <1>0, <1>5, OnAFile DEF Rename, InFlight
  <2> DEFINE new == {job[w].val} \union {job[u].val : u \in
                       {v \in Rivals(w, Mine(w)) : job[v].field = job[w].field}}
  <2>2. new \subseteq Stored
    BY <1>0, <2>1, OnAFile DEF Job, Rivals
  <2>3. may' = [may EXCEPT ![Mine(w)][job[w].field] = new]
    BY <1>5 DEF Rename, Mine
  <2> HIDE DEF new
  <2>4. may' \in [Key -> [Field -> SUBSET Stored]]
    BY <1>0, <2>1, <2>2, <2>3 DEF PastOK, Job
  <2>5. replaced' \subseteq Writer \X Key
    BY <1>0, <1>5, <2>1 DEF Rename, PastOK, Mine
  <2> QED
    BY <1>0, <1>5, <2>4, <2>5 DEF Rename, PastOK
<1>6. ASSUME NEW k \in Key, BreakByHand(k)
      PROVE  PastOK'
  BY <1>0, <1>6 DEF BreakByHand, PastOK
<1>7. ASSUME NEW w \in Writer,
             \/ \E S \in Folder, o \in Offer : Annotate(w, S, o[1], o[2])
             \/ FileFails(w) \/ RenameFails(w) \/ Return(w) \/ OpenTmp(w) \/ CrashWriter(w)
      PROVE  PastOK'
  BY <1>1, <1>7 DEF Annotate, FileFails, RenameFails, Return, OpenTmp, CrashWriter
<1> QED
  BY <1>1, <1>2, <1>3, <1>4, <1>5, <1>6, <1>7, PushSteps DEF Next, Update

LEMMA TypeStep ==
  ASSUME TypeInv, [Next]_vars
  PROVE  TypeInv'
<1>0. /\ StoreOK /\ Domains /\ PushOK /\ PastOK /\ \A w \in Writer : WriterOK(w)
      /\ pc = [w \in Writer |-> pc[w]] /\ fd = [w \in Writer |-> fd[w]]
  BY TypeParts
<1>1. ASSUME UNCHANGED writers
      PROVE  /\ Domains' /\ \A w \in Writer : WriterOK(w)'
             /\ pc' = [w \in Writer |-> pc'[w]] /\ fd' = [w \in Writer |-> fd'[w]]
  BY <1>0, <1>1 DEF writers, Domains, WriterOK, InFlight, Mine
<1>2. CASE UNCHANGED vars
  <2>1. StoreOK' /\ PushOK' /\ PastOK'
    BY <1>0, <1>2 DEF vars, store, pusher, past, StoreOK, PushOK, PastOK, Present
  <2>2. UNCHANGED writers
    BY <1>2 DEF vars
  <2> QED
    BY <1>1, <2>1, <2>2, TypeAfter
<1>3. CASE Next
  <2>1. StoreOK' /\ PushOK' /\ PastOK'
    BY <1>3, StoreStep, PushStep, PastStep
  <2>2. ASSUME NEW w \in Writer, Update(w)
        PROVE  /\ Domains' /\ \A v \in Writer : WriterOK(v)'
               /\ pc' = [v \in Writer |-> pc'[v]] /\ fd' = [v \in Writer |-> fd'[v]]
    <3>1. WriterOK(w)'
      BY <2>2, WriterStep
    <3>2. /\ Domains'
          /\ pc' = [v \in Writer |-> pc'[v]] /\ fd' = [v \in Writer |-> fd'[v]]
          /\ \A v \in Writer \ {w} : /\ pc'[v] = pc[v] /\ job'[v] = job[v]
                                     /\ doc'[v] = doc[v] /\ fd'[v] = fd[v]
      BY <2>2, OthersStay
    <3>3. ASSUME NEW v \in Writer \ {w}
          PROVE  WriterOK(v)'
      BY <1>0, <3>2 DEF WriterOK, InFlight, Mine
    <3> QED
      BY <3>1, <3>2, <3>3
  <2>3. CASE Push \/ \E k \in Key : BreakByHand(k)
    BY <1>1, <2>1, <2>3, ElsewhereStay, TypeAfter
  <2> QED
    BY <1>3, <2>1, <2>2, <2>3, TypeAfter DEF Next
<1> QED
  BY <1>2, <1>3

(* Names have their type, and every inode its document, in every behaviour.  *)
THEOREM MemoryTypeCorrect == Spec => []TypeOK
<1>1. Init => TypeInv
  BY TypeInit
<1>2. TypeInv /\ [Next]_vars => TypeInv'
  BY TypeStep
<1>3. TypeInv => TypeOK
  BY DEF TypeInv
<1> QED
  BY <1>1, <1>2, <1>3, PTL DEF Spec

-----------------------------------------------------------------------------
(* What a step does to the bytes a name stands for. *)

Same(e) == at'[e] = at[e] /\ (Present(e) => node'[at[e]] = node[at[e]])

(* Only four steps change what is under a name. *)
LEMMA NameStays ==
  ASSUME TypeInv, Next, NEW e \in Entry, ~BreakByHand(e[2]),
         \A w \in Writer : Rename(w) => Mine(w) # e[2],
         \A w \in Writer : OpenTmp(w) => e # Tmp(w),
         \A w \in Writer : WriteTmp(w) => fd[w] # at[e]
  PROVE  Same(e)
<1>0. StoreOK /\ TypeOK /\ NamesInv /\ e[2] \in Key
  BY TypeParts DEF TypeInv, Entry
<1>1. Present(e) => at[e] \in Inode
  BY <1>0 DEF Present, StoreOK
<1>2. CASE UNCHANGED <<at, node>>
  BY <1>2 DEF Same
<1>3. ASSUME NEW w \in Writer, OpenTmp(w)
      PROVE  Same(e)
  <2>1. PICK i \in Inode :
           /\ at' = [at EXCEPT ![Tmp(w)] = i] /\ node' = [node EXCEPT ![i] = Broken]
           /\ \A d \in Entry \ {Tmp(w)} : at[d] # i
    BY <1>0, <1>3, OpenTmpInode
  <2>2. e # Tmp(w)
    BY <1>3
  <2> QED
    BY <1>0, <1>1, <2>1, <2>2 DEF Same, StoreOK
<1>4. ASSUME NEW w \in Writer, WriteTmp(w)
      PROVE  Same(e)
  <2>1. at' = at /\ fd[w] \in Inode /\ doc[w] \in Doc /\ fd[w] # at[e]
    BY <1>0, <1>4, OnAFile DEF WriteTmp, TypeOK, InFlight
  <2>2. PICK b \in Doc \union {Broken} : node' = Kept([node EXCEPT ![fd[w]] = b])
    BY <1>4, <2>1 DEF WriteTmp, Written
  <2>3. [node EXCEPT ![fd[w]] = b] \in [Inode -> Doc \union {Broken}]
    BY <1>0, <2>1 DEF StoreOK
  <2>4. Present(e) => node'[at[e]] = [node EXCEPT ![fd[w]] = b][at[e]]
    BY <1>1, <2>1, <2>2, <2>3, KeptBytes
  <2> QED
    BY <1>0, <1>1, <2>1, <2>4 DEF Same, StoreOK
<1>5. ASSUME NEW w \in Writer, Rename(w)
      PROVE  Same(e)
  <2>1. /\ Tmp(w) \in Entry /\ Goal(w) \in Entry /\ e # Tmp(w) /\ e # Goal(w)
    <3>1. Tmp(w) \in Entry /\ Goal(w) \in Entry /\ Tmp(w)[2] = Mine(w) /\ Goal(w)[2] = Mine(w)
      BY <1>0, <1>5, OnAFile DEF Rename, InFlight
    <3> QED
      BY <1>5, <3>1
  <2>2. at'[e] = at[e] /\ node' = Kept(node)
    BY <1>0, <1>5, <2>1 DEF Rename, StoreOK
  <2> QED
    BY <1>0, <1>1, <2>2, KeptBytes DEF Same, StoreOK
<1>6. ASSUME NEW w \in Writer, CrashWriter(w)
      PROVE  Same(e)
  <2>1. at' = at /\ node' = Kept(node)
    BY <1>6 DEF CrashWriter
  <2> QED
    BY <1>0, <1>1, <2>1, KeptBytes DEF Same, StoreOK
<1>7. ASSUME NEW k \in Key, BreakByHand(k)
      PROVE  Same(e)
  <2>1. k # e[2] /\ Present(<<"doc", k>>) /\ <<"doc", k>> \in Entry
    BY <1>7, Constants DEF BreakByHand, Whole
  <2>2. at[<<"doc", k>>][1] = k /\ (Present(e) => at[e][1] = e[2])
    BY <1>0, <2>1 DEF StoreOK
  <2>3. at' = at /\ node' = [node EXCEPT ![at[<<"doc", k>>]] = Broken]
    BY <1>7 DEF BreakByHand
  <2> QED
    BY <1>0, <1>1, <2>1, <2>2, <2>3 DEF Same, StoreOK
<1>8. CASE Push
  BY <1>2, <1>8, PushSteps
<1>9. ASSUME NEW w \in Writer, Quiet(w)
      PROVE  Same(e)
  BY <1>2, <1>9, QuietSteps DEF store
<1> QED
  BY <1>3, <1>4, <1>5, <1>6, <1>7, <1>8, <1>9 DEF Next, Update, Quiet

(* A document nothing happens to keeps its bytes, or a writer renames what it *)
(* carries.                                                                  *)
LEMMA DocSteps ==
  ASSUME TypeInv, AloneInv, Next, NEW k \in Key, k \notin spoiled'
  PROVE  /\ k \notin spoiled
         /\ \/ Same(<<"doc", k>>) /\ \A w \in Writer : Rename(w) => Mine(w) # k
            \/ \E w \in Writer :
                 /\ Rename(w) /\ Mine(w) = k
                 /\ Present(<<"doc", k>>)' /\ Bytes(<<"doc", k>>)' = doc[w]
<1>0. StoreOK /\ TypeOK /\ NamesInv /\ <<"doc", k>> \in Entry /\ <<"tmp", k>> \in Entry
  BY TypeParts, Constants DEF TypeInv
<1>1. k \notin spoiled
  BY DEF Next, Update, Push, Annotate, Load, EditTemplate, FileFails, OpenTmp, WriteTmp, Rename,
         RenameFails, Return, CrashWriter, BreakByHand, PushStart, PushSwap, CrashPush, PushRead,
         PushReadFails, PushGone, PushFinds, past
<1>2. ASSUME NEW w \in Writer, Rename(w), Mine(w) = k
      PROVE  Present(<<"doc", k>>)' /\ Bytes(<<"doc", k>>)' = doc[w]
  <2>1. InFlight(w) /\ pc[w] = "written"
    BY <1>2 DEF Rename, InFlight
  <2>2. /\ Tmp(w) = <<"tmp", k>> /\ Goal(w) = <<"doc", k>> /\ Tmp(w) # Goal(w)
        /\ Present(Tmp(w)) /\ Bytes(Tmp(w)) = doc[w]
    BY <1>0, <1>1, <1>2, <2>1, OnAFile, Constants DEF AloneInv
  <2>3. at[Tmp(w)] \in Inode /\ at'[<<"doc", k>>] = at[Tmp(w)] /\ node' = Kept(node)
    BY <1>0, <1>2, <2>2 DEF Rename, StoreOK, Present
  <2>4. node'[at'[<<"doc", k>>]] = node[at'[<<"doc", k>>]]
    BY <1>0, <2>3, KeptBytes DEF StoreOK
  <2> QED
    BY <2>2, <2>3, <2>4, Constants DEF Present, Bytes
<1>3. ASSUME \A w \in Writer : Rename(w) => Mine(w) # k
      PROVE  Same(<<"doc", k>>)
  <2>1. ~BreakByHand(k)
    BY DEF BreakByHand
  <2>2. ASSUME NEW w \in Writer, OpenTmp(w)
        PROVE  <<"doc", k>> # Tmp(w)
    BY <1>0, <2>2, OnAFile, Constants DEF OpenTmp, InFlight
  <2>3. ASSUME NEW w \in Writer, WriteTmp(w)
        PROVE  fd[w] # at[<<"doc", k>>]
    <3>1. InFlight(w) /\ pc[w] = "open" /\ fd[w] \in Inode /\ fd[w][1] = Mine(w)
      BY <1>0, <2>3 DEF WriteTmp, InFlight, TypeOK, NamesInv
    <3>2. CASE Mine(w) = k
      <4>1. Tmp(w) = <<"tmp", k>> /\ at[Tmp(w)] = fd[w]
        BY <1>0, <1>1, <3>1, <3>2, OnAFile DEF AloneInv
      <4> QED
        BY <1>0, <3>1, <4>1, Constants DEF StoreOK, Present
    <3>3. CASE Mine(w) # k
      BY <1>0, <3>1, <3>3, Constants DEF StoreOK, Present
    <3> QED
      BY <3>2, <3>3
  <2> QED
    BY <1>0, <1>3, <2>1, <2>2, <2>3, NameStays
<1> QED
  BY <1>1, <1>2, <1>3

-----------------------------------------------------------------------------
(* Documents stay whole. *)

Begins(w, file) == Load(w, file) \/ EditTemplate(w, file)

(* How a writer comes to be on a file after its step. *)
LEMMA FlightSteps ==
  ASSUME TypeInv, NEW w \in Writer, Update(w), InFlight(w)'
  PROVE  \/ OpenTmp(w) \/ WriteTmp(w)
         \/ \E file \in File : Begins(w, file)
<1>0. Domains
  BY TypeParts
<1>1. ASSUME NEW S \in Folder, NEW o \in Offer, Annotate(w, S, o[1], o[2])
      PROVE  ~InFlight(w)'
  BY <1>0, <1>1 DEF Annotate, InFlight, Domains
<1>2. ASSUME FileFails(w) \/ Rename(w) \/ RenameFails(w)
      PROVE  ~InFlight(w)'
  BY <1>0, <1>2 DEF FileFails, Rename, RenameFails, InFlight, Domains
<1>3. ASSUME Return(w) \/ CrashWriter(w)
      PROVE  ~InFlight(w)'
  BY <1>0, <1>3 DEF Return, CrashWriter, InFlight, Domains
<1> QED
  BY <1>1, <1>2, <1>3 DEF Update, Begins

LEMMA BeginSteps ==
  ASSUME TypeInv, NEW w \in Writer, NEW file \in File, Begins(w, file)
  PROVE  /\ ~InFlight(w) /\ pc'[w] = "loaded" /\ job'[w].file = file
         /\ Rivals(w, KeyOf[file]) # {} => KeyOf[file] \in spoiled'
         /\ UNCHANGED <<at, node>>
<1>0. Domains /\ WriterOK(w)
  BY TypeParts
<1>1. CASE Load(w, file)
  <2>1. job[w] \in Job /\ pc[w] = "next"
    BY <1>0, <1>1 DEF Load, WriterOK
  <2>2. job'[w] = [job[w] EXCEPT !.left = @ \ {file}, !.file = file]
    BY <1>0, <1>1 DEF Load, Domains
  <2>3. job'[w].file = file
    BY <2>1, <2>2 DEF Job
  <2> QED
    BY <1>0, <1>1, <2>1, <2>3 DEF Load, Domains, InFlight, store
<1>2. CASE EditTemplate(w, file)
  BY <1>0, <1>2 DEF EditTemplate, Domains, InFlight, store
<1> QED
  BY <1>1, <1>2 DEF Begins

(* What another writer does leaves a lone writer and its <name>.tmp alone.   *)
LEMMA LoneStays ==
  ASSUME TypeInv, AloneInv, Next, NEW v \in Writer, InFlight(v), Mine(v) \notin spoiled,
         ~BreakByHand(Mine(v)),
         pc'[v] = pc[v], job'[v] = job[v], doc'[v] = doc[v], fd'[v] = fd[v],
         \A w \in Writer : OpenTmp(w) \/ WriteTmp(w) \/ Rename(w) => w # v
  PROVE  /\ pc[v] = "open" => at'[Tmp(v)] = fd[v] /\ node'[fd[v]] = Broken
         /\ pc[v] = "written" => Present(Tmp(v))' /\ Bytes(Tmp(v))' = doc[v]
<1>0. StoreOK /\ TypeOK /\ NamesInv
  BY TypeParts DEF TypeInv
<1>1. /\ Mine(v) \in Key /\ Tmp(v) = <<"tmp", Mine(v)>> /\ Tmp(v) \in Entry
      /\ Tmp(v)' = Tmp(v)
  BY <1>0, OnAFile DEF Tmp
<1>2. \A w \in Writer : InFlight(w) /\ Mine(w) = Mine(v) => w = v
  BY DEF AloneInv
<1>3. ASSUME NEW w \in Writer, OpenTmp(w)
      PROVE  Tmp(v) # Tmp(w)
  <2>1. InFlight(w) /\ Mine(w) # Mine(v)
    BY <1>2, <1>3 DEF OpenTmp, InFlight
  <2>2. Tmp(w) = <<"tmp", Mine(w)>>
    BY <1>0, <2>1, OnAFile
  <2> QED
    BY <1>1, <2>1, <2>2
<1>4. ASSUME NEW w \in Writer, Rename(w)
      PROVE  Mine(w) # Mine(v)
  BY <1>2, <1>4 DEF Rename, InFlight
<1>5. ASSUME NEW w \in Writer, WriteTmp(w)
      PROVE  fd[w] # at[Tmp(v)]
  <2>1. InFlight(w) /\ fd[w] \in Inode /\ fd[w][1] = Mine(w)
    BY <1>0, <1>5 DEF WriteTmp, InFlight, TypeOK, NamesInv
  <2>2. Mine(w) # Mine(v)
    BY <1>2, <1>5, <2>1
  <2> QED
    BY <1>0, <1>1, <2>1, <2>2, Constants DEF StoreOK, Present
<1>6. Same(Tmp(v))
  BY <1>1, <1>3, <1>4, <1>5, NameStays
<1>7. CASE pc[v] = "open"
  <2>1. at[Tmp(v)] = fd[v] /\ node[fd[v]] = Broken /\ fd[v] \in Inode
    BY <1>0, <1>7 DEF AloneInv, TypeOK
  <2> QED
    BY <1>6, <1>7, <2>1, Constants DEF Same, Present
<1>8. CASE pc[v] = "written"
  <2>1. Present(Tmp(v)) /\ Bytes(Tmp(v)) = doc[v]
    BY <1>8 DEF AloneInv
  <2>2. at'[Tmp(v)] = at[Tmp(v)] /\ node'[at[Tmp(v)]] = node[at[Tmp(v)]]
    BY <1>6, <2>1 DEF Same
  <2> QED
    BY <1>1, <1>8, <2>1, <2>2 DEF Present, Bytes
<1> QED
  BY <1>7, <1>8

LEMMA AloneStep ==
  ASSUME TypeInv, AloneInv, [Next]_vars
  PROVE  AloneInv'
<1>0. StoreOK /\ TypeOK /\ NamesInv /\ Domains
  BY TypeParts DEF TypeInv
<1>1. CASE UNCHANGED vars
  BY <1>1 DEF vars, store, writers, past, AloneInv, InFlight, Mine, Tmp, Present, Bytes
<1>2. ASSUME Push \/ \E k \in Key : BreakByHand(k)
      PROVE  AloneInv'
  <2>1. UNCHANGED writers
    BY <1>2, ElsewhereStay
  <2>2. ASSUME NEW v \in Writer, InFlight(v)', Mine(v)' \notin spoiled'
        PROVE  /\ \A u \in Writer : InFlight(u)' /\ Mine(u)' = Mine(v)' => u = v
               /\ pc'[v] = "open" => at'[Tmp(v)'] = fd'[v] /\ node'[fd'[v]] = Broken
               /\ pc'[v] = "written" => Present(Tmp(v))' /\ Bytes(Tmp(v))' = doc'[v]
    <3>1. /\ \A u \in Writer : (InFlight(u)' <=> InFlight(u)) /\ Mine(u)' = Mine(u)
          /\ Tmp(v)' = Tmp(v)
      BY <2>1 DEF writers, InFlight, Mine, Tmp
    <3>2. InFlight(v) /\ Mine(v) \in Key /\ Mine(v) \notin spoiled'
      BY <1>0, <2>2, <3>1, OnAFile
    <3>3. Next /\ Mine(v) \notin spoiled
      BY <1>2, <3>2, DocSteps DEF Next
    <3>4. ~BreakByHand(Mine(v))
      BY <3>2 DEF BreakByHand
    <3>5. \A w \in Writer : OpenTmp(w) \/ WriteTmp(w) \/ Rename(w) => pc' # pc
      BY <1>0 DEF OpenTmp, WriteTmp, Rename, Domains
    <3>6. /\ pc[v] = "open" => at'[Tmp(v)] = fd[v] /\ node'[fd[v]] = Broken
          /\ pc[v] = "written" => Present(Tmp(v))' /\ Bytes(Tmp(v))' = doc[v]
      BY <2>1, <3>2, <3>3, <3>4, <3>5, LoneStays DEF writers
    <3>7. \A u \in Writer : InFlight(u) /\ Mine(u) = Mine(v) => u = v
      BY <3>2, <3>3 DEF AloneInv
    <3> QED
      BY <2>1, <3>1, <3>6, <3>7 DEF writers
  <2> QED
    BY <2>2 DEF AloneInv
<1>3. ASSUME NEW w \in Writer, Update(w)
      PROVE  AloneInv'
  <2>0. Next
    BY <1>3 DEF Next
  <2>1. \A v \in Writer \ {w} : /\ pc'[v] = pc[v] /\ job'[v] = job[v]
                              /\ doc'[v] = doc[v] /\ fd'[v] = fd[v]
    BY <1>3, OthersStay
  <2>2. \A v \in Writer \ {w} : (InFlight(v)' <=> InFlight(v)) /\ Mine(v)' = Mine(v)
    BY <2>1 DEF InFlight, Mine
  <2>3. \A v \in Writer : InFlight(v)' => Mine(v)' \in Key
    <3>1. TypeOK'
      BY <2>0, TypeStep DEF TypeInv
    <3>2. \A v \in Writer : InFlight(v)' => doc'[v] \in Doc /\ job'[v].file = doc'[v].path
      BY <3>1 DEF TypeOK
    <3> QED
      BY <3>2, Constants DEF Doc, Mine
  <2>4. \A k \in Key : k \notin spoiled' => k \notin spoiled
    BY <2>0, DocSteps
  <2>5. ASSUME InFlight(w)', ~\E file \in File : Begins(w, file)
        PROVE  InFlight(w) /\ Mine(w)' = Mine(w) /\ (OpenTmp(w) \/ WriteTmp(w))
    <3>1. OpenTmp(w) \/ WriteTmp(w)
      BY <1>3, <2>5, FlightSteps
    <3> QED
      BY <3>1 DEF OpenTmp, WriteTmp, InFlight, Mine
  <2>6. ASSUME NEW v \in Writer \ {w}, InFlight(v), InFlight(w)', Mine(v) = Mine(w)',
               Mine(v) \notin spoiled'
        PROVE  FALSE
    <3>1. CASE \E file \in File : Begins(w, file)
      <4>1. PICK file \in File : Begins(w, file)
        BY <3>1
      <4>2. /\ Mine(w)' = KeyOf[file]
            /\ Rivals(w, KeyOf[file]) # {} => KeyOf[file] \in spoiled'
        BY <4>1, BeginSteps DEF Mine
      <4>3. v \in Rivals(w, KeyOf[file])
        BY <2>6, <4>2 DEF Rivals, Mine
      <4> QED
        BY <2>6, <4>2, <4>3
    <3>2. CASE ~\E file \in File : Begins(w, file)
      <4>1. InFlight(w) /\ Mine(w) = Mine(v) /\ Mine(v) \in Key
        BY <1>0, <2>5, <2>6, <3>2, OnAFile
      <4> QED
        BY <2>4, <2>6, <4>1 DEF AloneInv
    <3> QED
      BY <3>1, <3>2
  <2>7. ASSUME NEW v \in Writer, InFlight(v)', Mine(v)' \notin spoiled',
               NEW u \in Writer, InFlight(u)', Mine(u)' = Mine(v)'
        PROVE  u = v
    <3>1. CASE u # w /\ v # w
      <4>1. InFlight(u) /\ InFlight(v) /\ Mine(u) = Mine(v) /\ Mine(v) \notin spoiled
        BY <2>2, <2>3, <2>4, <2>7, <3>1
      <4> QED
        BY <4>1 DEF AloneInv
    <3>2. CASE u = w /\ v # w
      BY <2>2, <2>6, <2>7, <3>2
    <3>3. CASE u # w /\ v = w
      BY <2>2, <2>6, <2>7, <3>3
    <3> QED
      BY <3>1, <3>2, <3>3
  <2>8. ASSUME NEW v \in Writer \ {w}, InFlight(v)', Mine(v)' \notin spoiled'
        PROVE  /\ pc'[v] = "open" => at'[Tmp(v)'] = fd'[v] /\ node'[fd'[v]] = Broken
               /\ pc'[v] = "written" => Present(Tmp(v))' /\ Bytes(Tmp(v))' = doc'[v]
    <3>1. InFlight(v) /\ Mine(v) \notin spoiled /\ Tmp(v)' = Tmp(v)
      BY <2>1, <2>2, <2>3, <2>4, <2>8 DEF Tmp
    <3>2. ~BreakByHand(Mine(v))
      BY <2>2, <2>8 DEF BreakByHand
    <3>3. \A x \in Writer : OpenTmp(x) \/ WriteTmp(x) \/ Rename(x) => x # v
      BY <1>0, <2>1 DEF OpenTmp, WriteTmp, Rename, Domains
    <3>4. /\ pc[v] = "open" => at'[Tmp(v)] = fd[v] /\ node'[fd[v]] = Broken
          /\ pc[v] = "written" => Present(Tmp(v))' /\ Bytes(Tmp(v))' = doc[v]
      BY <2>0, <2>1, <3>1, <3>2, <3>3, LoneStays
    <3> QED
      BY <2>1, <3>1, <3>4
  <2>9. ASSUME InFlight(w)', Mine(w)' \notin spoiled'
        PROVE  /\ pc'[w] = "open" => at'[Tmp(w)'] = fd'[w] /\ node'[fd'[w]] = Broken
               /\ pc'[w] = "written" => Present(Tmp(w))' /\ Bytes(Tmp(w))' = doc'[w]
    <3>1. CASE \E file \in File : Begins(w, file)
      BY <3>1, BeginSteps
    <3>2. CASE OpenTmp(w)
      <4>1. PICK i \in Inode : /\ at' = [at EXCEPT ![Tmp(w)] = i] /\ fd' = [fd EXCEPT ![w] = i]
                              /\ node' = [node EXCEPT ![i] = Broken]
        BY <1>0, <3>2, OpenTmpInode
      <4>2. Tmp(w) \in Entry /\ Tmp(w)' = Tmp(w) /\ pc'[w] = "open"
        BY <1>0, <3>2, OnAFile DEF OpenTmp, InFlight, Tmp, Domains
      <4> QED
        BY <1>0, <4>1, <4>2 DEF StoreOK, Domains
    <3>3. CASE WriteTmp(w)
      <4>1. /\ InFlight(w) /\ pc[w] = "open" /\ Mine(w)' = Mine(w) /\ doc' = doc /\ at' = at
            /\ Tmp(w)' = Tmp(w) /\ pc'[w] = "written"
        BY <1>0, <3>3 DEF WriteTmp, InFlight, Mine, Tmp, Domains
      <4>2. Mine(w) \in Key /\ Mine(w) \notin spoiled /\ Tmp(w) \in Entry /\ doc[w] \in Doc
        BY <1>0, <2>3, <2>4, <2>9, <4>1, OnAFile
      <4>3. at[Tmp(w)] = fd[w] /\ node[fd[w]] = Broken /\ fd[w] \in Inode
        BY <1>0, <4>1, <4>2 DEF AloneInv, TypeOK
      <4>4. Written(w) = {doc[w]}
        BY <4>3 DEF Written
      <4> DEFINE b == [node EXCEPT ![fd[w]] = doc[w]]
      <4>5. node' = Kept(b)
        BY <2>9, <3>3, <4>1, <4>4 DEF WriteTmp, Mine
      <4>6. b \in [Inode -> Doc \union {Broken}] /\ b[fd[w]] = doc[w]
        BY <1>0, <4>2, <4>3 DEF StoreOK
      <4> HIDE DEF b
      <4>7. at'[Tmp(w)] = fd[w]
        BY <4>1, <4>3
      <4>8. node'[fd[w]] = doc[w]
        BY <4>2, <4>3, <4>5, <4>6, <4>7, KeptBytes
      <4> QED
        BY <4>1, <4>3, <4>8, Constants DEF Present, Bytes
    <3> QED
      BY <2>5, <2>9, <3>1, <3>2, <3>3
  <2> QED
    BY <2>7, <2>8, <2>9 DEF AloneInv
<1> QED
  BY <1>1, <1>2, <1>3 DEF Next

WholeInv == TypeInv /\ AloneInv /\ DocsWhole

LEMMA WholeInit ==
  ASSUME Init
  PROVE  WholeInv
<1>1. TypeInv
  BY TypeInit
<1>2. AloneInv
  BY DEF Init, AloneInv, InFlight
<1>3. DocsWhole
  BY Constants DEF Init, DocsWhole, Present
<1> QED
  BY <1>1, <1>2, <1>3 DEF WholeInv

LEMMA WholeStep ==
  ASSUME WholeInv, [Next]_vars
  PROVE  WholeInv'
<1>0. TypeInv /\ AloneInv /\ DocsWhole /\ TypeOK
  BY DEF WholeInv, TypeInv
<1>1. TypeInv' /\ AloneInv'
  BY <1>0, TypeStep, AloneStep
<1>2. CASE UNCHANGED vars
  <2>1. DocsWhole'
    BY <1>0, <1>2 DEF vars, store, past, DocsWhole, Present, Bytes
  <2> QED
    BY <1>1, <2>1 DEF WholeInv
<1>3. ASSUME Next, NEW k \in Key, k \notin spoiled', Present(<<"doc", k>>)'
      PROVE  Bytes(<<"doc", k>>)' # Broken
  <2>1. k \notin spoiled
    BY <1>0, <1>3, DocSteps
  <2>2. CASE Same(<<"doc", k>>)
    BY <1>0, <1>3, <2>1, <2>2 DEF Same, DocsWhole, Present, Bytes
  <2>3. CASE ~Same(<<"doc", k>>)
    <3>1. PICK w \in Writer : Rename(w) /\ Bytes(<<"doc", k>>)' = doc[w]
      BY <1>0, <1>3, <2>3, DocSteps
    <3>2. doc[w] \in Doc
      BY <1>0, <3>1, OnAFile DEF Rename, InFlight
    <3> QED
      BY <3>1, <3>2, Constants
  <2> QED
    BY <2>2, <2>3
<1>4. CASE Next
  <2>1. DocsWhole'
    BY <1>3, <1>4 DEF DocsWhole
  <2> QED
    BY <1>1, <2>1 DEF WholeInv
<1> QED
  BY <1>2, <1>4

(* Whatever is killed, and wherever, no document of one writer at a time is  *)
(* ever cut short under its name, but for one of which a read or a write     *)
(* failed and one the user broke.                                           *)
THEOREM DocumentsStayWhole == Spec => []DocsWhole
<1>1. Init => WholeInv
  BY WholeInit
<1>2. WholeInv /\ [Next]_vars => WholeInv'
  BY WholeStep
<1>3. WholeInv => DocsWhole
  BY DEF WholeInv
<1> QED
  BY <1>1, <1>2, <1>3, PTL DEF Spec

-----------------------------------------------------------------------------
(* Annotations stay. *)

(* Who is on a file after a step was so before, or begins with it. *)
LEMMA FlightStays ==
  ASSUME TypeInv, [Next]_vars, NEW v \in Writer, InFlight(v)',
         ~\E file \in File : Begins(v, file)
  PROVE  InFlight(v) /\ job'[v] = job[v] /\ doc'[v] = doc[v]
<1>1. CASE UNCHANGED writers
  BY <1>1 DEF writers, InFlight
<1>2. CASE Update(v)
  <2>1. OpenTmp(v) \/ WriteTmp(v)
    BY <1>2, FlightSteps
  <2> QED
    BY <2>1 DEF OpenTmp, WriteTmp, InFlight
<1>3. ASSUME NEW w \in Writer, Update(w), w # v
      PROVE  InFlight(v) /\ job'[v] = job[v] /\ doc'[v] = doc[v]
  <2>1. pc'[v] = pc[v] /\ job'[v] = job[v] /\ doc'[v] = doc[v]
    BY <1>3, OthersStay
  <2> QED
    BY <2>1 DEF InFlight
<1>4. CASE UNCHANGED vars
  BY <1>1, <1>4 DEF vars
<1>5. CASE Push \/ \E k \in Key : BreakByHand(k)
  BY <1>1, <1>5, ElsewhereStay
<1> QED
  BY <1>2, <1>3, <1>4, <1>5 DEF Next

(* The document that is taken up is the one that is there, unless it is      *)
(* spoiled by that.                                                          *)
LEMMA ReadWell ==
  ASSUME TypeInv, NEW w \in Writer, NEW file \in File, Load(w, file),
         KeyOf[file] \notin spoiled'
  PROVE  doc'[w].body = [Loaded(KeyOf[file]) EXCEPT ![job[w].field] = job[w].val]
<1>1. Domains
  BY TypeParts
<1> QED
  BY <1>1 DEF Load, Domains

(* What a writer carries when it begins with a file is what it found, and    *)
(* its annotation.                                                           *)
LEMMA BeginCarries ==
  ASSUME TypeInv, NEW w \in Writer, NEW file \in File, Begins(w, file),
         KeyOf[file] \notin spoiled', NEW f \in Field
  PROVE  doc'[w].body[f] = IF f = job'[w].field THEN job'[w].val
                           ELSE IF Whole(<<"doc", KeyOf[file]>>)
                                THEN Bytes(<<"doc", KeyOf[file]>>).body[f] ELSE Default
<1>0. Domains /\ WriterOK(w) /\ TypeOK /\ KeyOf[file] \in Key
  BY TypeParts, Constants DEF TypeInv
<1> DEFINE k == KeyOf[file]
<1>1. CASE Load(w, file)
  <2>1. job[w] \in Job
    BY <1>0, <1>1 DEF Load, WriterOK
  <2>2. /\ doc'[w].body = [Loaded(k) EXCEPT ![job[w].field] = job[w].val]
        /\ job'[w] = [job[w] EXCEPT !.left = @ \ {file}, !.file = file]
    BY <1>0, <1>1, ReadWell DEF Load, Domains
  <2>3. job'[w].field = job[w].field /\ job'[w].val = job[w].val /\ job[w].field \in Field
    BY <2>1, <2>2 DEF Job
  <2>4. Whole(<<"doc", k>>) => ~Spells(Bytes(<<"doc", k>>).body)
    BY <1>0, <1>1 DEF Load
  <2>5. Loaded(k)[f] = IF Whole(<<"doc", k>>) THEN Bytes(<<"doc", k>>).body[f] ELSE Default
    BY <2>4 DEF Loaded, Extracted, Spells, Template
  <2>6. Loaded(k) \in [Field -> Stored]
    BY <1>0, LoadedType
  <2> QED
    BY <2>2, <2>3, <2>5, <2>6
<1>2. CASE EditTemplate(w, file)
  <2>1. /\ doc'[w].body = [g \in Field |-> Default] /\ job'[w].val = Default
        /\ ~Whole(<<"doc", k>>)
    BY <1>0, <1>2 DEF EditTemplate, Domains, Whole, Template
  <2> QED
    BY <2>1
<1> QED
  BY <1>1, <1>2 DEF Begins

(* A rename settles one field of one document; other steps forget no value.  *)
LEMMA MaySteps ==
  ASSUME TypeInv, Next, NEW k \in Key, NEW f \in Field
  PROVE  \/ may[k][f] \subseteq may'[k][f]
         \/ \E w \in Writer : /\ Rename(w) /\ Mine(w) = k /\ job[w].field = f
                             /\ job[w].val \in may'[k][f]
<1>0. PastOK /\ TypeOK /\ \A w \in Writer : WriterOK(w)
  BY TypeParts DEF TypeInv
<1>1. ASSUME NEW w \in Writer, Rename(w)
      PROVE  \/ may[k][f] \subseteq may'[k][f]
             \/ /\ Mine(w) = k /\ job[w].field = f
                /\ job[w].val \in may'[k][f]
  <2>1. job[w] \in Job /\ Mine(w) \in Key /\ job[w].field \in Field
    BY <1>0, <1>1, OnAFile DEF Rename, InFlight, Job
  <2>2. PICK new : job[w].val \in new /\ may' = [may EXCEPT ![Mine(w)][job[w].field] = new]
    BY <1>1 DEF Rename, Mine
  <2> QED
    BY <1>0, <2>1, <2>2 DEF PastOK
<1>2. ASSUME NEW w \in Writer, NEW g \in File, Load(w, g)
      PROVE  may[k][f] \subseteq may'[k][f]
  <2>1. job[w] \in Job
    BY <1>0, <1>2 DEF Load, WriterOK
  <2>2. may' = [may EXCEPT ![KeyOf[g]][job[w].field] = @ \union {job[w].val}]
    BY <1>2 DEF Load
  <2> QED
    BY <1>0, <2>1, <2>2, Constants DEF PastOK, Job
<1>3. CASE UNCHANGED may
  BY <1>3
<1>4. ASSUME NEW w \in Writer, Update(w), ~Rename(w), ~\E g \in File : Load(w, g)
      PROVE  UNCHANGED may
  BY <1>4 DEF Update, Annotate, EditTemplate, FileFails, OpenTmp, WriteTmp, RenameFails, Return,
              CrashWriter, past
<1> QED
  BY <1>1, <1>2, <1>3, <1>4, ElsewhereStay DEF Next

LEMMA CarryStep ==
  ASSUME WholeInv, CarryInv, AcksKept, Next
  PROVE  CarryInv'
<1>0. TypeInv /\ TypeOK /\ AloneInv /\ \A w \in Writer : WriterOK(w)
  BY TypeParts DEF WholeInv, TypeInv
<1>1. TypeOK'
  BY <1>0, TypeStep DEF TypeInv
<1>2. ASSUME NEW v \in Writer, InFlight(v)', Mine(v)' \notin spoiled', NEW f \in Field
      PROVE  IF f = job'[v].field THEN doc'[v].body[f] = job'[v].val
             ELSE doc'[v].body[f] \in may'[Mine(v)'][f]
  <2>1. CASE \E file \in File : Begins(v, file)
    <3>1. PICK file \in File : Begins(v, file)
      BY <2>1
    <3>2. /\ job'[v].file = file /\ KeyOf[file] \in Key
          /\ KeyOf[file] \notin spoiled' /\ KeyOf[file] \notin spoiled
      <4>1. job'[v].file = file /\ KeyOf[file] \in Key
        BY <1>0, <3>1, BeginSteps, Constants
      <4> QED
        BY <1>0, <1>2, <4>1, DocSteps DEF Mine
    <3>3. doc'[v].body[f] = IF f = job'[v].field THEN job'[v].val
                            ELSE IF Whole(<<"doc", KeyOf[file]>>)
                                 THEN Bytes(<<"doc", KeyOf[file]>>).body[f] ELSE Default
      BY <1>0, <3>1, <3>2, BeginCarries
    <3>4. IF Whole(<<"doc", KeyOf[file]>>) THEN Bytes(<<"doc", KeyOf[file]>>).body[f] \in may[KeyOf[file]][f]
          ELSE Default \in may[KeyOf[file]][f]
      BY <3>2 DEF AcksKept
    <3>5. may[KeyOf[file]][f] \subseteq may'[KeyOf[file]][f]
      <4>1. ~\E w \in Writer : Rename(w)
        <5>1. ASSUME NEW w \in Writer, Rename(w)
              PROVE  FALSE
          <6>1. pc[w] = "written" /\ pc'[w] = "next" /\ v # w
            BY <1>0, <3>1, <5>1, BeginSteps DEF Rename, InFlight, TypeOK
          <6> QED
            BY <1>0, <3>1, <5>1, <6>1, BeginSteps DEF Rename, InFlight, TypeOK
        <5> QED
          BY <5>1
      <4> QED
        BY <1>0, <3>2, <4>1, MaySteps
    <3> QED
      BY <3>2, <3>3, <3>4, <3>5 DEF Mine
  <2>2. CASE ~\E file \in File : Begins(v, file)
    <3>1. InFlight(v) /\ job'[v] = job[v] /\ doc'[v] = doc[v] /\ Mine(v)' = Mine(v)
      BY <1>0, <1>2, <2>2, FlightStays DEF Mine
    <3>2. Mine(v) \in Key /\ Mine(v) \notin spoiled /\ job[v].file \in File
      BY <1>0, <1>2, <3>1, OnAFile, DocSteps
    <3>3. IF f = job[v].field THEN doc[v].body[f] = job[v].val
          ELSE doc[v].body[f] \in may[Mine(v)][f]
      BY <3>1, <3>2 DEF CarryInv
    <3>4. ASSUME NEW w \in Writer, Rename(w), Mine(w) = Mine(v)
          PROVE  FALSE
      <4>0. InFlight(w)
        BY <3>4 DEF Rename, InFlight
      <4>1. w = v
        BY <1>0, <3>1, <3>2, <3>4, <4>0 DEF AloneInv
      <4> QED
        BY <1>0, <1>2, <3>4, <4>1 DEF Rename, InFlight, TypeOK
    <3>5. may[Mine(v)][f] \subseteq may'[Mine(v)][f]
      BY <1>0, <3>2, <3>4, MaySteps
    <3> QED
      BY <3>1, <3>3, <3>5
  <2> QED
    BY <2>1, <2>2
<1> QED
  BY <1>2 DEF CarryInv

LEMMA AcksStep ==
  ASSUME WholeInv, CarryInv, AcksKept, Next
  PROVE  AcksKept'
<1>0. TypeInv /\ TypeOK /\ AloneInv /\ DocsWhole
  BY DEF WholeInv, TypeInv
<1>1. ASSUME NEW k \in Key \ spoiled', NEW f \in Field
      PROVE  IF Whole(<<"doc", k>>)'
             THEN Bytes(<<"doc", k>>)'.body[f] \in may'[k][f]
             ELSE Default \in may'[k][f]
  <2> DEFINE e == <<"doc", k>>
  <2>1. k \in Key /\ k \notin spoiled
    BY <1>0, <1>1, DocSteps
  <2>2. CASE Same(e) /\ \A w \in Writer : Rename(w) => Mine(w) # k
    <3>1. /\ Whole(e)' <=> Whole(e)
          /\ Whole(e) => Bytes(e)' = Bytes(e)
      BY <2>2 DEF Same, Whole, Present, Bytes
    <3>2. may[k][f] \subseteq may'[k][f]
      BY <1>0, <2>1, <2>2, MaySteps
    <3> QED
      BY <2>1, <3>1, <3>2 DEF AcksKept
  <2>3. ASSUME NEW w \in Writer, Rename(w), Mine(w) = k,
               Present(e)', Bytes(e)' = doc[w]
        PROVE  Whole(e)' /\ Bytes(e)'.body[f] \in may'[k][f]
    <3>1. InFlight(w) /\ doc[w] \in Doc /\ job[w].field \in Field
      BY <1>0, <2>3, OnAFile DEF Rename, InFlight, Job
    <3>2. Whole(e)'
      BY <2>3, <3>1, Constants DEF Whole
    <3>3. IF f = job[w].field THEN doc[w].body[f] = job[w].val
          ELSE doc[w].body[f] \in may[k][f]
      BY <2>1, <2>3, <3>1 DEF CarryInv
    <3>4. CASE f = job[w].field
      <4>1. job[w].val \in may'[k][f]
        <5>1. PICK new : /\ job[w].val \in new
                         /\ may' = [may EXCEPT ![k][f] = new]
          BY <2>3, <3>1, <3>4 DEF Rename, Mine
        <5> QED
          BY <1>0, <5>1 DEF TypeOK
      <4> QED
        BY <2>3, <3>2, <3>3, <3>4, <4>1
    <3>5. CASE f # job[w].field
      <4>1. \A u \in Writer : Rename(u) => u = w
        BY <1>0, <2>3 DEF Rename, TypeOK
      <4>2. may[k][f] \subseteq may'[k][f]
        BY <1>0, <2>1, <3>5, <4>1, MaySteps
      <4> QED
        BY <2>3, <3>2, <3>3, <3>5, <4>2
    <3> QED
      BY <3>4, <3>5
  <2> HIDE DEF e
  <2> QED
    BY <1>0, <1>1, <2>1, <2>2, <2>3, DocSteps DEF e
<1> QED
  BY <1>1 DEF AcksKept

AcksInv == WholeInv /\ CarryInv /\ AcksKept

LEMMA AcksInit ==
  ASSUME Init
  PROVE  AcksInv
<1>1. CarryInv
  BY DEF Init, CarryInv, InFlight
<1>2. AcksKept
  BY Constants DEF Init, AcksKept, Whole, Present
<1> QED
  BY <1>1, <1>2, WholeInit DEF AcksInv

LEMMA AcksAlways ==
  ASSUME AcksInv, [Next]_vars
  PROVE  AcksInv'
<1>1. WholeInv'
  BY WholeStep DEF AcksInv
<1>2. CASE Next
  BY <1>1, <1>2, CarryStep, AcksStep DEF AcksInv
<1>3. CASE UNCHANGED vars
  <2>1. CarryInv'
    BY <1>3 DEF AcksInv, CarryInv, vars, store, writers, past, InFlight, Mine
  <2>2. AcksKept'
    BY <1>3 DEF AcksInv, AcksKept, vars, store, writers, past, Whole, Present, Bytes
  <2> QED
    BY <1>1, <2>1, <2>2 DEF AcksInv
<1> QED
  BY <1>2, <1>3

(* No annotation that succeeded is forgotten by another command, whoever is  *)
(* killed and whatever other file fails: a document is excepted from when it *)
(* has two writers at once, when a read or a write of it fails or when the   *)
(* user breaks it, and a value that spells a later field's name.             *)
THEOREM AcknowledgedStays == Spec => []AcksKept
<1>1. Init => AcksInv
  BY AcksInit
<1>2. AcksInv /\ [Next]_vars => AcksInv'
  BY AcksAlways
<1>3. AcksInv => AcksKept
  BY DEF AcksInv
<1> QED
  BY <1>1, <1>2, <1>3, PTL DEF Spec

-----------------------------------------------------------------------------
(* A folder command tells the truth. *)

(* Who is done with a file after a step was so before, or renames it now.    *)
LEMMA DoneSteps ==
  ASSUME TypeInv, [Next]_vars, NEW v \in Writer, NEW file \in File, DoneWith(v, file)'
  PROVE  /\ job'[v].field = job[v].field /\ job'[v].val = job[v].val
         /\ DoneWith(v, file) \/ (Rename(v) /\ job[v].file = file)
<1>0. Domains /\ WriterOK(v)
  BY TypeParts
<1>1. CASE UNCHANGED writers
  BY <1>1 DEF writers, DoneWith, InFlight
<1>2. CASE UNCHANGED vars
  BY <1>1, <1>2 DEF vars
<1>3. CASE Push \/ \E k \in Key : BreakByHand(k)
  BY <1>1, <1>3, ElsewhereStay
<1>4. ASSUME NEW w \in Writer, Update(w), w # v
      PROVE  job'[v] = job[v] /\ DoneWith(v, file)
  <2>1. pc'[v] = pc[v] /\ job'[v] = job[v]
    BY <1>4, OthersStay
  <2> QED
    BY <2>1 DEF DoneWith, InFlight
<1>5. ASSUME NEW S \in Folder, NEW o \in Offer, Annotate(v, S, o[1], o[2])
      PROVE  FALSE
  BY <1>0, <1>5 DEF Annotate, Domains, DoneWith
<1>6. ASSUME NEW g \in File, Load(v, g)
      PROVE  job'[v].field = job[v].field /\ job'[v].val = job[v].val /\ DoneWith(v, file)
  <2>1. /\ job[v] \in Job /\ pc[v] = "next" /\ pc'[v] = "loaded"
        /\ job'[v] = [job[v] EXCEPT !.left = @ \ {g}, !.file = g]
    BY <1>0, <1>6 DEF Load, Domains, WriterOK
  <2>2. /\ job'[v].all = job[v].all /\ job'[v].left = job[v].left \ {g}
        /\ job'[v].file = g /\ job'[v].errors = job[v].errors
        /\ job'[v].field = job[v].field /\ job'[v].val = job[v].val
    BY <2>1 DEF Job
  <2>3. InFlight(v)' /\ ~InFlight(v)
    BY <2>1 DEF InFlight
  <2> QED
    BY <2>1, <2>2, <2>3 DEF DoneWith
<1>7. ASSUME NEW g \in File, EditTemplate(v, g)
      PROVE  FALSE
  BY <1>0, <1>7 DEF EditTemplate, Domains, DoneWith
<1>8. ASSUME FileFails(v) \/ RenameFails(v)
      PROVE  FALSE
  <2>1. pc[v] # "idle" /\ job[v] \in Job
    BY <1>0, <1>8 DEF FileFails, RenameFails, WriterOK
  <2>2. \/ \E g \in File : job'[v] = [job[v] EXCEPT !.left = @ \ {g}, !.errors = TRUE]
        \/ job'[v] = [job[v] EXCEPT !.errors = TRUE]
    <3>1. job[v].left \subseteq File
      BY <2>1 DEF Job
    <3> QED
      BY <1>0, <1>8, <3>1 DEF FileFails, RenameFails, Domains
  <2>3. job'[v].errors
    BY <2>1, <2>2 DEF Job
  <2> QED
    BY <2>3 DEF DoneWith
<1>9. ASSUME OpenTmp(v) \/ WriteTmp(v)
      PROVE  job'[v] = job[v] /\ DoneWith(v, file)
  <2>1. job'[v] = job[v] /\ InFlight(v) /\ InFlight(v)' /\ pc[v] # "idle"
    BY <1>0, <1>9 DEF OpenTmp, WriteTmp, InFlight, Domains
  <2> QED
    BY <2>1 DEF DoneWith
<1>10. ASSUME Rename(v)
       PROVE  job'[v] = job[v] /\ (job[v].file = file \/ DoneWith(v, file))
  BY <1>10 DEF Rename, DoneWith
<1>11. ASSUME Return(v) \/ CrashWriter(v)
       PROVE  FALSE
  BY <1>0, <1>11 DEF Return, CrashWriter, Domains, DoneWith
<1> QED
  BY <1>2, <1>3, <1>4, <1>5, <1>6, <1>7, <1>8, <1>9, <1>10, <1>11 DEF Next, Update

LEMMA DoneStep ==
  ASSUME AcksInv, DoneInv, Next
  PROVE  DoneInv'
<1>0. TypeInv /\ TypeOK /\ AloneInv /\ CarryInv /\ \A w \in Writer : WriterOK(w)
  BY TypeParts DEF AcksInv, WholeInv, TypeInv
<1>1. ASSUME NEW v \in Writer, NEW file \in File, DoneWith(v, file)', KeyOf[file] \notin spoiled'
      PROVE  DoneHas(v, file)'
  <2> DEFINE k == KeyOf[file]
             e == <<"doc", KeyOf[file]>>
  <2>1. /\ job'[v].field = job[v].field /\ job'[v].val = job[v].val
        /\ DoneWith(v, file) \/ (Rename(v) /\ job[v].file = file)
    BY <1>0, <1>1, DoneSteps
  <2>2. k \in Key /\ k \notin spoiled /\ job[v] \in Job
    <3>1. pc[v] # "idle"
      BY <2>1 DEF DoneWith, Rename
    <3> QED
      BY <1>0, <1>1, <3>1, Constants, DocSteps DEF WriterOK
  <2>3. ASSUME NEW w \in Writer, Rename(w), Mine(w) = k
        PROVE  /\ doc[w] \in Doc /\ job[w] \in Job
               /\ doc[w].body[job[w].field] = job[w].val
               /\ \A u \in Writer : InFlight(u)' => Mine(u)' # k
    <3>1. InFlight(w) /\ doc[w] \in Doc /\ job[w] \in Job
      BY <1>0, <2>3, OnAFile DEF Rename, InFlight
    <3>2. doc[w].body[job[w].field] = job[w].val
      BY <1>0, <2>2, <2>3, <3>1 DEF CarryInv, Job
    <3>3. ASSUME NEW u \in Writer, InFlight(u)', Mine(u)' = k
          PROVE  FALSE
      <4>1. pc[w] = "written" /\ pc'[w] = "next" /\ job' = job
        BY <1>0, <2>3 DEF Rename, TypeOK
      <4>2. u # w /\ pc'[u] = pc[u]
        BY <1>0, <2>3, <3>3, <4>1 DEF InFlight, Rename, TypeOK
      <4>3. InFlight(u) /\ Mine(u) = Mine(w)
        BY <2>3, <3>1, <3>3, <4>1, <4>2 DEF InFlight, Mine
      <4> QED
        BY <1>0, <2>2, <2>3, <3>1, <4>2, <4>3 DEF AloneInv
    <3> QED
      BY <3>1, <3>2, <3>3
  <2>4. CASE Same(e) /\ \A w \in Writer : Rename(w) => Mine(w) # k
    <3>1. DoneWith(v, file) /\ DoneHas(v, file)
      BY <2>1, <2>2, <2>4 DEF DoneInv, Mine
    <3>2. Whole(e) /\ Whole(e)' /\ Bytes(e)' = Bytes(e)
      BY <2>4, <3>1 DEF DoneHas, Same, Whole, Present, Bytes
    <3>3. ASSUME <<v, KeyOf[file]>> \notin replaced'
          PROVE  <<v, KeyOf[file]>> \notin replaced
      <4>1. CASE UNCHANGED replaced
        BY <3>3, <4>1
      <4>2. ASSUME NEW w \in Writer, Rename(w)
            PROVE  <<v, KeyOf[file]>> \notin replaced
        BY <2>4, <3>3, <4>2 DEF Rename, Mine
      <4>3. ASSUME NEW w \in Writer, Update(w), ~Rename(w)
            PROVE  UNCHANGED replaced
        BY <4>3 DEF Update, Annotate, Load, EditTemplate, FileFails, OpenTmp, WriteTmp,
                    RenameFails, Return, CrashWriter, past
      <4> QED
        BY <4>1, <4>2, <4>3, ElsewhereStay DEF Next
    <3>4. ASSUME <<v, KeyOf[file]>> \notin replaced', NEW u \in Writer, InFlight(u)',
                 Mine(u)' = k, job'[u].field # job'[v].field
          PROVE  doc'[u].body[job'[v].field] = job'[v].val
      <4>1. Bytes(e).body[job[v].field] = job[v].val
        BY <3>1, <3>3, <3>4 DEF DoneHas
      <4>2. CASE \E g \in File : Begins(u, g)
        <5>1. PICK g \in File : Begins(u, g) /\ KeyOf[g] = k
          BY <1>0, <3>4, <4>2, BeginSteps DEF Mine
        <5>2. job[v].field \in Field
          BY <2>2 DEF Job
        <5> QED
          BY <1>0, <1>1, <2>1, <3>2, <3>4, <4>1, <5>1, <5>2, BeginCarries
      <4>3. CASE ~\E g \in File : Begins(u, g)
        <5>1. InFlight(u) /\ job'[u] = job[u] /\ doc'[u] = doc[u] /\ Mine(u) = k
          BY <1>0, <3>4, <4>3, FlightStays DEF Mine
        <5> QED
          BY <2>1, <3>1, <3>3, <3>4, <5>1 DEF DoneHas
      <4> QED
        BY <4>2, <4>3
    <3>5. <<v, KeyOf[file]>> \notin replaced' => Bytes(e)'.body[job'[v].field] = job'[v].val
      BY <2>1, <3>1, <3>2, <3>3 DEF DoneHas
    <3> QED
      BY <3>2, <3>4, <3>5 DEF DoneHas
  <2>5. ASSUME NEW w \in Writer, Rename(w), Mine(w) = k, Present(e)', Bytes(e)' = doc[w]
        PROVE  DoneHas(v, file)'
    <3>1. /\ doc[w] \in Doc /\ job[w] \in Job
          /\ doc[w].body[job[w].field] = job[w].val
          /\ \A u \in Writer : InFlight(u)' => Mine(u)' # k
      BY <2>3, <2>5
    <3>2. Whole(e)'
      BY <2>5, <3>1, Constants DEF Whole
    <3>3. ASSUME <<v, KeyOf[file]>> \notin replaced'
          PROVE  doc[w].body[job[v].field] = job[v].val
      <4>1. CASE v = w
        BY <3>1, <4>1
      <4>2. CASE v # w /\ job[v].field = job[w].field
        <5>1. pc[v] # "idle"
          BY <2>1 DEF DoneWith, Rename
        <5>2. job[v].val = job[w].val
          BY <2>5, <3>1, <3>3, <4>2, <5>1 DEF Rename, Mine
        <5> QED
          BY <3>1, <4>2, <5>2
      <4>3. CASE v # w /\ job[v].field # job[w].field
        <5>1. ~Rename(v)
          BY <1>0, <2>5, <4>3 DEF Rename, TypeOK
        <5>2. DoneHas(v, file)
          BY <2>1, <2>2, <5>1 DEF DoneInv
        <5>3. <<v, KeyOf[file]>> \notin replaced
          BY <2>5, <3>3, <4>3 DEF Rename, Mine
        <5>4. InFlight(w)
          BY <2>5 DEF Rename, InFlight
        <5> QED
          BY <2>5, <3>1, <4>3, <5>2, <5>3, <5>4 DEF DoneHas
      <4> QED
        BY <4>1, <4>2, <4>3
    <3> QED
      BY <2>1, <2>5, <3>1, <3>2, <3>3 DEF DoneHas
  <2> QED
    <3>1. \/ Same(e) /\ \A w \in Writer : Rename(w) => Mine(w) # k
          \/ \E w \in Writer : /\ Rename(w) /\ Mine(w) = k
                              /\ Present(e)' /\ Bytes(e)' = doc[w]
      BY <1>0, <1>1, <2>2, DocSteps
    <3> HIDE DEF k, e
    <3> QED
      BY <2>4, <2>5, <3>1
<1> QED
  BY <1>1 DEF DoneInv

FolderInv == AcksInv /\ DoneInv

(* A folder command that returns 0 has given every file its annotation, save *)
(* where another command has put another value since.                       *)
THEOREM FolderTellsTruth == Spec => []FolderTold
<1>1. Init => FolderInv
  <2>1. Init => DoneInv
    BY DEF Init, DoneInv, DoneWith
  <2> QED
    BY <2>1, AcksInit DEF FolderInv
<1>2. ASSUME FolderInv, [Next]_vars
      PROVE  FolderInv'
  <2>1. AcksInv'
    BY <1>2, AcksAlways DEF FolderInv
  <2>2. CASE Next
    BY <1>2, <2>1, <2>2, DoneStep DEF FolderInv
  <2>3. CASE UNCHANGED vars
    <3>1. DoneInv'
      BY <1>2, <2>3 DEF FolderInv, DoneInv, DoneWith, DoneHas, vars, store, writers, past,
                        InFlight, Mine, Whole, Present, Bytes
    <3> QED
      BY <2>1, <3>1 DEF FolderInv
  <2> QED
    BY <1>2, <2>2, <2>3
<1>3. ASSUME FolderInv
      PROVE  FolderTold
  <2>1. ASSUME NEW w \in Writer, Returns0(w), NEW file \in job[w].all, KeyOf[file] \notin spoiled
        PROVE  DoneHas(w, file)
    <3>1. job[w] \in Job /\ pc[w] = "next" /\ ~InFlight(w)
      BY <1>3, <2>1 DEF FolderInv, AcksInv, WholeInv, TypeInv, TypeOK, Returns0, InFlight
    <3>2. file \in File /\ DoneWith(w, file)
      BY <2>1, <3>1 DEF Job, Returns0, DoneWith
    <3> QED
      BY <1>3, <2>1, <3>2 DEF FolderInv, DoneInv
  <2> QED
    BY <2>1 DEF FolderTold, DoneHas
<1> QED
  BY <1>1, <1>2, <1>3, PTL DEF Spec

-----------------------------------------------------------------------------
(* The index push leaves tells the truth. *)

(* The rows R has for an entry are exactly those of the documents in T. *)
RowsAre(R, e, T) == {r[2] : r \in {s \in R : s[1] = e}} = T

LEMMA RowsAreThose ==
  ASSUME NEW R, NEW e, NEW T
  PROVE  RowsAre(R, e, T) <=> /\ \A r \in R : r[1] = e => r[2] \in T
                              /\ \A t \in T : \E r \in R : r[1] = e /\ r[2] = t
  BY DEF RowsAre

Held(e) == IF Whole(e) THEN {Bytes(e)} ELSE {}

LEMMA TellsHeld ==
  ASSUME NEW R, NEW e
  PROVE  /\ Tells(R, e) <=> RowsAre(R, e, Held(e))
         /\ Tells(R, e)' <=> RowsAre(R, e, Held(e)')
  BY DEF Tells, RowsAre, Held

LEMMA SameHeld ==
  ASSUME NEW e, Same(e) \/ UNCHANGED <<at, node>>
  PROVE  /\ Held(e)' = Held(e) /\ (Whole(e)' <=> Whole(e)) /\ (Present(e)' <=> Present(e))
  BY DEF Same, Held, Whole, Present, Bytes

(* A document whose bytes change is among those push is told of. *)
LEMMA DocTouched ==
  ASSUME TypeInv, Next, NEW k \in Key, ~Same(<<"doc", k>>)
  PROVE  \E K \in SUBSET Key : k \in K /\ Touch(K)
<1>0. TypeOK /\ <<"doc", k>> \in Entry
  BY Constants DEF TypeInv
<1>1. CASE BreakByHand(k)
  BY <1>1 DEF BreakByHand
<1>2. ASSUME NEW w \in Writer, Rename(w), Mine(w) = k
      PROVE  Touch({k})
  BY <1>2 DEF Rename, Mine
<1>3. ASSUME NEW w \in Writer, WriteTmp(w), fd[w] = at[<<"doc", k>>]
      PROVE  \E K \in SUBSET Key : k \in K /\ Touch(K)
  <2> DEFINE K == {l \in Key : at[<<"doc", l>>] = fd[w]}
  <2>1. Touch(K) /\ k \in K /\ K \in SUBSET Key
    BY <1>3 DEF WriteTmp
  <2> HIDE DEF K
  <2> QED
    BY <2>1
<1>4. ASSUME NEW w \in Writer, OpenTmp(w)
      PROVE  <<"doc", k>> # Tmp(w)
  BY <1>0, <1>4, OnAFile, Constants DEF OpenTmp, InFlight
<1> QED
  BY <1>0, <1>1, <1>2, <1>3, <1>4, NameStays

(* What a step outside push does to what push knows. *)
LEMMA TouchSteps ==
  ASSUME TypeInv, (\E w \in Writer : Update(w)) \/ \E k \in Key : BreakByHand(k)
  PROVE  /\ UNCHANGED index /\ UNCHANGED pusher
         /\ push => pushed' = pushed /\ changed \subseteq changed'
         /\ ~push => pushed' = 1 \/ UNCHANGED <<changed, pushed>>
<1>1. ASSUME NEW K, Touch(K)
      PROVE  /\ push => pushed' = pushed /\ changed \subseteq changed'
             /\ ~push => pushed' = 1 \/ UNCHANGED <<changed, pushed>>
  BY <1>1 DEF Touch
<1>2. ASSUME NEW w \in Writer, Quiet(w) \/ CrashWriter(w)
      PROVE  UNCHANGED index /\ UNCHANGED pusher /\ UNCHANGED <<changed, pushed>>
  BY <1>2, QuietSteps DEF CrashWriter, store
<1>3. ASSUME NEW w \in Writer, OpenTmp(w) \/ WriteTmp(w) \/ Rename(w)
      PROVE  UNCHANGED index /\ UNCHANGED pusher /\ \E K : Touch(K)
  <2>1. CASE OpenTmp(w)
    BY <2>1 DEF OpenTmp
  <2>2. CASE WriteTmp(w)
    BY <2>2 DEF WriteTmp
  <2>3. CASE Rename(w)
    BY <2>3 DEF Rename
  <2> QED
    BY <1>3, <2>1, <2>2, <2>3
<1>4. ASSUME NEW k \in Key, BreakByHand(k)
      PROVE  UNCHANGED index /\ UNCHANGED pusher /\ \E K : Touch(K)
  BY <1>4 DEF BreakByHand
<1> QED
  BY <1>1, <1>2, <1>3, <1>4 DEF Update, Quiet

IndexInv == TypeInv /\ PushInv /\ IndexCurrent

LEMMA IndexStep ==
  ASSUME IndexInv, Next
  PROVE  PushInv' /\ IndexCurrent'
<1>0. TypeInv /\ TypeOK /\ PushOK /\ PushInv /\ IndexCurrent
  BY TypeParts DEF IndexInv, TypeInv
<1>1. CASE (\E w \in Writer : Update(w)) \/ \E k \in Key : BreakByHand(k)
  <2>1. /\ index' = index /\ push' = push /\ rows' = rows /\ due' = due /\ rejected' = rejected
        /\ unread' = unread /\ lost' = lost
        /\ push => pushed' = pushed /\ changed \subseteq changed'
        /\ ~push => pushed' = 1 \/ (changed' = changed /\ pushed' = pushed)
    BY <1>0, <1>1, TouchSteps DEF pusher
  <2>2. ASSUME NEW k \in Key, ~Same(<<"doc", k>>)
        PROVE  IF push THEN k \in changed' ELSE pushed' = 1
    <3>1. PICK K \in SUBSET Key : k \in K /\ Touch(K)
      BY <1>0, <2>2, DocTouched
    <3> QED
      BY <3>1 DEF Touch
  <2>3. ASSUME push, NEW k \in Key \ changed'
        PROVE  LET e == <<"doc", k>> IN
               IF e \in due' THEN k \notin unread' /\ \A r \in rows' : r[1] # e
               ELSE IF k \in unread' THEN rejected' /\ \A r \in rows' : r[1] # e
               ELSE Tells(rows, e)' /\ (Present(e)' => Whole(e)' \/ rejected')
    <3> DEFINE e == <<"doc", k>>
    <3>1. Same(e) /\ k \in Key \ changed
      BY <2>1, <2>2, <2>3
    <3>2. IF e \in due THEN k \notin unread /\ \A r \in rows : r[1] # e
          ELSE IF k \in unread THEN rejected /\ \A r \in rows : r[1] # e
          ELSE Tells(rows, e) /\ (Present(e) => Whole(e) \/ rejected)
      BY <1>0, <2>3, <3>1 DEF PushInv
    <3>3. Tells(rows, e)' <=> Tells(rows, e)
      <4> HIDE DEF e
      <4>1. Held(e)' = Held(e)
        BY <3>1, SameHeld
      <4> QED
        BY <2>1, <4>1, RowsAreThose DEF Tells, Held, RowsAre
    <3>4. (Whole(e)' <=> Whole(e)) /\ (Present(e)' <=> Present(e))
      BY <3>1, SameHeld
    <3> QED
      BY <2>1, <3>2, <3>3, <3>4
  <2>4. PushInv'
    BY <1>0, <2>1, <2>3 DEF PushInv
  <2>5. ASSUME pushed' # 1, NEW k \in Key \ changed'
        PROVE  /\ IF k \in unread' \union lost' THEN \A r \in index' : r[1] # <<"doc", k>>
                  ELSE Tells(index, <<"doc", k>>)'
               /\ pushed' = 0 =>
                    k \notin unread' /\ (Present(<<"doc", k>>)' => Whole(<<"doc", k>>)')
    <3> DEFINE e == <<"doc", k>>
    <3>1. ~push /\ pushed' = pushed /\ changed' = changed
      BY <1>0, <2>1, <2>5 DEF PushInv
    <3>2. Same(e)
      BY <2>2, <2>5, <3>1
    <3>3. /\ IF k \in unread \union lost THEN \A r \in index : r[1] # e ELSE Tells(index, e)
          /\ pushed = 0 => k \notin unread /\ (Present(e) => Whole(e))
      BY <1>0, <2>5, <3>1 DEF IndexCurrent
    <3>4. Tells(index, e)' <=> Tells(index, e)
      <4> HIDE DEF e
      <4>1. Held(e)' = Held(e)
        BY <3>2, SameHeld
      <4> QED
        BY <2>1, <4>1, RowsAreThose DEF Tells, Held, RowsAre
    <3>5. (Whole(e)' <=> Whole(e)) /\ (Present(e)' <=> Present(e))
      BY <3>2, SameHeld
    <3> QED
      BY <2>1, <3>1, <3>3, <3>4, <3>5
  <2> QED
    BY <2>4, <2>5 DEF IndexCurrent
<1>2. CASE Push
  <2>1. \A e : /\ Held(e)' = Held(e) /\ (Whole(e)' <=> Whole(e)) /\ (Present(e)' <=> Present(e))
    BY <1>2, PushSteps, SameHeld
  <2>2. \A R, e : /\ Tells(R, e) <=> RowsAre(R, e, Held(e))
    BY TellsHeld
  <2>3. \A e : /\ Tells(rows, e)' <=> RowsAre(rows', e, Held(e))
               /\ Tells(index, e)' <=> RowsAre(index', e, Held(e))
    BY <2>1 DEF Tells, RowsAre, Held
  <2>4. CASE PushStart
    <3>1. /\ pushed' = 1 /\ rows' = {} /\ due' = {e \in Entry : Present(e)}
          /\ unread' = {} /\ lost' = {}
      BY <2>4 DEF PushStart
    <3>2. ASSUME NEW k \in Key, <<"doc", k>> \notin due'
          PROVE  ~Present(<<"doc", k>>) /\ Tells(rows, <<"doc", k>>)'
      <4>1. ~Present(<<"doc", k>>) /\ Held(<<"doc", k>>) = {}
        BY <3>1, <3>2, Constants DEF Held, Whole
      <4> QED
        BY <2>3, <3>1, <4>1 DEF RowsAre
    <3> QED
      BY <2>1, <3>1, <3>2 DEF PushInv, IndexCurrent
  <2>5. CASE PushSwap
    <3>1. /\ push /\ due = {} /\ ~push' /\ changed' = changed /\ unread' = unread
          /\ pushed' = IF rejected THEN 2 ELSE 0
          /\ index' \subseteq rows
          /\ lost' = {k \in Key : \E r \in rows \ index' : r[1] = <<"doc", k>>}
      BY <2>5 DEF PushSwap
    <3>2. ASSUME NEW k \in Key \ changed
          PROVE  /\ IF k \in unread' \union lost' THEN \A r \in index' : r[1] # <<"doc", k>>
                    ELSE Tells(index, <<"doc", k>>)'
                 /\ pushed' = 0 =>
                      k \notin unread' /\ (Present(<<"doc", k>>)' => Whole(<<"doc", k>>)')
      <4> DEFINE e == <<"doc", k>>
      <4>1. IF k \in unread THEN rejected /\ \A r \in rows : r[1] # e
            ELSE Tells(rows, e) /\ (Present(e) => Whole(e) \/ rejected)
        BY <1>0, <3>1 DEF PushInv
      <4>2. CASE k \in unread
        BY <3>1, <4>1, <4>2
      <4>3. CASE k \notin unread
        <5>1. RowsAre(rows, e, Held(e))
          BY <2>2, <4>1, <4>3
        <5>2. pushed' = 0 => (Present(e)' => Whole(e)')
          BY <2>1, <3>1, <4>1, <4>3
        <5>3. CASE k \in lost'
          <6>1. PICK r \in rows \ index' : r[1] = e
            BY <3>1, <5>3
          <6>2. Held(e) = {Bytes(e)}
            BY <5>1, <6>1, RowsAreThose DEF Held
          <6>3. \A t \in rows : t[1] = e => t = r
            <7> SUFFICES ASSUME NEW t \in rows, t[1] = e PROVE t = r
              OBVIOUS
            <7>1. t[2] = Bytes(e) /\ r[2] = Bytes(e)
              BY <5>1, <6>1, <6>2, RowsAreThose
            <7>2. t \in Entry \X Doc /\ r \in Entry \X Doc
              BY <1>0, <6>1 DEF PushOK
            <7> QED
              BY <6>1, <7>1, <7>2
          <6> QED
            BY <3>1, <4>3, <5>2, <5>3, <6>1, <6>3
        <5>4. CASE k \notin lost'
          <6>1. \A r \in rows : r[1] = e => r \in index'
            BY <3>1, <5>4
          <6>2. RowsAre(index', e, Held(e))
            BY <3>1, <5>1, <6>1, RowsAreThose
          <6> QED
            BY <2>3, <3>1, <4>3, <5>2, <5>4, <6>2
        <5> QED
          BY <5>3, <5>4
      <4> QED
        BY <4>2, <4>3
    <3> QED
      BY <3>1, <3>2 DEF PushInv, IndexCurrent
  <2>6. CASE CrashPush
    <3>1. push /\ ~push' /\ pushed' = pushed
      BY <2>6 DEF CrashPush
    <3> QED
      BY <1>0, <3>1 DEF PushInv, IndexCurrent
  <2>7. ASSUME NEW d \in Entry, PushRead(d) \/ PushReadFails(d) \/ PushGone(d) \/ PushFinds(d)
        PROVE  PushInv' /\ IndexCurrent'
    <3>1. /\ push /\ push' /\ pushed = 1 /\ pushed' = 1 /\ changed' = changed
          /\ lost = {} /\ lost' = {}
          /\ rejected => rejected'
      <4>1. push => pushed = 1 /\ lost = {}
        BY <1>0 DEF PushInv
      <4>2. CASE PushRead(d)
        BY <4>1, <4>2 DEF PushRead
      <4>3. CASE PushGone(d)
        <5>1. rejected' = rejected \/ rejected' = TRUE
          BY <4>3 DEF PushGone
        <5>2. rejected => rejected'
          BY <5>1, Zenon
        <5>3. /\ push /\ push' = push /\ pushed' = pushed /\ changed' = changed
              /\ lost' = lost
          BY <4>3 DEF PushGone
        <5> QED
          BY <4>1, <5>2, <5>3
      <4>4. CASE PushFinds(d)
        BY <4>1, <4>4 DEF PushFinds
      <4>5. CASE PushReadFails(d)
        BY <4>1, <4>5 DEF PushReadFails
      <4> QED
        BY <2>7, <4>2, <4>3, <4>4, <4>5
    <3>2. ASSUME NEW k \in Key \ changed
          PROVE  IF <<"doc", k>> \in due'
                 THEN k \notin unread' /\ \A r \in rows' : r[1] # <<"doc", k>>
                 ELSE IF k \in unread'
                 THEN rejected' /\ \A r \in rows' : r[1] # <<"doc", k>>
                 ELSE /\ RowsAre(rows', <<"doc", k>>, Held(<<"doc", k>>))
                      /\ Present(<<"doc", k>>) => Whole(<<"doc", k>>) \/ rejected'
      <4> DEFINE e == <<"doc", k>>
      <4>1. IF e \in due THEN k \notin unread /\ \A r \in rows : r[1] # e
            ELSE IF k \in unread THEN rejected /\ \A r \in rows : r[1] # e
            ELSE RowsAre(rows, e, Held(e)) /\ (Present(e) => Whole(e) \/ rejected)
        BY <1>0, <2>2, <3>1 DEF PushInv
      <4>2. k \notin changed /\ e[1] # "tmp" /\ e[2] = k
        OBVIOUS
      <4> HIDE DEF e
      <4>3. CASE PushFinds(d)
        <5>1. d # e /\ rows' = rows /\ due' = due \union {d} /\ unread' = unread
          BY <4>2, <4>3 DEF PushFinds
        <5> QED
          BY <3>1, <4>1, <5>1 DEF e
      <4>4. CASE PushGone(d)
        <5>1. /\ rows' = rows /\ due' = due \ {d} /\ d \in due /\ ~Present(d)
              /\ unread' = unread
          BY <4>4 DEF PushGone
        <5>2. CASE d = e
          <6>1. Held(e) = {} /\ k \notin unread /\ \A r \in rows : r[1] # e
            BY <4>1, <5>1, <5>2 DEF Held, Whole
          <6> QED
            BY <5>1, <5>2, <6>1, RowsAreThose DEF e
        <5>3. CASE d # e
          BY <3>1, <4>1, <5>1, <5>3 DEF e
        <5> QED
          BY <5>2, <5>3
      <4>5. CASE PushRead(d)
        <5>1. /\ due' = due \ {d} /\ d \in due /\ unread' = unread
              /\ Whole(d) => rows' = rows \union {<<d, Bytes(d)>>}
              /\ ~Whole(d) => rows' = rows /\ rejected'
          BY <4>5 DEF PushRead
        <5>2. CASE d = e
          <6>1. k \notin unread /\ \A r \in rows : r[1] # e
            BY <4>1, <5>1, <5>2
          <6>2. RowsAre(rows', e, Held(e))
            <7>1. CASE Whole(e)
              <8>1. rows' = rows \union {<<e, Bytes(e)>>} /\ Held(e) = {Bytes(e)}
                BY <5>1, <5>2, <7>1 DEF Held
              <8>2. \A r \in rows' : r[1] = e => r[2] = Bytes(e)
                BY <6>1, <8>1
              <8>3. <<e, Bytes(e)>> \in rows'
                BY <8>1
              <8> QED
                BY <8>1, <8>2, <8>3, RowsAreThose
            <7>2. CASE ~Whole(e)
              <8>1. rows' = rows /\ Held(e) = {}
                BY <5>1, <5>2, <7>2 DEF Held
              <8> QED
                BY <6>1, <8>1, RowsAreThose
            <7> QED
              BY <7>1, <7>2
          <6> QED
            BY <5>1, <5>2, <6>1, <6>2 DEF e
        <5>3. CASE d # e
          <6>1. \A r : r[1] = e => (r \in rows' <=> r \in rows)
            BY <5>1, <5>3
          <6>2. RowsAre(rows', e, Held(e)) <=> RowsAre(rows, e, Held(e))
            BY <6>1, RowsAreThose
          <6> QED
            BY <3>1, <4>1, <5>1, <5>3, <6>1, <6>2 DEF e
        <5> QED
          BY <5>2, <5>3
      <4>6. CASE PushReadFails(d)
        <5>1. /\ rows' = rows /\ due' = due \ {d} /\ d \in due /\ rejected'
              /\ unread' = IF d[1] = "doc" THEN unread \union {d[2]} ELSE unread
          BY <4>6 DEF PushReadFails
        <5>2. CASE d = e
          <6>1. k \in unread' /\ e \notin due' /\ \A r \in rows : r[1] # e
            BY <4>1, <5>1, <5>2 DEF e
          <6> QED
            BY <5>1, <6>1 DEF e
        <5>3. CASE d # e
          <6>1. k \in unread' <=> k \in unread
            BY <5>1, <5>3 DEF e, Entry
          <6> QED
            BY <3>1, <4>1, <5>1, <5>3, <6>1 DEF e
        <5> QED
          BY <5>2, <5>3
      <4> QED
        BY <2>7, <4>3, <4>4, <4>5, <4>6
    <3> QED
      BY <2>1, <2>3, <3>1, <3>2 DEF PushInv, IndexCurrent
  <2> QED
    BY <1>2, <2>4, <2>5, <2>6, <2>7 DEF Push
<1> QED
  BY <1>1, <1>2 DEF Next

(* What push leaves in the index, and what it reports of it, is true of every *)
(* document left alone since it began, but for rows that a failed write of    *)
(* the index left out, which push does not notice.                            *)
THEOREM IndexTellsTruth == Spec => []IndexCurrent
<1>1. Init => IndexInv
  BY TypeInit DEF Init, IndexInv, PushInv, IndexCurrent
<1>2. ASSUME IndexInv, [Next]_vars
      PROVE  IndexInv'
  <2>1. TypeInv'
    BY <1>2, TypeStep DEF IndexInv
  <2>2. CASE Next
    BY <1>2, <2>1, <2>2, IndexStep DEF IndexInv
  <2>3. CASE UNCHANGED vars
    BY <1>2, <2>1, <2>3 DEF IndexInv, PushInv, IndexCurrent, Tells, vars, store, pusher,
                            Whole, Present, Bytes
  <2> QED
    BY <1>2, <2>2, <2>3
<1>3. IndexInv => IndexCurrent
  BY DEF IndexInv
<1> QED
  BY <1>1, <1>2, <1>3, PTL DEF Spec

-----------------------------------------------------------------------------
(* Annotations take effect at once. *)

LEMMA SaidType ==
  ASSUME StoreOK, NEW k \in Key
  PROVE  Said(k) \in [Field -> Stored]
<1>1. Whole(<<"doc", k>>) => Bytes(<<"doc", k>>) \in Doc
  BY Constants DEF StoreOK, Whole, Present, Bytes
<1> QED
  BY <1>1, Constants DEF Said, Doc

(* A document whose name stands for the same bytes says the same. *)
LEMMA SameSaid ==
  ASSUME NEW k \in Key, Same(<<"doc", k>>)
  PROVE  Said(k)' = Said(k)
  BY DEF Same, Said, Whole, Present, Bytes

(* Only a rename changes what is said, and then as AnnotatesAtOnce wants it. *)
LEMMA SaidSteps ==
  ASSUME TypeInv, AloneInv, CopyInv, Next, NEW k \in Key, k \notin spoiled'
  PROVE  \/ Said(k)' = Said(k) /\ \A w \in Writer : Rename(w) => Mine(w) # k
         \/ \E w \in Writer :
              /\ Rename(w) /\ Mine(w) = k
              /\ Said(k)' = [Said(k) EXCEPT ![job[w].field] = job[w].val]
<1>1. CASE Same(<<"doc", k>>) /\ \A w \in Writer : Rename(w) => Mine(w) # k
  BY <1>1, SameSaid
<1>2. ASSUME NEW w \in Writer, Rename(w), Mine(w) = k,
             Present(<<"doc", k>>)', Bytes(<<"doc", k>>)' = doc[w]
      PROVE  Said(k)' = [Said(k) EXCEPT ![job[w].field] = job[w].val]
  <2>1. InFlight(w) /\ pc[w] # "idle" /\ doc[w] \in Doc
    BY <1>2, OnAFile DEF TypeInv, Rename, InFlight
  <2>2. k \notin spoiled
    BY DocSteps
  <2>3. Whole(<<"doc", k>>)'
    BY <1>2, <2>1, Constants DEF Whole
  <2>4. Said(k)' = doc[w].body
    BY <1>2, <2>3 DEF Said
  <2> QED
    BY <1>2, <2>1, <2>2, <2>4 DEF CopyInv
<1> QED
  BY <1>1, <1>2, DocSteps

(* What a writer takes up is a copy of what its document says. *)
LEMMA BeginCopies ==
  ASSUME TypeInv, CopyInv, NEW w \in Writer, NEW file \in File, Begins(w, file)
  PROVE  /\ job'[w].val = Default => job'[w].left = {}
         /\ file \notin job'[w].left
         /\ KeyOf[file] \notin spoiled' =>
              /\ doc'[w].body = [Said(KeyOf[file]) EXCEPT ![job'[w].field] = job'[w].val]
              /\ job'[w].val = Default => Said(KeyOf[file])[job'[w].field] = Default
<1> DEFINE k == KeyOf[file]
<1>0. Domains /\ StoreOK /\ WriterOK(w) /\ k \in Key /\ Said(k) \in [Field -> Stored]
  BY TypeParts, Constants, SaidType
<1>1. CASE Load(w, file)
  <2>1. job[w] \in Job /\ pc[w] = "next" /\ file \in job[w].left /\ job[w].val # Default
    BY <1>0, <1>1 DEF Load, WriterOK, CopyInv
  <2>2. /\ k \notin spoiled' =>
             doc'[w].body = [Loaded(k) EXCEPT ![job[w].field] = job[w].val]
        /\ job'[w] = [job[w] EXCEPT !.left = @ \ {file}, !.file = file]
    BY <1>0, <1>1, ReadWell DEF Load, Domains
  <2>3. /\ job'[w].field = job[w].field /\ job'[w].val = job[w].val
        /\ job'[w].left = job[w].left \ {file}
    BY <2>1, <2>2 DEF Job
  <2>4. ASSUME k \notin spoiled'
        PROVE  Loaded(k) = Said(k)
    <3>1. Whole(<<"doc", k>>) => ~Spells(Bytes(<<"doc", k>>).body)
      BY <1>0, <1>1, <2>4 DEF Load
    <3>2. \A f \in Field : Loaded(k)[f] = Said(k)[f]
      BY <3>1 DEF Loaded, Extracted, Spells, Said, Template
    <3>3. Loaded(k) \in [Field -> Stored]
      BY <1>0, LoadedType DEF TypeInv
    <3> QED
      BY <1>0, <3>2, <3>3
  <2> QED
    BY <2>1, <2>2, <2>3, <2>4
<1>2. CASE EditTemplate(w, file)
  <2>1. /\ doc'[w].body = [g \in Field |-> Default] /\ job'[w].val = Default
        /\ job'[w].left = {} /\ ~Whole(<<"doc", k>>)
        /\ job'[w].field = CHOOSE f \in Field : TRUE
    BY <1>0, <1>2 DEF EditTemplate, Domains, Whole, Template
  <2>2. Said(k) = [g \in Field |-> Default] /\ job'[w].field \in Field
    BY <2>1, MemoryAssumption DEF Said
  <2> QED
    BY <2>1, <2>2
<1> QED
  BY <1>1, <1>2 DEF Begins

(* The file, the value and the rest of a command that began with no file. *)
LEMMA TaskSteps ==
  ASSUME TypeInv, CopyInv, [Next]_vars, NEW v \in Writer, pc'[v] # "idle",
         ~\E file \in File : Begins(v, file)
  PROVE  /\ job'[v].val = Default => job'[v].left = {}
         /\ InFlight(v)' => job'[v].file \notin job'[v].left
<1>0. Domains /\ WriterOK(v)
  BY TypeParts
<1>1. CASE pc'[v] = pc[v] /\ job'[v] = job[v]
  BY <1>1 DEF CopyInv, InFlight
<1>2. CASE UNCHANGED vars \/ Push \/ \E k \in Key : BreakByHand(k)
  <2>1. UNCHANGED writers
    BY <1>2, ElsewhereStay DEF vars
  <2> QED
    BY <1>1, <2>1 DEF writers
<1>3. ASSUME NEW w \in Writer, Update(w), w # v
      PROVE  pc'[v] = pc[v] /\ job'[v] = job[v]
  BY <1>3, OthersStay
<1>4. ASSUME NEW S \in Folder, NEW o \in Offer, Annotate(v, S, o[1], o[2])
      PROVE  job'[v].val # Default /\ ~InFlight(v)'
  BY <1>0, <1>4, MemoryAssumption DEF Annotate, Domains, InFlight
<1>5. ASSUME FileFails(v) \/ RenameFails(v)
      PROVE  (job'[v].val = Default => job'[v].left = {}) /\ ~InFlight(v)'
  <2>1. pc[v] # "idle" /\ job[v] \in Job /\ pc'[v] = "next"
    BY <1>0, <1>5 DEF FileFails, RenameFails, WriterOK, Domains
  <2>2. \/ \E g \in File : job'[v] = [job[v] EXCEPT !.left = @ \ {g}, !.errors = TRUE]
        \/ job'[v] = [job[v] EXCEPT !.errors = TRUE]
    <3>1. job[v].left \subseteq File
      BY <2>1 DEF Job
    <3> QED
      BY <1>0, <1>5, <3>1 DEF FileFails, RenameFails, Domains
  <2>3. job'[v].val = job[v].val /\ job'[v].left \subseteq job[v].left
    BY <2>1, <2>2 DEF Job
  <2> QED
    BY <2>1, <2>3 DEF CopyInv, InFlight
<1>6. ASSUME OpenTmp(v) \/ WriteTmp(v) \/ Rename(v)
      PROVE  job'[v] = job[v] /\ pc[v] # "idle" /\ (InFlight(v)' => InFlight(v))
  BY <1>0, <1>6 DEF OpenTmp, WriteTmp, Rename, InFlight, Domains
<1>7. ~(Return(v) \/ CrashWriter(v))
  BY <1>0 DEF Return, CrashWriter, Domains
<1>8. CASE Update(v)
  BY <1>4, <1>5, <1>6, <1>7, <1>8 DEF Update, Begins, CopyInv
<1> QED
  BY <1>1, <1>2, <1>3, <1>8 DEF Next

LEMMA CopyInit == Init => CopyInv
  BY DEF Init, CopyInv

LEMMA CopyStep ==
  ASSUME WholeInv, CopyInv, [Next]_vars
  PROVE  CopyInv'
<1>0. TypeInv /\ TypeOK /\ AloneInv
  BY DEF WholeInv, TypeInv
<1>1. CASE UNCHANGED vars
  BY <1>1 DEF CopyInv, vars, store, writers, past, InFlight, Mine, Said, Whole, Present, Bytes
<1>2. ASSUME Next, NEW v \in Writer, pc'[v] # "idle"
      PROVE  /\ job'[v].val = Default => job'[v].left = {}
             /\ InFlight(v)' => job'[v].file \notin job'[v].left
             /\ InFlight(v)' /\ Mine(v)' \notin spoiled' =>
                  /\ doc'[v].body = [Said(Mine(v)) EXCEPT ![job[v].field] = job[v].val]'
                  /\ job'[v].val = Default => Said(Mine(v))'[job'[v].field] = Default
  <2>1. ASSUME NEW file \in File, Begins(v, file)
        PROVE  /\ Mine(v)' = KeyOf[file] /\ job'[v].file = file
               /\ Said(KeyOf[file])' = Said(KeyOf[file])
    <3>1. job'[v].file = file /\ UNCHANGED <<at, node>>
      BY <1>0, <2>1, BeginSteps
    <3> QED
      BY <3>1 DEF Mine, Said, Whole, Present, Bytes
  <2>2. CASE \E file \in File : Begins(v, file)
    <3>1. PICK file \in File : Begins(v, file)
      BY <2>2
    <3>2. Mine(v)' = KeyOf[file] /\ job'[v].file = file /\ Said(KeyOf[file])' = Said(KeyOf[file])
      BY <2>1, <3>1
    <3>3. Said(Mine(v))' = Said(KeyOf[file])'
      BY <3>2 DEF Said, Whole, Present, Bytes
    <3> QED
      BY <1>0, <3>1, <3>2, <3>3, BeginCopies
  <2>3. CASE ~\E file \in File : Begins(v, file)
    <3>1. ASSUME InFlight(v)', Mine(v)' \notin spoiled'
          PROVE  /\ doc'[v].body = [Said(Mine(v)) EXCEPT ![job[v].field] = job[v].val]'
                 /\ job'[v].val = Default => Said(Mine(v))'[job'[v].field] = Default
      <4>1. /\ InFlight(v) /\ job'[v] = job[v] /\ doc'[v] = doc[v] /\ Mine(v)' = Mine(v)
            /\ pc[v] # "idle"
        BY <1>0, <1>2, <2>3, <3>1, FlightStays DEF Mine, InFlight
      <4>2. Mine(v) \in Key /\ Mine(v) \notin spoiled /\ Mine(v) \notin spoiled'
        BY <1>0, <1>2, <3>1, <4>1, OnAFile, DocSteps
      <4>3. ASSUME NEW w \in Writer, Rename(w), Mine(w) = Mine(v)
            PROVE  FALSE
        <5>1. InFlight(w)
          BY <4>3 DEF Rename, InFlight
        <5>2. w = v
          BY <1>0, <4>1, <4>2, <4>3, <5>1 DEF AloneInv
        <5> QED
          BY <1>0, <3>1, <4>3, <5>2 DEF Rename, InFlight, TypeOK
      <4>4. Said(Mine(v))' = Said(Mine(v))
        <5>1. \A k \in Key : k = Mine(v) => Said(k)' = Said(k)
          BY <1>0, <1>2, <4>2, <4>3, SaidSteps
        <5>2. \A k \in Key : k = Mine(v)' => Said(k)' = Said(Mine(v))'
          BY DEF Said, Whole, Present, Bytes
        <5> QED
          BY <4>1, <4>2, <5>1, <5>2
      <4> QED
        BY <4>1, <4>2, <4>4 DEF CopyInv
    <3> QED
      BY <1>0, <1>2, <2>3, <3>1, TaskSteps
  <2> QED
    BY <2>2, <2>3
<1>3. CASE Next
  BY <1>2, <1>3 DEF CopyInv
<1> QED
  BY <1>1, <1>3

(* A step that renames nothing changes what is promised only where a document *)
(* is spoiled.                                                              *)
LEMMA NotesKept ==
  ASSUME TypeInv, AloneInv, CopyInv, Next, \A w \in Writer : ~Rename(w)
  PROVE  /\ spoiled' = spoiled => Notes' = Notes
         /\ \A k \in Key : spoiled' = spoiled \union {k} => Notes' = [Notes EXCEPT ![k] = Lost]
<1>1. \A k \in Key : k \notin spoiled' => Said(k)' = Said(k) /\ k \notin spoiled
  BY SaidSteps, DocSteps
<1>2. ASSUME spoiled' = spoiled, NEW k \in Key
      PROVE  Notes'[k] = Notes[k]
  BY <1>1, <1>2 DEF Notes
<1>3. ASSUME NEW k \in Key, spoiled' = spoiled \union {k}, NEW l \in Key
      PROVE  Notes'[l] = [Notes EXCEPT ![k] = Lost][l]
  BY <1>1, <1>3 DEF Notes
<1>4. /\ Notes = [k \in Key |-> Notes[k]] /\ Notes' = [k \in Key |-> Notes'[k]]
      /\ \A k \in Key : [Notes EXCEPT ![k] = Lost] = [l \in Key |-> [Notes EXCEPT ![k] = Lost][l]]
  BY DEF Notes
<1>5. spoiled' = spoiled => Notes' = Notes
  BY <1>2, <1>4, Zenon
<1>6. ASSUME NEW k \in Key, spoiled' = spoiled \union {k}
      PROVE  Notes' = [Notes EXCEPT ![k] = Lost]
  BY <1>3, <1>4, <1>6, Zenon
<1> QED
  BY <1>5, <1>6

(* A rename changes the one field it is for. *)
LEMMA NotesRenamed ==
  ASSUME TypeInv, AloneInv, CopyInv, NEW w \in Writer, Rename(w)
  PROVE  LET k == Mine(w) IN
         Notes' = IF k \in spoiled THEN Notes
                  ELSE [Notes EXCEPT ![k] = [Said(k) EXCEPT ![job[w].field] = job[w].val]]
<1> DEFINE new == IF Mine(w) \in spoiled THEN Notes
                  ELSE [Notes EXCEPT ![Mine(w)] =
                          [Said(Mine(w)) EXCEPT ![job[w].field] = job[w].val]]
<1>1. Next /\ Update(w) /\ UNCHANGED spoiled /\ pc[w] = "written"
  BY DEF Next, Update, Rename
<1>2. ASSUME NEW v \in Writer, Rename(v)
      PROVE  v = w
  <2>1. v # w => pc'[v] = pc[v]
    BY <1>1, OthersStay
  <2> QED
    BY <1>2, <2>1 DEF Rename, TypeInv, TypeOK
<1>3. ASSUME NEW k \in Key, k # Mine(w)
      PROVE  Notes'[k] = new[k]
  <2>1. k \notin spoiled => Said(k)' = Said(k)
    BY <1>1, <1>2, <1>3, SaidSteps
  <2> QED
    BY <1>1, <1>3, <2>1 DEF Notes
<1>4. Mine(w) \in Key /\ Notes'[Mine(w)] = new[Mine(w)]
  <2>1. Mine(w) \in Key
    BY <1>1, OnAFile DEF TypeInv, InFlight
  <2>2. ASSUME NEW k \in Key, k = Mine(w), k \notin spoiled
        PROVE  Said(k)' = [Said(k) EXCEPT ![job[w].field] = job[w].val]
    BY <1>1, <1>2, <2>2, SaidSteps
  <2>3. ASSUME NEW k \in Key, k = Mine(w)
        PROVE  Notes'[k] = new[k]
    BY <1>1, <2>2, <2>3 DEF Notes
  <2> QED
    BY <2>1, <2>3
<1>5. Notes' = [k \in Key |-> Notes'[k]] /\ new = [k \in Key |-> new[k]]
  BY DEF Notes
<1>6. \A k \in Key : Notes'[k] = new[k]
  BY <1>3, <1>4
<1>7. Notes' = new
  BY <1>5, <1>6, Zenon
<1> QED
  BY <1>7

(* A step of a writer changes what that writer alone has to do. *)
LEMMA AskedOthers ==
  ASSUME TypeInv, NEW w \in Writer, Update(w)
  PROVE  Asked' = [Asked EXCEPT ![w] = Asked'[w]]
<1>1. \A v \in Writer : v # w => pc'[v] = pc[v] /\ job'[v] = job[v]
  BY OthersStay
<1>2. \A v \in Writer : v # w => Asked'[v] = Asked[v]
  BY <1>1 DEF Asked, Asks, InFlight
<1>3. Asked = [v \in Writer |-> Asked[v]] /\ Asked' = [v \in Writer |-> Asked'[v]]
  BY DEF Asked
<1> QED
  BY <1>2, <1>3, Zenon

(* What a process has to do when it runs a command that annotates. *)
LEMMA AskedTask ==
  ASSUME TypeInv, NEW w \in Writer, Asks(w)
  PROVE  /\ Asked[w] = [field |-> job[w].field, val |-> job[w].val, failed |-> job[w].errors,
                       left |-> job[w].left \union (IF InFlight(w) THEN {job[w].file} ELSE {})]
         /\ Asked[w] \in Promise!Task
         /\ Asked[w].field = job[w].field /\ Asked[w].val = job[w].val
         /\ Asked[w].left = job[w].left \union (IF InFlight(w) THEN {job[w].file} ELSE {})
<1>1. job[w] \in Job
  BY TypeParts DEF WriterOK, Asks
<1>2. InFlight(w) => job[w].file \in File
  BY OnAFile DEF TypeInv
<1>3. Asked[w] = [field |-> job[w].field, val |-> job[w].val, failed |-> job[w].errors,
                 left |-> job[w].left \union (IF InFlight(w) THEN {job[w].file} ELSE {})]
  BY DEF Asked
<1>4. Asked[w] \in Promise!Task
  BY <1>1, <1>2, <1>3 DEF Promise!Task, Job
<1>5. /\ Asked[w].field = job[w].field /\ Asked[w].val = job[w].val
      /\ Asked[w].left = job[w].left \union (IF InFlight(w) THEN {job[w].file} ELSE {})
  BY <1>3
<1> QED
  BY <1>3, <1>4, <1>5

LEMMA AskedKept ==
  ASSUME TypeInv, NEW w \in Writer, Update(w), Asked'[w] = Asked[w]
  PROVE  Asked' = Asked
<1>1. Asked' = [Asked EXCEPT ![w] = Asked[w]]
  BY AskedOthers
<1>2. Asked = [v \in Writer |-> Asked[v]]
  BY DEF Asked
<1> QED
  BY <1>1, <1>2

(* A command begins as it is asked for. *)
LEMMA AnnotateAsks ==
  ASSUME TypeInv, AloneInv, CopyInv, Next, \A v \in Writer : ~Rename(v),
         NEW w \in Writer, NEW S \in Folder, NEW o \in Offer, Annotate(w, S, o[1], o[2])
  PROVE  Promise!Ask(w, S, o[1], o[2])
<1>0. Domains /\ Update(w)
  BY TypeParts DEF Update
<1>1. o[2] # Default
  BY MemoryAssumption
<1>2. job'[w] = [all |-> S, left |-> S, file |-> NoFile, field |-> o[1], val |-> o[2],
                errors |-> FALSE]
  BY <1>0 DEF Annotate, Domains
<1>3. pc[w] = "idle" /\ pc'[w] = "next" /\ UNCHANGED spoiled
  BY <1>0 DEF Annotate, Domains, past
<1>4. Asked[w] = Nothing
  BY <1>3 DEF Asked, Asks
<1>5. Asks(w)' /\ ~InFlight(w)'
  BY <1>1, <1>2, <1>3 DEF Asks, InFlight
<1>6. Asked'[w] = [field |-> o[1], val |-> o[2], left |-> S, failed |-> FALSE]
  <2>1. /\ job'[w].field = o[1] /\ job'[w].val = o[2] /\ job'[w].errors = FALSE
        /\ job'[w].left \union {} = S
    BY <1>2
  <2> QED
    BY <1>5, <2>1 DEF Asked
<1>7. Asked' = [Asked EXCEPT ![w] = [field |-> o[1], val |-> o[2], left |-> S, failed |-> FALSE]]
  BY <1>0, <1>6, AskedOthers
<1> QED
  BY <1>3, <1>4, <1>7, NotesKept DEF Promise!Ask

(* To take up a file changes nothing, unless it spoils the document. *)
LEMMA BeginRests ==
  ASSUME TypeInv, AloneInv, CopyInv, Next, \A v \in Writer : ~Rename(v),
         NEW w \in Writer, NEW file \in File, Begins(w, file)
  PROVE  Promise!Rest \/ Promise!Lose(KeyOf[file])
<1>0. Domains /\ WriterOK(w) /\ Update(w) /\ KeyOf[file] \in Key
  BY TypeParts, Constants DEF Update, Begins
<1>1. Asked'[w] = Asked[w]
  <2>1. CASE Load(w, file)
    <3>1. job[w] \in Job /\ pc[w] = "next" /\ file \in job[w].left /\ pc'[w] = "loaded"
      BY <1>0, <2>1 DEF Load, WriterOK, Domains
    <3>2. job'[w] = [job[w] EXCEPT !.left = @ \ {file}, !.file = file]
      BY <1>0, <2>1 DEF Load, Domains
    <3>3. /\ job'[w].field = job[w].field /\ job'[w].val = job[w].val
          /\ job'[w].errors = job[w].errors /\ job'[w].file = file
          /\ job'[w].left \union {job'[w].file} = job[w].left
      BY <3>1, <3>2 DEF Job
    <3>4. Asks(w) /\ Asks(w)' /\ InFlight(w)' /\ ~InFlight(w)
      BY <1>0, <2>1, <3>1, <3>3 DEF Asks, InFlight, CopyInv
    <3> QED
      BY <3>3, <3>4 DEF Asked
  <2>2. CASE EditTemplate(w, file)
    <3>1. ~Asks(w) /\ ~Asks(w)'
      BY <1>0, <2>2 DEF EditTemplate, Domains, Asks
    <3> QED
      BY <3>1 DEF Asked
  <2> QED
    BY <2>1, <2>2 DEF Begins
<1>2. spoiled' = spoiled \/ spoiled' = spoiled \union {KeyOf[file]}
  BY DEF Begins, Load, EditTemplate
<1>3. Asked' = Asked
  BY <1>0, <1>1, AskedKept
<1> QED
  BY <1>0, <1>2, <1>3, NotesKept DEF Promise!Rest, Promise!Lose

(* A file that fails is done with, and the command will not return 0. *)
LEMMA FailureFails ==
  ASSUME TypeInv, AloneInv, CopyInv, Next, \A v \in Writer : ~Rename(v),
         NEW w \in Writer, FileFails(w) \/ RenameFails(w)
  PROVE  Promise!Rest \/ \E file \in File : Promise!Fail(w, file)
<1>0. Domains /\ WriterOK(w) /\ Update(w)
  BY TypeParts DEF Update
<1>1. /\ pc[w] # "idle" /\ job[w] \in Job /\ pc'[w] = "next" /\ UNCHANGED spoiled
      /\ ~InFlight(w)' /\ (pc[w] = "next" \/ InFlight(w))
  BY <1>0 DEF FileFails, RenameFails, WriterOK, Domains, InFlight, past
<1>2. \E file \in File :
        /\ \/ ~InFlight(w) /\ file \in job[w].left
           \/ InFlight(w) /\ file = job[w].file
        /\ job'[w] = [job[w] EXCEPT !.left = @ \ {file}, !.errors = TRUE]
  <2>1. CASE InFlight(w)
    <3>1. job[w].file \in File /\ job[w].file \notin job[w].left
      BY <1>1, <2>1, OnAFile DEF TypeInv, CopyInv
    <3>2. job'[w] = [job[w] EXCEPT !.errors = TRUE]
      BY <1>0, <2>1 DEF FileFails, RenameFails, Domains, InFlight
    <3>3. job[w].left \ {job[w].file} = job[w].left
      BY <3>1
    <3>4. [job[w] EXCEPT !.left = @ \ {job[w].file}, !.errors = TRUE]
            = [job[w] EXCEPT !.errors = TRUE]
      BY <1>1, <3>3 DEF Job
    <3> QED
      BY <2>1, <3>1, <3>2, <3>4
  <2>2. CASE ~InFlight(w)
    <3>1. \E file \in job[w].left :
            job'[w] = [job[w] EXCEPT !.left = @ \ {file}, !.errors = TRUE]
      BY <1>0, <2>2 DEF FileFails, RenameFails, Domains, InFlight
    <3>2. job[w].left \subseteq File
      BY <1>1 DEF Job
    <3> QED
      BY <2>2, <3>1, <3>2
  <2> QED
    BY <2>1, <2>2
<1>3. PICK file \in File :
        /\ \/ ~InFlight(w) /\ file \in job[w].left
           \/ InFlight(w) /\ file = job[w].file
        /\ job'[w] = [job[w] EXCEPT !.left = @ \ {file}, !.errors = TRUE]
  BY <1>2
<1>4. /\ job'[w].field = job[w].field /\ job'[w].val = job[w].val /\ job'[w].errors
      /\ job'[w].left = job[w].left \ {file}
  BY <1>1, <1>3 DEF Job
<1>5. Notes' = Notes
  BY <1>1, NotesKept
<1>6. CASE Asks(w)
  <2>1. Asks(w)'
    BY <1>1, <1>4, <1>6 DEF Asks
  <2>2. /\ Asked[w] \in Promise!Task
        /\ Asked[w].field = job[w].field /\ Asked[w].val = job[w].val
        /\ Asked[w].left = job[w].left \union (IF InFlight(w) THEN {job[w].file} ELSE {})
    BY <1>6, AskedTask
  <2>3. file \in Asked[w].left /\ Asked[w].left \ {file} = job[w].left \ {file}
    BY <1>3, <2>2
  <2>4. /\ Asked'[w] \in Promise!Task /\ Asked'[w].field = job[w].field
        /\ Asked'[w].val = job[w].val /\ Asked'[w].left = job[w].left \ {file}
        /\ Asked'[w].failed
    <3>1. job'[w] \in Job
      BY <1>1, <1>3 DEF Job
    <3>2. Asked'[w] = [field |-> job'[w].field, val |-> job'[w].val, failed |-> job'[w].errors,
                      left |-> job'[w].left \union {}]
      BY <1>1, <2>1 DEF Asked
    <3>3. job'[w].left \union {} = job[w].left \ {file}
      BY <1>4
    <3> QED
      BY <1>4, <3>1, <3>2, <3>3 DEF Promise!Task, Job
  <2>5. Asked'[w] = [Asked[w] EXCEPT !.left = @ \ {file}, !.failed = TRUE]
    <3> DEFINE task == [Asked[w] EXCEPT !.left = @ \ {file}, !.failed = TRUE]
    <3>1. /\ task \in Promise!Task /\ task.field = job[w].field /\ task.val = job[w].val
          /\ task.left = job[w].left \ {file} /\ task.failed = TRUE
      <4>1. Asked[w].left \ {file} \in SUBSET File
        BY <1>1, <2>3 DEF Job
      <4> QED
        BY <2>2, <2>3, <4>1 DEF Promise!Task
    <3>2. Asked'[w].failed = TRUE
      BY <2>4 DEF Promise!Task
    <3> HIDE DEF task
    <3>3. Asked'[w] = task
      BY <2>4, <3>1, <3>2 DEF Promise!Task
    <3> QED
      BY <3>3 DEF task
  <2>6. Asked' = [Asked EXCEPT ![w].left = @ \ {file}, ![w].failed = TRUE]
    BY <1>0, <2>5, AskedOthers
  <2>7. Promise!Fail(w, file)
    BY <1>5, <2>2, <2>3, <2>6 DEF Promise!Fail
  <2> QED
    BY <2>7
<1>7. CASE ~Asks(w)
  <2>1. ~Asks(w)'
    BY <1>1, <1>4, <1>7 DEF Asks
  <2>2. Asked' = Asked
    BY <1>0, <1>7, <2>1, AskedKept DEF Asked
  <2> QED
    BY <1>5, <2>2 DEF Promise!Rest
<1> QED
  BY <1>6, <1>7

(* What is written to <name>.tmp is not yet said; a failing write spoils. *)
LEMMA TmpRests ==
  ASSUME TypeInv, AloneInv, CopyInv, Next, \A v \in Writer : ~Rename(v),
         NEW w \in Writer, OpenTmp(w) \/ WriteTmp(w)
  PROVE  Promise!Rest \/ \E k \in Key : Promise!Lose(k)
<1>0. Domains /\ Update(w)
  BY TypeParts DEF Update
<1>1. InFlight(w) /\ InFlight(w)' /\ job'[w] = job[w] /\ pc[w] # "idle" /\ pc'[w] # "idle"
  BY <1>0 DEF OpenTmp, WriteTmp, InFlight, Domains
<1>2. Mine(w) \in Key
  BY <1>1, OnAFile DEF TypeInv
<1>3. spoiled' = spoiled \/ spoiled' = spoiled \union {Mine(w)}
  BY DEF OpenTmp, WriteTmp, past, Mine
<1>4. Asked'[w] = Asked[w]
  BY <1>1 DEF Asked, Asks
<1>5. Asked' = Asked
  BY <1>0, <1>4, AskedKept
<1> QED
  BY <1>2, <1>3, <1>5, NotesKept DEF Promise!Rest, Promise!Lose

(* A rename is the annotation, on the fields as they are now. *)
LEMMA RenameSets ==
  ASSUME TypeInv, AloneInv, CopyInv, NEW w \in Writer, Rename(w)
  PROVE  Promise!Rest \/ \E file \in File : Promise!Set(w, file)
<1>0. Domains /\ WriterOK(w) /\ Update(w)
  BY TypeParts DEF Update
<1>1. /\ InFlight(w) /\ ~InFlight(w)' /\ job'[w] = job[w]
      /\ pc[w] # "idle" /\ pc'[w] # "idle" /\ job[w] \in Job
  BY <1>0 DEF Rename, InFlight, Domains, WriterOK
<1>2. job[w].file \in File /\ Mine(w) \in Key /\ job[w].file \notin job[w].left
  BY <1>1, OnAFile DEF TypeInv, CopyInv
<1> DEFINE k == KeyOf[job[w].file]
<1>3. k = Mine(w) /\ Said(k) \in [Field -> Stored]
  BY <1>2, SaidType, TypeParts DEF Mine
<1>4. Notes' = IF k \in spoiled THEN Notes
               ELSE [Notes EXCEPT ![k] = [Said(k) EXCEPT ![job[w].field] = job[w].val]]
  BY <1>3, NotesRenamed
<1>5. Notes[k] = IF k \in spoiled THEN Lost ELSE Said(k)
  BY <1>2, <1>3 DEF Notes
<1>6. CASE Asks(w)
  <2>1. /\ Asked[w] = [field |-> job[w].field, val |-> job[w].val, failed |-> job[w].errors,
                      left |-> job[w].left \union {job[w].file}]
        /\ Asked[w] \in Promise!Task
    BY <1>1, <1>6, AskedTask
  <2>2. Asked'[w] = [field |-> job[w].field, val |-> job[w].val, failed |-> job[w].errors,
                    left |-> job[w].left]
    <3>1. Asks(w)'
      BY <1>1, <1>6 DEF Asks
    <3>2. job'[w].left \union {} = job[w].left
      BY <1>1
    <3> QED
      BY <1>1, <3>1, <3>2 DEF Asked
  <2>3. Asked[w].left \ {job[w].file} = job[w].left
    BY <1>2, <2>1
  <2>4. Asked'[w] = [Asked[w] EXCEPT !.left = @ \ {job[w].file}]
    BY <2>1, <2>2, <2>3
  <2>5. Asked' = [Asked EXCEPT ![w].left = @ \ {job[w].file}]
    BY <1>0, <2>4, AskedOthers
  <2>6. \/ Notes[k] \in Promise!Body /\ Notes' = [Notes EXCEPT ![k][Asked[w].field] = Asked[w].val]
        \/ Notes[k] = Lost /\ UNCHANGED Notes
    <3>1. CASE k \in spoiled
      BY <1>4, <1>5, <3>1
    <3>2. CASE k \notin spoiled
      <4>1. Notes[k] \in Promise!Body
        BY <1>3, <1>5, <3>2 DEF Promise!Body
      <4>2. Notes' = [Notes EXCEPT ![k][Asked[w].field] = Asked[w].val]
        BY <1>4, <1>5, <2>1, <3>2
      <4> QED
        BY <4>1, <4>2
    <3> QED
      BY <3>1, <3>2
  <2>7. job[w].file \in Asked[w].left
    BY <2>1
  <2>8. Promise!Set(w, job[w].file)
    BY <2>1, <2>5, <2>6, <2>7 DEF Promise!Set
  <2> QED
    BY <1>2, <2>8
<1>7. CASE ~Asks(w)
  <2>1. ~Asks(w)' /\ job[w].val = Default
    BY <1>1, <1>7 DEF Asks
  <2>2. Asked' = Asked
    BY <1>0, <1>7, <2>1, AskedKept DEF Asked
  <2>3. CASE k \in spoiled
    BY <1>4, <2>2, <2>3 DEF Promise!Rest
  <2>4. CASE k \notin spoiled
    <3>1. Said(k)[job[w].field] = job[w].val
      BY <1>1, <1>3, <2>1, <2>4 DEF CopyInv
    <3>2. [Said(k) EXCEPT ![job[w].field] = job[w].val] = Notes[k]
      BY <1>3, <1>5, <2>4, <3>1
    <3>3. [Notes EXCEPT ![k] = Notes[k]] = Notes
      BY DEF Notes
    <3> QED
      BY <1>4, <2>2, <2>4, <3>2, <3>3 DEF Promise!Rest
  <2> QED
    BY <2>3, <2>4
<1> QED
  BY <1>6, <1>7

(* A command ends when it has done all its files, or is killed. *)
LEMMA EndsAnswer ==
  ASSUME TypeInv, AloneInv, CopyInv, Next, \A v \in Writer : ~Rename(v),
         NEW w \in Writer, Return(w) \/ CrashWriter(w)
  PROVE  Promise!Rest \/ Promise!Answer(w) \/ Promise!Die(w)
<1>0. Domains /\ Update(w)
  BY TypeParts DEF Update
<1>1. pc'[w] = "idle" /\ UNCHANGED spoiled
  BY <1>0 DEF Return, CrashWriter, Domains, past
<1>2. Asked'[w] = Nothing
  BY <1>1 DEF Asked, Asks
<1>3. Asked' = [Asked EXCEPT ![w] = Nothing] /\ Notes' = Notes
  BY <1>0, <1>1, <1>2, AskedOthers, NotesKept
<1>4. CASE CrashWriter(w)
  BY <1>3 DEF Promise!Die
<1>5. CASE Return(w) /\ Asks(w)
  <2>1. ~InFlight(w) /\ job[w].left \union {} = {}
    BY <1>5 DEF Return, InFlight
  <2>2. /\ Asked[w] \in Promise!Task
        /\ Asked[w].left = job[w].left \union (IF InFlight(w) THEN {job[w].file} ELSE {})
    BY <1>5, AskedTask
  <2>3. Asked[w].left = {}
    BY <2>1, <2>2
  <2> QED
    BY <1>3, <2>2, <2>3 DEF Promise!Answer
<1>6. CASE ~Asks(w)
  <2>1. Asked' = Asked
    BY <1>0, <1>2, <1>6, AskedKept DEF Asked
  <2> QED
    BY <1>3, <2>1 DEF Promise!Rest
<1> QED
  BY <1>4, <1>5, <1>6

(* Push says nothing and asks for nothing; the hand of the user spoils. *)
LEMMA ElsewhereRests ==
  ASSUME TypeInv, AloneInv, CopyInv, Next, \A v \in Writer : ~Rename(v),
         Push \/ \E k \in Key : BreakByHand(k)
  PROVE  Promise!Rest \/ \E k \in Key : Promise!Lose(k)
<1>1. Asked' = Asked
  <2>1. UNCHANGED <<pc, job>>
    BY ElsewhereStay DEF writers
  <2>2. \A v \in Writer : Asked'[v] = Asked[v]
    BY <2>1 DEF Asked, Asks, InFlight
  <2>3. Asked = [v \in Writer |-> Asked[v]] /\ Asked' = [v \in Writer |-> Asked'[v]]
    BY DEF Asked
  <2> QED
    BY <2>2, <2>3, Zenon
<1>2. spoiled' = spoiled \/ \E k \in Key : spoiled' = spoiled \union {k}
  BY DEF Push, PushStart, PushSwap, CrashPush, PushRead, PushReadFails, PushGone, PushFinds, BreakByHand, past
<1> QED
  BY <1>1, <1>2, NotesKept DEF Promise!Rest, Promise!Lose

LEMMA PromisedStep ==
  ASSUME WholeInv, CopyInv, [Next]_vars
  PROVE  Promise!Next
<1>0. TypeInv /\ AloneInv
  BY DEF WholeInv
<1>1. CASE UNCHANGED vars
  <2>1. UNCHANGED <<at, node, pc, job, spoiled>>
    BY <1>1 DEF vars, store, writers, past
  <2>2. UNCHANGED <<Notes, Asked>>
    BY <2>1 DEF Notes, Asked, Said, Whole, Present, Bytes, Asks, InFlight
  <2> QED
    BY <2>2 DEF Promise!Next, Promise!Rest
<1>2. ASSUME NEW w \in Writer, Rename(w)
      PROVE  Promise!Next
  BY <1>0, <1>2, RenameSets DEF Promise!Next
<1>3. CASE Next /\ \A w \in Writer : ~Rename(w)
  <2>1. ASSUME NEW w \in Writer, NEW S \in Folder, NEW o \in Offer, Annotate(w, S, o[1], o[2])
        PROVE  Promise!Next
    BY <1>0, <1>3, <2>1, AnnotateAsks DEF Promise!Next
  <2>2. ASSUME NEW w \in Writer, NEW file \in File, Begins(w, file)
        PROVE  Promise!Next
    BY <1>0, <1>3, <2>2, BeginRests, Constants DEF Promise!Next
  <2>3. ASSUME NEW w \in Writer, FileFails(w) \/ RenameFails(w)
        PROVE  Promise!Next
    BY <1>0, <1>3, <2>3, FailureFails DEF Promise!Next
  <2>4. ASSUME NEW w \in Writer, OpenTmp(w) \/ WriteTmp(w)
        PROVE  Promise!Next
    BY <1>0, <1>3, <2>4, TmpRests DEF Promise!Next
  <2>5. ASSUME NEW w \in Writer, Return(w) \/ CrashWriter(w)
        PROVE  Promise!Next
    BY <1>0, <1>3, <2>5, EndsAnswer DEF Promise!Next
  <2>6. CASE Push \/ \E k \in Key : BreakByHand(k)
    BY <1>0, <1>3, <2>6, ElsewhereRests DEF Promise!Next
  <2> QED
    BY <1>3, <2>1, <2>2, <2>3, <2>4, <2>5, <2>6 DEF Next, Update, Begins
<1> QED
  BY <1>1, <1>2, <1>3

LEMMA PromisedInit ==
  ASSUME Init
  PROVE  Promise!Init
<1>1. Notes = [k \in Key |-> [f \in Field |-> Default]]
  BY Constants DEF Init, Notes, Said, Whole, Present
<1>2. Asked = [w \in Writer |-> Nothing]
  BY DEF Init, Asked, Asks
<1> QED
  BY <1>1, <1>2 DEF Promise!Init

(* Whatever runs at the same time, fails or is killed, the memory is as good *)
(* as one in which each annotation of a file is made at once, on the fields  *)
(* as they are then, once in a command that returns 0, and in which nothing  *)
(* else changes a field (write_doc_atomic, apply_memory_recursive), of every *)
(* document but those AcknowledgedStays excepts.                             *)
THEOREM MemoryKeepsPromise == Spec => AnnotatesAtOnce
<1> DEFINE Inv == WholeInv /\ CopyInv
<1>1. Init => Inv /\ Promise!Init
  BY WholeInit, CopyInit, PromisedInit
<1>2. Inv /\ [Next]_vars => Inv'
  BY WholeStep, CopyStep
<1>3. Inv /\ [Next]_vars => [Promise!Next]_<<Notes, Asked>>
  BY PromisedStep
<1> QED
  BY <1>1, <1>2, <1>3, PTL DEF Spec, AnnotatesAtOnce, Promise!Spec

=============================================================================
