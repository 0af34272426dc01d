--------------------------- MODULE FileSyncProofs ---------------------------
(***************************************************************************)
(* Proofs about FileSync, for all files, handles, modes and bounds.        *)
(***************************************************************************)
EXTENDS FileSync, TLAPS

\* The three numbers that stand for answers and for an empty file.
LEMMA Codes == Offline \in Int /\ NoFile \in Int /\ Empty \in Nat
  BY DEF Offline, NoFile, Empty

\* What calloc hands to kivfs_open is a free handle.
LEMMA FreeHandleType == FreeHandle \in Handle /\ FreeHandle.pc = "free"
  BY Codes DEF FreeHandle, Handle, HandlePc, FetchPc

\* The initial states have the types of TypeOK.
LEMMA InitTypeOK == Init => TypeOK
<1> SUFFICES ASSUME Init PROVE TypeOK OBVIOUS
<1>1. SrvType BY DEF Init, SrvType, Empty
<1>2. RowType BY DEF Init, RowType, Row
<1>3. LocalType BY DEF Init, LocalType, Empty
<1>4. HndType BY FreeHandleType DEF Init, HndType
<1>5. SyncType BY DEF Init, SyncType, At, SyncPc
<1>6. OtherType BY BoundsAssumption DEF Init, OtherType
<1> QED BY <1>1, <1>2, <1>3, <1>4, <1>5, <1>6 DEF TypeOK

\* Updates of a row keep its type.
LEMMA RowUpdateType ==
  ASSUME NEW r \in Row \cup {NoRow}
  PROVE  /\ \A v \in Int : SetVersion(r, v) \in Row \cup {NoRow}
         /\ IncVersion(r) \in Row \cup {NoRow}
         /\ \A b \in BOOLEAN : SetModified(r, b) \in Row \cup {NoRow}
         /\ \A b \in BOOLEAN : SetCached(r, b) \in Row \cup {NoRow}
  BY DEF SetVersion, IncVersion, SetModified, SetCached, Row

\* Unlinking local copies keeps the type of the open files.
LEMMA OrphanType ==
  ASSUME HndType, NEW fs
  PROVE  /\ Orphan(hnd, fs) \in [Handles -> Handle]
         /\ \A h \in Handles : /\ Orphan(hnd, fs)[h].pc = hnd[h].pc
                               /\ Orphan(hnd, fs)[h].file = hnd[h].file
                               /\ Orphan(hnd, fs)[h].rfd = hnd[h].rfd
                               /\ Orphan(hnd, fs)[h].err = hnd[h].err
                               /\ Orphan(hnd, fs)[h].delayed = hnd[h].delayed
  BY DEF HndType, Orphan, Handle

\* Broken and closed connections change two fields of a handle.
LEMMA CutType ==
  ASSUME HndType, NEW D
  PROVE  /\ Cut(hnd, D) \in [Handles -> Handle]
         /\ \A h \in Handles : /\ Cut(hnd, D)[h].pc = hnd[h].pc
                               /\ Cut(hnd, D)[h].file = hnd[h].file
                               /\ Cut(hnd, D)[h].rfd = hnd[h].rfd
                               /\ Cut(hnd, D)[h].err = hnd[h].err
                               /\ Cut(hnd, D)[h].delayed = hnd[h].delayed
                               /\ Cut(hnd, D)[h].wr = hnd[h].wr
<1>1. hnd \in [Handles -> Handle] BY DEF HndType
<1>2. ASSUME NEW h \in Handles
      PROVE  /\ Cut(hnd, D)[h] \in Handle
             /\ Cut(hnd, D)[h].pc = hnd[h].pc /\ Cut(hnd, D)[h].file = hnd[h].file
             /\ Cut(hnd, D)[h].rfd = hnd[h].rfd /\ Cut(hnd, D)[h].err = hnd[h].err
             /\ Cut(hnd, D)[h].delayed = hnd[h].delayed /\ Cut(hnd, D)[h].wr = hnd[h].wr
  <2>1. Cut(hnd, D)[h] = IF h \in D THEN [hnd[h] EXCEPT !.sock = FALSE, !.dirty = FALSE] ELSE hnd[h]
    BY DEF Cut
  <2>2. hnd[h] \in Handle BY <1>1
  <2> QED BY <2>1, <2>2 DEF Handle
<1>3. Cut(hnd, D) = [h \in Handles |-> Cut(hnd, D)[h]] BY DEF Cut
<1> QED BY <1>2, <1>3

\* Putting a typed record in the place of one handle keeps the handles typed.
LEMMA PutType ==
  ASSUME HndType, NEW h \in Handles, NEW o \in Handle, o.pc # "free" => o.file \in Files,
         Put(h, o)
  PROVE  HndType'
  BY DEF HndType, Put

\* The same, when other handles lose their file name to an unlink.
LEMMA PutOrphanType ==
  ASSUME HndType, NEW h \in Handles, NEW o \in Handle, o.pc # "free" => o.file \in Files,
         NEW fs, hnd' = [Orphan(hnd, fs) EXCEPT ![h] = o]
  PROVE  HndType'
  BY OrphanType DEF HndType

\* kivfs_remote_file_info answers a number and leaves the rescuer well-typed.
LEMMA RemoteFileInfoType ==
  ASSUME SyncType, OtherType, SrvType, NEW f \in Files, NEW res, RemoteFileInfo(f, res)
  PROVE  res \in Int /\ SyncType' /\ connected' \in BOOLEAN
<1>1. res \in Int BY Codes DEF SrvType, RemoteFileInfo
<1>2. SyncType' BY DEF SyncType, RemoteFileInfo, LostConnection, SyncPc
<1>3. connected' \in BOOLEAN BY DEF OtherType, RemoteFileInfo, LostConnection
<1> QED BY <1>1, <1>2, <1>3

\* A handle in use is a record of type Handle that names a file.
LEMMA HandleInUse ==
  ASSUME HndType, NEW h \in Handles, hnd[h].pc # "free"
  PROVE  hnd[h] \in Handle /\ hnd[h].file \in Files
  BY DEF HndType

\* cache_get_version answers a number.
LEMMA LocalVerType ==
  ASSUME RowType, NEW f \in Files
  PROVE  LocalVer(f) \in Int
  BY DEF RowType, LocalVer, Row

\* A step of a fetch leaves what the handle has sent and how it will go on, and
\* takes at most the local files of others.
Fetches(h, o) ==
  /\ hnd[h].pc \in FetchPc /\ o.pc \in FetchPc
  /\ o \in Handle /\ o.file \in Files
  /\ o.wr = hnd[h].wr /\ o.err = hnd[h].err /\ o.rfd = hnd[h].rfd /\ o.delayed = hnd[h].delayed
  /\ Put(h, o) \/ \E fs : hnd' = [Orphan(hnd, fs) EXCEPT ![h] = o]
LEMMA FetchFrame ==
  ASSUME HndType, NEW h \in Handles, FetchStep(h)
  PROVE  \E o : Fetches(h, o)
<1>1. /\ hnd[h].pc \in FetchPc
      /\ hnd[h].pc \in FetchPc => hnd[h] \in Handle /\ hnd[h].file \in Files
  <2>1. hnd[h].pc \in FetchPc
    BY DEF FetchStep, FetchLocal, FetchContains, FetchEvict, FetchUncache, FetchCached, FetchPc
  <2>2. hnd[h].pc \in FetchPc => hnd[h].pc # "free" BY DEF FetchPc
  <2> QED BY <2>1, <2>2, HandleInUse
<1>2. ASSUME NEW pc \in FetchPc, NEW fd \in {"none", "live", "orphan"}, NEW v \in Files \cup {Missing},
             LET o == [hnd[h] EXCEPT !.pc = pc, !.fd = fd, !.victim = v]
             IN  Put(h, o) \/ \E fs : hnd' = [Orphan(hnd, fs) EXCEPT ![h] = o]
      PROVE  \E o : Fetches(h, o)
  <2> DEFINE o == [hnd[h] EXCEPT !.pc = pc, !.fd = fd, !.victim = v]
  <2>1. /\ o \in Handle /\ o.pc = pc /\ o.file \in Files
        /\ o.wr = hnd[h].wr /\ o.err = hnd[h].err /\ o.rfd = hnd[h].rfd /\ o.delayed = hnd[h].delayed
    BY <1>1 DEF Handle, HandlePc
  <2> HIDE DEF o
  <2>2. Fetches(h, o) BY <1>1, <1>2, <2>1 DEF Fetches, o
  <2> QED BY <2>2
<1>3. hnd[h].fd \in {"none", "live", "orphan"} /\ hnd[h].victim \in Files \cup {Missing}
  BY <1>1 DEF Handle
<1>4. {"asking", "evicting", "uncaching", "caching", "fetching"} \subseteq FetchPc BY DEF FetchPc
<1>5. CASE FetchLocal(h)
  <2>1. PICK fd \in {"none", "live"} : Put(h, [hnd[h] EXCEPT !.pc = "asking", !.fd = fd])
    BY <1>5 DEF FetchLocal
  <2>2. [hnd[h] EXCEPT !.pc = "asking", !.fd = fd] =
          [hnd[h] EXCEPT !.pc = "asking", !.fd = fd, !.victim = hnd[h].victim]
    BY <1>1 DEF Handle
  <2>3. Put(h, [hnd[h] EXCEPT !.pc = "asking", !.fd = fd, !.victim = hnd[h].victim])
    BY <2>1, <2>2 DEF Put
  <2> QED BY <1>2, <1>3, <1>4, <2>3
<1>6. CASE FetchContains(h)
  <2>1. PICK pc \in {"caching", "evicting"} : Put(h, [hnd[h] EXCEPT !.pc = pc])
    BY <1>6 DEF FetchContains
  <2>2. [hnd[h] EXCEPT !.pc = pc] =
          [hnd[h] EXCEPT !.pc = pc, !.fd = hnd[h].fd, !.victim = hnd[h].victim]
    BY <1>1 DEF Handle
  <2>3. Put(h, [hnd[h] EXCEPT !.pc = pc, !.fd = hnd[h].fd, !.victim = hnd[h].victim])
    BY <2>1, <2>2 DEF Put
  <2> QED BY <1>2, <1>3, <1>4, <2>3
<1>7. ASSUME NEW g \in Files, FetchEvict(h, g) PROVE \E o : Fetches(h, o)
  <2> DEFINE left == Orphan(hnd, {g})
  <2>1. hnd' = [left EXCEPT ![h] = [left[h] EXCEPT !.pc = "uncaching", !.victim = g]]
    BY <1>7 DEF FetchEvict
  <2>2. PICK fd \in {"none", "live", "orphan"} : left[h] = [hnd[h] EXCEPT !.fd = fd]
    <3>1. hnd[h] = [hnd[h] EXCEPT !.fd = hnd[h].fd] BY <1>1 DEF Handle
    <3>2. left[h] = hnd[h] \/ left[h] = [hnd[h] EXCEPT !.fd = "orphan"] BY DEF Orphan
    <3> QED BY <1>3, <3>1, <3>2
  <2> HIDE DEF left
  <2>3. [left[h] EXCEPT !.pc = "uncaching", !.victim = g] =
          [hnd[h] EXCEPT !.pc = "uncaching", !.fd = fd, !.victim = g]
    BY <1>1, <2>2 DEF Handle
  <2>4. hnd' = [left EXCEPT ![h] = [hnd[h] EXCEPT !.pc = "uncaching", !.fd = fd, !.victim = g]]
    BY <2>1, <2>3
  <2> QED BY <1>2, <1>4, <2>4 DEF left
<1>8. CASE FetchUncache(h)
  <2>1. Put(h, [hnd[h] EXCEPT !.pc = "evicting", !.victim = Missing]) BY <1>8 DEF FetchUncache
  <2>2. [hnd[h] EXCEPT !.pc = "evicting", !.victim = Missing] =
          [hnd[h] EXCEPT !.pc = "evicting", !.fd = hnd[h].fd, !.victim = Missing]
    BY <1>1 DEF Handle
  <2>3. Put(h, [hnd[h] EXCEPT !.pc = "evicting", !.fd = hnd[h].fd, !.victim = Missing])
    BY <2>1, <2>2 DEF Put
  <2> QED BY <1>2, <1>3, <1>4, <2>3
<1>9. CASE FetchCached(h)
  <2>1. Put(h, [hnd[h] EXCEPT !.pc = "fetching"]) BY <1>9 DEF FetchCached
  <2>2. [hnd[h] EXCEPT !.pc = "fetching"] =
          [hnd[h] EXCEPT !.pc = "fetching", !.fd = hnd[h].fd, !.victim = hnd[h].victim]
    BY <1>1 DEF Handle
  <2>3. Put(h, [hnd[h] EXCEPT !.pc = "fetching", !.fd = hnd[h].fd, !.victim = hnd[h].victim])
    BY <2>1, <2>2 DEF Put
  <2> QED BY <1>2, <1>3, <1>4, <2>3
<1> QED BY <1>5, <1>6, <1>7, <1>8, <1>9 DEF FetchStep

\* What else the steps of a fetch leave alone.
LEMMA FetchLeaves ==
  ASSUME NEW h \in Handles, FetchStep(h)
  PROVE  UNCHANGED <<srv, connected, mainSock, sync, tok, budget, wrote, sent>>
BY DEF FetchStep, FetchLocal, FetchContains, FetchEvict, FetchUncache, FetchCached

\* A step of a fetch changes the mark "cached" of one row at most.
LEMMA FetchMarks ==
  ASSUME NEW h \in Handles, FetchStep(h)
  PROVE  row' = row \/ \E f, b : b \in BOOLEAN /\ row' = [row EXCEPT ![f] = SetCached(@, b)]
BY DEF FetchStep, FetchLocal, FetchContains, FetchEvict, FetchUncache, FetchCached

\* The steps of kivfs_open keep every type.
LEMMA OpenType ==
  ASSUME TypeOK, NEW h \in Handles, OpenStep(h)
  PROVE  TypeOK'
<1> USE DEF TypeOK
<1>1. ASSUME NEW f \in Files, OpenWronly(h, f) PROVE TypeOK'
  <2> DEFINE o == [FreeHandle EXCEPT !.pc = "open", !.file = f, !.mode = "wronly",
                                     !.fd = IF local[f] = Missing THEN "none" ELSE "live",
                                     !.rfd = IF connected THEN "placeholder" ELSE "none",
                                     !.delayed = connected]
  <2>1. o \in Handle /\ o.file \in Files
    BY FreeHandleType DEF Handle, HandlePc, FetchPc, OtherType
  <2>2. Put(h, o) BY <1>1 DEF OpenWronly
  <2>3. HndType' BY <2>1, <2>2, PutType
  <2> QED BY <1>1, <2>3 DEF OpenWronly, SrvType, RowType, LocalType, SyncType, OtherType
<1>2. ASSUME NEW f \in Files, NEW m \in Modes, OpenInfo(h, f, m) PROVE TypeOK'
  <2> DEFINE o(res) ==
        [FreeHandle EXCEPT !.pc = "opening", !.file = f, !.mode = m, !.info = res]
  <2>1. PICK res : RemoteFileInfo(f, res) /\ Put(h, o(res))
    BY <1>2 DEF OpenInfo
  <2>2. res \in Int /\ SyncType' /\ connected' \in BOOLEAN
    BY <2>1, RemoteFileInfoType
  <2>3. o(res) \in Handle /\ o(res).file \in Files
    BY <2>2, ModesAssumption DEF FreeHandle, Handle, HandlePc, FetchPc, Offline, Empty
  <2>4. HndType' BY <2>1, <2>3, PutType
  <2> QED BY <1>2, <2>2, <2>4 DEF OpenInfo, SrvType, RowType, LocalType, OtherType
<1>3. CASE OpenGone(h)
  <2>1. HndType' BY <1>3, PutOrphanType, FreeHandleType DEF OpenGone
  <2>2. LocalType' /\ RowType'
    BY <1>3 DEF OpenGone, HndType, LocalType, RowType, RemoveLocal
  <2> QED BY <1>3, <2>1, <2>2 DEF OpenGone, SrvType, SyncType, OtherType
<1>4. CASE FetchRefused(h)
  <2> DEFINE o == [hnd[h] EXCEPT !.pc = "open", !.rfd = "real", !.info = Offline]
  <2>1. o \in Handle /\ o.file \in Files
    BY <1>4, HandleInUse, Codes DEF FetchRefused, Handle, HandlePc, FetchPc
  <2>2. Put(h, FreeHandle) \/ Put(h, o) BY <1>4 DEF FetchRefused
  <2>3. HndType' BY <2>1, <2>2, PutType, FreeHandleType
  <2> QED BY <1>4, <2>3 DEF FetchRefused, SrvType, RowType, LocalType, SyncType, OtherType
<1>5. CASE Fetch(h)
  <2>1. PICK pc \in {"creating", "reopening", "fetching"} :
           Put(h, [hnd[h] EXCEPT !.pc = pc, !.rfd = "real", !.sock = TRUE])
    BY <1>5 DEF Fetch
  <2> DEFINE o == [hnd[h] EXCEPT !.pc = pc, !.rfd = "real", !.sock = TRUE]
  <2>2. o \in Handle /\ o.file \in Files
    BY <1>5, HandleInUse DEF Fetch, Handle, HandlePc, FetchPc
  <2>3. HndType' BY <2>1, <2>2, PutType
  <2> QED BY <1>5, <2>3 DEF Fetch, SrvType, RowType, LocalType, SyncType, OtherType
<1>8. CASE FetchStep(h)
  <2>1. PICK o : Fetches(h, o) BY <1>8, FetchFrame
  <2>2. HndType' BY <2>1, PutType, PutOrphanType DEF Fetches
  <2>3. RowType'
    <3>1. \A f \in Files : \A b \in BOOLEAN : SetCached(row[f], b) \in Row \cup {NoRow}
      BY RowUpdateType DEF RowType
    <3> QED BY <1>8, <3>1, FetchMarks DEF RowType
  <2>4. LocalType'
    <3>1. \/ local' = local
          \/ \E f : local' = [local EXCEPT ![f] = Hole]
          \/ \E fs : local' = RemoveLocal(fs)
      BY <1>8 DEF FetchStep, FetchLocal, FetchContains, FetchEvict, FetchUncache, FetchCached
    <3> QED BY <3>1 DEF LocalType, RemoveLocal
  <2> QED BY <1>8, <2>2, <2>3, <2>4, FetchLeaves DEF SrvType, SyncType, OtherType
<1>6. CASE FetchUpdate(h)
  <2> DEFINE o == [hnd[h] EXCEPT !.pc = "open", !.info = Offline]
  <2>1. o \in Handle /\ o.file \in Files
    BY <1>6, HandleInUse, Codes DEF FetchUpdate, Handle, HandlePc, FetchPc
  <2>2. HndType' BY <1>6, <2>1, PutType DEF FetchUpdate
  <2>3. RowType'
    BY <1>6, RowUpdateType, HandleInUse DEF FetchUpdate, RowType, Handle
  <2> QED BY <1>6, <2>2, <2>3 DEF FetchUpdate, SrvType, LocalType, SyncType, OtherType
<1>7. CASE OpenLocal(h)
  <2> DEFINE o == [hnd[h] EXCEPT !.pc = "open", !.fd = "live", !.info = Offline]
  <2>1. o \in Handle /\ o.file \in Files
    BY <1>7, HandleInUse, Codes DEF OpenLocal, Handle, HandlePc, FetchPc
  <2>2. Put(h, FreeHandle) \/ Put(h, o) BY <1>7 DEF OpenLocal
  <2>3. HndType' BY <2>1, <2>2, PutType, FreeHandleType
  <2> QED BY <1>7, <2>3 DEF OpenLocal, SrvType, RowType, LocalType, SyncType, OtherType
<1> QED BY <1>1, <1>2, <1>3, <1>4, <1>5, <1>6, <1>7, <1>8 DEF OpenStep

\* What a write makes of a handle is a handle on the same file.
LEMMA HandleAfterType ==
  ASSUME NEW o \in Handle, NEW t \in Nat, NEW opened, NEW arrived, NEW acked
  PROVE  /\ HandleAfter(o, t, opened, arrived, acked) \in Handle
         /\ HandleAfter(o, t, opened, arrived, acked).file = o.file
<1> DEFINE pc  == IF o.fd = "none" THEN "open" ELSE "storing"
           d   == IF o.fd = "none" THEN Empty ELSE t
           rfd == RfdAfter(o, opened)
           sock == SockAfter(o, opened)
           err == o.err \/ (Sends(o, opened) /\ ~acked)
           wr  == (o.fd = "none") \/ o.wr
           delayed == o.delayed /\ opened # "ok"
           dirty == o.dirty \/ opened # "fail" \/ arrived
<1>1. pc \in HandlePc BY DEF HandlePc, FetchPc
<1>2. d \in Nat BY Codes
<1>3. rfd \in {"none", "placeholder", "real"} BY DEF RfdAfter, Handle
<1>4. /\ sock \in BOOLEAN /\ err \in BOOLEAN /\ wr \in BOOLEAN
      /\ delayed \in BOOLEAN /\ dirty \in BOOLEAN
  BY DEF SockAfter
<1> DEFINE o1 == [o EXCEPT !.pc = pc, !.data = d, !.rfd = rfd]
           o2 == [o1 EXCEPT !.sock = sock, !.err = err, !.wr = wr]
           o3 == [o2 EXCEPT !.delayed = delayed, !.dirty = dirty]
<1>5. HandleAfter(o, t, opened, arrived, acked) = o3 BY DEF HandleAfter
<1> HIDE DEF pc, d, rfd, sock, err, wr, delayed, dirty
<1>6. o1 \in Handle /\ o1.file = o.file BY <1>1, <1>2, <1>3 DEF Handle
<1> HIDE DEF o1
<1>7. o2 \in Handle /\ o2.file = o.file BY <1>4, <1>6 DEF Handle
<1> HIDE DEF o2
<1>8. o3 \in Handle /\ o3.file = o.file BY <1>4, <1>7 DEF Handle
<1> HIDE DEF o3
<1> QED BY <1>5, <1>8

\* The steps of kivfs_read and kivfs_write keep every type.
LEMMA UseType ==
  ASSUME TypeOK, NEW h \in Handles, UseStep(h)
  PROVE  TypeOK'
<1> USE DEF TypeOK
<1>1. CASE Read(h)
  <2>1. LocalType'
    BY <1>1, HandleInUse DEF Read, LocalType, SrvType
  <2> QED BY <1>1, <2>1 DEF Read, SrvType, RowType, HndType, SyncType, OtherType
<1>2. ASSUME NEW opened \in {"ok", "half", "fail"}, NEW arrived \in BOOLEAN,
             NEW acked \in BOOLEAN, WriteOutcome(h, opened, arrived, acked)
      PROVE  TypeOK'
  <2> DEFINE o == hnd[h]
             t == tok + 1
             n == HandleAfter(o, t, opened, arrived, acked)
  <2>1. o \in Handle /\ o.file \in Files /\ t \in Nat
    BY <1>2, HandleInUse DEF WriteOutcome, OtherType
  <2> HIDE DEF t, o
  <2>2. n \in Handle /\ n.file \in Files BY <2>1, HandleAfterType
  <2> USE DEF t, o
  <2>3. HndType' BY <1>2, <2>2, PutType DEF WriteOutcome
  <2>4. SrvType'
    <3>1. \A s \in [exists : BOOLEAN, ver : Nat, data : Nat \cup {Hole}] :
            ServerAfter(s, t, opened, arrived) \in [exists : BOOLEAN, ver : Nat, data : Nat \cup {Hole}]
      BY <2>1, Codes DEF ServerAfter, OpenedForWriting
    <3> QED BY <1>2, <2>1, <3>1 DEF SrvType, WriteOutcome
  <2>5. OtherType'
    <3>1. sent' \in [Handles -> SUBSET Nat] /\ wrote' \in [Handles -> SUBSET Nat]
      BY <1>2, <2>1 DEF OtherType, WriteOutcome
    <3> QED BY <1>2, <2>1, <3>1 DEF WriteOutcome, OtherType
  <2> QED BY <1>2, <2>3, <2>4, <2>5 DEF WriteOutcome, RowType, LocalType, SyncType
<1>3. CASE WriteLocal(h)
  <2> DEFINE o == [hnd[h] EXCEPT !.pc = "open", !.wr = TRUE, !.data = Empty]
  <2>1. o \in Handle /\ o.file \in Files
    BY <1>3, HandleInUse, Codes DEF WriteLocal, Handle, HandlePc, FetchPc
  <2>2. HndType' BY <1>3, <2>1, PutType DEF WriteLocal
  <2>3. LocalType'
    BY <1>3, HandleInUse DEF WriteLocal, LocalType, Handle
  <2> QED BY <1>3, <2>2, <2>3 DEF WriteLocal, SrvType, RowType, SyncType, OtherType
<1> QED BY <1>1, <1>2, <1>3 DEF UseStep, WriteRemote

\* The server's side of closing descriptors keeps the files typed.
LEMMA ClosedType ==
  ASSUME SrvType, NEW D
  PROVE  ClosedOnServer(srv, D) \in [Files -> [exists : BOOLEAN, ver : Nat, data : Nat \cup {Hole}]]
  BY DEF SrvType, ClosedOnServer

\* The steps of kivfs_release keep every type.
LEMMA ReleaseType ==
  ASSUME TypeOK, NEW h \in Handles, ReleaseStep(h)
  PROVE  TypeOK'
<1> USE DEF TypeOK
<1>1. CASE ReleaseClose(h)
  <2> DEFINE o == [hnd[h] EXCEPT !.pc = "closing", !.sock = FALSE, !.dirty = FALSE]
  <2>1. o \in Handle /\ o.file \in Files
    BY <1>1, HandleInUse DEF ReleaseClose, Handle, HandlePc, FetchPc
  <2>2. PICK D : hnd' = [Cut(hnd, D) EXCEPT ![h] = FreeHandle] \/ hnd' = [Cut(hnd, D) EXCEPT ![h] = o]
    BY <1>1 DEF ReleaseClose
  <2> HIDE DEF o
  <2>3. HndType' BY <2>1, <2>2, CutType, FreeHandleType DEF HndType
  <2>4. SrvType' BY <1>1, ClosedType DEF ReleaseClose, SrvType
  <2> QED BY <1>1, <2>3, <2>4 DEF ReleaseClose, RowType, LocalType, SyncType, OtherType
<1>2. CASE ReleaseStat(h)
  <2> DEFINE f == hnd[h].file
             o(v) == [hnd[h] EXCEPT !.pc = "saving", !.info = v]
  <2>1. f \in Files BY <1>2, HandleInUse DEF ReleaseStat
  <2>2. \A v \in Int : o(v) \in Handle /\ o(v).file \in Files
    BY <1>2, HandleInUse DEF ReleaseStat, Handle, HandlePc, FetchPc
  <2>3. LocalVer(f) \in Int BY <2>1, LocalVerType
  <2>4. HndType' /\ SyncType' /\ connected' \in BOOLEAN
    <3>1. CASE Put(h, o(LocalVer(f))) /\ UNCHANGED <<connected, sync>>
      <4>1. HndType' BY <3>1, <2>2, <2>3, PutType
      <4> QED BY <3>1, <4>1 DEF SyncType, OtherType
    <3>2. ASSUME NEW res, RemoteFileInfo(f, res),
                 Put(h, o(IF res \in Nat THEN res ELSE LocalVer(f)))
          PROVE  HndType' /\ SyncType' /\ connected' \in BOOLEAN
      <4>1. SyncType' /\ connected' \in BOOLEAN BY <2>1, <3>2, RemoteFileInfoType
      <4>2. (IF res \in Nat THEN res ELSE LocalVer(f)) \in Int BY <2>3
      <4>3. HndType' BY <3>2, <4>2, <2>2, PutType
      <4> QED BY <4>1, <4>3
    <3> QED BY <1>2, <3>1, <3>2 DEF ReleaseStat
  <2> QED BY <1>2, <2>4 DEF ReleaseStat, SrvType, RowType, LocalType, OtherType
<1>3. CASE ReleaseSave(h)
  <2> DEFINE o == [hnd[h] EXCEPT !.pc = "marking", !.info = Offline]
  <2>1. o \in Handle /\ o.file \in Files
    <3>1. hnd[h] \in Handle /\ hnd[h].file \in Files BY <1>3, HandleInUse DEF ReleaseSave
    <3> QED BY <3>1, Codes DEF Handle, HandlePc
  <2>2. HndType' BY <1>3, <2>1, PutType DEF ReleaseSave
  <2>3. RowType'
    BY <1>3, RowUpdateType, HandleInUse DEF ReleaseSave, RowType, Handle
  <2> QED BY <1>3, <2>2, <2>3 DEF ReleaseSave, SrvType, LocalType, SyncType, OtherType
<1>4. CASE ReleaseMark(h)
  <2>1. HndType' BY <1>4, PutType, FreeHandleType DEF ReleaseMark
  <2>2. RowType'
    BY <1>4, HandleInUse, RowUpdateType DEF ReleaseMark, RowType
  <2>3. OtherType' BY <1>4 DEF ReleaseMark, OtherType
  <2> QED BY <1>4, <2>1, <2>2, <2>3 DEF ReleaseMark, SrvType, LocalType, SyncType
<1> QED BY <1>1, <1>2, <1>3, <1>4 DEF ReleaseStep

\* The steps of the rescuer keep every type.
LEMMA RescuerType ==
  ASSUME TypeOK, RescuerStep
  PROVE  TypeOK'
<1> USE DEF TypeOK
<1>1. CASE Connect
  BY <1>1 DEF Connect, Rescuer, SrvType, RowType, LocalType, HndType, SyncType, SyncPc, OtherType
<1>2. CASE Login
  BY <1>2 DEF Login, At, SrvType, RowType, LocalType, HndType, SyncType, SyncPc, OtherType
<1>3. ASSUME NEW f \in Files, SyncPick(f) PROVE TypeOK'
  <2>1. SyncType' BY <1>3 DEF SyncPick, SyncType, SyncPc
  <2> QED BY <1>3, <2>1 DEF SyncPick, SrvType, RowType, LocalType, HndType, OtherType
<1>4. CASE SyncAbort
  <2>1. SyncType' BY <1>4 DEF SyncAbort, At, SyncType, SyncPc
  <2> QED BY <1>4, <2>1 DEF SyncAbort, SrvType, RowType, LocalType, HndType, OtherType
<1>5. CASE SyncDone
  <2>1. SyncType' BY <1>5 DEF SyncDone, At, SyncType, SyncPc
  <2> QED BY <1>5, <2>1 DEF SyncDone, SrvType, RowType, LocalType, HndType, OtherType
<1>6. CASE SyncOpen
  <2>1. SyncType' BY <1>6 DEF SyncOpen, Rescuer, SyncType, SyncPc
  <2>2. SrvType' BY <1>6, Codes DEF SyncOpen, SyncType, SrvType, OpenedForWriting
  <2> QED BY <1>6, <2>1, <2>2 DEF SyncOpen, RowType, LocalType, HndType, OtherType
<1>7. CASE SyncGone
  <2>1. SyncType' BY <1>7 DEF SyncGone, Rescuer, SyncType, SyncPc
  <2>2. RowType' BY <1>7 DEF SyncGone, RowType
  <2>3. LocalType' BY <1>7 DEF SyncGone, LocalType, RemoveLocal
  <2>4. HndType' BY <1>7, OrphanType DEF SyncGone, HndType
  <2> QED BY <1>7, <2>1, <2>2, <2>3, <2>4 DEF SyncGone, SrvType, OtherType
<1>8. CASE SyncSend
  <2>1. SyncType' BY <1>8 DEF SyncSend, Rescuer, SyncType, SyncPc
  <2>2. SrvType' BY <1>8 DEF SyncSend, SyncType, SrvType, LocalType
  <2> QED BY <1>8, <2>1, <2>2 DEF SyncSend, RowType, LocalType, HndType, OtherType
<1>9. CASE SyncClose
  <2>1. SyncType' BY <1>9 DEF SyncClose, Rescuer, SyncType, SyncPc
  <2>2. SrvType' BY <1>9 DEF SyncClose, SyncType, SrvType
  <2> QED BY <1>9, <2>1, <2>2 DEF SyncClose, RowType, LocalType, HndType, OtherType
<1>10. CASE SyncClear
  <2>1. SyncType' BY <1>10 DEF SyncClear, Rescuer, SyncType, SyncPc
  <2>2. RowType' BY <1>10, RowUpdateType DEF SyncClear, SyncType, RowType
  <2> QED BY <1>10, <2>1, <2>2 DEF SyncClear, SrvType, LocalType, HndType, OtherType
<1>11. CASE SyncBump
  <2>1. SyncType' BY <1>11 DEF SyncBump, Rescuer, SyncType, SyncPc
  <2>2. RowType' BY <1>11, RowUpdateType DEF SyncBump, SyncType, RowType
  <2> QED BY <1>11, <2>1, <2>2 DEF SyncBump, SrvType, LocalType, HndType, OtherType
<1>12. CASE SpuriousWakeup
  <2>1. SyncType' BY <1>12 DEF SpuriousWakeup, Rescuer, SyncType, SyncPc
  <2> QED BY <1>12, <2>1 DEF SpuriousWakeup, SrvType, RowType, LocalType, HndType, OtherType
<1> QED
  BY <1>1, <1>2, <1>3, <1>4, <1>5, <1>6, <1>7, <1>8, <1>9, <1>10, <1>11, <1>12 DEF RescuerStep

\* Spending what is left of a bound leaves a natural number.
LEMMA SpendType ==
  ASSUME NEW b \in [foreign : Nat, drops : Nat, crashes : Nat]
  PROVE  /\ b.drops > 0 => [b EXCEPT !.drops = @ - 1] \in [foreign : Nat, drops : Nat, crashes : Nat]
         /\ b.crashes > 0 => [b EXCEPT !.crashes = @ - 1] \in [foreign : Nat, drops : Nat, crashes : Nat]
  OBVIOUS

\* The network, other clients and a restart keep every type.
LEMMA SurroundingsType ==
  ASSUME TypeOK, Surroundings
  PROVE  TypeOK'
<1> USE DEF TypeOK
<1>1. ASSUME NEW D \in SUBSET Handles, NetDrop(D) PROVE TypeOK'
  <2>1. SrvType' BY <1>1, ClosedType DEF NetDrop, SrvType
  <2>2. HndType' BY <1>1, CutType DEF NetDrop, HndType
  <2>3. OtherType'
    <3>1. mainSock' \in BOOLEAN BY <1>1, Zenon DEF NetDrop, OtherType
    <3>2. budget' \in [foreign : Nat, drops : Nat, crashes : Nat]
      BY <1>1, SpendType DEF NetDrop, OtherType
    <3> QED BY <1>1, <3>1, <3>2 DEF NetDrop, OtherType
  <2> QED BY <1>1, <2>1, <2>2, <2>3 DEF NetDrop, RowType, LocalType, SyncType
<1>2. CASE Crash
  <2>1. SrvType' BY <1>2, ClosedType DEF Crash, SrvType
  <2>2. HndType' BY <1>2, FreeHandleType DEF Crash, HndType
  <2>3. OtherType' BY <1>2, SpendType DEF Crash, OtherType
  <2>4. SyncType' BY <1>2 DEF Crash, SyncType, At, SyncPc
  <2> QED BY <1>2, <2>1, <2>2, <2>3, <2>4 DEF Crash, RowType, LocalType
<1>3. ASSUME NEW f \in Files, ForeignWrite(f) PROVE TypeOK'
  <2>1. SrvType' BY <1>3 DEF ForeignWrite, SrvType, OtherType
  <2>2. OtherType' BY <1>3 DEF ForeignWrite, OtherType
  <2> QED BY <1>3, <2>1, <2>2 DEF ForeignWrite, RowType, LocalType, HndType, SyncType
<1>4. ASSUME NEW f \in Files, ForeignRemove(f) PROVE TypeOK'
  <2>1. SrvType' BY <1>4 DEF ForeignRemove, SrvType
  <2>2. OtherType' BY <1>4 DEF ForeignRemove, OtherType
  <2> QED BY <1>4, <2>1, <2>2 DEF ForeignRemove, RowType, LocalType, HndType, SyncType
<1> QED BY <1>1, <1>2, <1>3, <1>4 DEF Surroundings

\* Every step keeps every type.
LEMMA NextTypeOK == TypeOK /\ [Next]_vars => TypeOK'
<1> SUFFICES ASSUME TypeOK, [Next]_vars PROVE TypeOK' OBVIOUS
<1>1. ASSUME NEW f \in Files, Truncate(f) PROVE TypeOK'
  BY <1>1, Codes DEF Truncate, TypeOK, SrvType, RowType, LocalType, HndType, SyncType, OtherType
<1>2. CASE UNCHANGED vars
  BY <1>2 DEF vars, TypeOK, SrvType, RowType, LocalType, HndType, SyncType, OtherType
<1> QED
  BY <1>1, <1>2, OpenType, UseType, ReleaseType, RescuerType, SurroundingsType DEF Next

\* Every variable keeps its type in every reachable state.
THEOREM TypeCorrect == Spec => []TypeOK
  BY InitTypeOK, NextTypeOK, PTL DEF Spec
-----------------------------------------------------------------------------
(* The inductive invariant.  But for a write, a step leaves what the       *)
(* invariant says of a handle alone, or starts the handle afresh.          *)

Keeps(h) ==
    /\ wrote'[h] = wrote[h] /\ sent'[h] = sent[h]
    /\ hnd'[h].rfd = hnd[h].rfd
    /\ hnd'[h].err = hnd[h].err
    /\ hnd'[h].delayed = hnd[h].delayed
    /\ hnd'[h].pc \in Early => ~hnd'[h].wr
    /\ ~hnd'[h].wr /\ hnd'[h].pc # "storing" => ~hnd[h].wr /\ hnd[h].pc # "storing"
Afresh(h) ==
    /\ wrote'[h] = {} /\ sent'[h] = {} /\ ~hnd'[h].err
    /\ hnd'[h].delayed => hnd'[h].rfd # "none"
    /\ hnd'[h].pc \in Early => ~hnd'[h].wr

\* The handles of the initial state satisfy the invariant.
LEMMA InitInv == Init => Inv
<1> SUFFICES ASSUME Init PROVE Inv OBVIOUS
<1>1. TypeOK BY InitTypeOK
<1>2. \A h \in Handles : wrote[h] = {} /\ sent[h] = {} /\ hnd[h] = FreeHandle
  BY DEF Init
<1>3. ~FreeHandle.delayed /\ ~FreeHandle.wr /\ ~FreeHandle.err BY DEF FreeHandle
<1>4. WriteThrough /\ NoGap /\ Fresh BY <1>2 DEF WriteThrough, NoGap, Fresh
<1>5. Placeholders BY <1>2, <1>3 DEF Placeholders
<1>6. WriteFlag BY <1>2, <1>3 DEF WriteFlag
<1> QED BY <1>1, <1>4, <1>5, <1>6 DEF Inv

\* Steps that keep or restart every handle preserve the invariant.
LEMMA QuietStep ==
  ASSUME Inv, TypeOK', tok \in Nat, tok' \in Nat, tok <= tok',
         \A h \in Handles : Keeps(h) \/ Afresh(h)
  PROVE  Inv'
<1>1. WriteThrough' BY DEF Inv, WriteThrough, Keeps, Afresh
<1>2. NoGap' BY DEF Inv, NoGap, Keeps, Afresh
<1>3. Placeholders' BY DEF Inv, Placeholders, Keeps, Afresh
<1>4. WriteFlag' BY DEF Inv, WriteFlag, Keeps, Afresh
<1>5. Fresh'
  <2> SUFFICES ASSUME NEW h \in Handles, NEW t \in wrote'[h] \cup sent'[h] PROVE t <= tok'
    BY DEF Fresh
  <2>1. t \in wrote[h] \cup sent[h] BY DEF Keeps, Afresh
  <2>2. t <= tok /\ t \in Nat BY <2>1 DEF Inv, Fresh, TypeOK, OtherType
  <2> QED BY <2>2
<1> QED BY <1>1, <1>2, <1>3, <1>4, <1>5 DEF Inv

\* The fields of a handle after the remote half of a write.
LEMMA HandleAfterFields ==
  ASSUME NEW o \in Handle, NEW t, NEW opened, NEW arrived, NEW acked
  PROVE  LET n == HandleAfter(o, t, opened, arrived, acked) IN
         /\ n.pc = IF o.fd = "none" THEN "open" ELSE "storing"
         /\ n.rfd = RfdAfter(o, opened)
         /\ n.err <=> o.err \/ (Sends(o, opened) /\ ~acked)
         /\ n.wr <=> (o.fd = "none") \/ o.wr
         /\ n.delayed <=> o.delayed /\ opened # "ok"
<1> DEFINE n == HandleAfter(o, t, opened, arrived, acked)
           pc  == IF o.fd = "none" THEN "open" ELSE "storing"
           d   == IF o.fd = "none" THEN Empty ELSE t
           rfd == RfdAfter(o, opened)
           sock == SockAfter(o, opened)
           err == o.err \/ (Sends(o, opened) /\ ~acked)
           wr  == (o.fd = "none") \/ o.wr
           delayed == o.delayed /\ opened # "ok"
           dirty == o.dirty \/ opened # "fail" \/ arrived
           D   == DOMAIN o
<1>1. n = [o EXCEPT !.pc = pc, !.data = d, !.rfd = rfd, !.sock = sock, !.err = err,
                    !.wr = wr, !.delayed = delayed, !.dirty = dirty]
  BY DEF HandleAfter
<1>2. o = [x \in D |-> o[x]] /\ {"pc", "rfd", "err", "wr", "delayed"} \subseteq D
  BY DEF Handle
<1> HIDE DEF n, pc, d, rfd, sock, err, wr, delayed, dirty, D
<1>3. n.pc = pc /\ n.rfd = rfd /\ n.err = err /\ n.wr = wr /\ n.delayed = delayed
  BY <1>1, <1>2
<1> QED BY <1>3 DEF n, pc, rfd, err, wr, delayed

\* A write: it is stored in order, or the handle carries KIVFS_FLG_ERR.
LEMMA WriteInv ==
  ASSUME Inv, TypeOK', NEW h \in Handles,
         NEW opened \in {"ok", "half", "fail"}, NEW arrived \in BOOLEAN, NEW acked \in BOOLEAN,
         WriteOutcome(h, opened, arrived, acked)
  PROVE  Inv'
<1> DEFINE o == hnd[h]
           t == tok + 1
<1>1. /\ tok \in Nat /\ t \in Nat /\ tok' = t
      /\ wrote \in [Handles -> SUBSET Nat] /\ sent \in [Handles -> SUBSET Nat]
      /\ hnd \in [Handles -> Handle]
  BY DEF Inv, TypeOK, OtherType, HndType, WriteOutcome
<1>2. /\ hnd' = [hnd EXCEPT ![h] = HandleAfter(o, t, opened, arrived, acked)]
      /\ sent' = IF arrived THEN [sent EXCEPT ![h] = @ \cup {t}] ELSE sent
      /\ wrote' = IF acked \/ o.fd # "none" THEN [wrote EXCEPT ![h] = @ \cup {t}] ELSE wrote
  BY DEF WriteOutcome, Put
<1>3. /\ opened # "fail" => o.delayed /\ ~o.err
      /\ arrived => Sends(o, opened)
      /\ acked => arrived
      /\ o.pc = "open"
  BY DEF WriteOutcome
<1>4. /\ hnd'[h].pc \in {"open", "storing"}
      /\ hnd'[h].pc = "open" => hnd'[h].wr
      /\ hnd'[h].rfd = RfdAfter(o, opened)
      /\ hnd'[h].err <=> o.err \/ (Sends(o, opened) /\ ~acked)
      /\ hnd'[h].delayed => o.delayed
  <2>1. hnd'[h] = HandleAfter(o, t, opened, arrived, acked) /\ o \in Handle BY <1>1, <1>2
  <2> HIDE DEF o, t
  <2> QED BY <2>1, HandleAfterFields
<1>5. \A g \in Handles \ {h} : hnd'[g] = hnd[g] /\ wrote'[g] = wrote[g] /\ sent'[g] = sent[g]
  BY <1>1, <1>2
<1>6. /\ sent[h] \subseteq sent'[h] /\ sent'[h] \subseteq sent[h] \cup {t}
      /\ wrote[h] \subseteq wrote'[h] /\ wrote'[h] \subseteq wrote[h] \cup {t}
      /\ arrived <=> t \in sent'[h] \ sent[h]
  <2>1. t \notin sent[h] BY <1>1 DEF Inv, Fresh
  <2> QED BY <1>1, <1>2, <2>1
<1>7. hnd'[h].rfd = "none" <=> o.rfd = "none"
  BY <1>3, <1>4 DEF RfdAfter, Inv, Placeholders
<1>8. arrived => o.rfd # "none" /\ ~o.err /\ wrote[h] \subseteq sent[h]
  BY <1>3, <1>4, <1>7 DEF Sends, Inv, WriteThrough
<1>9. WriteThrough'
  <2>1. ASSUME hnd'[h].rfd # "none", ~hnd'[h].err PROVE wrote'[h] \subseteq sent'[h]
    <3>1. acked /\ ~o.err BY <2>1, <1>4 DEF Sends
    <3>2. wrote[h] \subseteq sent[h] BY <3>1, <1>3, <1>8
    <3> QED BY <3>1, <3>2, <1>3, <1>6
  <2> QED BY <2>1, <1>5 DEF Inv, WriteThrough
<1>10. NoGap'
  <2>1. ASSUME NEW x \in wrote'[h] \ sent'[h], NEW y \in sent'[h] PROVE y < x
    <3>1. CASE arrived BY <3>1, <1>6, <1>8, <2>1
    <3>2. CASE ~arrived
      <4>1. y \in sent[h] /\ y <= tok /\ y \in Nat
        BY <3>2, <1>1, <1>6, <2>1 DEF Inv, Fresh
      <4>2. CASE x = t BY <4>1, <4>2, <1>1
      <4>3. CASE x # t
        <5>1. x \in wrote[h] \ sent[h] BY <4>3, <1>6, <2>1
        <5> QED BY <5>1, <4>1 DEF Inv, NoGap
      <4> QED BY <4>2, <4>3
    <3> QED BY <3>1, <3>2
  <2> QED BY <2>1, <1>5 DEF Inv, NoGap
<1>11. Placeholders'
  <2>1. hnd'[h].delayed => hnd'[h].rfd # "none" BY <1>4, <1>7 DEF Inv, Placeholders
  <2>2. hnd'[h].rfd = "none" => sent'[h] = {}
    BY <1>6, <1>7, <1>8 DEF Inv, Placeholders
  <2> QED BY <2>1, <2>2, <1>5 DEF Inv, Placeholders
<1>12. WriteFlag' BY <1>4, <1>5 DEF Inv, WriteFlag, Early, FetchPc
<1>13. Fresh'
  <2> SUFFICES ASSUME NEW g \in Handles, NEW x \in wrote'[g] \cup sent'[g] PROVE x <= tok'
    BY DEF Fresh
  <2>1. x \in wrote[g] \cup sent[g] \/ x = t BY <1>5, <1>6
  <2>2. x \in wrote[g] \cup sent[g] => x \in Nat /\ x <= tok BY <1>1 DEF Inv, Fresh
  <2> QED BY <2>1, <2>2, <1>1
<1> HIDE DEF t, o
<1> QED BY <1>9, <1>10, <1>11, <1>12, <1>13 DEF Inv
-----------------------------------------------------------------------------
(* The other steps are quiet.                                               *)

Quiet == tok <= tok' /\ \A g \in Handles : Keeps(g) \/ Afresh(g)

\* b, the next value of a handle a, is still the same open file
Continues(a, b) ==
    /\ b.rfd = a.rfd /\ b.err = a.err /\ b.delayed = a.delayed
    /\ b.pc \in Early => ~b.wr
    /\ ~b.wr /\ b.pc # "storing" => ~a.wr /\ a.pc # "storing"
\* o, the next value of handle h, belongs to an open file that never wrote
Starts(h, o) ==
    /\ wrote[h] = {} /\ sent[h] = {} /\ ~o.err
    /\ o.delayed => o.rfd # "none"
    /\ o.pc \in Early => ~o.wr

\* A handle none of whose fields the invariant speaks of has changed.
LEMMA SameKeeps ==
  ASSUME Inv, NEW g \in Handles, wrote' = wrote, sent' = sent,
         hnd'[g].rfd = hnd[g].rfd, hnd'[g].err = hnd[g].err,
         hnd'[g].delayed = hnd[g].delayed, hnd'[g].pc = hnd[g].pc, hnd'[g].wr = hnd[g].wr
  PROVE  Keeps(g)
BY DEF Keeps, Inv, WriteFlag

\* A step that changes one handle is quiet when the handle continues or starts.
LEMMA PutQuiet ==
  ASSUME Inv, NEW h \in Handles, NEW o, Put(h, o), wrote' = wrote, sent' = sent, tok' = tok,
         Continues(hnd[h], o) \/ Starts(h, o)
  PROVE  Quiet
<1>1. hnd \in [Handles -> Handle] /\ tok \in Nat BY DEF Inv, TypeOK, HndType, OtherType
<1>2. hnd'[h] = o /\ \A g \in Handles \ {h} : hnd'[g] = hnd[g] BY <1>1 DEF Put
<1>3. Keeps(h) \/ Afresh(h) BY <1>2 DEF Keeps, Afresh, Continues, Starts
<1>4. \A g \in Handles \ {h} : Keeps(g) BY <1>2, SameKeeps
<1> QED BY <1>1, <1>3, <1>4 DEF Quiet

\* The same, when other handles lose their connection.
LEMMA CutQuiet ==
  ASSUME Inv, NEW h \in Handles, NEW o, NEW D, hnd' = [Cut(hnd, D) EXCEPT ![h] = o],
         wrote' = wrote, sent' = sent, tok' = tok, Continues(hnd[h], o) \/ Starts(h, o)
  PROVE  Quiet
<1>1. HndType /\ tok \in Nat BY DEF Inv, TypeOK, OtherType
<1>2. hnd'[h] = o /\ \A g \in Handles \ {h} : hnd'[g] = Cut(hnd, D)[g] BY <1>1, CutType
<1>3. Keeps(h) \/ Afresh(h) BY <1>2 DEF Keeps, Afresh, Continues, Starts
<1>4. \A g \in Handles \ {h} : Keeps(g) BY <1>1, <1>2, CutType, SameKeeps
<1> QED BY <1>1, <1>3, <1>4 DEF Quiet

\* A step that leaves the handles alone, or only unlinks their local files, is quiet.
LEMMA OrphanQuiet ==
  ASSUME Inv, wrote' = wrote, sent' = sent, tok \in Nat, tok' \in Nat, tok <= tok',
         hnd' = hnd \/ \E fs : hnd' = Orphan(hnd, fs)
  PROVE  Quiet
<1> SUFFICES ASSUME NEW g \in Handles PROVE Keeps(g) BY DEF Quiet
<1>1. hnd \in [Handles -> Handle] BY DEF Inv, TypeOK, HndType
<1>2. /\ hnd'[g].rfd = hnd[g].rfd /\ hnd'[g].err = hnd[g].err
      /\ hnd'[g].delayed = hnd[g].delayed /\ hnd'[g].pc = hnd[g].pc /\ hnd'[g].wr = hnd[g].wr
  BY <1>1 DEF Orphan, Handle
<1> QED BY <1>2, SameKeeps

\* What Inv says of one handle.
LEMMA HandleInv ==
  ASSUME Inv, NEW h \in Handles
  PROVE  /\ hnd[h] \in Handle /\ tok \in Nat
         /\ hnd[h].delayed => hnd[h].rfd # "none"
         /\ hnd[h].pc \in Early => ~hnd[h].wr
         /\ ~hnd[h].wr /\ hnd[h].pc # "storing" =>
              wrote[h] = {} /\ sent[h] = {} /\ ~hnd[h].err
BY DEF Inv, TypeOK, HndType, OtherType, Placeholders, WriteFlag

\* The steps of kivfs_open are quiet: the handle wrote nothing yet.
LEMMA OpenQuiet ==
  ASSUME Inv, NEW h \in Handles, OpenStep(h)
  PROVE  Quiet
<1>0. FreeHandle.pc = "free" /\ ~FreeHandle.delayed /\ ~FreeHandle.wr /\ ~FreeHandle.err BY DEF FreeHandle
<1>1. ASSUME NEW f \in Files, OpenWronly(h, f) PROVE Quiet
  <2> DEFINE o == [FreeHandle EXCEPT !.pc = "open", !.file = f, !.mode = "wronly",
                                     !.fd = IF local[f] = Missing THEN "none" ELSE "live",
                                     !.rfd = IF connected THEN "placeholder" ELSE "none",
                                     !.delayed = connected]
  <2>1. o.pc = "open" /\ ~o.err /\ (o.delayed => o.rfd # "none") BY DEF FreeHandle
  <2>2. Put(h, o) BY <1>1 DEF OpenWronly
  <2> HIDE DEF o
  <2>3. Starts(h, o) BY <1>1, <2>1, HandleInv DEF OpenWronly, Starts, Early, FetchPc
  <2> QED BY <1>1, <2>2, <2>3, PutQuiet DEF OpenWronly
<1>2. ASSUME NEW f \in Files, NEW m \in Modes, OpenInfo(h, f, m) PROVE Quiet
  <2>1. PICK res : Put(h, [FreeHandle EXCEPT !.pc = "opening", !.file = f, !.mode = m,
                                             !.info = res])
    BY <1>2 DEF OpenInfo
  <2> DEFINE o == [FreeHandle EXCEPT !.pc = "opening", !.file = f, !.mode = m, !.info = res]
  <2>2. o.pc = "opening" /\ ~o.delayed /\ ~o.wr /\ ~o.err BY DEF FreeHandle
  <2> HIDE DEF o
  <2>3. Starts(h, o) BY <1>2, <2>2, HandleInv DEF OpenInfo, Starts, Early, FetchPc
  <2> QED BY <1>2, <2>1, <2>3, PutQuiet DEF OpenInfo, o
<1>3. CASE OpenGone(h)
  <2> DEFINE H == Orphan(hnd, {hnd[h].file})
  <2>1. hnd' = [H EXCEPT ![h] = FreeHandle] /\ wrote' = wrote /\ sent' = sent /\ tok' = tok
    BY <1>3 DEF OpenGone
  <2>2. hnd'[h] = FreeHandle /\ \A g \in Handles \ {h} : hnd'[g] = H[g]
    BY <2>1 DEF Orphan
  <2>3. wrote[h] = {} /\ sent[h] = {} BY <1>3, HandleInv DEF OpenGone, Early, FetchPc
  <2>4. Afresh(h) BY <1>0, <2>1, <2>2, <2>3 DEF Afresh
  <2>5. ASSUME NEW g \in Handles \ {h} PROVE Keeps(g)
    <3>1. hnd[g] \in Handle BY HandleInv
    <3>2. /\ H[g].rfd = hnd[g].rfd /\ H[g].err = hnd[g].err
          /\ H[g].delayed = hnd[g].delayed /\ H[g].pc = hnd[g].pc /\ H[g].wr = hnd[g].wr
      BY <3>1 DEF Orphan, Handle
    <3> QED BY <2>1, <2>2, <3>2, SameKeeps
  <2>6. tok <= tok' BY <2>1, HandleInv
  <2> QED BY <2>4, <2>5, <2>6 DEF Quiet
<1>4. CASE FetchRefused(h)
  <2> DEFINE o == [hnd[h] EXCEPT !.pc = "open", !.rfd = "real", !.info = Offline]
  <2>2. hnd[h].pc = "opening" BY <1>4 DEF FetchRefused
  <2>3. wrote[h] = {} /\ sent[h] = {} /\ ~hnd[h].err BY <2>2, HandleInv DEF Early, FetchPc
  <2>1. o.pc = "open" /\ o.rfd = "real" /\ ~o.err BY <2>3, HandleInv DEF Handle
  <2> HIDE DEF o
  <2>4. Starts(h, FreeHandle) /\ Starts(h, o) BY <1>0, <2>1, <2>3 DEF Starts, Early, FetchPc
  <2>5. Put(h, FreeHandle) \/ Put(h, o) BY <1>4 DEF FetchRefused, o
  <2> QED BY <1>4, <2>4, <2>5, PutQuiet DEF FetchRefused
<1>5. CASE Fetch(h)
  <2>1. hnd[h].pc = "opening" BY <1>5 DEF Fetch
  <2>2. wrote[h] = {} /\ sent[h] = {} /\ ~hnd[h].wr /\ ~hnd[h].err
    BY <2>1, HandleInv DEF Early, FetchPc
  <2>3. PICK pc \in FetchPc : Put(h, [hnd[h] EXCEPT !.pc = pc, !.rfd = "real", !.sock = TRUE])
    BY <1>5 DEF Fetch, FetchPc
  <2> DEFINE o == [hnd[h] EXCEPT !.pc = pc, !.rfd = "real", !.sock = TRUE]
  <2>4. o.pc \in Early /\ o.rfd = "real" /\ ~o.wr /\ ~o.err BY <2>2, HandleInv DEF Handle, Early
  <2> HIDE DEF o
  <2>5. Starts(h, o) BY <2>2, <2>4 DEF Starts
  <2> QED BY <1>5, <2>3, <2>5, PutQuiet DEF Fetch, o
<1>8. CASE FetchStep(h)
  <2>1. PICK o : Fetches(h, o) BY <1>8, FetchFrame DEF Inv, TypeOK
  <2>2. wrote[h] = {} /\ sent[h] = {} /\ ~hnd[h].wr /\ ~hnd[h].err
    BY <2>1, HandleInv DEF Fetches, Early, FetchPc
  <2>3. o.pc \in Early /\ ~o.wr /\ ~o.err /\ (o.delayed => o.rfd # "none")
    BY <2>1, <2>2, HandleInv DEF Fetches, Early
  <2>4. wrote' = wrote /\ sent' = sent /\ tok' = tok BY <1>8, FetchLeaves
  <2>5. CASE Put(h, o)
    <3>1. Starts(h, o) BY <2>2, <2>3 DEF Starts
    <3> QED BY <2>4, <2>5, <3>1, PutQuiet
  <2>6. ASSUME NEW fs, hnd' = [Orphan(hnd, fs) EXCEPT ![h] = o] PROVE Quiet
    <3>1. hnd'[h] = o /\ \A g \in Handles \ {h} : hnd'[g] = Orphan(hnd, fs)[g]
      BY <2>6 DEF Orphan
    <3>2. Afresh(h) BY <2>2, <2>3, <2>4, <3>1 DEF Afresh
    <3>3. ASSUME NEW g \in Handles \ {h} PROVE Keeps(g)
      <4>1. hnd[g] \in Handle BY HandleInv
      <4>2. /\ hnd'[g].rfd = hnd[g].rfd /\ hnd'[g].err = hnd[g].err
            /\ hnd'[g].delayed = hnd[g].delayed /\ hnd'[g].pc = hnd[g].pc
            /\ hnd'[g].wr = hnd[g].wr
        BY <3>1, <4>1 DEF Orphan, Handle
      <4> QED BY <2>4, <4>2, SameKeeps
    <3>4. tok <= tok' BY <2>4, HandleInv
    <3> QED BY <3>2, <3>3, <3>4 DEF Quiet
  <2> QED BY <2>1, <2>5, <2>6 DEF Fetches
<1>6. CASE FetchUpdate(h)
  <2> DEFINE o == [hnd[h] EXCEPT !.pc = "open", !.info = Offline]
  <2>1. Continues(hnd[h], o) \/ Starts(h, o)
    BY <1>6, HandleInv DEF FetchUpdate, Continues, Starts, Early, FetchPc, Handle
  <2> HIDE DEF o
  <2>2. Put(h, o) BY <1>6 DEF FetchUpdate, o
  <2> QED BY <1>6, <2>1, <2>2, PutQuiet DEF FetchUpdate
<1>7. CASE OpenLocal(h)
  <2> DEFINE o == [hnd[h] EXCEPT !.pc = "open", !.fd = "live", !.info = Offline]
  <2>1. hnd[h].pc = "opening" BY <1>7 DEF OpenLocal
  <2>2. wrote[h] = {} /\ sent[h] = {} /\ ~hnd[h].err BY <2>1, HandleInv DEF Early, FetchPc
  <2>3. o.pc = "open" /\ ~o.err /\ (o.delayed => o.rfd # "none")
    BY <2>2, HandleInv DEF Handle
  <2> HIDE DEF o
  <2>4. Starts(h, o) /\ Starts(h, FreeHandle) BY <1>0, <2>2, <2>3 DEF Starts, Early, FetchPc
  <2>5. Put(h, o) \/ Put(h, FreeHandle) BY <1>7 DEF OpenLocal, o
  <2> QED BY <1>7, <2>4, <2>5, PutQuiet DEF OpenLocal
<1> QED BY <1>1, <1>2, <1>3, <1>4, <1>5, <1>6, <1>7, <1>8 DEF OpenStep

\* A read and the local half of a write are quiet.
LEMMA UseQuiet ==
  ASSUME Inv, NEW h \in Handles, Read(h) \/ WriteLocal(h)
  PROVE  Quiet
<1>1. CASE Read(h)
  <2>1. tok \in Nat BY HandleInv
  <2> QED BY <1>1, <2>1, OrphanQuiet DEF Read
<1>2. CASE WriteLocal(h)
  <2> DEFINE o == [hnd[h] EXCEPT !.pc = "open", !.wr = TRUE, !.data = Empty]
  <2>1. Continues(hnd[h], o) BY HandleInv DEF Continues, Early, FetchPc, Handle
  <2> HIDE DEF o
  <2>2. Put(h, o) BY <1>2 DEF WriteLocal, o
  <2> QED BY <1>2, <2>1, <2>2, PutQuiet DEF WriteLocal
<1> QED BY <1>1, <1>2

\* The steps of kivfs_release are quiet: the structure is freed by a handle
\* that wrote nothing, or with its history.
LEMMA ReleaseQuiet ==
  ASSUME Inv, NEW h \in Handles, ReleaseStep(h)
  PROVE  Quiet
<1>0. FreeHandle.pc = "free" /\ ~FreeHandle.delayed /\ ~FreeHandle.wr /\ ~FreeHandle.err BY DEF FreeHandle
<1>1. CASE ReleaseClose(h)
  <2> DEFINE o == [hnd[h] EXCEPT !.pc = "closing", !.sock = FALSE, !.dirty = FALSE]
  <2>1. CASE hnd[h].wr
    <3>1. Continues(hnd[h], o) BY <2>1, HandleInv DEF Continues, Early, FetchPc, Handle
    <3> HIDE DEF o
    <3>2. \E D : hnd' = [Cut(hnd, D) EXCEPT ![h] = o] BY <1>1, <2>1 DEF ReleaseClose, o
    <3> QED BY <1>1, <3>1, <3>2, CutQuiet DEF ReleaseClose
  <2>2. CASE ~hnd[h].wr
    <3>1. hnd[h].pc = "open" /\ \E D : hnd' = [Cut(hnd, D) EXCEPT ![h] = FreeHandle]
      BY <1>1, <2>2 DEF ReleaseClose
    <3>2. Starts(h, FreeHandle) BY <1>0, <2>2, <3>1, HandleInv DEF Starts
    <3> QED BY <1>1, <3>1, <3>2, CutQuiet DEF ReleaseClose
  <2> QED BY <2>1, <2>2
<1>2. CASE ReleaseStat(h)
  <2>1. PICK i : Put(h, [hnd[h] EXCEPT !.pc = "saving", !.info = i])
    BY <1>2 DEF ReleaseStat
  <2> DEFINE o == [hnd[h] EXCEPT !.pc = "saving", !.info = i]
  <2>2. hnd[h].pc = "closing" BY <1>2 DEF ReleaseStat
  <2>3. Continues(hnd[h], o) BY <2>2, HandleInv DEF Continues, Early, FetchPc, Handle
  <2> HIDE DEF o
  <2> QED BY <1>2, <2>1, <2>3, PutQuiet DEF ReleaseStat, o
<1>3. CASE ReleaseSave(h)
  <2> DEFINE o == [hnd[h] EXCEPT !.pc = "marking", !.info = Offline]
  <2>1. hnd[h].pc = "saving" BY <1>3 DEF ReleaseSave
  <2>2. Continues(hnd[h], o) BY <2>1, HandleInv DEF Continues, Early, FetchPc, Handle
  <2> HIDE DEF o
  <2>3. Put(h, o) BY <1>3 DEF ReleaseSave, o
  <2> QED BY <1>3, <2>2, <2>3, PutQuiet DEF ReleaseSave
<1>4. CASE ReleaseMark(h)
  <2>1. /\ hnd \in [Handles -> Handle] /\ wrote \in [Handles -> SUBSET Nat]
        /\ sent \in [Handles -> SUBSET Nat] /\ tok \in Nat
    BY DEF Inv, TypeOK, HndType, OtherType
  <2>2. /\ hnd' = [hnd EXCEPT ![h] = FreeHandle] /\ tok' = tok
        /\ wrote' = [wrote EXCEPT ![h] = {}] /\ sent' = [sent EXCEPT ![h] = {}]
    BY <1>4 DEF ReleaseMark, Put
  <2>3. Afresh(h) BY <1>0, <2>1, <2>2 DEF Afresh
  <2>4. ASSUME NEW g \in Handles \ {h} PROVE Keeps(g)
    <3>1. hnd'[g] = hnd[g] /\ wrote'[g] = wrote[g] /\ sent'[g] = sent[g] BY <2>1, <2>2
    <3> QED BY <3>1, HandleInv DEF Keeps
  <2> QED BY <2>1, <2>2, <2>3, <2>4 DEF Quiet
<1> QED BY <1>1, <1>2, <1>3, <1>4 DEF ReleaseStep

\* The rescuer touches a handle only through the local copies it unlinks.
LEMMA RescuerQuiet ==
  ASSUME Inv, RescuerStep
  PROVE  Quiet
<1>1. tok \in Nat BY DEF Inv, TypeOK, OtherType
<1>2. wrote' = wrote /\ sent' = sent /\ tok' = tok /\ (hnd' = hnd \/ \E fs : hnd' = Orphan(hnd, fs))
  <2>1. CASE SyncGone BY <2>1 DEF SyncGone
  <2>2. CASE Connect \/ Login \/ SyncAbort \/ SyncDone \/ \E f \in Files : SyncPick(f)
    BY <2>2 DEF Connect, Login, SyncAbort, SyncDone, SyncPick
  <2>3. CASE SyncOpen \/ SyncSend \/ SyncClose \/ SyncClear \/ SyncBump \/ SpuriousWakeup
    BY <2>3 DEF SyncOpen, SyncSend, SyncClose, SyncClear, SyncBump, SpuriousWakeup
  <2> QED BY <2>1, <2>2, <2>3 DEF RescuerStep
<1> QED BY <1>1, <1>2, OrphanQuiet

\* Failures of the network and other clients leave the flags of a handle alone;
\* a restart frees them all.
LEMMA SurroundingsQuiet ==
  ASSUME Inv, Surroundings
  PROVE  Quiet
<1>1. tok \in Nat /\ hnd \in [Handles -> Handle] BY DEF Inv, TypeOK, HndType, OtherType
<1>2. ASSUME NEW D \in SUBSET Handles, NetDrop(D) PROVE Quiet
  <2>1. ASSUME NEW g \in Handles PROVE Keeps(g)
    <3>1. hnd' = Cut(hnd, D) BY <1>2 DEF NetDrop
    <3>2. /\ hnd'[g].rfd = hnd[g].rfd /\ hnd'[g].err = hnd[g].err
          /\ hnd'[g].delayed = hnd[g].delayed /\ hnd'[g].pc = hnd[g].pc
          /\ hnd'[g].wr = hnd[g].wr
      BY <3>1, CutType DEF Inv, TypeOK
    <3> QED BY <1>2, <3>2, SameKeeps DEF NetDrop
  <2>2. tok' = tok BY <1>2 DEF NetDrop
  <2> QED BY <1>1, <2>1, <2>2 DEF Quiet
<1>3. CASE Crash
  <2>1. ~FreeHandle.delayed /\ ~FreeHandle.wr /\ ~FreeHandle.err BY DEF FreeHandle
  <2>2. \A g \in Handles : Afresh(g) BY <1>3, <2>1 DEF Crash, Afresh
  <2> QED BY <1>1, <1>3, <2>2 DEF Crash, Quiet
<1>4. ASSUME NEW f \in Files, ForeignWrite(f) \/ ForeignRemove(f) PROVE Quiet
  <2>1. /\ wrote' = wrote /\ sent' = sent /\ hnd' = hnd /\ (tok' = tok \/ tok' = tok + 1)
    BY <1>4 DEF ForeignWrite, ForeignRemove
  <2>2. tok' \in Nat /\ tok <= tok'
    BY <1>1, <2>1
  <2> QED BY <1>1, <2>1, <2>2, OrphanQuiet
<1> QED BY <1>2, <1>3, <1>4 DEF Surroundings

\* Every step preserves the inductive invariant.
LEMMA NextInv == Inv /\ [Next]_vars => Inv'
<1> SUFFICES ASSUME Inv, [Next]_vars PROVE Inv' OBVIOUS
<1>1. TypeOK' BY NextTypeOK DEF Inv
<1>2. tok \in Nat /\ tok' \in Nat BY <1>1 DEF Inv, TypeOK, OtherType
<1>3. CASE Quiet BY <1>1, <1>2, <1>3, QuietStep DEF Quiet
<1>4. CASE UNCHANGED vars
  <2>1. wrote' = wrote /\ sent' = sent /\ hnd' = hnd /\ tok' = tok BY <1>4 DEF vars
  <2> QED BY <1>2, <1>3, <2>1, OrphanQuiet
<1>5. ASSUME NEW h \in Handles, OpenStep(h) \/ UseStep(h) \/ ReleaseStep(h) PROVE Inv'
  <2>1. CASE WriteRemote(h) BY <1>1, <2>1, WriteInv DEF WriteRemote
  <2>2. CASE ~WriteRemote(h)
    BY <1>3, <1>5, <2>2, OpenQuiet, UseQuiet, ReleaseQuiet DEF UseStep
  <2> QED BY <2>1, <2>2
<1>6. ASSUME NEW f \in Files, Truncate(f) PROVE Inv'
  <2>1. Quiet BY <1>2, <1>6, OrphanQuiet DEF Truncate
  <2> QED BY <1>3, <2>1
<1> QED BY <1>3, <1>4, <1>5, <1>6, RescuerQuiet, SurroundingsQuiet DEF Next

\* The inductive invariant of the file life cycle holds in every reachable state.
THEOREM InvCorrect == Spec => []Inv
  BY InitInv, NextInv, PTL DEF Spec

\* No handle that looks healthy to kivfs_release hides a write the server lacks.
THEOREM WriteThroughHolds == Spec => []WriteThrough
<1>1. Inv => WriteThrough BY DEF Inv
<1> QED BY <1>1, InvCorrect, PTL

\* The server's copy never has a gap between the writes of one handle.
THEOREM NoGapHolds == Spec => []NoGap
<1>1. Inv => NoGap BY DEF Inv
<1> QED BY <1>1, InvCorrect, PTL

\* A step of one open file moves another to no other step of its handlers.
LEMMA OthersStay ==
  ASSUME Inv, NEW g \in Handles, NEW h \in Handles \ {g},
         OpenStep(g) \/ UseStep(g) \/ ReleaseStep(g)
  PROVE  hnd'[h].pc = hnd[h].pc
<1>1. \/ hnd' = hnd
      \/ \E o : hnd' = [hnd EXCEPT ![g] = o]
      \/ \E o, fs : hnd' = [Orphan(hnd, fs) EXCEPT ![g] = o]
      \/ \E o, D : hnd' = [Cut(hnd, D) EXCEPT ![g] = o]
  <2>1. CASE OpenGone(g) BY <2>1 DEF OpenGone
  <2>2. CASE Fetch(g) BY <2>2 DEF Fetch, Put
  <2>3. ASSUME NEW f \in Files, OpenWronly(g, f) \/ \E m \in Modes : OpenInfo(g, f, m)
        PROVE  \E o : hnd' = [hnd EXCEPT ![g] = o]
    BY <2>3 DEF OpenWronly, OpenInfo, Put
  <2>4. CASE FetchRefused(g) \/ FetchUpdate(g) \/ OpenLocal(g)
    BY <2>4 DEF FetchRefused, FetchUpdate, OpenLocal, Put
  <2>5. CASE Read(g) \/ WriteRemote(g) \/ WriteLocal(g)
    BY <2>5 DEF Read, WriteRemote, WriteOutcome, WriteLocal, Put
  <2>6. CASE ReleaseStep(g)
    BY <2>6 DEF ReleaseStep, ReleaseClose, ReleaseStat, ReleaseSave, ReleaseMark, Put
  <2>7. CASE FetchStep(g) BY <2>7, FetchFrame DEF Fetches, Put, Inv, TypeOK
  <2> QED BY <2>1, <2>2, <2>3, <2>4, <2>5, <2>6, <2>7 DEF OpenStep, UseStep
<1>2. hnd[h] \in Handle /\ hnd \in [Handles -> Handle] BY HandleInv DEF Inv, TypeOK, HndType
<1>3. ASSUME NEW o, hnd' = [hnd EXCEPT ![g] = o] PROVE hnd'[h] = hnd[h] BY <1>2, <1>3
<1>4. ASSUME NEW o, NEW fs, hnd' = [Orphan(hnd, fs) EXCEPT ![g] = o]
      PROVE  hnd'[h].pc = hnd[h].pc
  <2>1. hnd'[h] = Orphan(hnd, fs)[h] BY <1>4 DEF Orphan
  <2>2. Orphan(hnd, fs)[h].pc = hnd[h].pc BY <1>2 DEF Orphan, Handle
  <2> QED BY <2>1, <2>2
<1>5. ASSUME NEW o, NEW D, hnd' = [Cut(hnd, D) EXCEPT ![g] = o] PROVE hnd'[h].pc = hnd[h].pc
  <2>1. HndType BY DEF Inv, TypeOK
  <2> QED BY <1>5, <2>1, CutType
<1> QED BY <1>1, <1>3, <1>4, <1>5

\* Only the last step of kivfs_release, or a restart, ends the release of a handle.
LEMMA OnlyMarkReleases ==
  ASSUME Inv, Next, NEW h \in Handles, Releasing(h)
  PROVE  ReleaseMark(h)
<1> SUFFICES ASSUME ~ReleaseMark(h) PROVE hnd'[h].pc = hnd[h].pc BY DEF Releasing
<1>1. hnd[h].pc = "marking" /\ budget' = budget /\ hnd \in [Handles -> Handle]
  BY DEF Releasing, Inv, TypeOK, HndType
<1>2. ASSUME NEW g \in Handles, OpenStep(g) \/ UseStep(g) \/ ReleaseStep(g)
      PROVE  hnd'[h].pc = hnd[h].pc
  <2>1. CASE g # h BY <1>2, <2>1, OthersStay
  <2>2. CASE g = h
    <3>1. ~OpenStep(h)
      BY <1>1 DEF OpenStep, OpenWronly, OpenInfo, OpenGone, FetchRefused, Fetch,
                  FetchUpdate, OpenLocal, FetchStep, FetchLocal, FetchContains,
                  FetchEvict, FetchUncache, FetchCached
    <3>2. ~UseStep(h) BY <1>1 DEF UseStep, Read, WriteRemote, WriteOutcome, WriteLocal
    <3>3. ~ReleaseStep(h) BY <1>1 DEF ReleaseStep, ReleaseClose, ReleaseStat, ReleaseSave
    <3> QED BY <1>2, <2>2, <3>1, <3>2, <3>3
  <2> QED BY <2>1, <2>2
<1>3. ASSUME NEW f \in Files, Truncate(f) PROVE hnd'[h].pc = hnd[h].pc
  BY <1>3 DEF Truncate
<1>4. ASSUME RescuerStep PROVE hnd'[h].pc = hnd[h].pc
  <2>1. CASE SyncGone
    <3>1. hnd' = hnd \/ hnd' = Orphan(hnd, {sync.file}) BY <2>1 DEF SyncGone
    <3> QED BY <3>1, HandleInv DEF Orphan, Handle
  <2>2. CASE ~SyncGone
    <3>1. hnd' = hnd
      BY <1>4, <2>2 DEF RescuerStep, Connect, Login, SyncAbort, SyncDone, SyncPick,
           SyncOpen, SyncSend, SyncClose, SyncClear, SyncBump, SpuriousWakeup
    <3> QED BY <3>1
  <2> QED BY <2>1, <2>2
<1>5. ~Surroundings
  <2>1. budget.drops \in Nat /\ budget.foreign \in Nat /\ budget.crashes \in Nat
        /\ budget \in [foreign : Nat, drops : Nat, crashes : Nat]
    BY DEF Inv, TypeOK, OtherType
  <2>2. /\ [budget EXCEPT !.drops = @ - 1].drops # budget.drops
        /\ [budget EXCEPT !.foreign = @ - 1].foreign # budget.foreign
        /\ [budget EXCEPT !.crashes = @ - 1].crashes # budget.crashes
    BY <2>1
  <2> QED BY <1>1, <2>2 DEF Surroundings, NetDrop, Crash, ForeignWrite, ForeignRemove
<1> QED BY <1>2, <1>3, <1>4, <1>5 DEF Next

\* kivfs_release marks the file of a handle whose writes the server lacks: such a
\* handle carries KIVFS_FLG_ERR by the invariant, and its release tests the flag.
THEOREM UnsentIsMarkedHolds == Spec => UnsentIsMarked
<1> DEFINE A == \A h \in Handles :
                  Releasing(h) /\ hnd[h].rfd # "none" /\ ~(wrote[h] \subseteq sent[h])
                  /\ row'[hnd[h].file] # NoRow
                  => row'[hnd[h].file].modified
<1>1. ASSUME Inv, [Next]_vars PROVE [A]_vars
  <2> SUFFICES ASSUME NEW h \in Handles, Releasing(h), hnd[h].rfd # "none",
                      ~(wrote[h] \subseteq sent[h]), row'[hnd[h].file] # NoRow, Next
               PROVE  row'[hnd[h].file].modified
    BY <1>1
  <2>1. hnd[h].err BY <1>1 DEF Inv, WriteThrough
  <2>2. hnd[h].pc = "marking" /\ hnd'[h].pc = "free" /\ hnd[h].file \in Files
    BY <1>1 DEF Releasing, Inv, TypeOK, HndType
  <2>3. ReleaseMark(h) BY <1>1, OnlyMarkReleases
  <2>4. row \in [Files -> Row \cup {NoRow}] BY <1>1 DEF Inv, TypeOK, RowType
  <2>5. row'[hnd[h].file] = SetModified(row[hnd[h].file], TRUE)
      BY <2>1, <2>2, <2>3, <2>4 DEF ReleaseMark, NeedsMark
  <2> QED BY <2>2, <2>4, <2>5 DEF SetModified, Row
<1> QED BY <1>1, InvCorrect, PTL DEF Spec, UnsentIsMarked
=============================================================================
