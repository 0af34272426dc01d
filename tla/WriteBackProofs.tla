-------------------------- MODULE WriteBackProofs --------------------------
(***************************************************************************)
(* FileSync implements WriteBack, for any files, handles and bounds.  Most *)
(* steps change neither the history of a handle nor where its writes go:   *)
(* to the abstract specification they settle which files are due, if that. *)
(***************************************************************************)
EXTENDS FileSyncProofs

Calm == UNCHANGED <<wrote, sent, OpenedOn, Flow, Deaths>>

LEMMA CalmSettles == Calm => WB!Settle
    BY DEF Calm, WB!Settle, Due

\* Two values of a handle that the abstract specification cannot tell apart.
Same(a, b) == FileIn(a) = FileIn(b) /\ FlowOf(a) = FlowOf(b)

LEMMA PutViews ==
    ASSUME Inv, NEW h \in Handles, NEW o, Put(h, o)
    PROVE  /\ OpenedOn' = [OpenedOn EXCEPT ![h] = FileIn(o)]
           /\ Flow' = [Flow EXCEPT ![h] = FlowOf(o)]
<1>1. hnd \in [Handles -> Handle]
    BY DEF Inv, TypeOK, HndType
<1>2. hnd'[h] = o /\ \A g \in Handles \ {h} : hnd'[g] = hnd[g]
    BY <1>1 DEF Put
<1>3. OpenedOn' = [g \in Handles |-> FileIn(hnd'[g])] /\ Flow' = [g \in Handles |-> FlowOf(hnd'[g])]
    BY DEF OpenedOn, Flow, FileIn, FlowOf
<1> QED
    BY <1>2, <1>3 DEF OpenedOn, Flow

LEMMA SameViews ==
    ASSUME \A g \in Handles : Same(hnd'[g], hnd[g])
    PROVE  UNCHANGED <<OpenedOn, Flow>>
<1>1. OpenedOn' = [g \in Handles |-> FileIn(hnd'[g])] /\ Flow' = [g \in Handles |-> FlowOf(hnd'[g])]
    BY DEF OpenedOn, Flow, FileIn, FlowOf
<1> QED
    BY <1>1 DEF OpenedOn, Flow, Same

LEMMA PutCalm ==
    ASSUME Inv, NEW h \in Handles, NEW o, Put(h, o), Same(o, hnd[h]),
           wrote' = wrote, sent' = sent, Deaths' = Deaths
    PROVE  Calm
<1>1. hnd \in [Handles -> Handle]
    BY DEF Inv, TypeOK, HndType
<1>2. \A g \in Handles : Same(hnd'[g], hnd[g])
    BY <1>1 DEF Put, Same
<1> QED
    BY <1>2, SameViews DEF Calm

\* unlinked copies change descriptors only, of which WriteBack knows nothing
LEMMA OrphanSame ==
    ASSUME Inv, NEW fs, NEW g \in Handles
    PROVE  Same(Orphan(hnd, fs)[g], hnd[g])
<1>1. hnd[g] \in Handle
    BY HandleInv
<1>2. Orphan(hnd, fs)[g] = hnd[g] \/ Orphan(hnd, fs)[g] = [hnd[g] EXCEPT !.fd = "orphan"]
    BY DEF Orphan
<1> QED
    BY <1>1, <1>2 DEF Same, FileIn, FlowOf, Handle

\* and so do connections that end
LEMMA CutSame ==
    ASSUME Inv, NEW D, NEW g \in Handles
    PROVE  Same(Cut(hnd, D)[g], hnd[g])
<1>1. HndType
    BY DEF Inv, TypeOK
<1> QED
    BY <1>1, CutType DEF Same, FileIn, FlowOf

LEMMA CutPutViews ==
    ASSUME Inv, NEW h \in Handles, NEW o, NEW D, hnd' = [Cut(hnd, D) EXCEPT ![h] = o]
    PROVE  /\ OpenedOn' = [OpenedOn EXCEPT ![h] = FileIn(o)]
           /\ Flow' = [Flow EXCEPT ![h] = FlowOf(o)]
<1>1. hnd'[h] = o /\ \A g \in Handles \ {h} : FileIn(hnd'[g]) = FileIn(hnd[g]) /\ FlowOf(hnd'[g]) = FlowOf(hnd[g])
  <2>1. \A g \in Handles : hnd'[g] = IF g = h THEN o ELSE Cut(hnd, D)[g]
      BY DEF Cut
  <2> QED
      BY <2>1, CutSame DEF Same
<1>2. OpenedOn' = [g \in Handles |-> FileIn(hnd'[g])] /\ Flow' = [g \in Handles |-> FlowOf(hnd'[g])]
    BY DEF OpenedOn, Flow, FileIn, FlowOf
<1>3. OpenedOn' = [g \in Handles |-> IF g = h THEN FileIn(o) ELSE FileIn(hnd[g])]
    BY <1>1, <1>2
<1>4. Flow' = [g \in Handles |-> IF g = h THEN FlowOf(o) ELSE FlowOf(hnd[g])]
    BY <1>1, <1>2
<1> QED
    BY <1>3, <1>4 DEF OpenedOn, Flow

LEMMA OrphanPutCalm ==
    ASSUME Inv, NEW h \in Handles, NEW o, NEW fs, hnd' = [Orphan(hnd, fs) EXCEPT ![h] = o],
           Same(o, hnd[h]), wrote' = wrote, sent' = sent, Deaths' = Deaths
    PROVE  Calm
<1>1. ASSUME NEW g \in Handles PROVE Same(hnd'[g], hnd[g])
  <2>1. hnd'[g] = IF g = h THEN o ELSE Orphan(hnd, fs)[g]
      BY DEF Orphan
  <2> QED
      BY <2>1, OrphanSame
<1> QED
    BY <1>1, SameViews DEF Calm

\* An UPDATE of other columns leaves what is due.
LEMMA SameDue ==
    ASSUME Inv, NEW f \in Files, NEW r, row' = [row EXCEPT ![f] = r],
           row[f] = NoRow => r = NoRow,
           row[f] # NoRow => r # NoRow /\ r.modified = row[f].modified
    PROVE  Due' = Due
<1>1. row \in [Files -> Row \cup {NoRow}]
    BY DEF Inv, TypeOK, RowType
<1> QED
    BY <1>1 DEF Due

LEMMA VersionOnly ==
    ASSUME NEW r \in Row \cup {NoRow}
    PROVE  /\ \A v \in Int : /\ r = NoRow => SetVersion(r, v) = NoRow
                             /\ r # NoRow => SetVersion(r, v) # NoRow /\ SetVersion(r, v).modified = r.modified
           /\ r = NoRow => IncVersion(r) = NoRow
           /\ r # NoRow => IncVersion(r) # NoRow /\ IncVersion(r).modified = r.modified
    BY SymbolsAssumption DEF SetVersion, IncVersion, Row
-----------------------------------------------------------------------------
(* kivfs_open.                                                             *)

LEMMA OpenedStep ==
    ASSUME Inv, NEW h \in Handles, hnd[h].pc \in Early, NEW o, Put(h, o),
           o.pc \notin Early, o.file \in Files, ~o.err,
           UNCHANGED <<wrote, sent, Due, Deaths>>
    PROVE  WB!WBNext
<1>1. FileIn(o) = o.file /\ FlowOf(o) \in {"through", "local"}
    BY DEF FileIn, FlowOf
<1>2. Flow[h] = "closed"
    BY DEF Flow, FlowOf
<1>3. WB!Opened(h, o.file)
    BY <1>1, <1>2, PutViews DEF WB!Opened
<1> QED
    BY <1>3 DEF WB!WBNext

LEMMA OpenSteps ==
    ASSUME Inv, NEW h \in Handles, OpenStep(h), Deaths' = Deaths
    PROVE  WB!WBNext
<1>0. /\ FreeHandle.pc = "free" /\ hnd[h] \in Handle
      /\ ~FreeHandle.err
    BY HandleInv DEF FreeHandle
<1>1. \A f \in Files : row[f] \in Row \cup {NoRow}
    BY DEF Inv, TypeOK, RowType
<1>2. ASSUME Calm PROVE WB!WBNext
    BY <1>2, CalmSettles DEF WB!WBNext
<1>3. hnd[h].pc \in Early => ~hnd[h].err
    BY HandleInv DEF Early, FetchPc
<1>4. hnd[h].pc \in {"opening", "fetching"} => hnd[h].file \in Files
    BY DEF Inv, TypeOK, HndType
<1>5. ASSUME NEW f \in Files, OpenWronly(h, f) PROVE WB!WBNext
  <2> DEFINE o == [FreeHandle EXCEPT !.pc = "open", !.file = f, !.mode = "wronly",
                                     !.fd = IF local[f] = Missing THEN "none" ELSE "live",
                                     !.rfd = IF connected THEN "placeholder" ELSE "none",
                                     !.delayed = connected]
  <2>1. o.pc \notin Early /\ o.file \in Files /\ ~o.err
      BY DEF FreeHandle, Early, FetchPc
  <2>2. Put(h, o) /\ hnd[h].pc \in Early /\ UNCHANGED <<wrote, sent, row>>
      BY <1>5 DEF OpenWronly, Early, FetchPc
  <2> HIDE DEF o
  <2>3. Due' = Due
      BY <2>2 DEF Due
  <2> QED
      BY <2>1, <2>2, <2>3, OpenedStep
<1>6. ASSUME NEW f \in Files, NEW m \in Modes, OpenInfo(h, f, m) PROVE WB!WBNext
  <2>1. PICK res : Put(h, [FreeHandle EXCEPT !.pc = "opening", !.file = f, !.mode = m,
                                             !.info = res])
      BY <1>6 DEF OpenInfo
  <2> DEFINE o == [FreeHandle EXCEPT !.pc = "opening", !.file = f, !.mode = m, !.info = res]
  <2>2. o.pc \in Early /\ hnd[h].pc \in Early /\ wrote' = wrote /\ sent' = sent
      BY <1>6 DEF OpenInfo, Early, FetchPc, FreeHandle
  <2>3. Same(o, hnd[h])
      BY <2>2 DEF Same, FileIn, FlowOf
  <2> QED
      BY <1>2, <2>1, <2>2, <2>3, PutCalm
<1>7. CASE OpenGone(h)
  <2>1. /\ hnd[h].pc \in Early /\ wrote' = wrote /\ sent' = sent
        /\ hnd' = [Orphan(hnd, {hnd[h].file}) EXCEPT ![h] = FreeHandle]
      BY <1>7 DEF OpenGone, Early, FetchPc
  <2>2. Same(FreeHandle, hnd[h])
      BY <1>0, <2>1 DEF Same, FileIn, FlowOf, Early, FetchPc
  <2> QED
      BY <1>2, <2>1, <2>2, OrphanPutCalm
<1>8. CASE FetchRefused(h)
  <2> DEFINE o == [hnd[h] EXCEPT !.pc = "open", !.rfd = "real", !.info = Offline]
  <2>1. hnd[h].pc \in Early /\ hnd[h].file \in Files /\ UNCHANGED <<wrote, sent, row>>
      BY <1>4, <1>8 DEF FetchRefused, Early, FetchPc
  <2>2. Due' = Due
      BY <2>1 DEF Due
  <2>3. CASE Put(h, FreeHandle)
    <3>1. Same(FreeHandle, hnd[h])
        BY <1>0, <2>1 DEF Same, FileIn, FlowOf, Early, FetchPc
    <3> QED
        BY <1>2, <2>1, <2>3, <3>1, PutCalm
  <2>4. CASE Put(h, o)
    <3>1. o.pc \notin Early /\ o.file \in Files /\ ~o.err
        BY <1>0, <1>3, <2>1 DEF Handle, Early, FetchPc
    <3> HIDE DEF o
    <3> QED
        BY <2>1, <2>2, <2>4, <3>1, OpenedStep
  <2> QED
      BY <1>8, <2>3, <2>4 DEF FetchRefused
<1>9. CASE Fetch(h)
  <2>1. hnd[h].pc \in Early /\ wrote' = wrote /\ sent' = sent
      BY <1>9 DEF Fetch, Early
  <2>2. PICK pc \in FetchPc : Put(h, [hnd[h] EXCEPT !.pc = pc, !.rfd = "real", !.sock = TRUE])
      BY <1>9 DEF Fetch, FetchPc
  <2> DEFINE o == [hnd[h] EXCEPT !.pc = pc, !.rfd = "real", !.sock = TRUE]
  <2>3. o.pc \in Early
      BY <1>0 DEF Handle, Early
  <2> HIDE DEF o
  <2>4. Same(o, hnd[h])
      BY <2>1, <2>3 DEF Same, FileIn, FlowOf
  <2> QED
      BY <1>2, <2>1, <2>2, <2>4, PutCalm DEF o
<1>12. CASE FetchStep(h)
  <2>1. PICK o : Fetches(h, o)
      BY <1>12, FetchFrame DEF Inv, TypeOK
  <2>2. Same(o, hnd[h])
      BY <2>1 DEF Fetches, Same, FileIn, FlowOf, Early
  <2>3. wrote' = wrote /\ sent' = sent
      BY <1>12, FetchLeaves
  <2> QED
      BY <1>2, <2>1, <2>2, <2>3, PutCalm, OrphanPutCalm DEF Fetches
<1>10. CASE FetchUpdate(h)
  <2> DEFINE o == [hnd[h] EXCEPT !.pc = "open", !.info = Offline]
             f == hnd[h].file
  <2>1. /\ hnd[h].pc \in Early /\ f \in Files /\ wrote' = wrote /\ sent' = sent
        /\ row' = [row EXCEPT ![f] = SetVersion(@, hnd[h].info)] /\ Put(h, o)
      BY <1>4, <1>10 DEF FetchUpdate, Early, FetchPc
  <2>2. hnd[h].info \in Int
      BY <1>0 DEF Handle
  <2>3. o.pc \notin Early /\ o.file \in Files /\ ~o.err
      BY <1>0, <1>3, <2>1 DEF Handle, Early, FetchPc
  <2> HIDE DEF o
  <2>4. row' = [row EXCEPT ![f] = SetVersion(row[f], hnd[h].info)]
      BY <2>1
  <2>5. Due' = Due
      BY <1>1, <2>1, <2>2, <2>4, VersionOnly, SameDue
  <2> QED
      BY <2>1, <2>3, <2>5, OpenedStep
<1>11. CASE OpenLocal(h)
  <2> DEFINE o == [hnd[h] EXCEPT !.pc = "open", !.fd = "live", !.info = Offline]
  <2>1. hnd[h].pc \in Early /\ hnd[h].file \in Files /\ UNCHANGED <<wrote, sent, row>>
      BY <1>4, <1>11 DEF OpenLocal, Early, FetchPc
  <2>2. Due' = Due
      BY <2>1 DEF Due
  <2>3. CASE Put(h, FreeHandle)
    <3>1. Same(FreeHandle, hnd[h])
        BY <1>0, <2>1 DEF Same, FileIn, FlowOf, Early, FetchPc
    <3> QED
        BY <1>2, <2>1, <2>3, <3>1, PutCalm
  <2>4. CASE Put(h, o)
    <3>1. o.pc \notin Early /\ o.file \in Files /\ ~o.err
        BY <1>0, <1>3, <2>1 DEF Handle, Early, FetchPc
    <3> HIDE DEF o
    <3> QED
        BY <2>1, <2>2, <2>4, <3>1, OpenedStep
  <2> QED
      BY <1>11, <2>3, <2>4 DEF OpenLocal
<1> QED
    BY <1>5, <1>6, <1>7, <1>8, <1>9, <1>10, <1>11, <1>12 DEF OpenStep
-----------------------------------------------------------------------------
(* kivfs_read and kivfs_write.                                             *)

LEMMA WriteSteps ==
    ASSUME Inv, NEW h \in Handles,
           NEW opened \in {"ok", "half", "fail"}, NEW arrived \in BOOLEAN, NEW acked \in BOOLEAN,
           WriteOutcome(h, opened, arrived, acked), Deaths' = Deaths
    PROVE  WB!WBNext
<1> DEFINE o == hnd[h]
           t == tok + 1
           n == HandleAfter(o, t, opened, arrived, acked)
<1>1. /\ tok \in Nat /\ MaxWrites \in Nat /\ tok < MaxWrites /\ o \in Handle
      /\ wrote \in [Handles -> SUBSET Nat] /\ sent \in [Handles -> SUBSET Nat]
      /\ hnd \in [Handles -> Handle]
    BY BoundsAssumption DEF Inv, TypeOK, OtherType, HndType, WriteOutcome
<1>2. t \in 1 .. MaxWrites
    BY <1>1
<1>3. WB!Later(h, t)
    BY <1>1 DEF WB!Later, Inv, Fresh
<1>4. /\ Put(h, n) /\ row' = row
      /\ sent' = IF arrived THEN [sent EXCEPT ![h] = @ \cup {t}] ELSE sent
      /\ wrote' = IF acked \/ o.fd # "none" THEN [wrote EXCEPT ![h] = @ \cup {t}] ELSE wrote
      /\ opened # "fail" => o.delayed
      /\ arrived => Sends(o, opened)
      /\ acked => arrived
      /\ o.pc = "open"
    BY DEF WriteOutcome
<1>5. /\ n.pc \notin Early /\ o.pc \notin Early
      /\ n.rfd = RfdAfter(o, opened)
      /\ n.err <=> o.err \/ (Sends(o, opened) /\ ~acked)
      /\ n.file = o.file
  <2>1. n.pc \in {"open", "storing"} /\ n.rfd = RfdAfter(o, opened)
        /\ (n.err <=> o.err \/ (Sends(o, opened) /\ ~acked))
      BY <1>1, HandleAfterFields
  <2>2. n.file = o.file
      BY <1>1, HandleAfterType
  <2> QED
      BY <1>4, <2>1, <2>2 DEF Early, FetchPc
<1>6. n.rfd = "none" <=> o.rfd = "none"
    BY <1>4, <1>5, HandleInv DEF RfdAfter
<1>7. Sends(o, opened) <=> o.rfd # "none" /\ ~o.err
    BY <1>5, <1>6 DEF Sends
<1>8. /\ FileIn(n) = FileIn(o)
      /\ FlowOf(o) = IF o.rfd = "none" THEN "local" ELSE IF o.err THEN "stopped" ELSE "through"
      /\ FlowOf(n) = IF o.rfd = "none" THEN "local" ELSE IF n.err THEN "stopped" ELSE "through"
    BY <1>5, <1>6 DEF FileIn, FlowOf
<1>9. Flow[h] = FlowOf(o) /\ Due' = Due
    BY <1>4 DEF Flow, Due
<1>10. /\ OpenedOn' = [OpenedOn EXCEPT ![h] = FileIn(o)]
       /\ Flow' = [Flow EXCEPT ![h] = FlowOf(n)]
    BY <1>4, <1>8, PutViews
<1>11. /\ OpenedOn' = OpenedOn
       /\ FlowOf(n) = FlowOf(o) => Flow' = Flow
    BY <1>9, <1>10 DEF OpenedOn, Flow
<1> HIDE DEF n, t, o
<1>12. CASE Sends(o, opened) /\ acked
  <2>1. Flow[h] = "through" /\ FlowOf(n) = FlowOf(o)
      BY <1>5, <1>7, <1>8, <1>9, <1>12
  <2>2. WB!Acknowledge(h, t) /\ WB!Deliver(h, t)
      BY <1>4, <1>12 DEF WB!Acknowledge, WB!Deliver
  <2>3. WB!Through(h, t)
      BY <1>3, <1>9, <1>11, <2>1, <2>2 DEF WB!Through
  <2> QED
      BY <1>2, <2>3 DEF WB!WBNext
<1>13. CASE Sends(o, opened) /\ ~acked
  <2>1. Flow[h] = "through" /\ FlowOf(n) = "stopped"
      BY <1>5, <1>7, <1>8, <1>9, <1>13
  <2>2. /\ WB!Acknowledge(h, t) \/ UNCHANGED wrote
        /\ WB!Deliver(h, t) \/ UNCHANGED sent
      BY <1>4 DEF WB!Acknowledge, WB!Deliver
  <2>3. WB!Break(h, t)
      BY <1>3, <1>9, <1>10, <1>11, <2>1, <2>2 DEF WB!Break
  <2> QED
      BY <1>2, <2>3 DEF WB!WBNext
<1>14. CASE ~Sends(o, opened)
  <2>1. /\ ~arrived /\ ~acked
        /\ Flow[h] \in {"stopped", "local"} /\ FlowOf(n) = FlowOf(o)
      BY <1>4, <1>5, <1>7, <1>8, <1>9, <1>14
  <2>2. UNCHANGED <<OpenedOn, Flow, sent, Due>>
      BY <1>4, <1>9, <1>11, <2>1
  <2>3. CASE o.fd # "none"
    <3>1. WB!Acknowledge(h, t)
        BY <1>4, <2>3 DEF WB!Acknowledge
    <3>2. WB!Keep(h, t)
        BY <1>3, <2>1, <2>2, <3>1 DEF WB!Keep
    <3> QED
        BY <1>2, <3>2 DEF WB!WBNext
  <2>4. CASE o.fd = "none"
    <3>1. Calm
        BY <1>4, <2>1, <2>2, <2>4 DEF Calm
    <3> QED
        BY <3>1, CalmSettles DEF WB!WBNext
  <2> QED
      BY <2>3, <2>4
<1> QED
    BY <1>12, <1>13, <1>14

LEMMA UseSteps ==
    ASSUME Inv, NEW h \in Handles, UseStep(h), Deaths' = Deaths
    PROVE  WB!WBNext
<1>1. CASE Read(h)
  <2>1. Calm
      BY <1>1 DEF Read, Calm, OpenedOn, Flow
  <2> QED
      BY <2>1, CalmSettles DEF WB!WBNext
<1>2. CASE WriteRemote(h)
    BY <1>2, WriteSteps DEF WriteRemote
<1>3. CASE WriteLocal(h)
  <2> DEFINE o == [hnd[h] EXCEPT !.pc = "open", !.wr = TRUE, !.data = Empty]
  <2>1. Same(o, hnd[h])
      BY <1>3, HandleInv DEF WriteLocal, Same, FileIn, FlowOf, Early, FetchPc, Handle
  <2>2. Put(h, o) /\ wrote' = wrote /\ sent' = sent
      BY <1>3 DEF WriteLocal
  <2> HIDE DEF o
  <2>3. Calm
      BY <2>1, <2>2, PutCalm
  <2> QED
      BY <2>3, CalmSettles DEF WB!WBNext
<1> QED
    BY <1>1, <1>2, <1>3 DEF UseStep
-----------------------------------------------------------------------------
(* kivfs_release.                                                          *)

LEMMA ReleaseSteps ==
    ASSUME Inv, NEW h \in Handles, ReleaseStep(h), Deaths' = Deaths
    PROVE  WB!WBNext
<1>1. /\ hnd[h] \in Handle /\ hnd \in [Handles -> Handle]
      /\ wrote \in [Handles -> SUBSET Nat] /\ sent \in [Handles -> SUBSET Nat]
      /\ row \in [Files -> Row \cup {NoRow}]
    BY HandleInv DEF Inv, TypeOK, OtherType, HndType, RowType
<1>2. FileIn(FreeHandle) = Missing /\ FlowOf(FreeHandle) = "closed"
    BY DEF FreeHandle, FileIn, FlowOf, Early, FetchPc
<1>3. ASSUME Calm PROVE WB!WBNext
    BY <1>3, CalmSettles DEF WB!WBNext
<1>4. CASE ReleaseClose(h)
  <2>1. hnd[h].pc = "open" /\ UNCHANGED <<wrote, sent, row>>
      BY <1>4 DEF ReleaseClose
  <2>2. CASE hnd[h].wr
    <3> DEFINE o == [hnd[h] EXCEPT !.pc = "closing", !.sock = FALSE, !.dirty = FALSE]
    <3>1. Same(o, hnd[h])
        BY <1>1, <2>1 DEF Same, FileIn, FlowOf, Early, FetchPc, Handle
    <3>2. \E D : hnd' = [Cut(hnd, D) EXCEPT ![h] = o]
        BY <1>4, <2>2 DEF ReleaseClose
    <3> HIDE DEF o
    <3>3. /\ OpenedOn' = [OpenedOn EXCEPT ![h] = FileIn(o)]
          /\ Flow' = [Flow EXCEPT ![h] = FlowOf(o)]
        BY <3>2, CutPutViews
    <3>4. UNCHANGED <<OpenedOn, Flow>>
        BY <3>1, <3>3 DEF Same, OpenedOn, Flow
    <3> QED
        BY <1>3, <2>1, <3>4 DEF Calm
  <2>3. CASE ~hnd[h].wr
    <3>1. wrote[h] = {} /\ sent[h] = {} /\ ~hnd[h].err
        BY <2>1, <2>3, HandleInv
    <3>2. Flow[h] # "closed" /\ Flow[h] # "stopped"
        BY <2>1, <3>1 DEF Flow, FlowOf, Early, FetchPc
    <3>3. \E D : hnd' = [Cut(hnd, D) EXCEPT ![h] = FreeHandle]
        BY <1>4, <2>3 DEF ReleaseClose
    <3>4. /\ OpenedOn' = [OpenedOn EXCEPT ![h] = Missing]
          /\ Flow' = [Flow EXCEPT ![h] = "closed"]
        BY <1>2, <3>3, CutPutViews
    <3>5. wrote' = [wrote EXCEPT ![h] = {}] /\ sent' = [sent EXCEPT ![h] = {}]
        BY <1>1, <2>1, <3>1
    <3>6. Due' = Due
        BY <2>1 DEF Due
    <3>7. WB!Released(h)
        BY <3>2, <3>4, <3>5, <3>6 DEF WB!Released
    <3> QED
        BY <3>7 DEF WB!WBNext
  <2> QED
      BY <2>2, <2>3
<1>5. CASE ReleaseStat(h)
  <2>1. PICK i : Put(h, [hnd[h] EXCEPT !.pc = "saving", !.info = i])
      BY <1>5 DEF ReleaseStat
  <2> DEFINE o == [hnd[h] EXCEPT !.pc = "saving", !.info = i]
  <2>2. hnd[h].pc = "closing" /\ wrote' = wrote /\ sent' = sent
      BY <1>5 DEF ReleaseStat
  <2>3. Same(o, hnd[h])
      BY <1>1, <2>2 DEF Same, FileIn, FlowOf, Early, FetchPc, Handle
  <2> HIDE DEF o
  <2> QED
      BY <1>3, <2>1, <2>2, <2>3, PutCalm DEF o
<1>6. CASE ReleaseSave(h)
  <2> DEFINE o == [hnd[h] EXCEPT !.pc = "marking", !.info = Offline]
  <2>1. hnd[h].pc = "saving" /\ wrote' = wrote /\ sent' = sent /\ Put(h, o)
      BY <1>6 DEF ReleaseSave
  <2>2. Same(o, hnd[h])
      BY <1>1, <2>1 DEF Same, FileIn, FlowOf, Early, FetchPc, Handle
  <2> HIDE DEF o
  <2> QED
      BY <1>3, <2>1, <2>2, PutCalm
<1>7. CASE ReleaseMark(h)
  <2> DEFINE f == hnd[h].file
             r == IF NeedsMark(h) THEN SetModified(row[f], TRUE) ELSE IncVersion(row[f])
  <2>1. /\ hnd[h].pc = "marking" /\ f \in Files /\ Put(h, FreeHandle)
        /\ wrote' = [wrote EXCEPT ![h] = {}] /\ sent' = [sent EXCEPT ![h] = {}]
        /\ row' = [row EXCEPT ![f] = r]
      BY <1>7 DEF ReleaseMark, Inv, TypeOK, HndType
  <2>2. OpenedOn[h] = f /\ Flow[h] # "closed" /\ (Flow[h] = "stopped" => hnd[h].err)
      BY <2>1 DEF OpenedOn, FileIn, Flow, FlowOf, Early, FetchPc
  <2>3. /\ OpenedOn' = [OpenedOn EXCEPT ![h] = Missing]
        /\ Flow' = [Flow EXCEPT ![h] = "closed"]
      BY <1>2, <2>1, PutViews
  <2>4. row[f] \in Row \cup {NoRow}
      BY <1>1, <2>1
  <2>5. Due' \in {Due, Due \cup {f}} /\ (NeedsMark(h) => f \in Due')
    <3>1. CASE NeedsMark(h)
      <4>1. r = NoRow \/ r.modified
          BY <2>4, <3>1 DEF SetModified, Row
      <4>2. Due' = Due \cup {f}
          BY <1>1, <2>1, <4>1 DEF Due
      <4> QED
          BY <4>2
    <3>2. CASE ~NeedsMark(h)
      <4>1. /\ row[f] = NoRow => r = NoRow
            /\ row[f] # NoRow => r # NoRow /\ r.modified = row[f].modified
          BY <2>4, <3>2, VersionOnly
      <4> HIDE DEF r
      <4>2. Due' = Due
          BY <2>1, <4>1, SameDue
      <4> QED
          BY <3>2, <4>2
    <3> QED
        BY <3>1, <3>2
  <2>6. Flow[h] = "stopped" => f \in Due'
      BY <2>2, <2>5 DEF NeedsMark
  <2>7. WB!Released(h)
      BY <2>1, <2>2, <2>3, <2>5, <2>6 DEF WB!Released
  <2> QED
      BY <2>7 DEF WB!WBNext
<1> QED
    BY <1>4, <1>5, <1>6, <1>7 DEF ReleaseStep
-----------------------------------------------------------------------------
(* The rescuer and the surroundings.                                       *)

LEMMA OtherSteps ==
    ASSUME Inv, RescuerStep \/ Surroundings \/ \E f \in Files : Truncate(f)
    PROVE  WB!WBNext
<1>1. ASSUME wrote' = wrote, sent' = sent, budget'.crashes = budget.crashes,
             NEW fs, hnd' = hnd \/ hnd' = Orphan(hnd, fs)
      PROVE  WB!WBNext
  <2>1. \A g \in Handles : Same(hnd'[g], hnd[g])
      BY <1>1, OrphanSame DEF Same
  <2>2. Calm
      BY <1>1, <2>1, SameViews DEF Calm, Deaths
  <2> QED
      BY <2>2, CalmSettles DEF WB!WBNext
<1>2. CASE RescuerStep
  <2>1. UNCHANGED <<wrote, sent, budget>> /\ (hnd' = hnd \/ \E fs : hnd' = Orphan(hnd, fs))
    <3>1. CASE SyncGone
        BY <3>1 DEF SyncGone
    <3>2. CASE Connect \/ Login \/ SyncAbort \/ SyncDone \/ \E f \in Files : SyncPick(f)
        BY <3>2 DEF Connect, Login, SyncAbort, SyncDone, SyncPick
    <3>3. CASE SyncOpen \/ SyncSend \/ SyncClose \/ SyncClear \/ SyncBump \/ SpuriousWakeup
        BY <3>3 DEF SyncOpen, SyncSend, SyncClose, SyncClear, SyncBump, SpuriousWakeup
    <3> QED
        BY <1>2, <3>1, <3>2, <3>3 DEF RescuerStep
  <2> QED
      BY <1>1, <2>1
<1>3. budget \in [foreign : Nat, drops : Nat, crashes : Nat] /\ MaxCrashes \in Nat
    BY BoundsAssumption DEF Inv, TypeOK, OtherType
<1>6. ASSUME NEW f \in Files, Truncate(f) \/ ForeignWrite(f) \/ ForeignRemove(f)
      PROVE  WB!WBNext
  <2>1. UNCHANGED <<wrote, sent, hnd>> /\ budget'.crashes = budget.crashes
      BY <1>3, <1>6 DEF Truncate, ForeignWrite, ForeignRemove
  <2> QED
      BY <1>1, <2>1
<1>4. ASSUME NEW D \in SUBSET Handles, NetDrop(D) PROVE WB!WBNext
  <2>1. ASSUME NEW g \in Handles PROVE Same(hnd'[g], hnd[g])
    <3>1. hnd' = Cut(hnd, D)
        BY <1>4 DEF NetDrop
    <3> QED
        BY <3>1, CutSame
  <2>2. budget'.crashes = budget.crashes
      BY <1>3, <1>4 DEF NetDrop
  <2>3. Calm
      BY <1>4, <2>1, <2>2, SameViews DEF Calm, NetDrop, Deaths
  <2> QED
      BY <2>3, CalmSettles DEF WB!WBNext
<1>5. CASE Crash
  <2>1. FileIn(FreeHandle) = Missing /\ FlowOf(FreeHandle) = "closed"
      BY DEF FreeHandle, FileIn, FlowOf, Early, FetchPc
  <2>2. OpenedOn' = [h \in Handles |-> FileIn(hnd'[h])] /\ Flow' = [h \in Handles |-> FlowOf(hnd'[h])]
      BY DEF OpenedOn, Flow, FileIn, FlowOf
  <2>3. OpenedOn' = [h \in Handles |-> Missing] /\ Flow' = [h \in Handles |-> "closed"]
      BY <1>5, <2>1, <2>2 DEF Crash
  <2>4. Deaths' = Deaths + 1
      BY <1>3, <1>5 DEF Crash, Deaths
  <2>5. WB!Die
      BY <1>5, <2>3, <2>4 DEF Crash, WB!Die, Due
  <2> QED
      BY <2>5 DEF WB!WBNext
<1> QED
    BY <1>2, <1>4, <1>5, <1>6 DEF Surroundings
-----------------------------------------------------------------------------
\* Only a kill of the process counts as a death.
LEMMA HandlersLive ==
    ASSUME NEW h \in Handles, OpenStep(h) \/ UseStep(h) \/ ReleaseStep(h)
    PROVE  Deaths' = Deaths
<1>1. budget' = budget
  <2>1. CASE OpenStep(h)
      BY <2>1, FetchLeaves DEF OpenStep, OpenWronly, OpenInfo, OpenGone, FetchRefused, Fetch,
                               FetchUpdate, OpenLocal
  <2>2. CASE UseStep(h)
      BY <2>2 DEF UseStep, Read, WriteRemote, WriteOutcome, WriteLocal
  <2>3. CASE ReleaseStep(h)
      BY <2>3 DEF ReleaseStep, ReleaseClose, ReleaseStat, ReleaseSave, ReleaseMark
  <2> QED
      BY <2>1, <2>2, <2>3
<1> QED
    BY <1>1 DEF Deaths

LEMMA InitMaps == Init => WB!WBInit
<1> SUFFICES ASSUME Init PROVE WB!WBInit
    OBVIOUS
<1>1. FileIn(FreeHandle) = Missing /\ FlowOf(FreeHandle) = "closed"
    BY DEF FreeHandle, FileIn, FlowOf, Early, FetchPc
<1>2. OpenedOn = [h \in Handles |-> Missing] /\ Flow = [h \in Handles |-> "closed"]
    BY <1>1 DEF Init, OpenedOn, Flow
<1>3. ASSUME NEW f \in Files PROVE row[f].modified = FALSE /\ row[f] \in Row
  <2>1. row[f] = [ver |-> 1, cached |-> f \in Created, modified |-> FALSE]
      BY DEF Init
  <2>2. (f \in Created) \in BOOLEAN
      OBVIOUS
  <2> QED
      BY <2>1, <2>2 DEF Row
<1>4. Deaths = 0
    BY BoundsAssumption DEF Init, Deaths
<1>5. Due = {}
    BY <1>3, SymbolsAssumption DEF Due
<1> QED
    BY <1>2, <1>4, <1>5 DEF Init, WB!WBInit

LEMMA StepMaps == Inv /\ [Next]_vars => [WB!WBNext]_(WB!wbVars)
<1> SUFFICES ASSUME Inv, [Next]_vars PROVE WB!WBNext \/ UNCHANGED WB!wbVars
    OBVIOUS
<1>1. CASE UNCHANGED vars
    BY <1>1 DEF vars, WB!wbVars, OpenedOn, Flow, Due, Deaths
<1>2. ASSUME NEW h \in Handles, OpenStep(h) \/ UseStep(h) \/ ReleaseStep(h)
      PROVE  WB!WBNext
    BY <1>2, HandlersLive, OpenSteps, UseSteps, ReleaseSteps
<1> QED
    BY <1>1, <1>2, OtherSteps DEF Next

\* The client writes back: what kivfs_open, kivfs_read, kivfs_write and
\* kivfs_release do together with the rescuer, the network, other clients and
\* deaths of the process is a behaviour of WriteBack, where writes arrive in
\* order until the first failure and a release after one leaves its file due.
THEOREM WriteBackImplemented == Spec => WritesBack
    BY InitMaps, StepMaps, InvCorrect, PTL DEF Spec, WritesBack, WB!WBSpec
=============================================================================
