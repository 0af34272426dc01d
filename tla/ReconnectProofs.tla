-------------------------- MODULE ReconnectProofs --------------------------
(***************************************************************************)
(* Proofs about Reconnect, for any number of FUSE threads and all bounds.  *)
(***************************************************************************)
EXTENDS Reconnect, TLAPS

Wires == {"wire", "upwire"}
Kind == OpKinds \cup Upload \cup {"login", "none"}

\* A thread that moves keeps the types of the steps and of the requests.
LEMMA MoveType ==
  ASSUME TypeOK, NEW t \in Threads, NEW step, NEW k \in Kind,
         step \in IF t = Rescuer THEN RescuerPc ELSE OpPc,
         Goto(t, step) \/ Begin(t, step, k)
  PROVE  /\ pc' \in [Threads -> OpPc \cup RescuerPc]
         /\ \A u \in Ops : pc'[u] \in OpPc
         /\ pc'[Rescuer] \in RescuerPc
         /\ kind' \in [Threads -> Kind]
<1>1. Rescuer \in Threads /\ Rescuer \notin Ops /\ \A u \in Ops : u \in Threads
  BY ThreadsAssumption DEF Threads
<1>2. pc' = [pc EXCEPT ![t] = step] BY DEF Goto, Begin
<1>3. kind' \in [Threads -> Kind]
  <2>1. kind \in [Threads -> Kind] BY DEF TypeOK, Kind
  <2>2. "none" \in Kind BY DEF Kind
  <2> QED BY <2>1, <2>2 DEF Goto, Begin
<1> QED BY <1>1, <1>2, <1>3 DEF TypeOK

\* The initial state satisfies the inductive invariant.
LEMMA InitInv == Init => Inv
<1> SUFFICES ASSUME Init PROVE Inv OBVIOUS
<1>1. Rescuer \in Threads /\ Rescuer \notin Ops /\ None \notin Threads
  BY ThreadsAssumption DEF Threads
<1>2. /\ pc \in [Threads -> OpPc \cup RescuerPc]
      /\ \A t \in Ops : pc[t] \in OpPc
      /\ pc[Rescuer] \in RescuerPc
  BY <1>1 DEF Init, Threads, RescuerPc, OpPc
<1>3. /\ rows \in 0..MaxRows /\ faults \in 0..MaxFaults BY BoundsAssumption DEF Init
<1>4. TypeOK BY <1>2, <1>3 DEF Init, TypeOK
<1>5. HolderOnWire BY <1>1 DEF Init, HolderOnWire, OnWire
<1> QED BY <1>4, <1>5 DEF Inv

\* A thread that neither takes nor gives up the wire leaves the discipline intact.
LEMMA OffWire ==
  ASSUME Inv, NEW t \in Threads, NEW step, step \notin Wires, pc[t] \notin Wires,
         pc' = [pc EXCEPT ![t] = step], holder' = holder
  PROVE  HolderOnWire'
BY DEF Inv, TypeOK, HolderOnWire, OnWire, Wires

\* A thread that starts to wait for an answer with the mutex free takes it.
LEMMA TakeWire ==
  ASSUME Inv, NEW t \in Threads, NEW step \in Wires, holder = None, holder' = t,
         pc' = [pc EXCEPT ![t] = step]
  PROVE  HolderOnWire'
<1>1. None \notin Threads BY ThreadsAssumption DEF Threads
<1>2. \A u \in Threads : ~OnWire(u) BY <1>1 DEF Inv, HolderOnWire
<1>3. /\ pc'[t] = step
      /\ \A u \in Threads : u # t => pc'[u] = pc[u]
  BY DEF Inv, TypeOK
<1> QED BY <1>2, <1>3 DEF HolderOnWire, OnWire, Wires

\* A thread whose wait is over releases the mutex.
LEMMA LeaveWire ==
  ASSUME Inv, NEW t \in Threads, NEW step, step \notin Wires, pc[t] \in Wires,
         holder' = None, pc' = [pc EXCEPT ![t] = step]
  PROVE  HolderOnWire'
<1>1. None \notin Threads BY ThreadsAssumption DEF Threads
<1>2. /\ holder = t
      /\ \A u \in Threads : OnWire(u) => u = t
  BY DEF Inv, HolderOnWire, OnWire, Wires
<1>3. /\ pc'[t] = step
      /\ \A u \in Threads : u # t => pc'[u] = pc[u]
  BY DEF Inv, TypeOK
<1> QED BY <1>1, <1>2, <1>3 DEF HolderOnWire, OnWire, Wires

\* Where a thread goes on after a request keeps the types, and is off the wire.
LEMMA GoOnType ==
  ASSUME TypeOK, NEW t \in Threads,
         NEW next \in AfterAnswer(t) \cup AfterFailure(t), GoOn(t, next)
  PROVE  \E step \in IF t = Rescuer THEN RescuerPc ELSE OpPc, k \in Kind :
            step \notin Wires /\ (Goto(t, step) \/ Begin(t, step, k))
<1>1. CASE next \in Upload
  <2>1. t = Rescuer BY <1>1 DEF AfterAnswer, AfterFailure, Upload
  <2> QED BY <1>1, <2>1 DEF GoOn, Kind, RescuerPc, RequestPc, Wires
<1>2. CASE next \notin Upload
  <2>1. /\ next \in IF t = Rescuer THEN RescuerPc ELSE OpPc
        /\ next \notin Wires
    BY <1>2 DEF AfterAnswer, AfterFailure, RowDone, Upload, OpPc, RescuerPc, RequestPc, UploadPc,
               Wires
  <2>2. Goto(t, next) /\ "none" \in Kind BY <1>2 DEF GoOn, Kind
  <2> QED BY <2>1, <2>2
<1> QED BY <1>1, <1>2

\* What a release leaves of the variables keeps its type.
LEMMA ReleaseType ==
  ASSUME Inv, Release,
         pc' \in [Threads -> OpPc \cup RescuerPc],
         \A u \in Ops : pc'[u] \in OpPc,
         pc'[Rescuer] \in RescuerPc,
         kind' \in [Threads -> Kind],
         alive' \in BOOLEAN, faults' \in 0..MaxFaults,
         UNCHANGED <<connected, timed, reachable, rows>>
  PROVE  TypeOK'
<1>1. silent' \in BOOLEAN BY DEF Release, Inv, TypeOK
<1>2. /\ holder' \in Threads \cup {None} /\ torn' \in BOOLEAN /\ endless' \in BOOLEAN
      /\ connected' \in BOOLEAN /\ timed' \in BOOLEAN /\ reachable' \in BOOLEAN
      /\ rows' \in 0..MaxRows
  BY DEF Release, Inv, TypeOK
<1> QED BY <1>1, <1>2 DEF TypeOK, Kind

\* The end of a request, answered or not, preserves the inductive invariant.
LEMMA WaitOver ==
  ASSUME Inv, NEW t \in Threads, pc[t] \in Wires, Release,
         \E next \in AfterAnswer(t) \cup AfterFailure(t) : GoOn(t, next),
         alive' \in BOOLEAN, faults' \in 0..MaxFaults,
         UNCHANGED <<connected, timed, reachable, rows>>
  PROVE  Inv'
<1>0. TypeOK BY DEF Inv
<1>1. PICK step \in IF t = Rescuer THEN RescuerPc ELSE OpPc, k \in Kind :
        step \notin Wires /\ (Goto(t, step) \/ Begin(t, step, k))
  BY <1>0, GoOnType
<1>2. /\ pc' \in [Threads -> OpPc \cup RescuerPc]
      /\ \A u \in Ops : pc'[u] \in OpPc
      /\ pc'[Rescuer] \in RescuerPc
      /\ kind' \in [Threads -> Kind]
  BY <1>0, <1>1, MoveType
<1>3. TypeOK' BY <1>2, ReleaseType
<1>4. HolderOnWire' BY <1>1, LeaveWire DEF Goto, Begin, Release
<1> QED BY <1>3, <1>4 DEF Inv

\* The steps of a request preserve the inductive invariant.
LEMMA RequestInv ==
  ASSUME Inv, NEW t \in Threads, RequestStep(t)
  PROVE  Inv'
<1>0. /\ TypeOK /\ HolderOnWire /\ Rescuer \in Threads /\ None \notin Threads
      /\ pc \in [Threads -> OpPc \cup RescuerPc] /\ kind[t] \in Kind /\ "none" \in Kind
      /\ t = Rescuer \/ t \in Ops
      /\ faults \in 0..MaxFaults /\ MaxFaults \in Nat
  BY ThreadsAssumption, BoundsAssumption DEF Inv, TypeOK, Threads, Kind
<1>1. CASE Check(t)
  <2>1. pc[t] = "check" BY <1>1 DEF Check
  <2>2. t # Rescuer BY <1>0, <2>1 DEF TypeOK, RescuerPc, RequestPc, UploadPc
  <2> DEFINE step == IF connected THEN "lock" ELSE ReturnNotConnected
  <2>3. step \in OpPc /\ step \notin Wires
    BY DEF ReturnNotConnected, OpPc, RequestPc, Wires
  <2>4. Goto(t, step) /\ holder' = holder BY <1>1 DEF Check, request
  <2> HIDE DEF step
  <2>5. HolderOnWire' BY <2>1, <2>3, <2>4, OffWire DEF Goto, Wires
  <2>6. TypeOK'
    BY <1>0, <1>1, <2>2, <2>3, <2>4, MoveType DEF Check, TypeOK, Kind, request, socket
  <2> QED BY <2>5, <2>6 DEF Inv
<1>2. CASE Lock(t)
  <2>1. /\ Goto(t, "wire") /\ holder = None /\ holder' = t
        /\ endless' = ~timed
        /\ UNCHANGED <<torn, silent, connected, alive, timed, reachable, rows, faults>>
    BY <1>2 DEF Lock, MutexFree, socket
  <2>2. "wire" \in OpPc /\ "wire" \in RescuerPc BY DEF OpPc, RescuerPc, RequestPc
  <2>3. TypeOK' BY <1>0, <2>1, <2>2, MoveType DEF TypeOK, Kind
  <2>4. HolderOnWire' BY <2>1, TakeWire DEF Goto, Wires
  <2> QED BY <2>3, <2>4 DEF Inv
<1>3. CASE Answer(t) \/ Fail(t)
  <2>1. \E next \in AfterAnswer(t) \cup AfterFailure(t) : GoOn(t, next)
    BY <1>3 DEF Answer, Fail
  <2>2. /\ pc[t] \in Wires /\ Release /\ faults' \in 0..MaxFaults
        /\ UNCHANGED <<connected, alive, timed, reachable, rows>>
    BY <1>0, <1>3 DEF Answer, Fail, Wires, socket
  <2>3. alive' \in BOOLEAN BY <1>0, <2>2 DEF TypeOK
  <2> QED BY <2>1, <2>2, <2>3, WaitOver
<1>4. CASE TurnOff(t)
  <2>1. /\ pc[t] = "off" /\ Goto(t, "signal") /\ connected' = FALSE
        /\ UNCHANGED <<holder, torn, endless, silent, alive, timed, reachable, rows, faults>>
    BY <1>4 DEF TurnOff, request, socket
  <2>2. HolderOnWire' BY <2>1, OffWire DEF Goto, Wires
  <2>3. "signal" \in OpPc /\ "signal" \in RescuerPc BY DEF OpPc, RescuerPc, RequestPc
  <2>4. TypeOK' BY <1>0, <2>1, <2>3, MoveType DEF TypeOK, Kind
  <2> QED BY <2>2, <2>4 DEF Inv
<1>5. CASE Signal(t)
  <2> DEFINE P == [pc EXCEPT ![t] = AfterReport(t)]
  <2>1. /\ pc' = Woken(P)
        /\ kind' = [kind EXCEPT ![t] = "none"] /\ pc[t] = "signal"
        /\ UNCHANGED <<holder, torn, endless, silent, connected, alive, timed, reachable, rows,
                       faults>>
    BY <1>5 DEF Signal, request, socket
  <2>2. /\ AfterReport(t) \in IF t = Rescuer THEN RescuerPc ELSE OpPc
        /\ AfterReport(t) \notin Wires /\ "woken" \in RescuerPc
    BY DEF AfterReport, OpPc, RescuerPc, RequestPc, Wires
  <2>3. /\ P \in [Threads -> OpPc \cup RescuerPc]
        /\ \A u \in Ops : P[u] \in OpPc
        /\ P[Rescuer] \in RescuerPc
        /\ \A u \in Threads : P[u] \in Wires <=> pc[u] \in Wires
    BY <1>0, <2>1, <2>2, ThreadsAssumption DEF TypeOK, Wires
  <2> HIDE DEF P
  <2>4. /\ pc' \in [Threads -> OpPc \cup RescuerPc]
        /\ \A u \in Ops : pc'[u] \in OpPc
        /\ pc'[Rescuer] \in RescuerPc
        /\ \A u \in Threads : pc'[u] \in Wires <=> P[u] \in Wires
    BY <1>0, <2>1, <2>2, <2>3, ThreadsAssumption DEF Threads, Woken, Wires
  <2>5. HolderOnWire' BY <1>0, <2>1, <2>3, <2>4 DEF HolderOnWire, OnWire, Wires
  <2>6. TypeOK' BY <1>0, <2>1, <2>4 DEF TypeOK, Kind
  <2> QED BY <2>5, <2>6 DEF Inv
<1> QED BY <1>1, <1>2, <1>3, <1>4, <1>5 DEF RequestStep

\* kivfs_reconnect between the waits for its answers preserves the inductive invariant.
LEMMA RescuerInv ==
  ASSUME Inv, RescuerStep \/ SpuriousWakeup
  PROVE  Inv'
<1>0. /\ TypeOK /\ Rescuer \in Threads /\ MaxRows \in Nat /\ rows \in 0..MaxRows
      /\ "none" \in Kind /\ {"login", "info", "command", "flush"} \subseteq Kind
      /\ {"lock", "connect", "limit", "failed", "on", "sync", "enter", "wait", "woken"}
             \subseteq RescuerPc
  BY BoundsAssumption DEF Inv, TypeOK, Threads, Kind, OpKinds, Upload, RescuerPc, RequestPc
<1>1. CASE LockUpload
  <2>1. /\ Goto(Rescuer, "upwire") /\ holder = None /\ holder' = Rescuer
        /\ endless' = TRUE
        /\ UNCHANGED <<torn, silent, connected, alive, timed, reachable, rows, faults>>
    BY <1>1 DEF LockUpload, MutexFree, socket
  <2>2. "upwire" \in RescuerPc BY DEF RescuerPc, UploadPc
  <2>3. TypeOK' BY <1>0, <2>1, <2>2, MoveType DEF TypeOK, Kind
  <2>4. HolderOnWire' BY <1>0, <2>1, TakeWire DEF Goto, Wires
  <2> QED BY <2>3, <2>4 DEF Inv
<1>2. CASE UploadAnswer
  <2>1. /\ Goto(Rescuer, "updata") /\ pc[Rescuer] = "upwire" /\ Release
        /\ UNCHANGED <<connected, alive, timed, reachable, rows, faults>>
    BY <1>2 DEF UploadAnswer, socket
  <2>2. "updata" \in RescuerPc BY DEF RescuerPc, UploadPc
  <2>3. /\ pc' \in [Threads -> OpPc \cup RescuerPc]
        /\ \A u \in Ops : pc'[u] \in OpPc
        /\ pc'[Rescuer] \in RescuerPc
        /\ kind' \in [Threads -> Kind]
    BY <1>0, <2>1, <2>2, MoveType
  <2>4. TypeOK' BY <1>0, <2>1, <2>3, ReleaseType DEF TypeOK
  <2>5. HolderOnWire' BY <1>0, <2>1, LeaveWire DEF Goto, Release, Wires
  <2> QED BY <2>4, <2>5 DEF Inv
<1>3. ASSUME ~LockUpload, ~UploadAnswer PROVE Inv'
  <2>1. \E step \in RescuerPc, k \in Kind :
          /\ Goto(Rescuer, step) \/ Begin(Rescuer, step, k)
          /\ step \notin Wires /\ pc[Rescuer] \notin Wires /\ holder' = holder
    <3>1. CASE Connect BY <1>0, <3>1 DEF Connect, Wires
    <3>2. CASE SetTimeouts BY <1>0, <3>2 DEF SetTimeouts, request, Wires
    <3>3. CASE StayOff BY <1>0, <3>3 DEF StayOff, request, Wires
    <3>4. CASE TurnOn BY <1>0, <3>4 DEF TurnOn, request, Wires
    <3>5. CASE SyncRow BY <1>0, <3>5 DEF SyncRow, request, Wires
    <3>6. CASE UploadDone BY <1>0, <3>6 DEF UploadDone, request, Wires
    <3>7. CASE SyncEnd BY <1>0, <3>7 DEF SyncEnd, request, Wires
    <3>8. CASE Wait BY <1>0, <3>8 DEF Wait, request, Wires
    <3>9. CASE Wake BY <1>0, <3>9 DEF Wake, request, Wires
    <3>10. CASE SpuriousWakeup BY <1>0, <3>10 DEF SpuriousWakeup, request, Wires
    <3> QED
      BY <1>3, <3>1, <3>2, <3>3, <3>4, <3>5, <3>6, <3>7, <3>8, <3>9, <3>10 DEF RescuerStep
  <2>2. PICK step \in RescuerPc, k \in Kind :
          /\ Goto(Rescuer, step) \/ Begin(Rescuer, step, k)
          /\ step \notin Wires /\ pc[Rescuer] \notin Wires /\ holder' = holder
    BY <2>1
  <2>3. HolderOnWire' BY <1>0, <2>2, OffWire DEF Goto, Begin
  <2>4. rows' \in 0..MaxRows
    BY <1>0, <1>3 DEF RescuerStep, Connect, SetTimeouts, StayOff, TurnOn, SyncRow, RowLeft,
                      UploadDone, SyncEnd, Wait, Wake, SpuriousWakeup
  <2>5. /\ holder' \in Threads \cup {None}
        /\ connected' \in BOOLEAN /\ alive' \in BOOLEAN /\ timed' \in BOOLEAN
        /\ torn' \in BOOLEAN /\ endless' \in BOOLEAN /\ silent' \in BOOLEAN
        /\ reachable' \in BOOLEAN /\ faults' \in 0..MaxFaults
    BY <1>0, <1>3, <2>2
    DEF TypeOK, request, socket, RescuerStep, Connect, SetTimeouts, StayOff, TurnOn, SyncRow,
        UploadDone, SyncEnd, Wait, Wake, SpuriousWakeup
  <2>6. /\ pc' \in [Threads -> OpPc \cup RescuerPc]
        /\ \A u \in Ops : pc'[u] \in OpPc
        /\ pc'[Rescuer] \in RescuerPc
        /\ kind' \in [Threads -> Kind]
    BY <1>0, <2>2, MoveType
  <2>7. TypeOK' BY <2>4, <2>5, <2>6 DEF TypeOK, Kind
  <2> QED BY <2>3, <2>7 DEF Inv
<1> QED BY <1>1, <1>2, <1>3

\* What the surroundings do preserves the inductive invariant.
LEMMA SurroundingsInv ==
  ASSUME Inv, \/ Drop \/ ServerBack \/ Silence
              \/ \E t \in Threads : Break(t)
  PROVE  Inv'
<1>0. TypeOK /\ HolderOnWire /\ MaxFaults \in Nat /\ faults \in 0..MaxFaults
  BY BoundsAssumption DEF Inv, TypeOK
<1>1. CASE Drop \/ ServerBack \/ Silence
  <2>1. /\ UNCHANGED <<pc, kind, holder, connected, torn, endless, timed, rows>>
        /\ alive' \in BOOLEAN /\ reachable' \in BOOLEAN /\ silent' \in BOOLEAN
        /\ faults' \in 0..MaxFaults
    <3>1. CASE Drop
      <4>1. /\ alive' = FALSE /\ reachable' \in BOOLEAN /\ faults > 0 /\ faults' = faults - 1
            /\ UNCHANGED <<pc, kind, holder, torn, endless, silent, connected, timed, rows>>
        BY <3>1 DEF Drop, request
      <4>2. silent' \in BOOLEAN BY <1>0, <4>1 DEF TypeOK
      <4>3. faults' \in 0..MaxFaults BY <1>0, <4>1
      <4> QED BY <4>1, <4>2, <4>3
    <3>2. CASE ServerBack BY <1>0, <3>2 DEF ServerBack, TypeOK, request, socket
    <3>3. CASE Silence BY <1>0, <3>3 DEF Silence, TypeOK, socket
    <3> QED BY <1>1, <3>1, <3>2, <3>3
  <2>2. TypeOK' BY <1>0, <2>1 DEF TypeOK
  <2>3. HolderOnWire' BY <1>0, <2>1 DEF HolderOnWire, OnWire
  <2> QED BY <2>2, <2>3 DEF Inv
<1>2. ASSUME NEW t \in Threads, Break(t) PROVE Inv'
  <2>1. UNCHANGED <<connected, timed, reachable, rows, faults>> BY <1>2 DEF Break
  <2>2. "lock" \in OpPc /\ "lock" \in RescuerPc /\ "flush" \in Kind
    BY DEF OpPc, RescuerPc, RequestPc, Kind, Upload
  <2>3. CASE pc[t] = "wire"
    <3>1. /\ Release /\ alive' = FALSE
          /\ \E next \in AfterAnswer(t) \cup AfterFailure(t) : GoOn(t, next)
      BY <1>2, <2>3 DEF Break
    <3> QED BY <1>0, <2>1, <2>3, <3>1, WaitOver DEF Wires
  <2>4. CASE pc[t] = "upwire"
    <3>1. Release /\ UNCHANGED alive /\ Begin(t, "lock", "flush")
      BY <1>2, <2>4 DEF Break
    <3>2. /\ pc' \in [Threads -> OpPc \cup RescuerPc]
          /\ \A u \in Ops : pc'[u] \in OpPc
          /\ pc'[Rescuer] \in RescuerPc
          /\ kind' \in [Threads -> Kind]
      BY <1>0, <2>2, <3>1, MoveType
    <3>3. TypeOK' BY <1>0, <2>1, <3>1, <3>2, ReleaseType DEF TypeOK
    <3>4. HolderOnWire' BY <2>4, <3>1, LeaveWire DEF Begin, Release, Wires
    <3> QED BY <3>3, <3>4 DEF Inv
  <2>5. CASE pc[t] = "updata"
    <3>1. /\ silent' = FALSE /\ UNCHANGED <<holder, torn, endless, alive>>
          /\ Begin(t, "lock", "flush")
      BY <1>2, <2>5 DEF Break
    <3>2. /\ pc' \in [Threads -> OpPc \cup RescuerPc]
          /\ \A u \in Ops : pc'[u] \in OpPc
          /\ pc'[Rescuer] \in RescuerPc
          /\ kind' \in [Threads -> Kind]
      BY <1>0, <2>2, <3>1, MoveType
    <3>3. TypeOK' BY <1>0, <2>1, <3>1, <3>2 DEF TypeOK, Kind
    <3>4. HolderOnWire' BY <2>5, <3>1, OffWire DEF Begin, Wires
    <3> QED BY <3>3, <3>4 DEF Inv
  <2> QED BY <1>2, <2>3, <2>4, <2>5 DEF Break
<1> QED BY <1>1, <1>2

\* Every step preserves the inductive invariant.
LEMMA NextInv == Inv /\ [Next]_vars => Inv'
<1> SUFFICES ASSUME Inv, [Next]_vars PROVE Inv' OBVIOUS
<1>0. TypeOK /\ HolderOnWire BY DEF Inv
<1>1. ASSUME NEW t \in Ops, NEW k \in OpKinds, Call(t, k) PROVE Inv'
  <2> DEFINE step == IF k = "readdir" THEN "check" ELSE "lock"
  <2>1. /\ t \in Threads /\ t # Rescuer /\ k \in Kind
        /\ step \in OpPc /\ step \notin Wires
    BY ThreadsAssumption DEF Threads, Kind, OpPc, RequestPc, Wires
  <2>2. /\ pc[t] = "idle" /\ Begin(t, step, k)
        /\ UNCHANGED <<holder, torn, endless, silent, connected, alive, timed, reachable, rows,
                       faults>>
    BY <1>1 DEF Call, request, socket
  <2> HIDE DEF step
  <2>3. HolderOnWire' BY <2>1, <2>2, OffWire DEF Begin, Wires
  <2>4. TypeOK' BY <1>0, <2>1, <2>2, MoveType DEF TypeOK, Kind
  <2> QED BY <2>3, <2>4 DEF Inv
<1>2. CASE UNCHANGED vars
  <2>1. UNCHANGED <<pc, kind, holder, torn, endless, silent, connected, alive, timed, reachable,
                    rows, faults>>
    BY <1>2 DEF vars, request, socket
  <2> QED BY <1>0, <2>1 DEF Inv, TypeOK, HolderOnWire, OnWire
<1> QED BY <1>1, <1>2, RequestInv, RescuerInv, SurroundingsInv DEF Next

\* The types, and the discipline of the mutex, hold in every reachable state.
THEOREM InvCorrect == Spec => []Inv
  BY InitInv, NextInv, PTL DEF Spec

\* Requests on the main connection exclude each other.
THEOREM OneOnWireHolds == Spec => []OneOnWire
<1>1. Inv => OneOnWire BY DEF Inv, HolderOnWire, OnWire, OneOnWire
<1> QED BY <1>1, InvCorrect, PTL
=============================================================================
