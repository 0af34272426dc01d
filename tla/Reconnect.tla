----------------------------- MODULE Reconnect -----------------------------
(***************************************************************************)
(* The main connection and the thread that restores it: connection.c, the  *)
(* mutex and the status flag of config.c, and the requests of              *)
(* kivfs_remote_operations.c as far as they lock the mutex, wait for the   *)
(* answer and report a lost connection.                                    *)
(*                                                                         *)
(* FUSE threads and the rescuer run the same requests.  What a request     *)
(* asks for is left out, but for the reason it is sent (kind).  The        *)
(* rescuer's upload of a marked file is here with its waits for the file's *)
(* own connection, because it holds the mutex through one of them.  What   *)
(* FUSE threads read and write on the connections of their files is not:   *)
(* they hold the mutex of the handle then, and nobody else waits for it.   *)
(***************************************************************************)
EXTENDS Integers

CONSTANTS
    Ops,        \* threads of the FUSE loop
    Rescuer,    \* the thread created by kivfs_session_init
    None,       \* the mutex is free
    MaxRows,    \* bound on the requests of one cache_sync
    MaxFaults   \* bound on the failures of network and server

ASSUME ThreadsAssumption == Rescuer \notin Ops /\ None \notin Ops \cup {Rescuer}
ASSUME BoundsAssumption == MaxRows \in Nat /\ MaxFaults \in Nat

VARIABLES
    pc,         \* the step every thread is at
    kind,       \* the request it is making
    holder,     \* the thread that holds get_mutex()
    connected,  \* connection_status
    alive,      \* the socket of "connection" leads to the server
    timed,      \* SO_RCVTIMEO is set on the socket of "connection"
    torn,       \* "connection" was replaced under the request in progress
    endless,    \* the thread that holds the mutex waits without a time-out
    silent,     \* a server that is waited for without a time-out says nothing
    reachable,  \* the server accepts connections
    rows,       \* rows of the log and marked files cache_sync has yet to handle
    faults      \* what is left of MaxFaults

request == <<holder, torn, endless, silent>>
socket == <<alive, timed>>
vars == <<pc, kind, request, connected, socket, reachable, rows, faults>>
-----------------------------------------------------------------------------
Threads == Ops \cup {Rescuer}
OpKinds == {"info", "readdir", "command"}

\* lost connections are reported by kivfs_remote_file_info and
\* kivfs_remote_readdir; other requests return the error and no more
\* mutant: kivfs_remote_file_info does not report
ReaddirReports(k) == k = "readdir"
Reports(k) == k \in {"info", "readdir"}

\* a thread between two requests has no kind
Between == {"idle", "failed", "limit", "on", "sync", "enter", "wait", "woken", "connect"}
Goto(t, step) ==
    /\ pc' = [pc EXCEPT ![t] = step]
    /\ kind' = [kind EXCEPT ![t] = IF step \in Between THEN "none" ELSE @]
\* ... and one that starts a request has one
Begin(t, step, k) ==
    /\ pc' = [pc EXCEPT ![t] = step]
    /\ kind' = [kind EXCEPT ![t] = k]

\* mutant: a mutex that excludes nobody
Unguarded == TRUE
MutexFree == holder = None

\* what cache_sync does for a marked file once it has its info: nothing when the
\* server's version is newer, the end after an error it does not know, mkdir, or
\* the upload: open, the data, flush, close, chmod.  An upload ends early when
\* the local file is gone or the file's connection is not to be had.
Upload == {"mkdir", "open", "flush", "close", "chmod"}
RowDone(k) ==
    CASE k = "login" -> {"on"}  \* kivfs_login ignores its result
      [] k = "info" -> {"sync", "enter", "mkdir", "open"}
      [] k = "mkdir" -> {"sync", "open"}
      [] k = "open" -> {"sync", "uplock"}
      [] k = "flush" -> {"close"}
      [] k = "close" -> {"chmod"}
      [] OTHER -> {"sync"}

\* where the code goes on after a request: to a step or to its next request
AfterAnswer(t) == IF t = Rescuer THEN RowDone(kind[t]) ELSE {"idle"}
AfterFailure(t) ==
    IF Reports(kind[t]) THEN {"off"} ELSE AfterAnswer(t) \ {"uplock"}
AfterReport(t) == IF t = Rescuer THEN "enter" ELSE "idle"
GoOn(t, next) == IF next \in Upload THEN Begin(t, "lock", next) ELSE Goto(t, next)

\* the mutex is held by a thread that waits for a silent server without time-out
HeldUp == endless /\ silent

\* the mutex is released, and with it goes all that was said of the wait
Release ==
    /\ holder' = None /\ torn' = FALSE /\ endless' = FALSE
    /\ silent' = (silent /\ ~endless)
-----------------------------------------------------------------------------
(* One request: lock, kivfs_send_and_receive, unlock, report.              *)

\* a FUSE thread calls a remote operation
Call(t, k) ==
    /\ t \in Ops /\ pc[t] = "idle"
    /\ Begin(t, IF k = "readdir" THEN "check" ELSE "lock", k)
    /\ UNCHANGED <<request, connected, socket, reachable, rows, faults>>

\* kivfs_remote_readdir is not attempted without a connection
\* mutant: it waits for one
WaitForConnection == "check"
ReturnNotConnected == "idle"
Check(t) ==
    /\ pc[t] = "check" /\ MutexFree
    /\ Goto(t, IF connected THEN "lock" ELSE ReturnNotConnected)
    /\ UNCHANGED <<request, connected, socket, reachable, rows, faults>>

\* a request sent before kivfs_reconnect has set the time-out has none
Lock(t) ==
    /\ pc[t] = "lock" /\ MutexFree
    /\ holder' = t /\ endless' = ~timed
    /\ Goto(t, "wire")
    /\ UNCHANGED <<torn, silent, connected, socket, reachable, rows, faults>>

Answer(t) ==
    /\ pc[t] = "wire" /\ alive /\ ~HeldUp
    /\ Release
    /\ \E next \in AfterAnswer(t) : GoOn(t, next)
    /\ UNCHANGED <<connected, socket, reachable, rows, faults>>

\* the connection is lost, or the answer takes more than the 10 seconds of
\* SO_RCVTIMEO
Lost == ~alive \/ torn
Fail(t) ==
    /\ pc[t] = "wire"
    /\ \/ Lost /\ UNCHANGED faults
       \/ ~Lost /\ ~endless /\ faults > 0 /\ faults' = faults - 1
    /\ Release
    /\ \E next \in AfterFailure(t) : GoOn(t, next)
    /\ UNCHANGED <<connected, socket, reachable, rows>>

\* set_is_connected(0)
TurnOff(t) ==
    /\ pc[t] = "off" /\ MutexFree
    /\ connected' = FALSE
    /\ Goto(t, "signal")
    /\ UNCHANGED <<request, socket, reachable, rows, faults>>

\* kivfs_restore_connnection: the signal of a thread nobody waits for is lost
Woken(p) == [p EXCEPT ![Rescuer] = IF @ = "wait" THEN "woken" ELSE @]
Signal(t) ==
    /\ pc[t] = "signal" /\ MutexFree
    /\ pc' = Woken([pc EXCEPT ![t] = AfterReport(t)])
    /\ kind' = [kind EXCEPT ![t] = "none"]
    /\ UNCHANGED <<request, connected, socket, reachable, rows, faults>>
-----------------------------------------------------------------------------
(* kivfs_reconnect.                                                        *)

\* kivfs_connect does not take the mutex: it replaces the connection even
\* under a request in progress
Connect ==
    /\ pc[Rescuer] = "connect"
    /\ \/ /\ reachable
          /\ alive' = TRUE /\ timed' = FALSE
          /\ torn' = (holder # None)
          /\ Goto(Rescuer, "limit")
       \/ /\ ~reachable
          /\ Goto(Rescuer, "failed")
          /\ UNCHANGED <<alive, timed, torn>>
    /\ UNCHANGED <<holder, endless, silent, connected, reachable, rows, faults>>

\* the time-outs of 10 seconds, then kivfs_login
SetTimeouts ==
    /\ pc[Rescuer] = "limit"
    /\ timed' = TRUE
    /\ Begin(Rescuer, "lock", "login")
    /\ UNCHANGED <<request, connected, alive, reachable, rows, faults>>

\* set_is_connected(0), and some sleep before the next attempt
StayOff ==
    /\ pc[Rescuer] = "failed" /\ MutexFree
    /\ connected' = FALSE
    /\ Goto(Rescuer, "connect")
    /\ UNCHANGED <<request, socket, reachable, rows, faults>>

\* set_is_connected(1), then cache_sync
TurnOn ==
    /\ pc[Rescuer] = "on" /\ MutexFree
    /\ connected' = TRUE
    /\ Goto(Rescuer, "sync")
    /\ \E n \in 0..MaxRows : rows' = n
    /\ UNCHANGED <<request, socket, reachable, faults>>

\* cache_sync: a command for an entry of the log, a file info for a marked file
\* mutant: the loop does not look for the end of the table
AnyRow == TRUE
RowLeft == rows > 0
SyncRow ==
    /\ pc[Rescuer] = "sync" /\ RowLeft
    /\ rows' = rows - 1
    /\ \E k \in {"info", "command"} : Begin(Rescuer, "lock", k)
    /\ UNCHANGED <<request, connected, socket, reachable, faults>>

\* kivfs_put_from_cache: the request to write goes to the file's own connection,
\* and the mutex of the main one is held until it is answered.  SO_RCVTIMEO was
\* set before that connection had its socket: the wait has no time-out.
LockUpload ==
    /\ pc[Rescuer] = "uplock" /\ MutexFree
    /\ holder' = Rescuer /\ endless' = TRUE
    /\ Goto(Rescuer, "upwire")
    /\ UNCHANGED <<torn, silent, connected, socket, reachable, rows, faults>>

UploadAnswer ==
    /\ pc[Rescuer] = "upwire" /\ ~HeldUp
    /\ Release
    /\ Goto(Rescuer, "updata")
    /\ UNCHANGED <<connected, socket, reachable, rows, faults>>

\* the data is sent and the last answer received without the mutex
UploadDone ==
    /\ pc[Rescuer] = "updata" /\ ~silent
    /\ Begin(Rescuer, "lock", "flush")
    /\ UNCHANGED <<request, connected, socket, reachable, rows, faults>>

SyncEnd ==
    /\ pc[Rescuer] = "sync" /\ rows = 0
    /\ Goto(Rescuer, "enter")
    /\ UNCHANGED <<request, connected, socket, reachable, rows, faults>>

\* lock, pthread_cond_wait, which gives the mutex back
Wait ==
    /\ pc[Rescuer] = "enter" /\ MutexFree
    /\ Goto(Rescuer, "wait")
    /\ UNCHANGED <<request, connected, socket, reachable, rows, faults>>

SpuriousWakeup ==
    /\ pc[Rescuer] = "wait"
    /\ Goto(Rescuer, "woken")
    /\ UNCHANGED <<request, connected, socket, reachable, rows, faults>>

\* pthread_cond_wait takes the mutex before it returns, and it is unlocked
Wake ==
    /\ pc[Rescuer] = "woken" /\ MutexFree
    /\ Goto(Rescuer, "connect")
    /\ UNCHANGED <<request, connected, socket, reachable, rows, faults>>
-----------------------------------------------------------------------------
(* The surroundings.                                                       *)

Drop ==
    /\ alive /\ faults > 0
    /\ alive' = FALSE /\ reachable' \in BOOLEAN
    /\ faults' = faults - 1
    /\ UNCHANGED <<pc, kind, request, connected, timed, rows>>

\* A server that is waited for without a time-out falls silent ...
Silence ==
    /\ endless \/ pc[Rescuer] = "updata"
    /\ ~silent /\ faults > 0
    /\ silent' = TRUE
    /\ faults' = faults - 1
    /\ UNCHANGED <<pc, kind, holder, torn, endless, connected, socket, reachable, rows>>

\* ... and the connection may break some day, or never.
Break(t) ==
    /\ silent
    /\ \/ /\ pc[t] = "wire" /\ endless
          /\ Release /\ alive' = FALSE
          /\ \E next \in AfterFailure(t) : GoOn(t, next)
       \/ /\ pc[t] = "upwire"
          /\ Release /\ UNCHANGED alive
          /\ Begin(t, "lock", "flush")
       \/ /\ pc[t] = "updata"
          /\ silent' = FALSE /\ UNCHANGED <<holder, torn, endless, alive>>
          /\ Begin(t, "lock", "flush")
    /\ UNCHANGED <<connected, timed, reachable, rows, faults>>

ServerBack ==
    /\ ~reachable
    /\ reachable' = TRUE
    /\ UNCHANGED <<pc, kind, request, connected, socket, rows, faults>>
-----------------------------------------------------------------------------
Init ==
    /\ pc = [t \in Threads |-> IF t = Rescuer THEN "connect" ELSE "idle"]
    /\ kind = [t \in Threads |-> "none"]
    /\ holder = None
    /\ connected = FALSE /\ alive = FALSE /\ timed = FALSE
    /\ torn = FALSE /\ endless = FALSE /\ silent = FALSE
    /\ reachable \in BOOLEAN
    /\ rows = 0
    /\ faults = MaxFaults

RequestStep(t) == Check(t) \/ Lock(t) \/ Answer(t) \/ Fail(t) \/ TurnOff(t) \/ Signal(t)
RescuerStep ==
    \/ Connect \/ SetTimeouts \/ StayOff \/ TurnOn
    \/ SyncRow \/ LockUpload \/ UploadAnswer \/ UploadDone \/ SyncEnd
    \/ Wait \/ Wake

Next ==
    \/ \E t \in Ops, k \in OpKinds : Call(t, k)
    \/ \E t \in Threads : RequestStep(t)
    \/ RescuerStep \/ SpuriousWakeup
    \/ Drop \/ ServerBack \/ Silence
    \/ \E t \in Threads : Break(t)

Spec == Init /\ [][Next]_vars

\* Threads are scheduled, and a thread that asks for the mutex again and again
\* while it is free gets it.  The server comes back.  Applications keep opening
\* files, each of which asks for a file info; readdir and commands may never come.
\* A server answers or its connection breaks, or the time-out ends the wait: a
\* silent server that is waited for without one need not do either.
Fairness ==
    /\ \A t \in Threads : SF_vars(RequestStep(t))
    /\ SF_vars(RescuerStep)
    /\ WF_vars(ServerBack)
    /\ \A t \in Ops : SF_vars(Call(t, "info"))
FairSpec == Spec /\ Fairness
-----------------------------------------------------------------------------
(* Properties.                                                             *)

RequestPc == {"lock", "wire", "off", "signal"}
OpPc == RequestPc \cup {"idle", "check"}
UploadPc == {"uplock", "upwire", "updata"}
RescuerPc ==
    RequestPc \cup UploadPc
    \cup {"connect", "limit", "failed", "on", "sync", "enter", "wait", "woken"}

\* Every variable keeps its type.
TypeOK ==
    /\ pc \in [Threads -> OpPc \cup RescuerPc]
    /\ \A t \in Ops : pc[t] \in OpPc
    /\ pc[Rescuer] \in RescuerPc
    /\ kind \in [Threads -> OpKinds \cup Upload \cup {"login", "none"}]
    /\ holder \in Threads \cup {None}
    /\ connected \in BOOLEAN /\ alive \in BOOLEAN /\ timed \in BOOLEAN
    /\ torn \in BOOLEAN /\ endless \in BOOLEAN /\ silent \in BOOLEAN
    /\ reachable \in BOOLEAN
    /\ rows \in 0..MaxRows /\ faults \in 0..MaxFaults

\* Two threads never have a request on the main connection at once: answers
\* carry no request number, so each would take the other's.
OneOnWire == \A t, u \in Threads : pc[t] = "wire" /\ pc[u] = "wire" => t = u

\* What makes it inductive: the holder of the mutex is the thread that waits for
\* an answer, on the main connection or on that of the file it uploads.
OnWire(t) == pc[t] \in {"wire", "upwire"}
HolderOnWire == \A t \in Threads : OnWire(t) <=> holder = t
Inv == TypeOK /\ HolderOnWire

\* Every operation a FUSE thread asks of the main connection ends, whatever
\* happens to that connection meanwhile, unless the mutex is held by a wait that
\* has no time-out: a silent server then blocks every operation for as long as
\* it likes.
Answered == \A t \in Ops : pc[t] # "idle" ~> pc[t] = "idle" \/ HeldUp

\* A connection that is lost is replaced, as long as files are opened and no
\* silent server is waited for without a time-out.
Reconnects == ~alive ~> alive \/ silent

\* connection.c:23, "Signal on this variable wakes up a rescuer thread": a
\* thread about to signal has the rescuer connect again.
SignalWakesRescuer == \A t \in Ops : pc[t] = "signal" ~> pc[Rescuer] = "connect"
=============================================================================
