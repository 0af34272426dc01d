------------------------------ MODULE FileSync ------------------------------
(***************************************************************************)
(* The life of a file's content between the local cache and the server:    *)
(* kivfs_open, kivfs_read, kivfs_write, kivfs_truncate and kivfs_release   *)
(* run by FUSE threads, the rescuer thread of connection.c that reconnects *)
(* and uploads marked files (cache_sync_modified), and what surrounds      *)
(* them: the network, other clients of the server and a kill of the mount. *)
(*                                                                         *)
(* Every step of a handler that another thread can observe is an action.   *)
(* A file's bytes are one value: the number of the write that produced     *)
(* them.  Local file system calls do not fail.  Names (create, unlink,     *)
(* rename and the operation log) are the business of another module.       *)
(***************************************************************************)
EXTENDS Integers, FiniteSets

CONSTANTS
    Files,       \* paths present in the table "files"
    Handles,     \* kivfs_ofile_t structures the FUSE threads may use
    Created,     \* files created while the server could not be reached
    Modes,       \* access modes the applications use
    Truncated,   \* bound: the files they truncate
    Hole,        \* a local file of the right size that was never filled in
    Missing,     \* no local file
    NoRow,       \* no row in the table "files"
    MaxWrites,   \* bound on the contents written, by anybody
    MaxForeign,  \* bound on the steps of other clients
    MaxDrops,    \* bound on the failures of the network
    MaxCrashes,  \* bound on the deaths of the process
    MaxVersion,  \* bound on the versions of a file, which uploads count
    MaxFetching  \* bound on the opens that fetch a file at the same time (1 with -s)

Row == [ver : Int, cached : BOOLEAN, modified : BOOLEAN]

ASSUME SymbolsAssumption ==
    /\ Hole \notin Nat /\ Missing \notin Nat /\ Hole # Missing
    /\ NoRow \notin Row
    /\ Missing \notin Files
ASSUME CreatedAssumption == Created \subseteq Files /\ Truncated \subseteq Files
ASSUME ModesAssumption == Modes \subseteq {"rdonly", "wronly", "rdwr"}
ASSUME BoundsAssumption ==
    /\ MaxWrites \in Nat /\ MaxForeign \in Nat
    /\ MaxDrops \in Nat /\ MaxCrashes \in Nat /\ MaxVersion \in Nat
    /\ MaxFetching \in Nat

VARIABLES
    srv,        \* the server's files
    row,        \* the table "files": version, cached, modified
    local,      \* the local copies below the cache directory
    hnd,        \* the open files, with the step their handler is at
    connected,  \* connection_status of config.c
    mainSock,   \* the main connection of connection.c is usable
    sync,       \* the rescuer thread
    tok,        \* the last content written
    budget,     \* what is left of the bounds on the surroundings
    wrote,      \* history: the writes each open handle has acknowledged
    sent        \* history: those of its writes the server has stored

vars == <<srv, row, local, hnd, connected, mainSock, sync, tok, budget, wrote, sent>>
-----------------------------------------------------------------------------
Empty   == 0        \* the content of a file of no bytes
Offline == -1       \* kivfs_remote_file_info returned -ENOTCONN
NoFile  == -2       \* kivfs_remote_file_info returned KIVFS_ERC_NO_SUCH_FILE

FetchPc  == {"creating", "reopening", "asking", "evicting", "uncaching", "caching", "fetching"}
HandlePc == {"free", "opening", "open", "storing", "closing", "saving", "marking"} \cup FetchPc
SyncPc   == {"connecting", "login", "scan", "upload", "sending", "closing",
             "clearing", "bumping", "waiting"}

\* calloc in kivfs_open
FreeHandle ==
    [pc |-> "free", file |-> Missing, mode |-> "rdonly", info |-> Offline,
     fd |-> "none", rfd |-> "none", sock |-> FALSE, dirty |-> FALSE,
     err |-> FALSE, delayed |-> FALSE, wr |-> FALSE, data |-> Empty, victim |-> Missing]

\* the handle's own changes
Put(h, o) == hnd' = [hnd EXCEPT ![h] = o]

\* cache_get_version: -1 when the row is gone
LocalVer(f) == IF row[f] = NoRow THEN -1 ELSE row[f].ver

Marked(f) == row[f] # NoRow /\ row[f].modified
Cached(f) == row[f] # NoRow /\ row[f].cached     \* cache_contains

\* mutant: an INSERT OR REPLACE of the version alone
InsertVersion(r) == IF r = NoRow THEN [ver |-> 1] ELSE [r EXCEPT !.ver = @ + 1]

\* an UPDATE of a row that is gone changes nothing
SetVersion(r, v)  == IF r = NoRow THEN r ELSE [r EXCEPT !.ver = v]
IncVersion(r)     == IF r = NoRow THEN r ELSE [r EXCEPT !.ver = @ + 1]
SetModified(r, b) == IF r = NoRow THEN r ELSE [r EXCEPT !.modified = b]
SetCached(r, b)   == IF r = NoRow THEN r ELSE [r EXCEPT !.cached = b]

\* unlink of local copies: a descriptor keeps the file it was opened on
Orphan(H, fs) ==
    [h \in Handles |->
        IF H[h].file \in fs /\ H[h].fd = "live" THEN [H[h] EXCEPT !.fd = "orphan"] ELSE H[h]]
RemoveLocal(fs) == [f \in Files |-> IF f \in fs THEN Missing ELSE local[f]]

\* a remote descriptor opened for writing truncates its file, and creates it
OpenedForWriting(s) == [exists |-> TRUE, ver |-> IF s.exists THEN s.ver ELSE 1, data |-> Empty]

\* the server counts one version for a descriptor that changed its file
ClosedOnServer(S, D) ==
    [f \in Files |->
        IF \E h \in D : hnd[h].file = f /\ hnd[h].dirty
        THEN [S[f] EXCEPT !.ver = @ + 1] ELSE S[f]]

\* ... and those handles have lost it
Cut(H, D) ==
    [h \in Handles |->
        IF h \in D THEN [H[h] EXCEPT !.sock = FALSE, !.dirty = FALSE] ELSE H[h]]

\* set_is_connected(0) and kivfs_restore_connnection: the signal reaches the
\* rescuer only if it is in pthread_cond_wait
LostConnection ==
    /\ connected' = FALSE
    /\ sync' = IF sync.pc = "waiting" THEN [sync EXCEPT !.pc = "connecting"] ELSE sync

\* kivfs_remote_file_info: the version, NoFile, or Offline with the recovery
\* requested: the connection has ended, or the answer took more than 10 seconds
RemoteFileInfo(f, res) ==
    \/ /\ mainSock
       /\ res = IF srv[f].exists THEN srv[f].ver ELSE NoFile
       /\ UNCHANGED <<connected, sync>>
    \/ /\ res = Offline
       /\ LostConnection
-----------------------------------------------------------------------------
(* kivfs_open.                                                             *)

\* open_file_wronly: the remote file is opened by the first write
OpenWronly(h, f) ==
    /\ hnd[h].pc = "free" /\ row[f] # NoRow /\ "wronly" \in Modes
    /\ connected \/ local[f] # Missing
    /\ Put(h, [FreeHandle EXCEPT !.pc = "open", !.file = f, !.mode = "wronly",
                                 !.fd = IF local[f] = Missing THEN "none" ELSE "live",
                                 !.rfd = IF connected THEN "placeholder" ELSE "none",
                                 !.delayed = connected])
    /\ UNCHANGED <<srv, row, local, connected, mainSock, sync, tok, budget, wrote, sent>>

\* open_file, up to the answer of kivfs_remote_file_info (any other error
\* aborts the open, which changes nothing)
OpenInfo(h, f, m) ==
    /\ hnd[h].pc = "free" /\ row[f] # NoRow /\ m \in Modes \ {"wronly"}
    /\ \E res \in {Offline, NoFile, srv[f].ver} :
         /\ RemoteFileInfo(f, res)
         /\ Put(h, [FreeHandle EXCEPT !.pc = "opening", !.file = f, !.mode = m, !.info = res])
    /\ UNCHANGED <<srv, row, local, mainSock, tok, budget, wrote, sent>>

\* the file does not exist on the server: it is deleted from the cache
OpenGone(h) ==
    /\ hnd[h].pc = "opening" /\ hnd[h].info = NoFile
    /\ LET f == hnd[h].file
       IN  /\ local' = RemoveLocal({f})
           /\ row' = [row EXCEPT ![f] = NoRow]
           /\ hnd' = [Orphan(hnd, {f}) EXCEPT ![h] = FreeHandle]
    /\ UNCHANGED <<srv, connected, mainSock, sync, tok, budget, wrote, sent>>

\* remote file is newer or local one missing.  The version of a row that is
\* gone, (int) -1, is compared as an unsigned number of 64 bits: none is newer
MustFetch(h) ==
    LET f == hnd[h].file
    IN  hnd[h].info \in Nat /\ (local[f] = Missing \/ (row[f] # NoRow /\ hnd[h].info > LocalVer(f)))

\* try_open_remote_with_cache: the remote open fails, before or after the
\* server has handed out a descriptor
FetchRefused(h) ==
    /\ hnd[h].pc = "opening" /\ MustFetch(h)
    /\ \/ Put(h, FreeHandle)
       \/ /\ mainSock
          /\ Put(h, [hnd[h] EXCEPT !.pc = "open", !.rfd = "real", !.info = Offline])
    /\ UNCHANGED <<srv, row, local, connected, mainSock, sync, tok, budget, wrote, sent>>

\* ... or it succeeds.  A file of half the cache or more gets no local copy;
\* O_CREAT is set if there was none
Fetch(h) ==
    /\ hnd[h].pc = "opening" /\ MustFetch(h) /\ mainSock
    /\ Cardinality({k \in Handles : hnd[k].pc \in FetchPc}) < MaxFetching
    /\ \E pc \in {"fetching", IF local[hnd[h].file] = Missing THEN "creating" ELSE "reopening"} :
         Put(h, [hnd[h] EXCEPT !.pc = pc, !.rfd = "real", !.sock = TRUE])
    /\ UNCHANGED <<srv, row, local, connected, mainSock, sync, tok, budget, wrote, sent>>

\* open_with_cache: the local copy is opened, and gets the size of the remote
\* file.  One that was evicted since its check is not created
FetchLocal(h) ==
    LET f == hnd[h].file
        found == local[f] # Missing \/ hnd[h].pc = "creating"
    IN  /\ hnd[h].pc \in {"creating", "reopening"}
        /\ local' = IF local[f] = Missing /\ found THEN [local EXCEPT ![f] = Hole] ELSE local
        /\ Put(h, [hnd[h] EXCEPT !.pc = "asking", !.fd = IF found THEN "live" ELSE "none"])
        /\ UNCHANGED <<srv, row, connected, mainSock, sync, tok, budget, wrote, sent>>

\* a file that is in the cache needs no more room
FetchContains(h) ==
    /\ hnd[h].pc = "asking"
    /\ Put(h, [hnd[h] EXCEPT !.pc = IF Cached(hnd[h].file) THEN "caching" ELSE "evicting"])
    /\ UNCHANGED <<srv, row, local, connected, mainSock, sync, tok, budget, wrote, sent>>

\* cleanup: unlink of a cached file and cache_set_cached(path, 0), as long as
\* there is no room
FetchEvict(h, g) ==
    /\ hnd[h].pc = "evicting" /\ Cached(g)
    /\ local' = RemoveLocal({g})
    /\ LET left == Orphan(hnd, {g})
       IN  hnd' = [left EXCEPT ![h] = [left[h] EXCEPT !.pc = "uncaching", !.victim = g]]
    /\ UNCHANGED <<srv, row, connected, mainSock, sync, tok, budget, wrote, sent>>
FetchUncache(h) ==
    /\ hnd[h].pc = "uncaching"
    /\ row' = [row EXCEPT ![hnd[h].victim] = SetCached(@, FALSE)]
    /\ Put(h, [hnd[h] EXCEPT !.pc = "evicting", !.victim = Missing])
    /\ UNCHANGED <<srv, local, connected, mainSock, sync, tok, budget, wrote, sent>>

\* cache_set_cached, with a local descriptor, when there is room, or nothing is
\* left to evict
FetchCached(h) ==
    LET f == hnd[h].file
    IN  /\ hnd[h].pc \in {"caching", "evicting"}
        /\ row' = IF hnd[h].fd = "none" THEN row ELSE [row EXCEPT ![f] = SetCached(@, TRUE)]
        /\ Put(h, [hnd[h] EXCEPT !.pc = "fetching"])
        /\ UNCHANGED <<srv, local, connected, mainSock, sync, tok, budget, wrote, sent>>

\* ... and the row takes the remote version, before any byte was read
FetchUpdate(h) ==
    LET f == hnd[h].file
    IN  /\ hnd[h].pc = "fetching"
        /\ row' = [row EXCEPT ![f] = SetVersion(@, hnd[h].info)]
        /\ Put(h, [hnd[h] EXCEPT !.pc = "open", !.info = Offline])
        /\ UNCHANGED <<srv, local, connected, mainSock, sync, tok, budget, wrote, sent>>

\* local file is up to date, or there is no connection
OpenLocal(h) ==
    /\ hnd[h].pc = "opening" /\ hnd[h].info # NoFile /\ ~MustFetch(h)
    /\ Put(h, IF local[hnd[h].file] = Missing THEN FreeHandle
              ELSE [hnd[h] EXCEPT !.pc = "open", !.fd = "live", !.info = Offline])
    /\ UNCHANGED <<srv, row, local, connected, mainSock, sync, tok, budget, wrote, sent>>
-----------------------------------------------------------------------------
(* kivfs_read, kivfs_write, kivfs_truncate, kivfs_ftruncate.               *)

\* what is read from the server is copied into the local file
Read(h) ==
    LET f == hnd[h].file
    IN  /\ hnd[h].pc = "open" /\ hnd[h].mode # "wronly"
        /\ hnd[h].rfd # "none" /\ ~hnd[h].err /\ hnd[h].sock
        /\ hnd[h].fd = "live" /\ srv[f].exists
        /\ local' = [local EXCEPT ![f] = srv[f].data]
        /\ UNCHANGED <<srv, row, hnd, connected, mainSock, sync, tok, budget, wrote, sent>>

\* the remote half of kivfs_write.  "opened" is the outcome of the delayed
\* kivfs_remote_open: "half" when the server opened the file and the file's
\* own connection failed.  "arrived": the server stored the data; "acked":
\* kivfs_remote_write returned its size
RfdAfter(o, opened)  == IF opened = "fail" THEN o.rfd ELSE "real"
SockAfter(o, opened) == o.sock \/ opened = "ok"
\* mutants: the placeholder counts as no descriptor; the error flag is not tested
SendsReal(o, opened)     == RfdAfter(o, opened) = "real" /\ ~o.err
SendsUnflagged(o, opened) == RfdAfter(o, opened) # "none"
Sends(o, opened)     == RfdAfter(o, opened) # "none" /\ ~o.err
HandleAfter(o, t, opened, arrived, acked) ==
    [o EXCEPT !.pc = IF o.fd = "none" THEN "open" ELSE "storing",
              !.data = IF o.fd = "none" THEN Empty ELSE t,
              !.rfd = RfdAfter(o, opened),
              !.sock = SockAfter(o, opened),
              !.err = o.err \/ (Sends(o, opened) /\ ~acked),
              !.wr = (o.fd = "none") \/ o.wr,
              !.delayed = o.delayed /\ opened # "ok",
              !.dirty = o.dirty \/ opened # "fail" \/ arrived]
ServerAfter(s, t, opened, arrived) ==
    LET held == IF opened = "fail" THEN s ELSE OpenedForWriting(s)
    IN  IF arrived THEN [held EXCEPT !.data = t] ELSE held

WriteOutcome(h, opened, arrived, acked) ==
    LET o == hnd[h]
        t == tok + 1
    IN  /\ o.pc = "open" /\ o.mode # "rdonly" /\ tok < MaxWrites
        /\ opened # "fail" => o.delayed /\ ~o.err /\ mainSock
        /\ arrived => Sends(o, opened) /\ connected /\ SockAfter(o, opened)
        /\ acked => arrived
        /\ srv' = [srv EXCEPT ![o.file] = ServerAfter(@, t, opened, arrived)]
        /\ sent' = IF arrived THEN [sent EXCEPT ![h] = @ \cup {t}] ELSE sent
        /\ wrote' = IF acked \/ o.fd # "none" THEN [wrote EXCEPT ![h] = @ \cup {t}] ELSE wrote
        /\ Put(h, HandleAfter(o, t, opened, arrived, acked))
        /\ tok' = t
        /\ UNCHANGED <<row, local, connected, mainSock, sync, budget>>

WriteRemote(h) ==
    \E opened \in {"ok", "half", "fail"}, arrived, acked \in BOOLEAN :
        WriteOutcome(h, opened, arrived, acked)

\* the local half: the write succeeds even when the remote one failed
WriteLocal(h) ==
    LET f == hnd[h].file
    IN  /\ hnd[h].pc = "storing"
        /\ local' = IF hnd[h].fd = "live" THEN [local EXCEPT ![f] = hnd[h].data] ELSE local
        /\ Put(h, [hnd[h] EXCEPT !.pc = "open", !.wr = TRUE, !.data = Empty])
        /\ UNCHANGED <<srv, row, connected, mainSock, sync, tok, budget, wrote, sent>>

\* kivfs_truncate on a path and kivfs_ftruncate on a handle, to size 0: only
\* the local copy is cut
Truncate(f) ==
    /\ f \in Truncated
    /\ row[f] # NoRow /\ local[f] # Missing
    /\ local' = [local EXCEPT ![f] = Empty]
    /\ UNCHANGED <<srv, row, hnd, connected, mainSock, sync, tok, budget, wrote, sent>>
-----------------------------------------------------------------------------
(* kivfs_release.                                                          *)

\* the placeholder is closed like a descriptor, and its number may be that of
\* a descriptor the server gave to another handle
Misnamed(h) ==
    {D \in SUBSET (Handles \ {h}) :
        /\ \A g, k \in D : g = k
        /\ D # {} => hnd[h].rfd = "placeholder" /\ mainSock
        /\ \A g \in D : hnd[g].rfd = "real"}

\* close both descriptors; a handle that wrote nothing is done
ReleaseClose(h) ==
    /\ hnd[h].pc = "open"
    /\ \E D \in Misnamed(h) :
         /\ srv' = ClosedOnServer(srv, D \cup {h})
         /\ hnd' = [Cut(hnd, D) EXCEPT
                      ![h] = IF hnd[h].wr
                             THEN [hnd[h] EXCEPT !.pc = "closing", !.sock = FALSE, !.dirty = FALSE]
                             ELSE FreeHandle]
    /\ UNCHANGED <<row, local, connected, mainSock, sync, tok, budget, wrote, sent>>

\* the version cache_update is about to store: the row's own when there is a
\* local file, else the remote one.  A remote file info that fails leaves the
\* pointer uninitialised: null has cache_update take the row's version
ReleaseStat(h) ==
    LET f == hnd[h].file
    IN  /\ hnd[h].pc = "closing"
        /\ \/ /\ hnd[h].fd # "none"
              /\ Put(h, [hnd[h] EXCEPT !.pc = "saving", !.info = LocalVer(f)])
              /\ UNCHANGED <<connected, sync>>
           \/ /\ hnd[h].fd = "none"
              /\ \E res \in {Offline, NoFile, srv[f].ver} :
                   /\ RemoteFileInfo(f, res)
                   /\ Put(h, [hnd[h] EXCEPT !.pc = "saving",
                                            !.info = IF res \in Nat THEN res ELSE LocalVer(f)])
        /\ UNCHANGED <<srv, row, local, mainSock, tok, budget, wrote, sent>>

\* the UPDATE of cache_update
ReleaseSave(h) ==
    LET f == hnd[h].file
    IN  /\ hnd[h].pc = "saving"
        /\ row' = [row EXCEPT ![f] = SetVersion(@, hnd[h].info)]
        /\ Put(h, [hnd[h] EXCEPT !.pc = "marking", !.info = Offline])
        /\ UNCHANGED <<srv, local, connected, mainSock, sync, tok, budget, wrote, sent>>

\* mutant: a failed write alone does not mark the file
NeedsMarkOffline(h) == ~connected

\* mark the file for synchronisation, or count the version the server counted
NeedsMark(h) == hnd[h].err \/ ~connected
ReleaseMark(h) ==
    LET f == hnd[h].file
    IN  /\ hnd[h].pc = "marking"
        /\ row' = [row EXCEPT ![f] =
                     IF NeedsMark(h) THEN SetModified(@, TRUE) ELSE IncVersion(@)]
        /\ Put(h, FreeHandle)
        /\ wrote' = [wrote EXCEPT ![h] = {}] /\ sent' = [sent EXCEPT ![h] = {}]
        /\ UNCHANGED <<srv, local, connected, mainSock, sync, tok, budget>>
-----------------------------------------------------------------------------
(* The rescuer: kivfs_reconnect and, through cache_sync,                   *)
(* cache_sync_modified and kivfs_put_from_cache.                           *)

Rescuer(pc) == sync' = [sync EXCEPT !.pc = pc]
At(pc) == [pc |-> pc, file |-> Missing, seen |-> {}]

\* kivfs_connect
Connect ==
    /\ sync.pc = "connecting"
    /\ \/ /\ mainSock' = TRUE
          /\ Rescuer("login")
          /\ UNCHANGED connected
       \/ /\ connected' = FALSE
          /\ UNCHANGED <<mainSock, sync>>
    /\ UNCHANGED <<srv, row, local, hnd, tok, budget, wrote, sent>>

\* kivfs_login, set_is_connected(1), and the SELECT of cache_sync_modified
Login ==
    /\ sync.pc = "login"
    /\ connected' = TRUE
    /\ sync' = At("scan")
    /\ UNCHANGED <<srv, row, local, hnd, mainSock, tok, budget, wrote, sent>>

\* the next marked row; its upload goes on unless the row is ahead of the server
SyncPick(f) ==
    /\ sync.pc = "scan" /\ f \notin sync.seen
    /\ Marked(f) /\ mainSock /\ srv[f].ver < MaxVersion
    /\ sync' = [pc |-> IF srv[f].exists /\ row[f].ver > srv[f].ver THEN "scan" ELSE "upload",
                file |-> f, seen |-> sync.seen \cup {f}]
    /\ UNCHANGED <<srv, row, local, hnd, connected, mainSock, tok, budget, wrote, sent>>

\* kivfs_remote_file_info fails: the pass is given up; a lost connection, or a
\* time-out, is signalled, to nobody, since the rescuer itself is not waiting yet
SyncAbort ==
    /\ sync.pc = "scan"
    /\ \E f \in Files \ sync.seen : Marked(f)
    /\ sync' = At("waiting")
    /\ connected' \in {connected /\ mainSock, FALSE}
    /\ UNCHANGED <<srv, row, local, hnd, mainSock, tok, budget, wrote, sent>>

\* no marked row is left: pthread_cond_wait
SyncDone ==
    /\ sync.pc = "scan"
    /\ \A f \in Files \ sync.seen : ~Marked(f)
    /\ sync' = At("waiting")
    /\ UNCHANGED <<srv, row, local, hnd, connected, mainSock, tok, budget, wrote, sent>>

\* kivfs_put_from_cache up to its kivfs_remote_open.  "half": as in
\* WriteRemote; "refused": any error but KIVFS_ERC_NO_SUCH_FILE
SyncOpen ==
    LET f == sync.file
    IN  /\ sync.pc = "upload" /\ local[f] # Missing
        /\ \E opened \in {"ok", "half", "refused"} :
             /\ opened # "refused" => mainSock
             /\ srv' = IF opened = "refused" THEN srv
                       ELSE [srv EXCEPT ![f] = OpenedForWriting(srv[f])]
             /\ Rescuer(IF opened = "ok" THEN "sending" ELSE "scan")
        /\ UNCHANGED <<row, local, hnd, connected, mainSock, tok, budget, wrote, sent>>

\* the local file is gone, or the server refuses with KIVFS_ERC_NO_SUCH_FILE:
\* the file is removed from the cache.  (errno of a failed stat and the
\* codes of libkivfs are different numberings: the former may match or not)
SyncGone ==
    LET f == sync.file
    IN  /\ sync.pc = "upload"
        /\ \/ local[f] = Missing /\ UNCHANGED <<row, local, hnd>>
           \/ /\ local[f] = Missing \/ mainSock
              /\ local' = RemoveLocal({f})
              /\ row' = [row EXCEPT ![f] = NoRow]
              /\ hnd' = Orphan(hnd, {f})
        /\ Rescuer("scan")
        /\ UNCHANGED <<srv, connected, mainSock, tok, budget, wrote, sent>>

\* the transfer reads the local file now; its failure is not noticed, since
\* the result of the close replaces it
SyncSend ==
    LET f == sync.file
    IN  /\ sync.pc = "sending"
        /\ \/ local[f] # Missing /\ srv' = [srv EXCEPT ![f].data = local[f]]
           \/ UNCHANGED srv
        /\ Rescuer("closing")
        /\ UNCHANGED <<row, local, hnd, connected, mainSock, tok, budget, wrote, sent>>

SyncClose ==
    LET f == sync.file
    IN  /\ sync.pc = "closing"
        /\ srv' = [srv EXCEPT ![f].ver = @ + 1]
        /\ \/ mainSock /\ Rescuer("clearing")
           \/ Rescuer("scan")
        /\ UNCHANGED <<row, local, hnd, connected, mainSock, tok, budget, wrote, sent>>

\* cache_set_modified(path, 0)
SyncClear ==
    /\ sync.pc = "clearing"
    /\ row' = [row EXCEPT ![sync.file] = SetModified(@, FALSE)]
    /\ Rescuer("bumping")
    /\ UNCHANGED <<srv, local, hnd, connected, mainSock, tok, budget, wrote, sent>>

\* cache_inc_version
SyncBump ==
    /\ sync.pc = "bumping"
    /\ row' = [row EXCEPT ![sync.file] = IncVersion(@)]
    /\ Rescuer("scan")
    /\ UNCHANGED <<srv, local, hnd, connected, mainSock, tok, budget, wrote, sent>>

\* pthread_cond_wait may return without a signal
SpuriousWakeup ==
    /\ sync.pc = "waiting"
    /\ Rescuer("connecting")
    /\ UNCHANGED <<srv, row, local, hnd, connected, mainSock, tok, budget, wrote, sent>>
-----------------------------------------------------------------------------
(* The surroundings.                                                       *)

\* some connections end; the server closes the descriptors of those it loses
NetDrop(D) ==
    /\ budget.drops > 0
    /\ \A h \in D : hnd[h].sock
    /\ mainSock' \in {mainSock, FALSE}
    /\ mainSock' # mainSock \/ D # {}
    /\ srv' = ClosedOnServer(srv, D)
    /\ hnd' = Cut(hnd, D)
    /\ budget' = [budget EXCEPT !.drops = @ - 1]
    /\ UNCHANGED <<row, local, connected, sync, tok, wrote, sent>>

\* another client writes the file, or removes it
ForeignWrite(f) ==
    /\ budget.foreign > 0 /\ srv[f].exists /\ tok < MaxWrites
    /\ srv' = [srv EXCEPT ![f].data = tok + 1, ![f].ver = @ + 1]
    /\ tok' = tok + 1
    /\ budget' = [budget EXCEPT !.foreign = @ - 1]
    /\ UNCHANGED <<row, local, hnd, connected, mainSock, sync, wrote, sent>>

ForeignRemove(f) ==
    /\ budget.foreign > 0 /\ srv[f].exists
    /\ srv' = [srv EXCEPT ![f].exists = FALSE]
    /\ budget' = [budget EXCEPT !.foreign = @ - 1]
    /\ UNCHANGED <<row, local, hnd, connected, mainSock, sync, tok, wrote, sent>>

\* the process dies and is mounted again: the database and the local files stay
Crash ==
    /\ budget.crashes > 0
    /\ srv' = ClosedOnServer(srv, Handles)
    /\ hnd' = [h \in Handles |-> FreeHandle]
    /\ connected' = FALSE /\ mainSock' = FALSE
    /\ sync' = At("connecting")
    /\ wrote' = [h \in Handles |-> {}] /\ sent' = [h \in Handles |-> {}]
    /\ budget' = [budget EXCEPT !.crashes = @ - 1]
    /\ UNCHANGED <<row, local, tok>>
-----------------------------------------------------------------------------
\* a file was learnt from the server by a readdir, or was created locally
Init ==
    /\ srv = [f \in Files |-> IF f \in Created
                              THEN [exists |-> FALSE, ver |-> 0, data |-> Empty]
                              ELSE [exists |-> TRUE, ver |-> 1, data |-> 1]]
    /\ row = [f \in Files |-> [ver |-> 1, cached |-> f \in Created, modified |-> FALSE]]
    /\ local = [f \in Files |-> IF f \in Created THEN Empty ELSE Missing]
    /\ hnd = [h \in Handles |-> FreeHandle]
    /\ connected = FALSE /\ mainSock = FALSE
    /\ sync = At("connecting")
    /\ tok = 1
    /\ budget = [foreign |-> MaxForeign, drops |-> MaxDrops, crashes |-> MaxCrashes]
    /\ wrote = [h \in Handles |-> {}]
    /\ sent = [h \in Handles |-> {}]

FetchStep(h) ==
    \/ FetchLocal(h) \/ FetchContains(h) \/ (\E g \in Files : FetchEvict(h, g))
    \/ FetchUncache(h) \/ FetchCached(h)
OpenStep(h) ==
    \/ \E f \in Files : OpenWronly(h, f) \/ (\E m \in Modes : OpenInfo(h, f, m))
    \/ OpenGone(h) \/ FetchRefused(h) \/ Fetch(h) \/ FetchUpdate(h) \/ OpenLocal(h)
    \/ FetchStep(h)
UseStep(h) == Read(h) \/ WriteRemote(h) \/ WriteLocal(h)
ReleaseStep(h) == ReleaseClose(h) \/ ReleaseStat(h) \/ ReleaseSave(h) \/ ReleaseMark(h)
RescuerStep ==
    \/ Connect \/ Login \/ (\E f \in Files : SyncPick(f)) \/ SyncAbort \/ SyncDone
    \/ SyncOpen \/ SyncGone \/ SyncSend \/ SyncClose \/ SyncClear \/ SyncBump
    \/ SpuriousWakeup
Surroundings ==
    \/ (\E D \in SUBSET Handles : NetDrop(D)) \/ Crash
    \/ \E f \in Files : ForeignWrite(f) \/ ForeignRemove(f)

Next ==
    \/ \E h \in Handles : OpenStep(h) \/ UseStep(h) \/ ReleaseStep(h)
    \/ \E f \in Files : Truncate(f)
    \/ RescuerStep
    \/ Surroundings

Spec == Init /\ [][Next]_vars
-----------------------------------------------------------------------------
(* Properties.                                                             *)

Handle ==
    [pc : HandlePc, file : Files \cup {Missing}, mode : {"rdonly", "wronly", "rdwr"},
     info : Int, fd : {"none", "live", "orphan"}, rfd : {"none", "placeholder", "real"},
     sock : BOOLEAN, dirty : BOOLEAN, err : BOOLEAN, delayed : BOOLEAN, wr : BOOLEAN,
     data : Nat, victim : Files \cup {Missing}]

SrvType   == srv \in [Files -> [exists : BOOLEAN, ver : Nat, data : Nat \cup {Hole}]]
RowType   == row \in [Files -> Row \cup {NoRow}]
LocalType == local \in [Files -> Nat \cup {Hole, Missing}]
HndType   == /\ hnd \in [Handles -> Handle]
             /\ \A h \in Handles : hnd[h].pc # "free" => hnd[h].file \in Files
SyncType  == /\ sync \in [pc : SyncPc, file : Files \cup {Missing}, seen : SUBSET Files]
             /\ sync.pc \in {"upload", "sending", "closing", "clearing", "bumping"}
                  => sync.file \in Files
OtherType == /\ connected \in BOOLEAN /\ mainSock \in BOOLEAN
             /\ tok \in Nat
             /\ budget \in [foreign : Nat, drops : Nat, crashes : Nat]
             /\ wrote \in [Handles -> SUBSET Nat]
             /\ sent \in [Handles -> SUBSET Nat]

\* Every variable keeps its type; a handle in use names a file of the table,
\* and so does the rescuer while it uploads.
TypeOK == SrvType /\ RowType /\ LocalType /\ HndType /\ SyncType /\ OtherType

\* A handle that was given a remote descriptor, real or the placeholder of a
\* delayed open, and does not carry KIVFS_FLG_ERR has stored on the server
\* every write it acknowledged: kivfs_release relies on it to leave the file
\* unmarked.
WriteThrough ==
    \A h \in Handles : hnd[h].rfd # "none" /\ ~hnd[h].err => wrote[h] \subseteq sent[h]

\* The server never holds a write of a handle while it lacks an earlier one
\* that was acknowledged: KIVFS_WRITE carries no offset, so a gap would move
\* every later byte.
NoGap ==
    \A h \in Handles : \A t \in wrote[h] \ sent[h], u \in sent[h] : u < t

\* What makes the two inductive: a delayed open still has its placeholder, a
\* handle without a remote descriptor sent nothing, KIVFS_FLG_WR tells the
\* handles that wrote, or failed to, and tok is the last write.
Early == {"free", "opening"} \cup FetchPc
Placeholders ==
    \A h \in Handles :
        /\ hnd[h].delayed => hnd[h].rfd # "none"
        /\ hnd[h].rfd = "none" => sent[h] = {}
WriteFlag ==
    \A h \in Handles :
        /\ hnd[h].pc \in Early => ~hnd[h].wr
        /\ ~hnd[h].wr /\ hnd[h].pc # "storing" =>
             wrote[h] = {} /\ sent[h] = {} /\ ~hnd[h].err
Fresh == \A h \in Handles : \A t \in wrote[h] \cup sent[h] : t <= tok
Inv == TypeOK /\ WriteThrough /\ NoGap /\ Placeholders /\ WriteFlag /\ Fresh

\* Seen from the applications the client writes back: the writes of a handle
\* reach the server in order up to the first failure and none after it, and a
\* release after a failure leaves the file due for an upload, or finds its row
\* gone (kivfs_write, kivfs_release), under any interleaving with the other
\* handles, the rescuer, broken connections and deaths of the process.
FileIn(o) == IF o.pc \in Early THEN Missing ELSE o.file
FlowOf(o) ==
    IF o.pc \in Early THEN "closed"
    ELSE IF o.rfd = "none" THEN "local"
    ELSE IF o.err THEN "stopped" ELSE "through"
OpenedOn == [h \in Handles |-> FileIn(hnd[h])]
Flow == [h \in Handles |-> FlowOf(hnd[h])]
Due == {f \in Files : row[f] = NoRow \/ row[f].modified}
Deaths == MaxCrashes - budget.crashes
WB == INSTANCE WriteBack WITH
        Writes <- 1 .. MaxWrites, NoFile <- Missing,
        file <- OpenedOn, flow <- Flow, due <- Due, deaths <- Deaths
WritesBack == WB!WBSpec

\* kivfs_release of a handle that had a remote descriptor and acknowledged a
\* write the server does not store leaves the file's row, if it still has
\* one, marked for synchronisation.
Releasing(h) == hnd[h].pc = "marking" /\ hnd'[h].pc = "free" /\ budget' = budget
UnsentIsMarked ==
    [][\A h \in Handles :
         Releasing(h) /\ hnd[h].rfd # "none" /\ ~(wrote[h] \subseteq sent[h])
         /\ row'[hnd[h].file] # NoRow
         => row'[hnd[h].file].modified]_vars

\* kivfs_operations.c:361, "just update version because file is already
\* synchronised": when kivfs_release counts a version instead of marking the
\* file, the server stores what the handle wrote.
AlreadySynchronised ==
    [][\A h \in Handles :
         Releasing(h) /\ ~NeedsMark(h) => wrote[h] \subseteq sent[h]]_vars

\* kivfs_open_handling.c:191, "local file is up to date, we don't need to open
\* remote file": an open that was told the server's version and uses the local
\* copy alone finds in it the server's content, or a change to be uploaded.
LocalIsUpToDate ==
    [][\A h \in Handles :
         LET f == hnd[h].file
         IN  hnd[h].pc = "opening" /\ hnd[h].info \in Nat
             /\ hnd'[h].pc = "open" /\ hnd'[h].rfd = "none"
             => local[f] = srv[f].data \/ Marked(f)]_vars
=============================================================================
