------------------------------- MODULE OpLog -------------------------------
(***************************************************************************)
(* Names and the operation log: create, mkdir, unlink, rmdir, rename,      *)
(* chmod and readdir of kivfs_operations.c, the tables "files" and "log"   *)
(* they keep, cache_log with its conflict solver, and the rescuer's        *)
(* cache_sync_log, which replays the log after a reconnection.             *)
(*                                                                         *)
(* A path is a sequence of names.  The kernel serialises the operations on *)
(* the names of a directory, so one of them is in progress at a time; the  *)
(* rescuer runs beside it.  What a file contains is left to FileSync.      *)
(***************************************************************************)
EXTENDS Naturals, Sequences, FiniteSetsExt

CONSTANTS
    Paths,      \* the paths applications use
    Dirs,       \* those that name directories
    Known,      \* the paths that exist when the model starts
    Like,       \* <<p, q>>: the path q matches p as a pattern, yet is not p
    Commands,   \* the operations applications use
    NULL,       \* no value in a column, no path
    MaxOps,     \* bound on the operations
    MaxForeign  \* bound on the steps of other clients

AllCommands == {"TOUCH", "MKDIR", "UNLINK", "RMDIR", "MOVE", "CHMOD", "READDIR"}

ASSUME PathsAssumption ==
    /\ Dirs \subseteq Paths /\ Known \subseteq Paths
    /\ NULL \notin Paths /\ <<>> \notin Paths
    /\ Like \subseteq Paths \X Paths
    /\ \A m \in Like : m[1] \in Dirs <=> m[2] \in Dirs
    /\ Commands \subseteq AllCommands
    /\ MaxOps \in Nat /\ MaxForeign \in Nat

VARIABLES
    rows,       \* the paths in the table "files"
    srv,        \* the paths that exist on the server
    log,        \* the table "log": its entries, with their rowid
    online,     \* the main connection works
    op,         \* the operation in progress
    sync,       \* cache_sync_log
    budget,     \* what is left of the bounds
    anew,       \* history: paths that were created, or that something was moved to
    owed,       \* history: names whose removal failed and that the server still has
    mislaid     \* history: names whose removal the rescuer made the log forget

vars == <<rows, srv, log, online, op, sync, budget, anew, owed, mislaid>>
-----------------------------------------------------------------------------
(* Paths.                                                                  *)

Below(p, q) == Len(q) < Len(p) /\ SubSeq(p, 1, Len(q)) = q
Within(p, q) == p = q \/ Below(p, q)
Parent(p) == SubSeq(p, 1, Len(p) - 1)
HasParent(S, p) == Len(p) = 1 \/ Parent(p) \in S
\* replace the prefix: UPDATE of "path" in cache_rename and in the log
Rebase(p, old, new) ==
    IF Within(p, old) THEN new \o SubSeq(p, Len(old) + 1, Len(p)) ELSE p
Moved(S, old, new) == {Rebase(p, old, new) : p \in S}
Children(S, p) == {c \in S : Parent(c) = p}

\* "c LIKE p": '_' stands for any character, and case is ignored
Matches(c, p) == c = p \/ <<p, c>> \in Like
\* "c LIKE (p || '/%')"
LikeBelow(c, p) == \E q \in Paths : Matches(q, p) /\ Below(c, q)

\* only directories hold names, and a rename leads to no path outside Paths
ASSUME TreeAssumption ==
    /\ \A p, c \in Paths : Below(c, p) => p \in Dirs
    /\ \A p, q, c \in Paths :
         Within(c, p) /\ (p \in Dirs => q \in Dirs) => Rebase(c, p, q) \in Paths

\* cache_rename: the row of the target goes; an UPDATE that meets another row
\* changes nothing.  A row that only matches the pattern is written as it was,
\* since replace() does not find the old path in it
CacheRename(S, old, new) ==
    LET rest    == S \ {new}
        subtree == {p \in rest : Within(p, old)}
        moved   == Moved(subtree, old, new)
    IN  IF moved \cap (rest \ subtree) # {} THEN rest ELSE (rest \ subtree) \cup moved
-----------------------------------------------------------------------------
(* The table "log": path is its primary key, new_path is unique.           *)

Actions == {"TOUCH", "MKDIR", "UNLINK", "RMDIR", "MOVE", "CHMOD", "WRITE", "WRITE_CHMOD"}
Creates == {"TOUCH", "MKDIR"}
Removes == {"UNLINK", "RMDIR"}

\* an INSERT takes the rowid after the greatest
NextRow(L) == 1 + Max({0} \cup {e.row : e \in L})
Entry(L, p, q, a) == [row |-> NextRow(L), path |-> p, new |-> q, action |-> a]
Unique(L) ==
    \A e, f \in L : e # f => e.path # f.path /\ (e.new # NULL => e.new # f.new)
Logged(p, A) == \E e \in log : e.path = p /\ e.action \in A

\* UPDATE log SET action: prepare_log_remote_remove, prepare_log_write and
\* prepare_log_chmod
Merged(old, a) ==
    CASE a \in Removes -> a
      [] a = "TOUCH" /\ old = "TOUCH" -> old
      [] a = "TOUCH" /\ old \in {"CHMOD", "WRITE_CHMOD"} -> "WRITE_CHMOD"
      [] a = "TOUCH" /\ old \notin {"TOUCH", "CHMOD", "WRITE_CHMOD"} -> "WRITE"
      [] a = "CHMOD" -> IF old = "WRITE" THEN "WRITE_CHMOD" ELSE old
SetAction(L, p, a) ==
    {IF e.path = p THEN [e EXCEPT !.action = Merged(@, a)] ELSE e : e \in L}

\* prepare_log_move: what is yet to be created is created under its new name,
\* if it is below p; any other entry takes the new name beside its action, also
\* when its path only matches the pattern
MovedEntry(e, p, q) ==
    IF e.path # p /\ ~LikeBelow(e.path, p) THEN e
    ELSE IF e.action \in Creates THEN [e EXCEPT !.path = Rebase(@, p, q)]
    ELSE [e EXCEPT !.new = q]
LogMove(L, p, q) ==
    LET M == {MovedEntry(e, p, q) : e \in L}
    IN  IF Unique(M) THEN M ELSE L

\* prepare_log_remove
Annihilate(L, p) == {e \in L : ~(e.path = p /\ e.action \in Creates)}

\* the INSERT of cache_log, which the constraints may refuse
\* mutant: "log" without its constraints
InsertAlways(L, p, q, a) == L \cup {Entry(L, p, q, a)}
Insert(L, p, q, a) ==
    LET M == L \cup {Entry(L, p, q, a)}
    IN  IF Unique(M) THEN M ELSE L

\* the first statement of cache_solve_conflict; KIVFS_MKDIR has none
Solve(L, p, q, a) ==
    CASE a \in Removes -> Annihilate(L, p)
      [] a = "MOVE"    -> LogMove(L, p, q)
      [] a \in {"TOUCH", "CHMOD"} -> SetAction(L, p, a)
      [] a = "MKDIR"   -> L
-----------------------------------------------------------------------------
(* The server: what it answers to a command, and the names it has then.    *)

Exists(p) == p \in srv \/ p = <<>>
NoSuch(p) == IF p \in Dirs THEN "NO_SUCH_DIR" ELSE "NO_SUCH_FILE"
AlreadyThere(p) == IF p \in Dirs THEN "DIR_EXISTS" ELSE "FILE_EXISTS"

\* OPEN is what kivfs_create sends
Perform(a, p, q) ==
    CASE a \in Creates \cup {"OPEN"} /\ ~HasParent(srv, p) -> {<<"NO_SUCH_DIR", srv>>}
      [] a \in Creates \cup {"OPEN"} /\ HasParent(srv, p) ->
            IF Exists(p) /\ a # "OPEN" THEN {<<AlreadyThere(p), srv>>}
            ELSE {<<"OK", srv \cup {p}>>}
      [] a \notin Creates \cup {"OPEN"} /\ ~Exists(p) -> {<<NoSuch(p), srv>>}
      [] a = "UNLINK" /\ Exists(p) -> {<<"OK", srv \ {p}>>, <<"FILE_LOCKED", srv>>}
      [] a = "RMDIR" /\ Exists(p) ->
            IF Children(srv, p) # {} THEN {<<"DIR_NOT_EMPTY", srv>>}
            ELSE {<<"OK", srv \ {p}>>}
      [] a = "MOVE" /\ Exists(p) ->
            IF Exists(q) THEN {<<AlreadyThere(q), srv>>}
            ELSE IF ~HasParent(srv, q) THEN {<<"NO_SUCH_DIR", srv>>}
            ELSE {<<"OK", Moved(srv, p, q)>>}
      [] a = "CHMOD" /\ Exists(p) -> {<<"OK", srv>>, <<"ERROR", srv>>}
      [] a = "READDIR" /\ Exists(p) -> {<<"OK", srv>>}

\* the answers a command may get.  A connection that breaks, or an answer that
\* does not come in time, may leave the command done or not
Ask(a, p, q, res) ==
    \/ /\ online
       /\ \E r \in Perform(a, p, q) : res = r[1] /\ srv' = r[2]
       /\ UNCHANGED online
    \/ /\ online
       /\ \E r \in Perform(a, p, q) : srv' \in {srv, r[2]}
       /\ res = "NETWORK" /\ online' \in BOOLEAN
    \/ /\ ~online
       /\ res = "NETWORK" /\ UNCHANGED <<srv, online>>

Answers == {"OK", "NETWORK", "ERROR", "FILE_LOCKED", "NO_SUCH_FILE", "NO_SUCH_DIR",
            "FILE_EXISTS", "DIR_EXISTS", "DIR_NOT_EMPTY"}
-----------------------------------------------------------------------------
(* The operations: the change of "files", the request, the log.            *)

\* hit: sqlite3_changes would not return 0
NoOp == [cmd |-> "NONE", path |-> NULL, new |-> NULL, step |-> "idle", seen |-> {},
         hit |-> FALSE]
Start(c, p, q) ==
    /\ op = NoOp /\ c \in Commands /\ budget.ops > 0
    /\ op' = [NoOp EXCEPT !.cmd = c, !.path = p, !.new = q, !.step = "ask"]
    /\ budget' = [budget EXCEPT !.ops = @ - 1]
    /\ UNCHANGED <<srv, log, online, sync, owed, mislaid>>

\* kivfs_create, kivfs_mkdir up to cache_add (the kernel has found no such name)
StartCreate(p) ==
    /\ p \notin rows /\ HasParent(rows, p)
    /\ Start(IF p \in Dirs THEN "MKDIR" ELSE "TOUCH", p, NULL)
    /\ rows' = rows \cup {p}
    /\ anew' = anew \cup {p}

\* kivfs_unlink, kivfs_rmdir: the row goes first
StartRemove(p) ==
    /\ p \in rows
    /\ Start(IF p \in Dirs THEN "RMDIR" ELSE "UNLINK", p, NULL)
    /\ rows' = rows \ {p}
    /\ UNCHANGED anew

\* kivfs_rename, kivfs_chmod and kivfs_readdir ask the server before all else
StartRename(p, q) ==
    /\ p \in rows /\ p # q /\ (p \in Dirs) = (q \in Dirs) /\ HasParent(rows, q)
    /\ Start("MOVE", p, q)
    /\ anew' = anew \cup Moved({c \in Paths : Within(c, p)}, p, q)
    /\ UNCHANGED rows
StartChmod(p) == p \in rows /\ Start("CHMOD", p, NULL) /\ UNCHANGED <<rows, anew>>
StartReaddir(p) ==
    p \in (rows \cap Dirs) \cup {<<>>} /\ Start("READDIR", p, NULL) /\ UNCHANGED <<rows, anew>>

\* a local directory that is not empty ends kivfs_rmdir
LocalRmdirFails ==
    /\ op.cmd = "RMDIR" /\ op.step = "ask" /\ Children(rows, op.path) # {}
    /\ op' = NoOp
    /\ UNCHANGED <<rows, srv, log, online, sync, budget, anew, owed, mislaid>>

\* what follows the answer.  kivfs_create and kivfs_mkdir test the result the
\* wrong way round, and the former that of its second request
NeedsLog(c, res) ==
    CASE c \in Creates  -> res = "OK"
      [] c = "UNLINK"  -> res \notin {"OK", "NO_SUCH_FILE", "NO_SUCH_DIR"}
      [] c = "RMDIR"   -> res \notin {"OK", "DIR_NOT_EMPTY"}
      [] c = "MOVE"    -> res \notin {"OK", "DIR_EXISTS", "FILE_EXISTS"}
      [] c = "CHMOD"   -> res \notin {"OK", "ERROR"}
      [] c = "READDIR" -> FALSE
StepAfter(c, res) ==
    IF NeedsLog(c, res) THEN "log"
    ELSE IF c \in {"MOVE", "READDIR"} /\ res = "OK" THEN "apply"
    ELSE "idle"

Continue(step, seen) ==
    op' = IF step = "idle" THEN NoOp ELSE [op EXCEPT !.step = step, !.seen = seen]

\* the first request of kivfs_create, which is not sent when connection_status
\* says so; its result is ignored
AskOpen ==
    /\ op.cmd = "TOUCH" /\ op.step = "ask"
    /\ \/ /\ \E res \in Answers : Ask("OPEN", op.path, NULL, res)
          /\ Continue("chmod", {})
       \/ op' = NoOp /\ UNCHANGED <<srv, online>>
    /\ owed' = owed \cap srv'
    /\ UNCHANGED <<rows, log, sync, budget, anew, mislaid>>

AskServer ==
    /\ op.step = IF op.cmd = "TOUCH" THEN "chmod" ELSE "ask"
    /\ \E res \in Answers :
         /\ Ask(IF op.cmd = "TOUCH" THEN "CHMOD" ELSE op.cmd, op.path, op.new, res)
         /\ Continue(StepAfter(op.cmd, res),
                     IF op.cmd = "READDIR" THEN Children(srv, op.path) ELSE {})
         /\ LET failed == {p \in {op.path} : op.cmd \in Removes /\ NeedsLog(op.cmd, res)}
            IN  owed' = srv' \cap (owed \cup failed) /\ mislaid' = mislaid \ failed
    /\ UNCHANGED <<rows, log, sync, budget, anew>>

\* cache_rename, or the cache_add of every name in the answer
Apply ==
    /\ op.step = "apply"
    /\ rows' = IF op.cmd = "MOVE" THEN CacheRename(rows, op.path, op.new) ELSE rows \cup op.seen
    /\ op' = NoOp
    /\ UNCHANGED <<srv, log, online, sync, budget, anew, owed, mislaid>>

(* cache_log.  Other operations wait for log_mutex, but the rescuer takes no *)
(* mutex for its statements: each statement is a step.                       *)
LogInsert ==
    /\ op.step = "log"
    /\ log' = Insert(log, op.path, op.new, op.cmd)
    /\ op' = IF log' = log THEN [op EXCEPT !.step = "solve"] ELSE NoOp
    /\ UNCHANGED <<rows, srv, online, sync, budget, anew, owed, mislaid>>

LogSolve ==
    /\ op.step = "solve"
    /\ log' = Solve(log, op.path, op.new, op.cmd)
    /\ op' = IF op.cmd \in Removes THEN [op EXCEPT !.step = "changes", !.hit = (log' # log)]
             ELSE NoOp
    /\ UNCHANGED <<rows, srv, online, sync, budget, anew, owed, mislaid>>

\* sqlite3_changes: what the DELETE, or a later statement, has touched
\* mutant: the UPDATE is forgotten
ChangesOnly(hit) == NoOp
Changes(hit) == IF hit THEN NoOp ELSE [op EXCEPT !.step = "merge"]
LogChanges ==
    /\ op.step = "changes"
    /\ op' = Changes(op.hit)
    /\ UNCHANGED <<rows, srv, log, online, sync, budget, anew, owed, mislaid>>

LogMerge ==
    /\ op.step = "merge"
    /\ log' = SetAction(log, op.path, op.cmd)
    /\ op' = NoOp
    /\ UNCHANGED <<rows, srv, online, sync, budget, anew, owed, mislaid>>
-----------------------------------------------------------------------------
(* cache_sync, run by the rescuer: cache_sync_log, then cache_sync_modified. *)

Idle == [pc |-> "idle", at |-> 0, path |-> NULL, new |-> NULL, action |-> "NONE"]
Uploading == [Idle EXCEPT !.pc = "modified"]

\* the rescuer has reconnected: SELECT * FROM log
SyncStart ==
    /\ sync.pc = "idle"
    /\ online' = TRUE
    /\ sync' = [Idle EXCEPT !.pc = "scan"]
    /\ UNCHANGED <<rows, srv, log, op, budget, anew, owed, mislaid>>

\* the next row
SyncRead ==
    /\ sync.pc = "scan"
    /\ \E e \in log :
         /\ e.row > sync.at
         /\ \A f \in log : f.row > sync.at => e.row <= f.row
         /\ sync' = [pc |-> "send", at |-> e.row, path |-> e.path, new |-> e.new,
                     action |-> e.action]
    /\ UNCHANGED <<rows, srv, log, online, op, budget, anew, owed, mislaid>>

SyncEnd ==
    /\ sync.pc = "scan" /\ \A e \in log : e.row <= sync.at
    /\ sync' = Uploading
    /\ UNCHANGED <<rows, srv, log, online, op, budget, anew, owed, mislaid>>

\* what becomes of the entry
Outdated == {"ERROR", "DIR_EXISTS", "FILE_EXISTS", "NO_SUCH_DIR", "NO_SUCH_FILE"}
\* mutant: an entry that is just wrong is a serious error
StopOnOutdated(res) ==
    CASE res = "OK" -> "delete" [] res = "FILE_LOCKED" -> "scan" [] OTHER -> "stop"
Verdict(res) ==
    CASE res \in Outdated \cup {"OK"} -> "delete" [] res = "FILE_LOCKED" -> "scan"
      [] OTHER -> "stop"

\* kivfs_remote_sync knows neither KIVFS_WRITE nor KIVFS_WRITE_CHMOD
Replayable == Creates \cup Removes \cup {"MOVE", "CHMOD"}
SyncSend(res) ==
    /\ sync.pc = "send"
    /\ \/ sync.action \in Replayable /\ Ask(sync.action, sync.path, sync.new, res)
       \/ /\ sync.action \notin Replayable /\ res = "NOSYS"
          /\ UNCHANGED <<srv, online>>
    /\ owed' = owed \cap srv'
    /\ sync' = IF Verdict(res) = "stop" THEN Uploading ELSE [sync EXCEPT !.pc = Verdict(res)]
    /\ UNCHANGED <<rows, log, op, budget, anew, mislaid>>

\* cache_log_delete: "path LIKE :path".  The action is compared, since a thread
\* may have changed it meanwhile
\* mutant: the path alone is compared
SamePath(e) == Matches(e.path, sync.path)
Replayed(e) == Matches(e.path, sync.path) /\ e.action = sync.action

Solving == op.step \in {"solve", "changes", "merge"}
\* the removals that are forgotten when the entries of the paths "gone" go: a
\* removal of another name that matches, and the one that is being merged into
\* such an entry, or that takes the deletion for its own
Forgets(gone) ==
    {p \in gone \ {sync.path} : sync.action \in Removes} \cup
    {p \in {op.path} : /\ op.cmd \in Removes /\ Solving
                      /\ (p \in gone \/ (op.step = "changes" /\ gone # {}))}
SyncDelete ==
    /\ sync.pc = "delete"
    /\ log' = {e \in log : ~Replayed(e)}
    /\ sync' = [sync EXCEPT !.pc = "scan"]
    /\ LET gone == {e.path : e \in log \ log'}
       IN  /\ op' = IF op.step = "changes" THEN [op EXCEPT !.hit = (gone # {})] ELSE op
           /\ mislaid' = mislaid \cup Forgets(gone)
    /\ UNCHANGED <<rows, srv, online, budget, anew, owed>>

\* cache_sync_modified.  Of its statements those count that complete before
\* sqlite3_changes is called, which answers for the whole connection
SyncModified ==
    /\ sync.pc = "modified" /\ op.step = "changes"
    /\ \E hit \in BOOLEAN :
         /\ op' = [op EXCEPT !.hit = hit]
         /\ mislaid' = IF hit THEN mislaid \cup {op.path} ELSE mislaid
    /\ UNCHANGED <<rows, srv, log, online, sync, budget, anew, owed>>

SyncFinish ==
    /\ sync.pc = "modified"
    /\ sync' = Idle
    /\ UNCHANGED <<rows, srv, log, online, op, budget, anew, owed, mislaid>>
-----------------------------------------------------------------------------
(* The surroundings.                                                       *)

Disconnect ==
    /\ online /\ online' = FALSE
    /\ UNCHANGED <<rows, srv, log, op, sync, budget, anew, owed, mislaid>>

\* another client creates a file, or removes something
Foreign(p) ==
    /\ budget.foreign > 0
    /\ \/ p \notin srv /\ HasParent(srv, p) /\ srv' = srv \cup {p}
       \/ p \in srv /\ Children(srv, p) = {} /\ srv' = srv \ {p}
    /\ owed' = owed \cap srv'
    /\ budget' = [budget EXCEPT !.foreign = @ - 1]
    /\ anew' = anew \cup (srv' \ srv)
    /\ UNCHANGED <<rows, log, online, op, sync, mislaid>>
-----------------------------------------------------------------------------
Init ==
    /\ rows = Known /\ srv = Known
    /\ log = {}
    /\ online = FALSE
    /\ op = NoOp /\ sync = Idle
    /\ budget = [ops |-> MaxOps, foreign |-> MaxForeign]
    /\ anew = {} /\ owed = {} /\ mislaid = {}

OpStep ==
    \/ \E p \in Paths : StartCreate(p) \/ StartRemove(p) \/ StartChmod(p)
    \/ \E p, q \in Paths : StartRename(p, q)
    \/ \E p \in Dirs \cup {<<>>} : StartReaddir(p)
    \/ LocalRmdirFails \/ AskOpen \/ AskServer \/ Apply
    \/ LogInsert \/ LogSolve \/ LogChanges \/ LogMerge
SyncStep ==
    \/ SyncStart \/ SyncRead \/ SyncEnd \/ SyncDelete \/ SyncModified \/ SyncFinish
    \/ \E res \in Answers \cup {"NOSYS"} : SyncSend(res)
Next == OpStep \/ SyncStep \/ Disconnect \/ \E p \in Paths : Foreign(p)

Spec == Init /\ [][Next]_vars

(* Fairness.  A FUSE thread ends the operation it has begun, and the rescuer *)
(* goes on with the log it replays.  Of the surroundings: the connection is  *)
(* not cut each time between reading an entry and hearing the answer, and a  *)
(* file that another client keeps open is closed one day.  Nothing is        *)
(* assumed of SyncStart, since only a lost connection leads there.           *)
Settled == Answers \ {"NETWORK", "FILE_LOCKED"}
FairSpec ==
    /\ Spec
    /\ WF_vars(\/ LocalRmdirFails \/ AskOpen \/ AskServer \/ Apply
               \/ LogInsert \/ LogSolve \/ LogChanges \/ LogMerge)
    /\ WF_vars(SyncEnd) /\ WF_vars(SyncDelete) /\ WF_vars(SyncFinish)
    /\ WF_vars(SyncRead) /\ SF_vars(SyncRead /\ online)
    /\ WF_vars(\E res \in Answers \cup {"NOSYS"} : SyncSend(res))
    /\ SF_vars(\E res \in Settled : SyncSend(res))
-----------------------------------------------------------------------------
(* Types: the tables hold paths, no two entries of the log share a path or   *)
(* a new_path or a rowid, and cache_sync_log holds an entry exactly while it *)
(* replays one.                                                              *)
TypeOK ==
    /\ rows \subseteq Paths /\ srv \subseteq Paths
    /\ log \subseteq [row : Nat \ {0}, path : Paths, new : Paths \cup {NULL}, action : Actions]
    /\ Unique(log) /\ \A e, f \in log : e.row = f.row => e = f
    /\ online \in BOOLEAN
    /\ op \in [cmd : Commands \cup {"NONE"}, path : Paths \cup {NULL, <<>>},
              new : Paths \cup {NULL},
              step : {"idle", "ask", "chmod", "apply", "log", "solve", "changes", "merge"},
              seen : SUBSET Paths, hit : BOOLEAN]
    /\ sync \in [pc : {"idle", "scan", "send", "delete", "modified"}, at : Nat,
                path : Paths \cup {NULL}, new : Paths \cup {NULL}, action : Actions \cup {"NONE"}]
    /\ sync.pc \in {"send", "delete"} => sync.path # NULL /\ sync.action # "NONE"
    /\ budget \in [ops : 0 .. MaxOps, foreign : 0 .. MaxForeign]
    /\ anew \subseteq Paths /\ owed \subseteq srv /\ mislaid \subseteq Paths

(* A removal that did not reach the server is remembered: as long as the     *)
(* server still has the name the log holds the removal, or cache_log is at   *)
(* work on it, whatever is merged into the entry and whatever the rescuer    *)
(* replays and deletes between two statements of cache_log (kivfs_unlink,    *)
(* kivfs_rmdir, cache_solve_conflict, cache_log_delete).  Two kinds of names *)
(* are left out.  Those that came into being again: their removal may have   *)
(* been merged with the creation, or be taken for the one the rescuer has    *)
(* just replayed.  And those the rescuer makes the program forget, which it  *)
(* does in three ways only: it replays the removal of another name that      *)
(* matches them as a pattern; it deletes the entry that the removal is being *)
(* merged into; it completes a statement between the DELETE of the conflict  *)
(* solver and sqlite3_changes.                                               *)
RemovalRemembered ==
    \A p \in owed \ (anew \cup mislaid) :
        Logged(p, Removes) \/ (op.path = p /\ (op.step = "log" \/ Solving))

(* "Each function can be processed without race condition" (cache.c:56, on   *)
(* log_mutex and the others): when cache_log returns from a removal that the *)
(* server did not carry out, and of a name that did not come anew, the log   *)
(* holds the removal.                                                        *)
RemovalIsLogged ==
    [][/\ op.cmd \in Removes /\ (op.step = "log" \/ Solving) /\ op' = NoOp
       /\ op.path \in owed \ anew
       => \E e \in log' : e.path = op.path /\ e.action \in Removes]_vars

(* No entry that the server can answer for blocks the log: as long as the   *)
(* rescuer returns to the log again and again, the entry at its head is     *)
(* replayed and leaves, or is changed by a later operation (cache_sync_log: *)
(* a wrong entry is deleted, a locked one is tried again).                  *)
Resyncs == []<><<SyncStart>>_vars
AtHead(p, a) ==
    \E e \in log : e.path = p /\ e.action = a /\ \A f \in log : e.row <= f.row
HeadDrains ==
    Resyncs => \A p \in Paths, a \in {"TOUCH", "UNLINK", "MOVE", "CHMOD"} :
                   AtHead(p, a) ~> ~AtHead(p, a)

(* "KIVFS_UNLINK is changed to KIVFS_WRITE [...] it means that the file is *)
(* changed and have to be synced as soon as possible" (cache.c:440): an    *)
(* entry KIVFS_WRITE leaves the head of a log that is replayed again and   *)
(* again.                                                                  *)
RecreatedIsSynced ==
    Resyncs => \A p \in Paths : AtHead(p, "WRITE") ~> ~AtHead(p, "WRITE")
=============================================================================
