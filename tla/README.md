# A verification of kivfs-fuse-client

`kivfs-fuse-client` mounts the remote file system KIVFS through FUSE. It keeps a
cache of files on the local disk, a SQLite database with a row per known path and
a log of operations that could not be sent, and goes on without the server when
the network is gone. This directory holds TLA+ specifications of what makes such a
client hard (a cache that must agree with a server, work that is replayed after a
disconnection, threads that share one connection), the TLC runs that check them,
and proofs that TLAPS checks. Paths below are relative to `src/kivfs/src/`.

## 1. The system

| Component | Code | State it keeps | Operations |
|---|---|---|---|
| File content | `kivfs_operations.c`, `kivfs_open_handling.c` | an open-file structure per handle (`kivfs_ofile_t`: local and remote descriptor, its own connection, the flags WR, ERR, DELAYED); local copies | open, read, write, truncate, release |
| Names | `kivfs_operations.c` | rows of `files`, the local tree | create, unlink, mkdir, rmdir, rename, chmod, readdir |
| Database | `cache.c`, `prepared_stmts.c` | tables `files` (version, cached, modified, hits) and `log` (path, new_path, action) | the `cache_*` functions, each under a mutex of its own |
| Operation log | `cache.c:422-563, 701-773` | table `log` | `cache_log`, `cache_solve_conflict`, `cache_sync_log` |
| Upload | `cache.c:775-858`, `kivfs_remote_operations.c:217-314` | the mark `modified` | `cache_sync_modified`, `kivfs_put_from_cache` |
| Main connection | `connection.c`, `config.c` | `connection`, `connection_status`, a mutex, a condition variable | `kivfs_reconnect` (the rescuer thread), `kivfs_restore_connnection` |
| Remote operations | `kivfs_remote_operations.c` | none | one request and answer each, under the mutex or the handle's own |
| Eviction | `cleanup.c`, `cache-algo-*.c`, `cache.c:1067-1089` | the mark `cached`, sizes, hits and times of the rows | make room by FIFO, LRU, LFU, LFU-SS (the default) or WLFU-SS; a sixth policy, QLFU-SS, is compiled but has no name on the command line (`main.c:57-63`) |
| Heap | `heap.c` | an array that grows | create, add, poll, destroy; used by QLFU-SS alone |
| The rest | `main.c`, `tools.c`, `stats.c`, locks | options, traces, a statistics file | not modelled |

How they interact. FUSE threads run the handlers. A handler works on the local
copy and the database and sends requests over the main connection (names, open,
close, file info) or the connection of the handle (data). A request that finds the
main connection lost sets `connection_status` to 0 and signals the rescuer, which
connects, logs in, sets the status to 1, replays the log and uploads the marked
files, and waits for the next signal. Handlers and rescuer meet in the database
rows, the local files, the status flag and the mutex. An open that must fetch a file
first calls `cleanup`, which evicts cached files until there is room. `qlfuss`
(`cleanup.c:49-116`) would ask the server for the hits of all files and order them in
the heap; since no option selects it and the default (`config.c:36`) is LFU-SS, it and
`heap.c` run in no mount. They are modelled and proved as the code they are, and no
hazard of this project rests on them.

What is hard: every handler is a sequence of separately locked steps, so the
rescuer and other handles act between them; an answer may be lost after the server
has acted; data written while the connection breaks is half on each side; the
replay reads a log that operations merge into at the same time, and deletes from it
between two SQL statements of a merge; a wait that has no time-out holds the mutex all
others need; the process may be
killed anywhere and finds database and copies as they were; what a cleanup has
summed up may be removed by the rescuer before it is scanned.

What makes each component correct:

* *Content*: what a handle without the error flag acknowledged is on the server, in
  order; what is not there is marked when the handle is released; a copy served
  without asking for data is current.
* *Names and log*: the log obeys its constraints; a removal the server has not
  carried out is not forgotten (it is, in exactly three cases that `RemovalRemembered`
  names); no entry blocks those behind it.
* *Connection*: one request at a time on the shared socket; every operation ends and a
  lost connection is replaced (but for the wait of an upload without a time-out).
* *Eviction*: after a cleanup there is room for the file it was called for; it ends,
  and evicts no file twice; marks and copies agree, since only marked files are counted and evicted.
* *Heap*: what is polled is best; nothing is lost or doubled; the array suffices.

`PROJECT.json` lists the hazards of the code one by one, each at its line, with the
properties that would catch it or the reason why none does yet.

## 2. The modules

### FileSync: the life of a file's content

One action per step of a handler that another thread can observe.

| Code | Specification |
|---|---|
| row of `files` | `row[f]`: version, cached, modified, or `NoRow` |
| files below the cache directory | `local[f]`: a content, `Hole` (right size, never filled), `Missing` |
| `kivfs_ofile_t` | `hnd[h]`: descriptors `fd`, `rfd` (none, placeholder, real), its connection `sock`, the flags `wr`, `err`, `delayed`, and `pc` for the handler in progress |
| `connection_status`, the main socket | `connected`, `mainSock` |
| the rescuer in `cache_sync_modified` | `sync` |
| the server's files | `srv[f]`: exists, version, content |
| `open_file`, `try_open_remote_with_cache` | `OpenInfo`, `OpenGone`, `FetchRefused`, `Fetch`, `FetchUpdate`, `OpenLocal` |
| `open_with_cache`, `cleanup`, `cache_set_cached` within an open that fetches | `FetchLocal`, `FetchContains`, `FetchEvict` and `FetchUncache` for each file evicted, `FetchCached` |
| `open_file_wronly` | `OpenWronly` (the remote open is delayed to the first write) |
| `kivfs_read`, `kivfs_write`, `kivfs_truncate`, `kivfs_ftruncate` | `Read`, `WriteRemote` then `WriteLocal`, `Truncate` |
| `kivfs_release` | `ReleaseClose`, `ReleaseStat`, `ReleaseSave`, `ReleaseMark` |
| `kivfs_reconnect` | `Connect`, `Login`, `SyncDone`, `SpuriousWakeup` |
| `cache_sync_modified`, `kivfs_put_from_cache` | `SyncPick`, `SyncAbort`, `SyncOpen`, `SyncGone`, `SyncSend`, `SyncClose`, `SyncClear`, `SyncBump` |
| KIVFS_CLOSE of the placeholder descriptor 4 (`kivfs_operations.c:322`) | `Misnamed` in `ReleaseClose` |
| network, other clients, kill | `NetDrop`, `ForeignWrite`, `ForeignRemove`, `Crash` |

An open that fetches is a step for each of its calls: the remote open, the local open
with `ftruncate`, `cache_contains`, the unlink and the mark of each file evicted,
`cache_set_cached`, `cache_update`. A file info may time out on a connection that is
still good: `connection_status` is 0 then, and the rescuer is signalled. An answer that
arrives after its time-out is not modelled; the rescuer replaces the connection.

A content is the number of the write that produced it. `wrote` and `sent` are
history variables: the writes a handle acknowledged, and those the server stored.

Assumed of what lies outside the sources: an open for writing truncates the file on
the server and creates it if needed; the server counts one version for each
descriptor closed after a change; a broken connection closes its descriptors; local
file system calls do not fail. The uninitialised pointer of `kivfs_release` is
taken to be null (other values end the process). The numbers of `errno` and of the
codes of libkivfs are unrelated, so a failed `stat` may or may not look like
`KIVFS_ERC_NO_SUCH_FILE`. FUSE sends the writes of one handle one after the other.
A write-only handle whose remote open was never made is closed with the number 4 on
the server; if that is the descriptor of another handle, this handle loses its
connection (`Misnamed`, `Cut`). If it is the one the rescuer uploads to, the transfer
fails, which `SyncSend` allows anyway.

### WriteBack: what the content protocol promises

An abstract specification with a step per write and none for locks, descriptors,
versions or copies. A handle's writes go *through* to the server in order until one
*breaks*; from then on they are *kept* in the local copy; the release of such a handle
leaves its file *due* for an upload. A handle that was opened without the server
promises nothing (`flow` is "local"), and a file becomes or ceases to be due at any
time (`Settle`). `FileSync` implements it (`WritesBack`) under the mapping

| Abstract | In `FileSync` |
|---|---|
| `file` | `OpenedOn`: the file of a handle, once its open has ended |
| `flow` | `Flow`: "local" without a remote descriptor, "stopped" with `KIVFS_FLG_ERR`, else "through" |
| `due` | `Due`: the files whose row is marked or gone |
| `deaths` | `Deaths`: the crashes used up, so that a kill is not taken for a release |
| `wrote`, `sent` | the history variables of the same name |

`UnsentIsMarked` says of the release step alone that unsent writes are marked;
`WritesBack` says it of the whole life of a handle, with the order of its writes.

### Reconnect: threads and the main connection

`pc` gives the step of each FUSE thread and of the rescuer, `kind` the request it
makes, `holder` the mutex. `Call`, `Check`, `Lock`, `Answer`, `Fail`, `TurnOff`,
`Signal` are the request every remote operation makes; `Connect`, `SetTimeouts`,
`StayOff`, `TurnOn`, `SyncRow`, `SyncEnd`, `Wait`, `Wake` are `kivfs_reconnect`. A signal sent
to a rescuer that is not waiting has no effect, `pthread_cond_wait` may return
without one, and `kivfs_connect` replaces the socket without the mutex (`torn`).
Only `kivfs_remote_file_info` and `kivfs_remote_readdir` report a loss.

An upload is more than a request. `cache_sync_modified` asks for the file's info, may
send a mkdir, opens the file on the server, then waits for the file's *own* connection
and ends with flush, close and chmod (`RowDone`). The first of those waits
(`kivfs_remote_operations.c:245`) holds the main mutex: `LockUpload`, `UploadAnswer`.
The second (line 297) does not: `UploadDone`. Neither has a time-out, since
`SO_RCVTIMEO` is set (line 461) before the connect creates the socket. The main
connection has its time-outs only after `SetTimeouts`: a request that slips in between
`kivfs_connect` and `setsockopt` has none either. `endless` says that the holder of the
mutex waits so, `silent` that the server it waits for says nothing (`Silence`), and
`Break` that such a connection breaks after all, which it need not.

### OpLog: names and the operation log

A path is a sequence of names. `rows` and `srv` are the paths in the database and
on the server, `log` the table in the order of its rows, `op` the operation in
progress, `sync` the replay.

| Code | Specification |
|---|---|
| `kivfs_create`, `kivfs_mkdir`, `kivfs_unlink`, `kivfs_rmdir`, `kivfs_rename`, `kivfs_chmod`, `kivfs_readdir` | `StartCreate`, `StartRemove`, `StartRename`, `StartChmod`, `StartReaddir`, then `AskOpen`, `AskServer`, `Apply` |
| which result is logged | `NeedsLog` (with the inverted test of create and mkdir) |
| `cache_log`: the INSERT | `LogInsert`, `Insert` |
| `cache_solve_conflict`: the first statement; `sqlite3_changes`; the UPDATE of a removal | `LogSolve` (`Solve`, `Annihilate`, `LogMove`, `SetAction`, `Merged`); `LogChanges`; `LogMerge` |
| `cache_sync_log`, `cache_log_delete` | `SyncStart`, `SyncRead`, `SyncSend`, `SyncDelete`, `SyncEnd` |
| `cache_sync_modified`, as far as `sqlite3_changes` sees its statements | `SyncModified`, `SyncFinish` |
| `LIKE` | `Matches`, `LikeBelow`, from the constant `Like` |
| the server | `Perform`; `Ask` adds the loss of a request or of its answer, and a time-out |

The kernel serialises operations on the names of a directory, so one is in progress
at a time; the rescuer runs beside it. The log is a set of entries with their rowids,
so that a merge which rewrites an entry keeps its place and one that inserts goes to
the end.

`log_mutex` keeps other operations out of `cache_log`, but the rescuer takes no mutex
for its statements, so each SQL call of `cache_log` is a step and the rescuer may act
between two of them. `op.hit` is what `sqlite3_changes` would answer: it is per
connection, so a statement of the rescuer replaces the count of the DELETE. `Like` is
the set of pairs of paths of which one matches the other as a pattern (`_`, or another
case); a row that only matches keeps its path in a rename, since `replace()` does not
find the prefix in it. Patterns with `%`, by which a file's name matches a directory's
subtree, are left out (`PathsAssumption`). Three histories serve the properties: `owed`
are the names whose removal failed and that the server still has, `anew` those that
were created or moved to, `mislaid` those whose removal a statement of the rescuer made
the log forget.

The server answers a second creation with
"exists", a missing name with "no such", a removal of a file in use with "locked",
a chmod without effect with `KIVFS_ERROR`, which the comments of the client say.

### Heap and PriorityQueue: the binary heap

`Heap` models `heap.c` with every iteration of its loops a step: `HeapAdd` and
`HeapPoll` up to the call of the repair, then `Rise` and `Place` (`repair_from_bottom`)
or `Sink` and `Rest` (`repair_from_top`). The array grows by `realloc` (`Grown`) and a
slot given up keeps its pointer. `Held(i)` is the item of slot i, or the one in the
variable `last` where the loop has made room for it. `PriorityQueue` is the
abstract specification: a set, from which an item is removed that no other is better
than. The mapping is `queue <- Contents`, the items held by the slots in use.

### CacheSpace: room in the cache

`row` has of each file the columns policies decide by (rowid, size, cached, hits and
one `rank`, which is the time under LRU and the server's weight under QLFU-SS), `local`
the paths with a copy, `op` the operation of the FUSE thread with its `pc`.

| Code | Specification |
|---|---|
| `open_file`, `try_open_remote_with_cache`, `open_with_cache` | `OpenWithoutFetch`, `OpenGone`, `OpenFetch`, `OpenForWriting`, `Contains`, `StoreHits`, `Mark`, `StoreNothing`, `UpdateRow`, `Count` |
| `cleanup`, `purge_file`, the SELECT of each policy | `GetUsedSize`, `Purge`, `PurgeEnds`, `Evict`, `Uncache`; `Candidates`, `Foremost`, `Key` |
| `qlfuss` | `AskHits`, `Build`, `BuildEnds`, `RepairHeap`, `Poll`, `PollEnds`, `RunsDry` |
| `kivfs_release`, `kivfs_create`, `kivfs_readdir`, `kivfs_unlink`, `kivfs_rename`, `kivfs_utimens` | `Save`, `Create`, `List`, `Unlink`, `Rename`, `Utimens` |
| `trigger_normalize_hits` | `Normalised` |
| the rescuer, which removes a file the server lost | `RescuerUnlinks`, `RescuerRemoves` |
| the process dies, also by the null result of an empty heap | `Restart` |

The module extends `Heap`: the heap of QLFU-SS (which no option selects) is the one that is proved, and the
rescuer and a kill may act between two iterations of its loops. There is one FUSE
thread, since the repository's README and INSTALL mount with `-s`. FIFO reads the
table row by row while it evicts, the sorted policies take their rows at once; sizes
and maxima are integers, so `size / max(size)` is 0 or 1. `cache_update_read_hits` stores what LFU-SS makes of the server's hits: any of the
constant `Weights`, with no bound, so hits may stay above `MaxHits` after the trigger has
halved them once (SQLite's REAL halves are rounded down here). Three histories say how far
the code departs from the simple rule: `excess` is what has grown without a cleanup,
`strays` the copies an interruption or a rename left uncounted, `op.lost` what the
rescuer removed between the sum of the sizes and the scan.

### Proof modules

`FileSyncProofs`, `WriteBackProofs`, `ReconnectProofs`, `OpLogProofs`, `HeapProofs`
and `CacheSpaceProofs` each extend the module they are about, `CacheLimitProofs`
extends `CacheSpaceProofs`; `NumberProofs` holds facts about numbers and sums over
finite sets that the last three cite. The `MC*` modules give the constants values
for TLC.

## 3. The runs

| Run | Asks | Bounds | Result |
|---|---|---|---|
| `FileSyncRaces` | `TypeOK`, `WriteThrough`, `NoGap`, `UnsentIsMarked`, `WritesBack` with two handles and the rescuer on one file | 3 contents, versions to 2 on upload, modes write-only and read-write, a network that answers or not at each request, no breaks of its own, no truncations, one fetch at a time | holds, 3.8 million states |
| `FileSyncFaults` | `Inv`, `UnsentIsMarked`, `WritesBack` with one handle, two files (one created offline), faults | 2 contents, modes write-only and read-write, one break, one step of another client, one crash | holds, 4.1 million states |
| `FileSyncSynchronised` | is a file whose version is counted at release synchronised (`kivfs_operations.c:361`) | as small as needed | violated |
| `FileSyncUpToDate` | is a copy used alone current (`kivfs_open_handling.c:191`) | as small as needed | violated |
| `Reconnect` | `Inv`, `OneOnWire`, `Answered`, `Reconnects`, deadlock | two FUSE threads, one row to synchronise, two faults | holds, 53 thousand states |
| `ReconnectSignal` | does a signal wake the rescuer (`connection.c:23`) | the same | violated |
| `OpLog` | `TypeOK`, `RemovalRemembered` | two directories that may be renamed, a file in each, the name `d` a pattern that `e` matches, four operations of all kinds, one step of another client, any number of breaks | holds, 6.9 million states |
| `OpLogDrains` | `HeadDrains` | two files, three operations | holds, 224 thousand states |
| `OpLogForgets` | does `cache_log` of a removal leave it in the log, free of races (`cache.c:56`) | two files, an unlink and a chmod | violated |
| `OpLogRecreated` | is a removal merged with a creation synchronised (`cache.c:440`) | two operations | violated |
| `CacheSpace` | `TypeOK`, `HeapInv`, `WithinLimit`, `HeapLasts`, `CopiesAreCounted`, `HeapIsQueue`, `CleanupEnds`, `NoneTwice` | five files of sizes 5, 2, 1, 1, 1, the limit 6 with at least 5 in use, new sizes 0, 1, 2 or 5, all six policies, weights 0, 1 and 4 with the trigger at 1, three orders of ranks; under LFU two operations and a kill, under the others an operation, a removal by the rescuer and a kill; an initial heap of 2 slots | holds, 0.8 million states |
| `CacheSpaceHits` | does an open count a hit for the file opened (`cache.h:153`) | two files, two opens | violated |

Why the bounds are enough. The content protocol is per file and per handle: two
handles give every pair of steps of different handles and the rescuer, three
contents are one initial and two written, the least with which a gap, or a write
after a failed one, can be seen (with a single write, as in `FileSyncFaults`,
neither can occur). A handle opened for both that never writes does all a read-only
one does, so both runs leave that mode out. A truncation
changes the content of a local copy and nothing else, which no property of
`FileSyncRaces` reads; `FileSyncFaults` has them (`Truncated`). `MaxFetching` lets one open at a time
fetch, which is what a mount with `-s` does (README, INSTALL); the other handle and the
rescuer may still act between any two of its steps. A fault needs one occurrence to
matter to one handle, and the second file is there for evictions and for what was
created offline. Two FUSE threads and the rescuer are the least with which one
thread can break in between two others; two faults are a loss and a time-out. Four
operations on names are a creation, a move and a removal of the same path with one
more in between, which is the longest chain the conflict solver distinguishes (an
entry is merged, moved, and merged again). Five files put up to four in the cache
beside the one that is opened, the least with which a heap has a parent with two
children and one with a single child; the initial size of 2 instead of the code's
makes the array grow at once, the limit of 6 lets one large file, several small ones
or both be evicted for one that comes. Every passing run has for each of its
properties a mutant of the code, listed in `PROJECT.json`, that violates it under
these bounds.

What the violations show. (1, `FileSyncSynchronised`) A file opened `O_RDWR` while
its copy is current has no remote descriptor; released online, its version is
counted and the change stays local. (2, `FileSyncUpToDate`) The row takes the new
version when the file is opened, before it is read; a reader that stops early leaves
a hole that later opens take for current. (3, `ReconnectSignal`) A loss reported
while the rescuer is in `kivfs_login` or `cache_sync` is signalled to nobody; the
status is 0 and nothing reconnects until the next file info fails. (4,
`OpLogForgets`) The INSERT of a removal meets an entry of the same path, which the
rescuer has just replayed and now deletes; the UPDATE of the conflict solver then
touches no row, and the removal is in no entry. A statement of the rescuer between the
DELETE and `sqlite3_changes` (`cache.c:475`) has the same effect: the UPDATE is skipped.
(5, `OpLogRecreated`) A logged removal that meets a creation becomes
`KIVFS_WRITE`, which `kivfs_remote_sync` does not know; the replay stops there every
time. (6, `CacheSpaceHits`) `cache_inc_read_hits` resets the statement of
`cache_update_read_hits` and not its own: the bind of the next open is refused, and
its hit goes to no file, or to whatever path the freed text spells.

A fault the model has without a run of its own: `kivfs_create` and `kivfs_mkdir` log
what succeeded and not what failed (`kivfs_operations.c:276, 499`; `NeedsLog`), so what
is created offline enters no log.

Deadlock is checked in `Reconnect`. The other runs stop when their bounds are used
up and say `CHECK_DEADLOCK FALSE`.

### Fairness

`Reconnect`: strong fairness of each thread, since a mutex that is free again and
again is granted in the end and threads are scheduled; weak fairness of the
server's return; applications keep opening files, each open asks for a file info.
Nothing is assumed of readdir, of commands or of spurious wake-ups, nor of a server that
is waited for without a time-out: it may be silent for ever. `Answered` and `Reconnects`
therefore name that wait as their one exception, `Answered` only while it holds the mutex.

`OpLog`: a thread ends its operation and the rescuer goes on with its replay (weak
fairness); the connection is not cut each time between reading an entry and its
answer, and a locked file is unlocked one day (strong fairness of the settled
answer). That the rescuer returns to the log is a premise of the properties
(`Resyncs`) and not an assumption, since only another loss leads there.

`CacheSpace`: weak fairness of `Continue`, the FUSE thread goes on with the operation
it has begun. Nothing is assumed of the rescuer, of the next operation or of kills.

`FileSync` has no fairness, since its runs ask for safety only; its two violations need
no more than the steps shown.

## 4. The proofs

All theorems hold for every value of the constants; the bounds on operations and
faults are constants too, so any number of them is covered.

`FileSyncProofs`, the content protocol:

* `TypeCorrect`, `InvCorrect`, `WriteThroughHolds`, `NoGapHolds`: `Spec => []...`.
  `WriteThrough` alone is not inductive. `Inv` adds `Placeholders` (a delayed open
  has its placeholder, a handle without remote descriptor has sent nothing),
  `WriteFlag` (only handles with `KIVFS_FLG_WR`, or between the two halves of a
  write, have written) and `Fresh` (no write is newer than `tok`, which gives the
  order `NoGap` needs). The proof has one lemma for each group of actions; those
  that leave handles and history alone are done together.
* `UnsentIsMarkedHolds`: the action property follows from `Inv` and the form of
  `ReleaseMark`: unsent writes and a remote descriptor mean the error flag.

`WriteBackProofs`, the refinement: `WriteBackImplemented` is `Spec => WritesBack`.
`InitMaps` maps the initial states, `StepMaps` each step, from `Inv` of
`FileSyncProofs`. A step that leaves what a handle shows unchanged (`Calm`: opens in
progress, the rescuer, other clients, broken connections) is a `Settle`; opens,
writes and releases have a lemma each. `HandlersLive` says that only a kill counts as
a death, which tells a kill from the release of every handle at once.

`ReconnectProofs`: `InvCorrect`, `OneOnWireHolds`; the thread on the wire is the
holder of the mutex, so there is at most one.

`OpLogProofs`, names and the log: `TypeCorrect`, where the constraints of the table
(unique paths, unique targets) must survive every merge, and `RemovalRememberedHolds`.
The inductive `IInv` adds to `TypeOK` what each entry means (`LogInv`: a move has a
target that came anew, a creation a path that did), what the operation in progress
(`OpInv`) and the replay (`SyncInv`: a removal that succeeded has left no such name, or
one that came anew) are about, and a form of the property that names the operation
(`Remembered`). `MergeInv` says of a removal that is being merged, and whose name neither came anew nor
is `mislaid`, that the log still holds an entry of its path and that `sqlite3_changes`
will answer 0, so that the UPDATE follows and finds the entry. `InsertKeeps`,
`SolveKeeps` and `MergeKeeps` are the lemmas on the statements: each keeps `LogInv` and
every removal. `MoveKeeps` rests on the tree (`TreeAssumption`) and on
patterns that match directories with directories.

What `RemovalRememberedHolds` says is therefore exact and not a promise that nothing is
lost: the code does lose removals (`OpLogForgets`), and the theorem shows the three ways
to be the only ones. Names that came anew are exempt because their removal may rightly
be merged with the creation.

`HeapProofs`: `HeapIsOrdered`, `Spec => []HeapInv`, with the order broken only where a
loop is about to repair it (`Ordered`), the place it leaves being bridged (`Bridged`),
the array in its bounds (`HeapTypeOK`) and no item twice (`Distinct`); and
`HeapImplementsQueue`. That the first slot is best follows from the order between a
slot and the one above; the usual induction over the depth is replaced by the least
slot that holds a better item (`NumberProofs!LeastNumber`).

`CacheSpaceProofs`: `HeapInCache` and `VictimIsBest`, the same of the heap as QLFU-SS
uses it, with kills and the rescuer in between; and `CopiesCounted`. The inductive
invariant is `SpaceInv` with `HeapInv`: types, no victim and no candidate is the file
being fetched (`Victims`), only a cleanup of QLFU-SS has items in the heap
(`HeapInUse`), the file being fetched is not marked while a cleanup runs (`Fetched`),
and the property itself.

`CacheLimitProofs`, the space in the cache: `LimitKept` (`Spec => []WithinLimit`),
`HeapRunsDryByRescuerOnly` (`Spec => []HeapLasts`), `NoneTwiceHolds`
(`Spec => NoneTwice`) and `TypeCorrect` (`Spec => []TypeOK`). A cleanup takes the sum
of the sizes once and counts it down while the rescuer removes files, and it stops
when the rows run out: that there is room then follows only if the sum, at any moment,
pays for whatever may still be evicted. The inductive `LimitInv`, beside `SpaceInv` and
`HeapInv`, is

* `Ranged`, the rest of the types; `IdsDiffer`, the rowids, by which FIFO and the
  filling of the heap proceed; `Unlisted`, what the operation keeps while no row is read;
* `Listings`: in the result of a SELECT, in the heap and as the victim there is one
  entry for a file;
* `Covered`: a cached file is ahead of the scan, listed, or the one being evicted, so
  that a cleanup that has run out of entries has left nothing cached;
* `Accounted`: there is a weight for each file (the size at which it was listed, or the
  size in its row, or 0) whose total the sum that is left covers, and under QLFU-SS
  exceeds by `op.lost` at most; the other policies owe no such bound, their sum being
  too large at worst;
* `Spaced`: `WithinLimit` in the form that survives the row's new size (`cache_update`
  after `cache_set_cached`), and `HeapLasts` itself.

`AccountingKept` has a lemma for each step of a cleanup and for the removal by the
rescuer; `SpacedKept` follows `UsedSize` through every operation (`UsedBecomes`: the
sum changes by what one row counts for). `RoomIsMade` and `DryIsLost` draw the two
conclusions: with nothing left to evict, no sum is left for the limit to be exceeded
by, and a heap that runs dry has lost the difference. The laws of sums (an element
taken out, one value changed, monotony) come from `NumberProofs!AllSubsets`, an
induction over the subsets of a finite set stated for a set of sets instead of a
predicate, since the provers cannot instantiate one. `LimitInv` held in the run
`CacheSpace` before it was proved. `TakenOnce` proves `NoneTwice` from the same
invariant: the least rowid, the rows left of a sorted result and the items left in the
heap are all that a cleanup goes on to choose from.

The proofs rest on the named assumptions of the modules and nothing else:
`SymbolsAssumption`, `CreatedAssumption`, `ModesAssumption`, `BoundsAssumption`
(`FileSync`); `ThreadsAssumption`, `BoundsAssumption` (`Reconnect`); `PathsAssumption`,
`TreeAssumption` (`OpLog`); `ItemsAssumption`, `WeightAssumption`, `HeapTypeAssumption`,
`HeapSizeAssumption` (`Heap`); `FilesAssumption`, `SizesAssumption`,
`ColumnsAssumption`, `CFileAssumption`, `PoliciesAssumption`, `BoundsAssumption`
(`CacheSpace`). TLC evaluates each of them in a passing run.

Only model-checked:

* liveness, which is out of the prover's reach: `Answered`, `Reconnects`, `HeadDrains`,
  `CleanupEnds` (of the last, `NoneTwice` is the part that is safety: a cleanup cannot
  evict more files than were cached when it began);
* the violations.

Every invariant, action property and refinement that a passing run checks is stated by
a theorem.

## 5. Not modelled

* *`CacheSpace`*: the multi-threaded mode of FUSE (two cleanups at once, statements
  shared without a mutex); weights that are no number; the sum read as 32 bits; a kill
  between the row and the copy inside unlink, create and rename, each one step here;
  renames of directories; `write_hits`, except that it may pull the trigger.
* *`FileSync`*: offsets and sizes of single reads and writes (`KIVFS_READ` and
  `KIVFS_WRITE` carry offset 0, `kivfs_read` subtracts the offset from the size at the
  open); the server's table of descriptors beyond the closing of the placeholder;
  sizes, times and modes of a row. An eviction takes any cached files, in any
  order; two fetches at once, and answers that arrive after their time-out.
* *`OpLog`*: `%` in a name; the local directory tree; contents.
* *Composition*: `FileSync` has fixed names, `OpLog` no content, `CacheSpace` no
  versions. They share the rows of `files` and are not composed, so that the eviction
  of a modified file is a hazard without a property.
* *Left out*: advisory locks (one request each, no state in the client), statistics,
  options, traces and printing; `kivfs_get_to_cache` and `kivfs_remote_fseek`, which
  nothing calls; the build files.

## 6. Plan

Done: `FileSync`, `Reconnect` and `OpLog` with their proofs; `Heap` refined to
`PriorityQueue`; `CacheSpace` over `Heap`; `WriteBack` and the proof that `FileSync`
implements it; theorems for all that is safety.

Left, in order:

1. The marking of a file and its eviction in one module (the row's `modified` beside
   `cached` and the sizes), and the log composed with contents: a file created, logged,
   written and uploaded.
2. The remote stream (offset 0) beside `FileSync`, once the server's position after a
   write is known.
3. Liveness of uploads: a marked file is uploaded if the connection holds long enough.
