----------------------------- MODULE CacheSpace -----------------------------
(****************************************************************************)
(* The space in the cache: what an open of kivfs_open_handling.c takes, how *)
(* cleanup.c and the cache-algo-*.c files make room for it, and the columns *)
(* "size", "cached" and "read_hits" of the table "files" they decide by.    *)
(*                                                                          *)
(* One FUSE thread (README and INSTALL mount with -s) runs the operations;  *)
(* the rescuer removes files beside it, and the process may be killed.      *)
(* QLFU-SS orders the files with the heap of heap.c, every step of it;      *)
(* kivfs_parse_cache_policy knows no name for it, so no mount can select    *)
(* it: it is compiled, and would run as it does here.                       *)
(* What the files contain, and versions, are left to FileSync.              *)
(****************************************************************************)
EXTENDS Heap, FiniteSetsExt

CONSTANTS
    Files,      \* the paths
    Sizes,      \* sizes of files
    Ranks,      \* values of the other columns that policies order by
    Policies,   \* the cache policies to be run with
    Limit,      \* get_cache_size
    MaxHits,    \* trigger_normalize_hits fires above it (15)
    Weights,    \* values of kivfs_lfuss_weight
    Listed,     \* the sizes of the files when the model starts
    Filled,     \* bound: the cache is filled so far at first
    Rankings,   \* and their ranks, if the policy has any
    NoRow,      \* no row in the table "files"
    Bounds      \* under each policy: how many operations, removals by the
                \* rescuer and deaths of the process

\* kivfs_cfile_t, the data pointers in the heap
CFile == [path : Files, size : Sizes, weight : Ranks]

Row == [id : Nat \ {0}, size : Sizes, cached : BOOLEAN, hits : Nat, rank : Ranks]

ASSUME FilesAssumption == Files \subseteq Nat \ {0} /\ IsFiniteSet(Files)
ASSUME SizesAssumption == Sizes \subseteq Nat /\ 0 \in Sizes /\ Limit \in Nat /\ Filled \in Nat
ASSUME ColumnsAssumption ==
    /\ Ranks \subseteq Nat /\ 0 \in Ranks /\ MaxHits \in Nat /\ Weights \subseteq Nat
    /\ Listed \in [Files -> Sizes] /\ NoRow \notin Row
    /\ Rankings \subseteq [Files -> Ranks]
ASSUME CFileAssumption ==
    /\ Items = CFile /\ Weight = [c \in CFile |-> c.weight]
    /\ HeapType = "HEAP_MIN"
ASSUME PoliciesAssumption ==
    Policies \subseteq {"FIFO", "LRU", "LFU", "LFUSS", "WLFUSS", "QLFUSS"}
ASSUME BoundsAssumption == Bounds \in [Policies -> [ops : Nat, gone : Nat, kills : Nat]]

VARIABLES
    row,        \* the table "files"
    local,      \* the paths that have a local copy
    policy,     \* get_cache_policy
    op,         \* the operation of the FUSE thread
    gone,       \* the file the rescuer has unlinked and not yet removed, or 0
    pending,    \* inc_read_hits_stmt was stepped and not reset
    budget,     \* what is left of the bounds
    excess,     \* history: what files took since the last cleanup without one
    strays      \* history: copies that an interruption has left uncounted

spaceVars == <<row, local, policy, op, gone, pending, budget, excess, strays>>
vars == <<heapVars, spaceVars>>
-----------------------------------------------------------------------------
(* The table; its rowid, "id", gives the order of a SELECT that asks for   *)
(* none.                                                                   *)

Known(f)  == row[f] # NoRow
Cached(f) == row[f] # NoRow /\ row[f].cached        \* cache_contains
CachedFiles == {f \in Files : Cached(f)}

\* cache_get_used_size
UsedSize == SumFunction([f \in CachedFiles |-> row[f].size])

\* an UPDATE of one row, after which trigger_normalize_hits halves the hits of
\* all (here rounded down)
Halved(R) == [f \in Files |-> IF R[f] = NoRow THEN NoRow ELSE [R[f] EXCEPT !.hits = @ \div 2]]
Normalised(R) ==
    IF \E f \in Files : R[f] # NoRow /\ R[f].hits > MaxHits THEN Halved(R) ELSE R
Update(f, r) == IF Known(f) THEN Normalised([row EXCEPT ![f] = r]) ELSE row

\* the row with one more hit
Hit(f) == IF Known(f) THEN Update(f, [row[f] EXCEPT !.hits = @ + 1]) ELSE row

\* an INSERT takes the rowid after the greatest
NewId == 1 + Max({0} \cup {row[f].id : f \in {g \in Files : Known(g)}})

\* f has a local copy that is not counted, or is counted without one
Apart(L, R, f) == (f \in L) # (R[f] # NoRow /\ R[f].cached)

NoOp == [pc |-> "idle", path |-> 0, size |-> 0, opened |-> FALSE, room |-> FALSE,
         used |-> 0, lost |-> 0, at |-> 0, snap |-> {}, victim |-> NULL]
Goto(pc) == op' = [op EXCEPT !.pc = pc]
Operation == op.pc = "idle" /\ budget.ops > 0 /\ budget' = [budget EXCEPT !.ops = @ - 1]

\* what a cached file takes more than before
Growth(f, s) == IF Cached(f) /\ s > row[f].size THEN s - row[f].size ELSE 0
-----------------------------------------------------------------------------
(* kivfs_open: open_file, try_open_remote_with_cache, open_with_cache.     *)

\* the local copy is used, or the open fails: only the hit is counted
OpenWithoutFetch(f) ==
    /\ Operation /\ Known(f)
    /\ op' = [NoOp EXCEPT !.pc = "count", !.path = f]
    /\ UNCHANGED <<heapVars, row, local, policy, gone, pending, excess, strays>>

\* the server has no such file
OpenGone(f) ==
    /\ Operation
    /\ row' = [row EXCEPT ![f] = NoRow] /\ local' = local \ {f}
    /\ op' = [NoOp EXCEPT !.pc = "count", !.path = f]
    /\ strays' = strays \ {f}
    /\ UNCHANGED <<heapVars, policy, gone, pending, excess>>

\* the server has a newer version of size s, or there is no local copy; to open
\* that may fail.  A file of half the limit or more gets none
OpenFetch(f, s) ==
    /\ Operation /\ Known(f)
    /\ \/ /\ s < Limit \div 2
          /\ \E opened \in BOOLEAN :
               /\ op' = [NoOp EXCEPT !.pc = "contains", !.path = f, !.size = s,
                                     !.opened = opened]
               /\ local' = IF opened THEN local \cup {f} ELSE local
       \/ /\ s >= Limit \div 2
          /\ op' = [NoOp EXCEPT !.pc = "update", !.path = f, !.size = s]
          /\ UNCHANGED local
    /\ UNCHANGED <<heapVars, row, policy, gone, pending, excess, strays>>

\* an open for writing only counts a write hit, which may pull the trigger
OpenForWriting(f) ==
    /\ Operation /\ Known(f)
    /\ row' = row \/ row' = Halved(row)
    /\ UNCHANGED <<heapVars, local, policy, op, gone, pending, excess, strays>>

\* if a file is already in cache, open_with_cache calls no cleanup
Contains ==
    /\ op.pc = "contains"
    /\ Goto(IF Cached(op.path) THEN "store" ELSE "used")
    /\ UNCHANGED <<heapVars, row, local, policy, gone, pending, budget, excess, strays>>

\* mutant: kivfs_lfuss_weight without abs, for a file that is written more than read
SignedWeights == {0} \cup {-w : w \in Weights}

\* cache_update_read_hits.  The weight of LFU-SS is the file's share of what the
\* server counted, up to 15 minutes ago, times the hits of the client: no bound
\* follows, and one halving by the trigger may leave more than MaxHits.  The
\* statement reset is that of cache_inc_read_hits
InitialHits == IF policy \in {"LFUSS", "WLFUSS"} THEN Weights ELSE {0}
StoreHits ==
    LET f == op.path
    IN  /\ op.pc = "store" /\ op.opened
        /\ \E h \in InitialHits :
             row' = IF Known(f) THEN Update(f, [row[f] EXCEPT !.hits = h]) ELSE row
        /\ pending' = FALSE
        /\ Goto("mark")
        /\ UNCHANGED <<heapVars, local, policy, gone, budget, excess, strays>>

\* cache_set_cached
Mark ==
    LET f == op.path
        before == IF Cached(f) THEN row[f].size ELSE 0
    IN  /\ op.pc = "mark"
        /\ row' = IF Known(f) THEN Update(f, [row[f] EXCEPT !.cached = TRUE]) ELSE row
        /\ excess' = IF op.room \/ op.size <= before THEN excess ELSE excess + (op.size - before)
        /\ strays' = IF Known(f) /\ f \in local THEN strays \ {f} ELSE strays
        /\ op' = [op EXCEPT !.pc = "update", !.room = TRUE]
        /\ UNCHANGED <<heapVars, local, policy, gone, pending, budget>>
\* nothing to mark without a descriptor
StoreNothing ==
    /\ op.pc = "store" /\ ~op.opened
    /\ op' = [op EXCEPT !.pc = "update", !.room = FALSE]
    /\ UNCHANGED <<heapVars, row, local, policy, gone, pending, budget, excess, strays>>

\* cache_update.  Of the columns the policies order by it writes atime only:
\* srv_read_hits and srv_write_hits stay as readdir found them
Stored(f, s) ==
    {[row[f] EXCEPT !.size = s, !.rank = r] : r \in IF policy = "LRU" THEN Ranks ELSE {row[f].rank}}
UpdateRow ==
    LET f == op.path
    IN  /\ op.pc = "update"
        /\ \/ \E r \in (IF Known(f) THEN Stored(f, op.size) ELSE {}) : row' = Update(f, r)
           \/ ~Known(f) /\ UNCHANGED row
        /\ excess' = IF op.room THEN excess ELSE excess + Growth(f, op.size)
        /\ Goto("count")
        /\ UNCHANGED <<heapVars, local, policy, gone, pending, budget, strays>>

\* cache_inc_read_hits resets the other statement, not its own.  The next call
\* finds its statement stepped: the bind is refused, and the step runs with the
\* text bound before, which has been freed and may read as any path or none
Count ==
    /\ op.pc = "count"
    /\ \/ ~pending /\ row' = Hit(op.path)
       \/ pending /\ (UNCHANGED row \/ \E f \in Files : row' = Hit(f))
    /\ op' = NoOp /\ pending' = TRUE
    /\ UNCHANGED <<heapVars, local, policy, gone, budget, excess, strays>>
-----------------------------------------------------------------------------
(* cleanup(size).                                                          *)

\* mutant: the file about to come is not counted
TightNow == op.used > Limit

Tight == op.used + op.size > Limit

\* the loop is left: there is room
Enough ==
    /\ op' = [op EXCEPT !.pc = "store", !.room = TRUE, !.snap = {}, !.victim = NULL,
                        !.used = 0, !.lost = 0, !.at = 0]
    /\ excess' = 0

\* the first thing both purge_file and qlfuss do
GetUsedSize ==
    /\ op.pc = "used"
    /\ op' = [op EXCEPT !.pc = IF policy = "QLFUSS" THEN "ask" ELSE "purge", !.used = UsedSize]
    /\ UNCHANGED <<heapVars, row, local, policy, gone, pending, budget, excess, strays>>

\* ORDER BY of lru, lfu (and lfuss), wlfuss.  The columns are integers, so
\* size / max(size) is 0 for all but the largest files
Largest == Max({row[f].size : f \in CachedFiles})
Key(f) ==
    CASE policy = "LRU" -> row[f].rank
      [] policy \in {"LFU", "LFUSS"} -> row[f].hits
      [] policy = "WLFUSS" -> IF row[f].size = Largest /\ Largest > 0 THEN row[f].hits ELSE 0

\* what sqlite3_step finds: sorted when the first row is asked for, or, in
\* fifo, row after row of the table as it is then
Scanned == {f \in CachedFiles : row[f].id > op.at}
Entry(f, w) == [path |-> f, size |-> row[f].size, weight |-> w]
Candidates ==
    IF policy = "FIFO" THEN {Entry(f, 0) : f \in Scanned}
    ELSE IF op.at = 0 THEN {Entry(f, Key(f)) : f \in CachedFiles}
    ELSE op.snap
Foremost(c) ==
    \A d \in Candidates : IF policy = "FIFO" THEN row[c.path].id <= row[d.path].id ELSE c.weight <= d.weight

\* mutant: the row found is found again
Again(c) == IF policy = "FIFO" THEN {} ELSE Candidates

\* the rows of a sorted result that are left after c
After(c) == IF policy = "FIFO" THEN {} ELSE Candidates \ {c}

\* purge_file
Purge ==
    /\ op.pc = "purge" /\ Tight
    /\ \E c \in Candidates :
         /\ Foremost(c)
         /\ op' = [op EXCEPT !.pc = "evict", !.victim = c,
                             !.at = IF policy = "FIFO" THEN row[c.path].id ELSE 1,
                             !.snap = After(c)]
    /\ UNCHANGED <<heapVars, row, local, policy, gone, pending, budget, excess, strays>>

\* mutant: the sum of the sizes decides whether a row is left
PurgeDry == op.pc = "purge" /\ Tight /\ Candidates = {} /\ op.used <= 0

\* no row is left: the result is -1, which open_with_cache ignores
PurgeFails == op.pc = "purge" /\ Tight /\ Candidates = {}
PurgeEnds ==
    /\ op.pc = "purge" /\ (~Tight \/ PurgeFails)
    /\ Enough
    /\ UNCHANGED <<heapVars, row, local, policy, gone, pending, budget, strays>>

\* qlfuss asks the server for the hits of all files; an error is the result
AskHits ==
    /\ op.pc = "ask"
    /\ \/ Goto("store") /\ UNCHANGED excess
       \/ Tight /\ Goto("build") /\ UNCHANGED excess
       \/ ~Tight /\ Enough
    /\ UNCHANGED <<heapVars, row, local, policy, gone, pending, budget, strays>>

\* the heap takes the cached files, in the order of the table
Build ==
    /\ op.pc = "build" /\ repair = "none"
    /\ \E f \in Scanned :
         /\ \A g \in Scanned : row[f].id <= row[g].id
         /\ HeapAdd(Entry(f, row[f].rank))
         /\ op' = [op EXCEPT !.at = row[f].id]
    /\ UNCHANGED <<row, local, policy, gone, pending, budget, excess, strays>>
BuildEnds ==
    /\ op.pc = "build" /\ repair = "none" /\ Scanned = {}
    /\ Goto("poll")
    /\ UNCHANGED <<heapVars, row, local, policy, gone, pending, budget, excess, strays>>

\* an iteration of repair_from_bottom or repair_from_top
RepairHeap == Repair /\ UNCHANGED spaceVars

\* the loop of qlfuss, and its end
Poll ==
    /\ op.pc = "poll" /\ Tight /\ HeapPoll
    /\ op' = [op EXCEPT !.pc = "evict", !.victim = root[1]]
    /\ UNCHANGED <<row, local, policy, gone, pending, budget, excess, strays>>
PollEnds ==
    /\ op.pc = "poll" /\ repair = "none" /\ ~Tight
    /\ HeapRenew
    /\ Enough
    /\ UNCHANGED <<row, local, policy, gone, pending, budget, strays>>

\* the heap is empty: the path of the null result is read
RunsDry ==
    /\ op.pc = "poll" /\ repair = "none" /\ Tight /\ index = 1
    /\ Goto("dead")
    /\ UNCHANGED <<heapVars, row, local, policy, gone, pending, budget, excess, strays>>

\* mutant: the space freed is not subtracted
EvictKept ==
    /\ op.pc = "evict" /\ repair = "none"
    /\ local' = local \ {op.victim.path}
    /\ Goto("uncache")
    /\ UNCHANGED <<heapVars, row, policy, gone, pending, budget, excess, strays>>
\* mutant: the row stays cached
UncacheNot ==
    /\ op.pc = "uncache"
    /\ op' = [op EXCEPT !.pc = IF policy = "QLFUSS" THEN "poll" ELSE "purge", !.victim = NULL]
    /\ UNCHANGED <<heapVars, row, local, policy, gone, pending, budget, excess, strays>>

\* unlink, then cache_set_cached(path, 0)
Evict ==
    /\ op.pc = "evict" /\ repair = "none"
    /\ local' = local \ {op.victim.path}
    /\ op' = [op EXCEPT !.pc = "uncache", !.used = @ - op.victim.size]
    /\ UNCHANGED <<heapVars, row, policy, gone, pending, budget, excess, strays>>
Uncache ==
    LET f == op.victim.path
    IN  /\ op.pc = "uncache"
        /\ row' = IF Known(f) THEN Update(f, [row[f] EXCEPT !.cached = FALSE]) ELSE row
        /\ op' = [op EXCEPT !.pc = IF policy = "QLFUSS" THEN "poll" ELSE "purge", !.victim = NULL]
        /\ strays' = strays \ {f}
        /\ UNCHANGED <<heapVars, local, policy, gone, pending, budget, excess>>
-----------------------------------------------------------------------------
(* The other operations that change the columns.                           *)

\* kivfs_release of a handle that wrote: the file has a new size
Save(f, s) ==
    /\ Operation /\ Known(f)
    /\ \E r \in Stored(f, s) : row' = Update(f, r)
    /\ excess' = excess + Growth(f, s)
    /\ UNCHANGED <<heapVars, local, policy, op, gone, pending, strays>>

\* kivfs_create
Create(f) ==
    /\ Operation /\ ~Known(f)
    /\ row' = [row EXCEPT ![f] = [id |-> NewId, size |-> 0, cached |-> TRUE, hits |-> 0, rank |-> 0]]
    /\ local' = local \cup {f}
    /\ strays' = strays \ {f}
    /\ UNCHANGED <<heapVars, policy, op, gone, pending, excess>>

\* kivfs_readdir finds a file the table did not have
List(f, s, r) ==
    /\ Operation /\ ~Known(f)
    /\ row' = [row EXCEPT ![f] = [id |-> NewId, size |-> s, cached |-> FALSE, hits |-> 0,
                               rank |-> r]]
    /\ UNCHANGED <<heapVars, local, policy, op, gone, pending, excess, strays>>

\* kivfs_unlink
Unlink(f) ==
    /\ Operation /\ Known(f)
    /\ row' = [row EXCEPT ![f] = NoRow]
    /\ local' = local \ {f}
    /\ strays' = strays \ {f}
    /\ UNCHANGED <<heapVars, policy, op, gone, pending, excess>>

\* kivfs_rename: the row is moved after an answer only, the local copy always,
\* if there is one; an old copy of the target may stay
Rename(f, g, answered) ==
    /\ Operation /\ Known(f) /\ f # g
    /\ row' = IF answered THEN [row EXCEPT ![g] = row[f], ![f] = NoRow] ELSE row
    /\ local' = IF f \in local THEN (local \ {f}) \cup {g} ELSE local
    /\ strays' = (strays \ {f, g}) \cup {h \in {f, g} : Apart(local', row', h)}
    /\ UNCHANGED <<heapVars, policy, op, gone, pending, excess>>

\* kivfs_utimens
Utimens(f, r) ==
    /\ Operation /\ Known(f) /\ policy = "LRU"
    /\ row' = Update(f, [row[f] EXCEPT !.rank = r])
    /\ UNCHANGED <<heapVars, local, policy, op, gone, pending, excess, strays>>
-----------------------------------------------------------------------------
(* Beside the FUSE thread.                                                 *)

\* cache_sync_modified: an upload was refused for want of the file
RescuerUnlinks(f) ==
    /\ gone = 0 /\ Known(f) /\ budget.gone > 0
    /\ local' = local \ {f} /\ gone' = f
    /\ budget' = [budget EXCEPT !.gone = @ - 1]
    /\ UNCHANGED <<heapVars, row, policy, op, pending, excess, strays>>
\* "lost" is what the sum of the sizes included and the scan will not find
RescuerRemoves ==
    /\ gone # 0
    /\ row' = [row EXCEPT ![gone] = NoRow]
    /\ gone' = 0
    /\ strays' = IF gone \in local THEN strays \cup {gone} ELSE strays \ {gone}
    /\ op' = IF Cached(gone) /\ (op.pc = "ask" \/ (op.pc = "build" /\ row[gone].id > op.at))
             THEN [op EXCEPT !.lost = @ + row[gone].size] ELSE op
    /\ UNCHANGED <<heapVars, local, policy, pending, budget, excess>>

\* the process dies and is started again: the table and the copies stay
Restart ==
    /\ op.pc = "dead" \/ budget.kills > 0
    /\ HeapRenew
    /\ op' = NoOp /\ gone' = 0 /\ pending' = FALSE
    /\ strays' = {f \in Files : Apart(local, row, f)}
    /\ excess' = IF op.pc = "update" /\ op.room /\ Known(op.path) /\ row[op.path].size > op.size
                 THEN excess + (row[op.path].size - op.size) ELSE excess
    /\ budget' = IF op.pc = "dead" THEN budget ELSE [budget EXCEPT !.kills = @ - 1]
    /\ UNCHANGED <<row, local, policy>>
-----------------------------------------------------------------------------
\* the column a policy orders by beside "size" and "read_hits"
Ranked == policy \in {"LRU", "QLFUSS"}

\* a selection of the listed files that fits is cached; none has a hit yet
Init ==
    /\ HeapInit
    /\ policy \in Policies
    /\ \E cached \in SUBSET Files, rank \in Rankings :
         /\ row = [f \in Files |-> [id |-> f, size |-> Listed[f], cached |-> f \in cached,
                                    hits |-> 0,
                                    rank |-> IF Ranked THEN rank[f] ELSE 0]]
         /\ local = cached
         /\ UsedSize \in Filled .. Limit
    /\ op = NoOp /\ gone = 0 /\ pending = FALSE
    /\ budget = Bounds[policy]
    /\ excess = 0 /\ strays = {}

Begin ==
    \E f \in Files :
        \/ OpenWithoutFetch(f) \/ OpenGone(f) \/ OpenForWriting(f) \/ Create(f) \/ Unlink(f)
        \/ \E g \in Files : \E answered \in BOOLEAN : Rename(f, g, answered)
        \/ \E s \in Sizes : OpenFetch(f, s) \/ Save(f, s) \/ (\E r \in (IF Ranked THEN Ranks ELSE {0}) : List(f, s, r))
        \/ \E r \in Ranks : Utimens(f, r)
Continue ==
    \/ Contains \/ StoreHits \/ Mark \/ StoreNothing \/ UpdateRow \/ Count
    \/ GetUsedSize \/ Purge \/ PurgeEnds \/ AskHits \/ Build \/ BuildEnds \/ RepairHeap
    \/ Poll \/ PollEnds \/ RunsDry \/ Evict \/ Uncache
Next ==
    \/ Begin \/ Continue
    \/ (\E f \in Files : RescuerUnlinks(f)) \/ RescuerRemoves
    \/ Restart

Spec == Init /\ [][Next]_vars

\* The FUSE thread goes on with the operation it has begun.
FairSpec == Spec /\ WF_vars(Continue)
-----------------------------------------------------------------------------
(* Properties.                                                             *)

Cleaning == {"used", "ask", "build", "poll", "purge", "evict", "uncache"}
TypeOK ==
    /\ row \in [Files -> Row \cup {NoRow}]
    /\ local \subseteq Files /\ strays \subseteq Files /\ gone \in Files \cup {0}
    /\ policy \in Policies /\ pending \in BOOLEAN /\ excess \in Nat
    /\ op \in [pc : Cleaning \cup {"idle", "contains", "store", "mark", "update", "count", "dead"},
              path : Files \cup {0}, size : Sizes, opened : BOOLEAN, room : BOOLEAN,
              used : Nat, lost : Nat, at : Nat, snap : SUBSET [path : Files, size : Sizes, weight : Nat],
              victim : [path : Files, size : Sizes, weight : Nat] \cup {NULL}]

\* The files marked as cached take no more than the limit, but for what cached
\* files have grown by and qlfuss has let in without the server's answer since
\* the last cleanup; and when a cleanup has ended there is room for the file it
\* was called for, whatever the rescuer has removed meanwhile.
WithinLimit ==
    /\ op.pc # "update" => UsedSize <= Limit + excess
    /\ op.pc \in {"store", "mark"} /\ op.room => UsedSize + op.size <= Limit

\* The loop of qlfuss polls an empty heap, which ends the process, only if the
\* rescuer has removed cached files between the sum of the sizes and the scan,
\* and more than the half of the limit of them.
HeapLasts == op.pc = "dead" => op.lost + op.size > Limit /\ 2 * op.lost > Limit

\* A file is marked as cached just when it has a local copy, except for the
\* file being fetched, the one being evicted, the one the rescuer is removing,
\* and what a death of the process, a rename or a fetch that met the rescuer
\* left apart: all else that lies in the cache directory is counted in the space used.
CopiesAreCounted ==
    \A f \in Files \ (strays \cup {gone}) :
        \/ f \in local <=> Cached(f)
        \/ f = op.path /\ op.pc \in Cleaning \cup {"contains", "store", "mark", "dead"}
        \/ op.pc = "uncache" /\ f = op.victim.path

\* A cleanup ends: it evicts a file in each iteration, and none twice.
CleanupEnds == op.pc \in Cleaning ~> op.pc \notin Cleaning

\* What a cleanup may still evict (in the table, in the result of a SELECT or in
\* the heap) never becomes more, and each file it goes on to evict is taken out of
\* it: no file is evicted twice, and none that the cleanup had not found cached,
\* whatever the rescuer removes meanwhile.
Scanning == \/ op.pc \in {"used", "ask", "build"} \/ policy = "FIFO"
            \/ policy # "QLFUSS" /\ op.at = 0
Remaining == (IF Scanning THEN Scanned ELSE {}) \cup {c.path : c \in op.snap \cup Contents}
NoneTwice ==
    [][op.pc \in Cleaning /\ op'.pc \in Cleaning =>
         /\ Remaining' \subseteq Remaining
         /\ op.pc # "evict" /\ op'.pc = "evict" => op'.victim.path \in Remaining \ Remaining']_vars

\* "Increment read hits by 1. @param path path of an object which is beeing
\* accessed" (cache.h:153): the open that cache_inc_read_hits ends is counted
\* for the file that was opened.
HitIsCounted ==
    [][op.pc = "count" /\ op'.pc = "idle" /\ budget' = budget => row' = Hit(op.path)]_vars
=============================================================================
