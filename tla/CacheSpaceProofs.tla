-------------------------- MODULE CacheSpaceProofs --------------------------
(***************************************************************************)
(* What holds of CacheSpace for any files, sizes, limit and bounds: qlfuss *)
(* uses the heap as its specification allows, so that all of HeapProofs    *)
(* holds here, and a file is marked as cached just when it has a copy.     *)
(***************************************************************************)
EXTENDS CacheSpace, HeapProofs

Rows == [Files -> Row \cup {NoRow}]
-----------------------------------------------------------------------------
(* A new rowid is a number.                                                *)

LEMMA NewIdType == row \in Rows => NewId \in Nat \ {0}
<1> SUFFICES ASSUME row \in Rows PROVE NewId \in Nat \ {0}
    OBVIOUS
<1> DEFINE K == {g \in Files : Known(g)}
           f == [g \in K |-> row[g].id]
           Ids == {row[g].id : g \in K}
<1>1. IsFiniteSet(K)
    BY FilesAssumption, FS_Subset
<1>2. \A g \in K : row[g].id \in Nat \ {0}
    BY DEF Rows, Row, Known
<1>3. f \in Surjection(K, Ids)
    BY DEF Surjection
<1>4. IsFiniteSet(Ids)
  <2> HIDE DEF K, f, Ids
  <2> QED
      BY <1>1, <1>3, FS_Surjection
<1>5. Ids \in SUBSET Nat
    BY <1>2
<1>6. 1 + Max({0} \cup Ids) \in Nat \ {0}
  <2> HIDE DEF Ids
  <2> QED
      BY <1>4, <1>5, NextNumber
<1> QED
    BY <1>6 DEF NewId
-----------------------------------------------------------------------------
(* What the writes to the table change.                                    *)

\* R has the rows of the table, and the same ones are marked as cached
SameCopies(R) ==
    /\ R \in Rows
    /\ \A g \in Files : /\ R[g] = NoRow <=> row[g] = NoRow
                        /\ R[g] # NoRow => R[g].cached = row[g].cached

\* R[f] is marked as c says, the other rows are marked as they were
Marked(R, f, c) ==
    /\ R \in Rows
    /\ \A g \in Files : /\ R[g] = NoRow <=> row[g] = NoRow
                        /\ R[g] # NoRow => R[g].cached = IF g = f THEN c ELSE row[g].cached

LEMMA HalvedRows ==
    ASSUME NEW R \in Rows
    PROVE  /\ Halved(R) \in Rows
           /\ \A g \in Files : /\ Halved(R)[g] = NoRow <=> R[g] = NoRow
                               /\ R[g] # NoRow => Halved(R)[g].cached = R[g].cached
<1> DEFINE H(r) == [r EXCEPT !.hits = @ \div 2]
<1>1. \A r \in Row : H(r) \in Row /\ H(r).cached = r.cached
    BY DEF Row
<1>2. NoRow \notin Row
    BY ColumnsAssumption
<1>3. \A g \in Files : R[g] \in Row \cup {NoRow}
    BY DEF Rows
<1>4. Halved(R) = [g \in Files |-> IF R[g] = NoRow THEN NoRow ELSE H(R[g])]
    BY DEF Halved
<1> HIDE DEF H
<1>5. \A g \in Files : (IF R[g] = NoRow THEN NoRow ELSE H(R[g])) \in Row \cup {NoRow}
    BY <1>1, <1>3
<1>6. Halved(R) \in Rows
    BY <1>4, <1>5 DEF Rows
<1>7. \A g \in Files : Halved(R)[g] = IF R[g] = NoRow THEN NoRow ELSE H(R[g])
    BY <1>4
<1> QED
    BY <1>1, <1>2, <1>3, <1>6, <1>7

LEMMA NormalisedRows ==
    ASSUME NEW R \in Rows
    PROVE  /\ Normalised(R) \in Rows
           /\ \A g \in Files : /\ Normalised(R)[g] = NoRow <=> R[g] = NoRow
                               /\ R[g] # NoRow => Normalised(R)[g].cached = R[g].cached
    BY HalvedRows DEF Normalised

LEMMA UpdateMarks ==
    ASSUME row \in Rows, NEW f \in Files, NEW r \in Row
    PROVE  Marked(Update(f, r), f, r.cached)
<1>1. CASE ~Known(f)
    BY <1>1 DEF Update, Marked, Known
<1>2. CASE Known(f)
  <2> DEFINE R == [row EXCEPT ![f] = r]
  <2>1. R \in Rows /\ \A g \in Files : R[g] = IF g = f THEN r ELSE row[g]
      BY DEF Rows
  <2>2. r # NoRow
      BY ColumnsAssumption
  <2>3. Update(f, r) = Normalised(R)
      BY <1>2 DEF Update
  <2> HIDE DEF R
  <2> QED
      BY <1>2, <2>1, <2>2, <2>3, NormalisedRows DEF Marked, Known
<1> QED
    BY <1>1, <1>2

LEMMA UpdateKeeps ==
    ASSUME row \in Rows, NEW f \in Files, NEW r \in Row, r.cached = row[f].cached
    PROVE  SameCopies(Update(f, r))
    BY UpdateMarks DEF Marked, SameCopies

LEMMA HitKeeps ==
    ASSUME row \in Rows, NEW f \in Files
    PROVE  SameCopies(Hit(f))
<1>1. CASE ~Known(f)
    BY <1>1 DEF Hit, SameCopies
<1>2. CASE Known(f)
  <2>1. row[f] \in Row
      BY <1>2 DEF Known, Rows
  <2>2. /\ [row[f] EXCEPT !.hits = @ + 1] \in Row
        /\ [row[f] EXCEPT !.hits = @ + 1].cached = row[f].cached
      BY <2>1 DEF Row
  <2> QED
      BY <1>2, <2>2, UpdateKeeps DEF Hit
<1> QED
    BY <1>1, <1>2
-----------------------------------------------------------------------------
(* Types: what the theorems below need of them.                            *)

OpFields ==
    op = [pc |-> op.pc, path |-> op.path, size |-> op.size, opened |-> op.opened,
          room |-> op.room, used |-> op.used, lost |-> op.lost, at |-> op.at,
          snap |-> op.snap, victim |-> op.victim]

Typed ==
    /\ row \in Rows
    /\ local \subseteq Files /\ strays \subseteq Files /\ gone \in Files \cup {0}
    /\ OpFields /\ op.size \in Sizes
    /\ op.path \in Files \cup {0}
    /\ op.pc \notin {"idle", "dead"} => op.path \in Files
    /\ op.pc = "idle" => op = NoOp

LEMMA InitTyped == Init => Typed
<1> SUFFICES ASSUME Init PROVE Typed
    OBVIOUS
<1>1. PICK cached \in SUBSET Files, rank \in Rankings :
         /\ row = [f \in Files |-> [id |-> f, size |-> Listed[f], cached |-> f \in cached,
                                    hits |-> 0,
                                    rank |-> IF Ranked THEN rank[f] ELSE 0]]
         /\ local = cached
    BY DEF Init
<1>2. row \in Rows
  <2>1. \A f \in Files : Listed[f] \in Sizes /\ f \in Nat \ {0} /\ (f \in cached) \in BOOLEAN
      BY ColumnsAssumption, FilesAssumption
  <2>2. \A f \in Files : (IF Ranked THEN rank[f] ELSE 0) \in Ranks
      BY ColumnsAssumption
  <2> QED
      BY <1>1, <2>1, <2>2 DEF Rows, Row
<1>3. op = NoOp /\ gone = 0 /\ strays = {} /\ local \subseteq Files
    BY <1>1 DEF Init
<1> QED
    BY <1>2, <1>3, SizesAssumption DEF Typed, OpFields, NoOp

LEMMA EntryType ==
    ASSUME row \in Rows, NEW f \in Files, Known(f), NEW w \in Ranks
    PROVE  Entry(f, w) \in CFile
    BY DEF Rows, Row, Known, Entry, CFile

(* Where the victims of a cleanup come from: files other than the one it   *)
(* makes room for, which is not marked as cached while it runs.            *)
Victims ==
    /\ op.pc \in {"evict", "uncache"} => op.victim.path \in Files \ {op.path}
    /\ op.pc = "uncache" => op.victim.path \notin local
    /\ \A c \in op.snap \cup Contents : c.path \in Files \ {op.path}

(* Only a cleanup of qlfuss has items in the heap.                         *)
HeapInUse ==
    /\ Contents # {} => policy = "QLFUSS" /\ op.pc \in {"build", "poll", "evict", "uncache"}
    /\ op.pc \in {"ask", "build", "poll"} => policy = "QLFUSS"

-----------------------------------------------------------------------------
(* What each action does to the table.                                     *)

LEMMA KnownRow == row \in Rows => \A f \in Files : Known(f) => row[f] \in Row
    BY DEF Rows, Known

LEMMA StoredRows ==
    ASSUME row \in Rows, NEW f \in Files, Known(f), NEW s \in Sizes, NEW r \in Stored(f, s)
    PROVE  r \in Row /\ r.cached = row[f].cached
<1>1. row[f] \in Row
    BY KnownRow
<1>2. PICK q \in Ranks : r = [row[f] EXCEPT !.size = s, !.rank = q]
    BY <1>1 DEF Stored, Row
<1> QED
    BY <1>1, <1>2 DEF Row

(* These write columns other than "cached".                                *)
WritesColumns ==
    \/ StoreHits \/ UpdateRow \/ Count
    \/ \E f \in Files : \/ OpenForWriting(f)
                        \/ \E s \in Sizes : Save(f, s)
                        \/ \E r \in Ranks : Utimens(f, r)

LEMMA ColumnsOnly ==
    ASSUME Typed, WritesColumns
    PROVE  SameCopies(row')
<1>1. row \in Rows /\ \A f \in Files : Known(f) => row[f] \in Row
    BY KnownRow DEF Typed
<1>2. SameCopies(row)
    BY <1>1 DEF SameCopies
<1>3. CASE UpdateRow
  <2>1. op.path \in Files /\ op.size \in Sizes
      BY <1>3 DEF UpdateRow, Typed
  <2>2. ASSUME Known(op.path), NEW r \in Stored(op.path, op.size)
        PROVE  SameCopies(Update(op.path, r))
      BY <1>1, <2>1, <2>2, StoredRows, UpdateKeeps
  <2> QED
      BY <1>2, <1>3, <2>1, <2>2 DEF UpdateRow
<1>4. CASE Count
    BY <1>1, <1>2, <1>4, HitKeeps DEF Count, Typed
<1>5. ASSUME NEW f \in Files, OpenForWriting(f) PROVE SameCopies(row')
    BY <1>1, <1>2, <1>5, HalvedRows DEF OpenForWriting, SameCopies
<1>6. ASSUME NEW f \in Files, NEW s \in Sizes, Save(f, s) PROVE SameCopies(row')
  <2>1. PICK r \in Stored(f, s) : row' = Update(f, r)
      BY <1>6 DEF Save
  <2>2. Known(f)
      BY <1>6 DEF Save
  <2> QED
      BY <1>1, <2>1, <2>2, StoredRows, UpdateKeeps
<1>7. ASSUME NEW f \in Files, NEW r \in Ranks, Utimens(f, r) PROVE SameCopies(row')
  <2>1. /\ [row[f] EXCEPT !.rank = r] \in Row
        /\ [row[f] EXCEPT !.rank = r].cached = row[f].cached
        /\ row' = Update(f, [row[f] EXCEPT !.rank = r])
      BY <1>1, <1>7 DEF Utimens, Row
  <2> QED
      BY <1>1, <2>1, UpdateKeeps
<1>8. CASE StoreHits
  <2>1. op.path \in Files
      BY <1>8 DEF StoreHits, Typed
  <2>2. PICK h \in InitialHits :
           row' = IF Known(op.path) THEN Update(op.path, [row[op.path] EXCEPT !.hits = h]) ELSE row
      BY <1>8 DEF StoreHits
  <2>3. h \in Nat
      BY ColumnsAssumption DEF InitialHits
  <2>4. ASSUME Known(op.path) PROVE SameCopies(row')
    <3> DEFINE r == [row[op.path] EXCEPT !.hits = h]
    <3>1. r \in Row /\ r.cached = row[op.path].cached
        BY <1>1, <2>1, <2>3, <2>4 DEF Row
    <3>2. row' = Update(op.path, r)
        BY <2>2, <2>4
    <3> HIDE DEF r
    <3> QED
        BY <1>1, <2>1, <2>4, <3>1, <3>2, UpdateKeeps
  <2> QED
      BY <1>2, <2>2, <2>4
<1> QED
    BY <1>3, <1>4, <1>5, <1>6, <1>7, <1>8 DEF WritesColumns

LEMMA MarkMarks ==
    ASSUME Typed, Mark
    PROVE  op.path \in Files /\ Marked(row', op.path, TRUE)
<1>1. op.path \in Files /\ row \in Rows
    BY DEF Mark, Typed
<1>2. row' = IF Known(op.path) THEN Update(op.path, [row[op.path] EXCEPT !.cached = TRUE]) ELSE row
    BY DEF Mark
<1>4. CASE ~Known(op.path)
    BY <1>1, <1>2, <1>4 DEF Marked, Known
<1>5. CASE Known(op.path)
  <2> DEFINE r == [row[op.path] EXCEPT !.cached = TRUE]
  <2>1. r \in Row /\ r.cached = TRUE
      BY <1>1, <1>5, KnownRow DEF Row
  <2>2. row' = Update(op.path, r)
      BY <1>2, <1>5
  <2> HIDE DEF r
  <2> QED
      BY <1>1, <2>1, <2>2, UpdateMarks
<1> QED
    BY <1>1, <1>4, <1>5

LEMMA UncacheMarks ==
    ASSUME Typed, Victims, Uncache
    PROVE  op.victim.path \in Files \ {op.path} /\ Marked(row', op.victim.path, FALSE)
<1>1. op.victim.path \in Files \ {op.path} /\ row \in Rows
    BY DEF Uncache, Victims, Typed
<1>2. row' = IF Known(op.victim.path) THEN Update(op.victim.path, [row[op.victim.path] EXCEPT !.cached = FALSE]) ELSE row
    BY DEF Uncache
<1>3. CASE ~Known(op.victim.path)
    BY <1>1, <1>2, <1>3 DEF Marked, Known
<1>4. CASE Known(op.victim.path)
  <2> DEFINE r == [row[op.victim.path] EXCEPT !.cached = FALSE]
  <2>1. r \in Row /\ r.cached = FALSE
      BY <1>1, <1>4, KnownRow DEF Row
  <2>2. row' = Update(op.victim.path, r)
      BY <1>2, <1>4
  <2> HIDE DEF r
  <2> QED
      BY <1>1, <2>1, <2>2, UpdateMarks
<1> QED
    BY <1>1, <1>3, <1>4

LEMMA NewRows ==
    ASSUME Typed, NEW f \in Files, NEW s \in Sizes, NEW c \in BOOLEAN, NEW r \in Ranks,
           ~Known(f),
           row' = [row EXCEPT ![f] = [id |-> NewId, size |-> s, cached |-> c, hits |-> 0, rank |-> r]]
    PROVE  /\ row' \in Rows
           /\ row'[f] # NoRow /\ row'[f].cached = c
           /\ \A g \in Files \ {f} : row'[g] = row[g]
<1>1. NewId \in Nat \ {0} /\ row \in Rows
    BY NewIdType DEF Typed
<1> HIDE DEF NewId
<1> DEFINE new == [id |-> NewId, size |-> s, cached |-> c, hits |-> 0, rank |-> r]
<1>2. new \in Row /\ new.cached = c
    BY <1>1 DEF Row
<1>3. row' = [row EXCEPT ![f] = new]
    OBVIOUS
<1> HIDE DEF new
<1> QED
    BY <1>1, <1>2, <1>3, ColumnsAssumption DEF Rows
-----------------------------------------------------------------------------
(* Every action keeps the types.                                           *)

(* These leave the table as it is.                                         *)
LeavesRows ==
    \/ Contains \/ StoreNothing \/ GetUsedSize \/ Purge \/ PurgeEnds \/ AskHits \/ Build
    \/ BuildEnds \/ RepairHeap \/ Poll \/ PollEnds \/ RunsDry \/ Evict \/ Restart
    \/ \E f \in Files : OpenWithoutFetch(f) \/ RescuerUnlinks(f) \/ \E s \in Sizes : OpenFetch(f, s)

LEMMA RowsLeft == LeavesRows => row' = row
<1> USE DEF spaceVars
<1>1. ASSUME Contains \/ StoreNothing \/ GetUsedSize \/ Purge \/ PurgeEnds \/ AskHits \/ Build
      PROVE  row' = row
    BY <1>1 DEF Contains, StoreNothing, GetUsedSize, Purge, PurgeEnds, AskHits, Build
<1>2. ASSUME BuildEnds \/ RepairHeap \/ Poll \/ PollEnds \/ RunsDry \/ Evict \/ Restart
      PROVE  row' = row
    BY <1>2 DEF BuildEnds, RepairHeap, Poll, PollEnds, RunsDry, Evict, Restart
<1>3. ASSUME NEW f \in Files, NEW s \in Sizes,
             OpenWithoutFetch(f) \/ RescuerUnlinks(f) \/ OpenFetch(f, s)
      PROVE  row' = row
    BY <1>3 DEF OpenWithoutFetch, RescuerUnlinks, OpenFetch
<1> QED
    BY <1>1, <1>2, <1>3, SizesAssumption DEF LeavesRows

(* And these change which rows there are.                                  *)
NamesChange ==
    \E f \in Files :
        \/ OpenGone(f) \/ Create(f) \/ Unlink(f)
        \/ \E g \in Files : \E answered \in BOOLEAN : Rename(f, g, answered)
        \/ \E s \in Sizes : \E r \in (IF Ranked THEN Ranks ELSE {0}) : List(f, s, r)

LEMMA StepCases ==
    Next => LeavesRows \/ WritesColumns \/ Mark \/ Uncache \/ NamesChange \/ RescuerRemoves
<1>1. Begin => LeavesRows \/ WritesColumns \/ NamesChange
    BY DEF Begin, LeavesRows, WritesColumns, NamesChange
<1>2. Continue => LeavesRows \/ WritesColumns \/ Mark \/ Uncache
    BY DEF Continue, LeavesRows, WritesColumns
<1> QED
    BY <1>1, <1>2 DEF Next, LeavesRows

LEMMA NamesKeepRows == Typed /\ NamesChange => row' \in Rows
<1> SUFFICES ASSUME Typed, NamesChange PROVE row' \in Rows
    OBVIOUS
<1>1. row \in Rows
    BY DEF Typed
<1>2. ASSUME NEW f \in Files, OpenGone(f) \/ Unlink(f) PROVE row' \in Rows
    BY <1>1, <1>2 DEF OpenGone, Unlink, Rows
<1>3. ASSUME NEW f \in Files, Create(f) PROVE row' \in Rows
    BY <1>3, NewRows, SizesAssumption, ColumnsAssumption DEF Create
<1>4. ASSUME NEW f \in Files, NEW s \in Sizes, NEW r \in Ranks, List(f, s, r) PROVE row' \in Rows
    BY <1>4, NewRows DEF List
<1>5. ASSUME NEW f \in Files, NEW g \in Files, NEW answered \in BOOLEAN, Rename(f, g, answered)
      PROVE  row' \in Rows
    BY <1>1, <1>5 DEF Rename, Rows
<1>6. (IF Ranked THEN Ranks ELSE {0}) \subseteq Ranks
    BY ColumnsAssumption
<1> QED
    BY <1>2, <1>3, <1>4, <1>5, <1>6 DEF NamesChange

LEMMA RowsKept == Typed /\ Victims /\ [Next]_vars => row' \in Rows
<1> SUFFICES ASSUME Typed, Victims, [Next]_vars PROVE row' \in Rows
    OBVIOUS
<1>1. row \in Rows
    BY DEF Typed
<1>2. CASE UNCHANGED vars
    BY <1>1, <1>2 DEF vars, spaceVars
<1>3. CASE RescuerRemoves
    BY <1>1, <1>3 DEF RescuerRemoves, Typed, Rows
<1> QED
    BY <1>1, <1>2, <1>3, StepCases, RowsLeft, ColumnsOnly, MarkMarks, UncacheMarks, NamesKeepRows
       DEF SameCopies, Marked

LEMMA TypedKept == Typed /\ Victims /\ [Next]_vars => Typed'
<1> SUFFICES ASSUME Typed, Victims, [Next]_vars PROVE Typed'
    OBVIOUS
<1> DEFINE Others ==
        /\ local \subseteq Files /\ strays \subseteq Files /\ gone \in Files \cup {0}
        /\ OpFields /\ op.size \in Sizes
        /\ op.path \in Files \cup {0}
        /\ op.pc \notin {"idle", "dead"} => op.path \in Files
        /\ op.pc = "idle" => op = NoOp
<1> USE DEF Typed, OpFields, NoOp, Goto
<1>1. Others
    OBVIOUS
<1>2. ASSUME UNCHANGED vars PROVE Others'
    BY <1>1, <1>2 DEF vars, spaceVars
<1>3. ASSUME NEW f \in Files, NEW s \in Sizes,
             OpenWithoutFetch(f) \/ OpenGone(f) \/ OpenForWriting(f)
      PROVE  Others'
    BY <1>3, SizesAssumption DEF OpenWithoutFetch, OpenGone, OpenForWriting, Operation
<1>4. ASSUME NEW f \in Files, NEW s \in Sizes, OpenFetch(f, s)
      PROVE  Others'
    BY <1>4 DEF OpenFetch, Operation
<1>5. ASSUME NEW f \in Files, NEW s \in Sizes, NEW r, NEW g \in Files, NEW answered,
             Create(f) \/ Unlink(f) \/ Rename(f, g, answered) \/ List(f, s, r) \/ Save(f, s) \/ Utimens(f, r)
      PROVE  Others'
    BY <1>5 DEF Create, Unlink, Rename, List, Save, Utimens
<1>6. ASSUME Contains \/ StoreNothing \/ UpdateRow \/ Count PROVE Others'
  <2>1. ASSUME Contains PROVE Others'
      BY <2>1 DEF Contains
  <2>2. ASSUME StoreNothing PROVE Others'
      BY <2>2 DEF StoreNothing
  <2>3. ASSUME UpdateRow PROVE Others'
      BY <2>3 DEF UpdateRow
  <2>4. ASSUME Count PROVE Others'
      BY <2>4, SizesAssumption DEF Count
  <2> QED
      BY <1>6, <2>1, <2>2, <2>3, <2>4
<1>14. ASSUME StoreHits \/ Mark PROVE Others'
  <2>1. ASSUME StoreHits PROVE Others'
      BY <2>1 DEF StoreHits, Goto
  <2>2. ASSUME Mark PROVE Others'
      BY <2>2 DEF Mark
  <2> QED
      BY <1>14, <2>1, <2>2
<1>7. ASSUME GetUsedSize \/ Purge \/ PurgeEnds PROVE Others'
    BY <1>7 DEF GetUsedSize, Purge, PurgeEnds, PurgeFails, Enough
<1>8. ASSUME AskHits \/ Build \/ BuildEnds \/ RepairHeap PROVE Others'
    BY <1>8 DEF AskHits, Build, BuildEnds, RepairHeap, Enough, spaceVars
<1>9. ASSUME Poll \/ PollEnds \/ RunsDry \/ Evict \/ Uncache PROVE Others'
    BY <1>9 DEF Poll, PollEnds, RunsDry, Evict, Uncache, Enough
<1>10. ASSUME NEW f \in Files, RescuerUnlinks(f) PROVE Others'
    BY <1>10 DEF RescuerUnlinks
<1>11. ASSUME RescuerRemoves PROVE Others'
    BY <1>11 DEF RescuerRemoves
<1>12. ASSUME Restart PROVE Others'
    BY <1>12, SizesAssumption DEF Restart
<1>13. Others'
    BY <1>2, <1>3, <1>4, <1>5, <1>6, <1>7, <1>8, <1>9, <1>10, <1>11, <1>12, <1>14, SizesAssumption
       DEF Next, Begin, Continue
<1> QED
    BY <1>13, RowsKept
-----------------------------------------------------------------------------
(* CacheSpace uses the heap as its specification allows.                   *)

LEMMA HeapSteps == Typed /\ [Next]_vars => [HeapNext]_heapVars
<1> SUFFICES ASSUME Typed, [Next]_vars PROVE [HeapNext]_heapVars
    OBVIOUS
<1>1. CASE UNCHANGED vars
    BY <1>1 DEF vars
<1>2. CASE Begin
    BY <1>2 DEF Begin, OpenWithoutFetch, OpenGone, OpenForWriting, Create, Unlink, Rename, OpenFetch,
                Save, List, Utimens
<1>3. CASE Contains \/ StoreHits \/ Mark \/ StoreNothing \/ UpdateRow \/ Count
    BY <1>3 DEF Contains, StoreHits, Mark, StoreNothing, UpdateRow, Count
<1>4. CASE GetUsedSize \/ Purge \/ PurgeEnds \/ AskHits \/ BuildEnds \/ RunsDry \/ Evict \/ Uncache
    BY <1>4 DEF GetUsedSize, Purge, PurgeEnds, AskHits, BuildEnds, RunsDry, Evict, Uncache
<1>5. CASE Build
  <2>1. PICK f \in Scanned : HeapAdd(Entry(f, row[f].rank))
      BY <1>5 DEF Build
  <2>2. f \in Files /\ Known(f) /\ row[f].rank \in Ranks
      BY <2>1, KnownRow DEF Typed, Scanned, CachedFiles, Cached, Known, Row
  <2>3. Entry(f, row[f].rank) \in Items
      BY <2>2, EntryType, CFileAssumption DEF Typed
  <2> QED
      BY <2>1, <2>3 DEF HeapNext
<1>6. CASE Poll \/ PollEnds \/ RepairHeap \/ Restart
    BY <1>6 DEF Poll, PollEnds, RepairHeap, Restart, HeapNext
<1>7. CASE (\E f \in Files : RescuerUnlinks(f)) \/ RescuerRemoves
    BY <1>7 DEF RescuerUnlinks, RescuerRemoves
<1> QED
    BY <1>1, <1>2, <1>3, <1>4, <1>5, <1>6, <1>7 DEF Next, Continue

(* What each action does to the items in the heap.                         *)
LEMMA EmptyHeaps ==
    /\ HeapInit => Contents = {}
    /\ HeapRenew => Contents' = {}
    BY DEF HeapInit, HeapRenew, Contents

LEMMA SameHeap == UNCHANGED heapVars => Contents' = Contents
    BY DEF heapVars, Contents, Held

LEMMA BuildContents ==
    ASSUME Typed, HeapInv, Build
    PROVE  \E c \in CFile : /\ Contents' = Contents \cup {c}
                            /\ c.path \in Files /\ Cached(c.path)
<1>1. PICK f \in Scanned : HeapAdd(Entry(f, row[f].rank))
    BY DEF Build
<1>2. f \in Files /\ Cached(f) /\ Known(f) /\ row[f].rank \in Ranks
    BY <1>1, KnownRow DEF Typed, Scanned, CachedFiles, Cached, Known, Row
<1>3. Entry(f, row[f].rank) \in CFile /\ Entry(f, row[f].rank).path = f
    BY <1>2, EntryType DEF Typed, Entry
<1>4. PQ!Insert(Entry(f, row[f].rank))
    BY <1>1, <1>3, AddInserts, CFileAssumption
<1> QED
    BY <1>2, <1>3, <1>4 DEF PQ!Insert

LEMMA PollContents ==
    ASSUME HeapInv, HeapPoll
    PROVE  root[1] \in Contents /\ Contents' \subseteq Contents
<1>1. \E x \in Items : PQ!Remove(x)
    BY PollRemovesBest
<1>2. Contents' \subseteq Contents
    BY <1>1 DEF PQ!Remove
<1>3. 1 \in 1 .. index - 1 /\ Held(1) = root[1]
    BY DEF HeapPoll, HeapInv, HeapTypeOK, Held
<1> QED
    BY <1>2, <1>3 DEF Contents
-----------------------------------------------------------------------------
(* The inductive invariant.                                                *)

(* The file being fetched is not marked as cached while a cleanup runs, and *)
(* what cache_set_cached is going to do fits its copy.                      *)
Fetched ==
    \A f \in Files : f = op.path =>
        /\ op.pc \in Cleaning => ~Cached(f)
        /\ op.pc \in Cleaning \cup {"contains", "store", "mark"} /\ f \notin strays \cup {gone} =>
             IF op.opened \/ op.pc = "mark" THEN f \in local <=> Known(f) ELSE f \in local <=> Cached(f)

SpaceInv == Typed /\ Victims /\ HeapInUse /\ Fetched /\ CopiesAreCounted

(* An operation that begins finds an empty heap and no victims, and leaves it so. *)
Begins ==
    /\ op = NoOp
    /\ op'.pc \in {"idle", "count", "contains", "update"} /\ op'.snap = {}
    /\ op'.pc = "idle" \/ op'.path \in Files
    /\ UNCHANGED <<heapVars, policy, gone>>

LEMMA BeginFrame == Typed /\ Begin => Begins
<1> SUFFICES ASSUME Typed, Begin PROVE Begins
    OBVIOUS
<1> USE DEF Begins, NoOp
<1>1. ASSUME Operation PROVE op = NoOp
    BY <1>1 DEF Operation, Typed
<1>2. ASSUME NEW f \in Files, OpenWithoutFetch(f) \/ OpenGone(f) PROVE Begins
    BY <1>1, <1>2 DEF OpenWithoutFetch, OpenGone
<1>3. ASSUME NEW f \in Files, NEW s \in Sizes, OpenFetch(f, s) PROVE Begins
    BY <1>1, <1>3 DEF OpenFetch
<1>4. ASSUME NEW f \in Files, NEW g \in Files, NEW s, NEW r, NEW answered,
             OpenForWriting(f) \/ Create(f) \/ Unlink(f) \/ Rename(f, g, answered)
             \/ List(f, s, r) \/ Save(f, s) \/ Utimens(f, r)
      PROVE  Begins
    BY <1>1, <1>4 DEF OpenForWriting, Create, Unlink, Rename, List, Save, Utimens
<1> QED
    BY <1>2, <1>3, <1>4 DEF Begin

LEMMA EnoughFrame ==
    OpFields /\ Enough =>
        op'.pc = "store" /\ op'.path = op.path /\ op'.opened = op.opened /\ op'.snap = {}
    BY DEF OpFields, Enough

(* The steps of an open before and after a cleanup.                        *)
Opens ==
    /\ op.pc \in {"contains", "store", "mark", "update"}
    /\ op'.pc \in {"used", "store", "mark", "update", "count"} /\ op'.path = op.path
    /\ op'.opened = op.opened /\ op'.snap = op.snap
    /\ UNCHANGED <<heapVars, local, policy, gone>>

LEMMA OpenFrame == OpFields /\ (Contains \/ StoreHits \/ Mark \/ StoreNothing \/ UpdateRow) => Opens
<1> SUFFICES ASSUME OpFields, Contains \/ StoreHits \/ Mark \/ StoreNothing \/ UpdateRow PROVE Opens
    OBVIOUS
<1> USE DEF Opens, OpFields, Goto
<1>1. CASE Contains
    BY <1>1 DEF Contains
<1>2. CASE StoreHits \/ Mark
    BY <1>2 DEF StoreHits, Mark
<1>3. CASE StoreNothing
    BY <1>3 DEF StoreNothing
<1>4. CASE UpdateRow
    BY <1>4 DEF UpdateRow
<1> QED
    BY <1>1, <1>2, <1>3, <1>4

LEMMA HeapInUseKept == SpaceInv /\ HeapInv /\ [Next]_vars => HeapInUse'
<1> SUFFICES ASSUME SpaceInv, HeapInv, [Next]_vars PROVE HeapInUse'
    OBVIOUS
<1> USE DEF SpaceInv, HeapInUse
<1>0. OpFields
    BY DEF Typed
<1>1. CASE UNCHANGED vars
    BY <1>1, SameHeap DEF vars, spaceVars
<1>2. CASE Begin
    BY <1>2, BeginFrame, SameHeap DEF Begins, NoOp
<1>3. CASE Contains \/ StoreHits \/ Mark \/ StoreNothing \/ UpdateRow
    BY <1>0, <1>3, OpenFrame, SameHeap DEF Opens
<1>14. CASE Count
    BY <1>14, SameHeap DEF Count, NoOp
<1>4. CASE GetUsedSize \/ Purge
    BY <1>4, <1>0, SameHeap DEF GetUsedSize, Purge, OpFields
<1>5. CASE PurgeEnds \/ AskHits
  <2>1. Contents' = Contents /\ policy' = policy
      BY <1>5, SameHeap DEF PurgeEnds, AskHits
  <2>2. CASE PurgeEnds
      BY <1>0, <2>1, <2>2, EnoughFrame DEF PurgeEnds
  <2>3. ASSUME AskHits PROVE op.pc = "ask" /\ op'.pc \in {"store", "build"}
      BY <1>0, <2>3, EnoughFrame DEF AskHits, Goto, OpFields
  <2> QED
      BY <1>5, <2>1, <2>2, <2>3
<1>6. CASE Build
    BY <1>6, <1>0 DEF Build, OpFields
<1>7. CASE BuildEnds \/ RunsDry
  <2>1. Contents' = Contents /\ policy' = policy
      BY <1>7, SameHeap DEF BuildEnds, RunsDry
  <2>2. CASE BuildEnds
      BY <1>0, <2>1, <2>2 DEF BuildEnds, Goto, OpFields
  <2>3. CASE RunsDry
    <3>1. Contents = {}
        BY <2>3 DEF RunsDry, Contents
    <3> QED
        BY <1>0, <2>1, <2>3, <3>1 DEF RunsDry, Goto, OpFields
  <2> QED
      BY <1>7, <2>2, <2>3
<1>8. CASE RepairHeap
    BY <1>8, RepairStutters DEF RepairHeap, spaceVars
<1>9. CASE Poll
    BY <1>9, <1>0 DEF Poll, OpFields
<1>10. CASE PollEnds
    BY <1>10, EmptyHeaps DEF PollEnds, Enough
<1>11. CASE Evict \/ Uncache
    BY <1>11, <1>0, SameHeap DEF Evict, Uncache, OpFields
<1>12. CASE (\E f \in Files : RescuerUnlinks(f)) \/ RescuerRemoves
  <2>1. UNCHANGED <<heapVars, policy>> /\ op'.pc = op.pc
      BY <1>12, <1>0 DEF RescuerUnlinks, RescuerRemoves, OpFields
  <2> QED
      BY <2>1, SameHeap
<1>13. CASE Restart
    BY <1>13, EmptyHeaps DEF Restart, NoOp
<1> QED
    BY <1>1, <1>2, <1>3, <1>4, <1>5, <1>6, <1>7, <1>8, <1>9, <1>10, <1>11, <1>12, <1>13, <1>14
       DEF Next, Continue

(* The candidates of a cleanup are files other than the one it is for.     *)
LEMMA CandidatesAreOthers ==
    ASSUME SpaceInv, op.pc \in Cleaning, NEW c \in Candidates
    PROVE  c.path \in Files \ {op.path}
<1>1. \A f \in CachedFiles : \A w : Entry(f, w).path \in Files \ {op.path}
    BY DEF SpaceInv, Fetched, CachedFiles, Entry
<1>2. Scanned \subseteq CachedFiles
    BY DEF Scanned
<1>3. CASE c \in op.snap
    BY <1>3 DEF SpaceInv, Victims
<1>4. CASE c \notin op.snap
    BY <1>1, <1>2, <1>4 DEF Candidates
<1> QED
    BY <1>3, <1>4

LEMMA VictimsKept == SpaceInv /\ HeapInv /\ [Next]_vars => Victims'
<1> SUFFICES ASSUME SpaceInv, HeapInv, [Next]_vars PROVE Victims'
    OBVIOUS
<1> USE DEF Victims
<1>0. OpFields /\ Victims /\ Typed /\ HeapInUse
    BY DEF SpaceInv, Typed
<1>1. CASE UNCHANGED vars
    BY <1>0, <1>1, SameHeap DEF vars, spaceVars
<1>2. CASE Begin
    BY <1>0, <1>2, BeginFrame, SameHeap DEF Begins, NoOp, HeapInUse
<1>3. CASE Contains \/ StoreHits \/ Mark \/ StoreNothing \/ UpdateRow
    BY <1>0, <1>3, OpenFrame, SameHeap DEF Opens
<1>4. CASE Count
    BY <1>0, <1>4, SameHeap DEF Count, NoOp, HeapInUse
<1>5. CASE GetUsedSize
    BY <1>0, <1>5, SameHeap DEF GetUsedSize, OpFields
<1>6. CASE Purge
  <2>1. PICK c \in Candidates :
           op' = [op EXCEPT !.pc = "evict", !.victim = c,
                            !.at = IF policy = "FIFO" THEN row[c.path].id ELSE 1,
                            !.snap = IF policy = "FIFO" THEN {} ELSE Candidates \ {c}]
      BY <1>6 DEF Purge, After
  <2>2. \A d \in Candidates : d.path \in Files \ {op.path}
      BY <1>6, CandidatesAreOthers DEF Purge, Cleaning
  <2>3. Contents' = Contents
      BY <1>6, SameHeap DEF Purge
  <2>4. op'.pc = "evict" /\ op'.path = op.path /\ op'.victim = c /\ op'.snap \subseteq Candidates
      BY <1>0, <2>1 DEF OpFields
  <2> QED
      BY <1>0, <2>2, <2>3, <2>4
<1>7. CASE PurgeEnds
    BY <1>0, <1>7, EnoughFrame, SameHeap DEF PurgeEnds
<1>8. CASE AskHits
  <2>1. op'.pc \in {"store", "build"} /\ op'.path = op.path /\ op'.snap \subseteq op.snap
      BY <1>0, <1>8, EnoughFrame DEF AskHits, Goto, OpFields
  <2> QED
      BY <1>0, <1>8, <2>1, SameHeap DEF AskHits
<1>9. CASE Build
  <2>1. PICK c \in CFile : Contents' = Contents \cup {c} /\ c.path \in Files /\ Cached(c.path)
      BY <1>0, <1>9, BuildContents
  <2>2. c.path # op.path
      BY <1>9, <2>1 DEF Build, SpaceInv, Fetched, Cleaning
  <2>3. op'.pc = "build" /\ op'.path = op.path /\ op'.snap = op.snap /\ local' = local
      BY <1>0, <1>9 DEF Build, OpFields
  <2> QED
      BY <1>0, <2>1, <2>2, <2>3
<1>10. CASE BuildEnds \/ RunsDry
    BY <1>0, <1>10, SameHeap DEF BuildEnds, RunsDry, Goto, OpFields
<1>11. CASE RepairHeap
    BY <1>0, <1>11, RepairStutters DEF RepairHeap, spaceVars
<1>12. CASE Poll
  <2>1. root[1] \in Contents /\ Contents' \subseteq Contents
      BY <1>12, PollContents DEF Poll
  <2>2. op'.pc = "evict" /\ op'.path = op.path /\ op'.snap = op.snap /\ op'.victim = root[1]
      BY <1>0, <1>12 DEF Poll, OpFields
  <2> QED
      BY <1>0, <2>1, <2>2
<1>13. CASE PollEnds
    BY <1>0, <1>13, EnoughFrame, EmptyHeaps DEF PollEnds
<1>14. CASE Evict
    BY <1>0, <1>14, SameHeap DEF Evict, OpFields
<1>15. CASE Uncache
  <2>1. op'.pc \in {"poll", "purge"} /\ op'.path = op.path /\ op'.snap = op.snap
      BY <1>0, <1>15 DEF Uncache, OpFields
  <2> QED
      BY <1>0, <1>15, <2>1, SameHeap DEF Uncache
<1>16. CASE (\E f \in Files : RescuerUnlinks(f)) \/ RescuerRemoves
  <2>1. /\ UNCHANGED heapVars /\ local' \subseteq local
        /\ op'.pc = op.pc /\ op'.path = op.path /\ op'.victim = op.victim /\ op'.snap = op.snap
      BY <1>0, <1>16 DEF RescuerUnlinks, RescuerRemoves, OpFields
  <2> QED
      BY <1>0, <2>1, SameHeap
<1>17. CASE Restart
    BY <1>17, EmptyHeaps DEF Restart, NoOp
<1> QED
    BY <1>1, <1>2, <1>3, <1>4, <1>5, <1>6, <1>7, <1>8, <1>9, <1>10, <1>11, <1>12, <1>13, <1>14, <1>15,
       <1>16, <1>17 DEF Next, Continue

(* The files whose mark and copy do not change fit as they did.            *)
LEMMA FetchedKept == SpaceInv /\ HeapInv /\ [Next]_vars => Fetched'
<1> SUFFICES ASSUME SpaceInv, HeapInv, [Next]_vars, NEW f \in Files, f = op'.path
             PROVE  /\ op'.pc \in Cleaning => ~Cached(f)'
                    /\ op'.pc \in Cleaning \cup {"contains", "store", "mark"} /\ f \notin strays' \cup {gone'} =>
                         IF op'.opened \/ op'.pc = "mark" THEN f \in local' <=> Known(f)' ELSE f \in local' <=> Cached(f)'
    BY DEF Fetched
<1> USE DEF Known, Cached
<1>0. OpFields /\ Victims /\ Typed /\ row \in Rows
    BY DEF SpaceInv, Typed
<1>a. /\ f = op.path /\ op.pc \in Cleaning => ~Cached(f)
      /\ f = op.path /\ op.pc \in Cleaning \cup {"contains", "store", "mark"} /\ f \notin strays \cup {gone} =>
             IF op.opened \/ op.pc = "mark" THEN f \in local <=> Known(f) ELSE f \in local <=> Cached(f)
    BY DEF SpaceInv, Fetched
<1>b. Cleaning = {"used", "ask", "build", "poll", "purge", "evict", "uncache"}
    BY DEF Cleaning
<1>1. CASE UNCHANGED vars
    BY <1>1, <1>a DEF vars, spaceVars
<1>2. CASE Begin
  <2>1. CASE op'.pc = "contains"
    <3>1. PICK g \in Files, s \in Sizes : OpenFetch(g, s)
        BY <1>2, <2>1 DEF Begin, OpenWithoutFetch, OpenGone, OpenForWriting, Create, Unlink, Rename,
                          Save, List, Utimens, NoOp, Operation
    <3>2. /\ op.pc = "idle" /\ g = f /\ Known(f) /\ row' = row /\ strays' = strays /\ gone' = gone
          /\ IF op'.opened THEN local' = local \cup {f} ELSE local' = local
        BY <2>1, <3>1 DEF OpenFetch, NoOp, Operation
    <3>3. f \notin strays \cup {gone} => f \in local <=> Cached(f)
        BY <3>2, <1>b DEF SpaceInv, CopiesAreCounted
    <3> QED
        BY <2>1, <3>2, <3>3, <1>b
  <2>2. CASE op'.pc # "contains"
      BY <1>0, <1>2, <2>2, <1>b, BeginFrame DEF Begins
  <2> QED
      BY <2>1, <2>2
<1>3. CASE Contains
  <2>1. /\ op.pc = "contains" /\ op'.path = op.path /\ op'.opened = op.opened
        /\ op'.pc = (IF Cached(f) THEN "store" ELSE "used")
        /\ UNCHANGED <<row, local, gone, strays>>
      BY <1>0, <1>3, f = op'.path DEF Contains, Goto, OpFields
  <2> QED
      BY <1>a, <1>b, <2>1
<1>4. CASE Mark \/ StoreNothing \/ UpdateRow \/ Count \/ Restart
  <2>1. op'.pc \in {"update", "count", "idle"}
    <3>1. CASE Mark
        BY <1>0, <3>1 DEF Mark, OpFields
    <3>2. CASE StoreNothing
        BY <1>0, <3>2 DEF StoreNothing, OpFields
    <3>3. CASE UpdateRow
        BY <1>0, <3>3 DEF UpdateRow, Goto, OpFields
    <3>4. CASE Count \/ Restart
        BY <3>4 DEF Count, Restart, NoOp
    <3> QED
        BY <1>4, <3>1, <3>2, <3>3, <3>4
  <2> QED
      BY <1>b, <2>1
<1>20. CASE StoreHits
  <2>1. /\ op.pc = "store" /\ op.opened /\ op'.pc = "mark" /\ op'.path = op.path
        /\ UNCHANGED <<local, gone, strays>>
      BY <1>0, <1>20 DEF StoreHits, Goto, OpFields
  <2>2. SameCopies(row')
      BY <1>0, <1>20, ColumnsOnly DEF WritesColumns
  <2>3. Known(f)' <=> Known(f)
      BY <2>2 DEF SameCopies
  <2> QED
      BY <1>a, <1>b, <2>1, <2>3
<1>5. CASE GetUsedSize \/ Purge \/ Build \/ BuildEnds \/ RepairHeap \/ Poll \/ RunsDry
  <2>1. /\ UNCHANGED <<row, local, gone, strays>>
        /\ op'.pc \in Cleaning => op.pc \in Cleaning
        /\ op'.pc \in Cleaning \cup {"dead"} \/ op'.pc = op.pc
        /\ op'.path = op.path /\ op'.opened = op.opened
    <3>1. CASE GetUsedSize
        BY <1>0, <1>b, <3>1 DEF GetUsedSize, OpFields
    <3>2. CASE Purge
        BY <1>0, <1>b, <3>2 DEF Purge, OpFields
    <3>3. CASE Build
        BY <1>0, <1>b, <3>3 DEF Build, OpFields
    <3>4. CASE BuildEnds \/ RunsDry
        BY <1>0, <1>b, <3>4 DEF BuildEnds, RunsDry, Goto, OpFields
    <3>5. CASE RepairHeap
        BY <1>0, <1>b, <3>5 DEF RepairHeap, spaceVars
    <3>6. CASE Poll
        BY <1>0, <1>b, <3>6 DEF Poll, OpFields
    <3> QED
        BY <1>5, <3>1, <3>2, <3>3, <3>4, <3>5, <3>6
  <2> QED
      BY <1>a, <1>b, <2>1
<1>6. CASE PurgeEnds \/ AskHits \/ PollEnds
  <2>1. /\ UNCHANGED <<row, local, gone, strays>>
        /\ op.pc \in Cleaning /\ op'.pc \in {"store", "build"}
        /\ op'.path = op.path /\ op'.opened = op.opened
    <3>1. CASE PurgeEnds
        BY <1>0, <1>b, <3>1, EnoughFrame DEF PurgeEnds
    <3>2. CASE AskHits
        BY <1>0, <1>b, <3>2, EnoughFrame DEF AskHits, Goto, OpFields
    <3>3. CASE PollEnds
        BY <1>0, <1>b, <3>3, EnoughFrame DEF PollEnds
    <3> QED
        BY <1>6, <3>1, <3>2, <3>3
  <2> QED
      BY <1>a, <1>b, <2>1
<1>7. CASE Evict
  <2>1. /\ UNCHANGED <<row, gone, strays>> /\ local' = local \ {op.victim.path}
        /\ op.pc = "evict" /\ op'.pc = "uncache"
        /\ op'.path = op.path /\ op'.opened = op.opened
      BY <1>0, <1>7 DEF Evict, OpFields
  <2> QED
      BY <1>0, <1>a, <1>b, <2>1 DEF Victims
<1>8. CASE Uncache
  <2>1. /\ UNCHANGED <<local, gone>> /\ strays' = strays \ {op.victim.path}
        /\ op.pc = "uncache" /\ op'.pc \in {"poll", "purge"}
        /\ op'.path = op.path /\ op'.opened = op.opened
      BY <1>0, <1>8 DEF Uncache, OpFields
  <2>2. op.victim.path # op.path /\ Marked(row', op.victim.path, FALSE)
      BY <1>0, <1>8, UncacheMarks
  <2>4. f # op.victim.path
      BY <2>1, <2>2
  <2>3. (row'[f] = NoRow <=> row[f] = NoRow) /\ (row'[f] # NoRow => row'[f].cached = row[f].cached)
    <3> HIDE DEF Known, Cached
    <3> QED
      BY <2>2, <2>4 DEF Marked
  <2> QED
      BY <1>a, <1>b, <2>1, <2>2, <2>3
<1>9. CASE \E g \in Files : RescuerUnlinks(g)
  <2>1. PICK g \in Files : local' = local \ {g} /\ gone' = g /\ gone = 0 /\ UNCHANGED <<row, op, strays>>
      BY <1>9 DEF RescuerUnlinks
  <2>2. f # 0
      BY FilesAssumption
  <2> QED
      BY <1>a, <1>b, <2>1, <2>2
<1>10. CASE RescuerRemoves
  <2>1. /\ row' = [row EXCEPT ![gone] = NoRow] /\ local' = local /\ gone # 0 /\ gone' = 0
        /\ strays' = IF gone \in local THEN strays \cup {gone} ELSE strays \ {gone}
        /\ op'.pc = op.pc /\ op'.path = op.path /\ op'.opened = op.opened
      BY <1>0, <1>10 DEF RescuerRemoves, OpFields
  <2>2. \A g \in Files : row'[g] = IF g = gone THEN NoRow ELSE row[g]
      BY <1>0, <2>1 DEF Rows
  <2> QED
      BY <1>a, <1>b, <2>1, <2>2
<1> QED
    BY <1>20, <1>1, <1>2, <1>3, <1>4, <1>5, <1>6, <1>7, <1>8, <1>9, <1>10 DEF Next, Continue

(* A file whose mark and copy may differ is the one an operation is about. *)
LEMMA CountedKept == SpaceInv /\ HeapInv /\ [Next]_vars => CopiesAreCounted'
<1> SUFFICES ASSUME SpaceInv, HeapInv, [Next]_vars, NEW f \in Files \ (strays' \cup {gone'})
             PROVE  \/ f \in local' <=> Cached(f)'
                    \/ f = op'.path /\ op'.pc \in Cleaning \cup {"contains", "store", "mark", "dead"}
                    \/ op'.pc = "uncache" /\ f = op'.victim.path
    BY DEF CopiesAreCounted
<1>0. OpFields /\ Victims /\ Typed /\ row \in Rows /\ f \in Files /\ f # 0
    BY FilesAssumption DEF SpaceInv, Typed
<1>a. \/ f \in strays \cup {gone}
      \/ f \in local <=> Cached(f)
      \/ f = op.path /\ op.pc \in Cleaning \cup {"contains", "store", "mark", "dead"}
      \/ op.pc = "uncache" /\ f = op.victim.path
    BY <1>0 DEF SpaceInv, CopiesAreCounted
<1>b. Cleaning = {"used", "ask", "build", "poll", "purge", "evict", "uncache"}
    BY DEF Cleaning
<1>c. ASSUME SameCopies(row') PROVE Cached(f)' <=> Cached(f)
    BY <1>0, <1>c DEF SameCopies, Cached
<1> USE DEF Cached
<1>1. CASE UNCHANGED vars
    BY <1>1, <1>a DEF vars, spaceVars
<1>2. CASE Begin
  <2>9. op.pc = "idle" /\ gone' = gone
      BY <1>0, <1>2, BeginFrame DEF Begins, NoOp
  <2>0. op.pc = "idle" /\ gone' = gone /\ (f \notin strays => f \in local <=> Cached(f))
      BY <1>a, <1>b, <2>9
  <2>1. ASSUME NEW g \in Files, OpenWithoutFetch(g) PROVE f \in local' <=> Cached(f)'
      BY <2>0, <2>1 DEF OpenWithoutFetch
  <2>2. ASSUME NEW g \in Files, OpenGone(g) \/ Unlink(g) PROVE f \in local' <=> Cached(f)'
    <3>1. row' = [row EXCEPT ![g] = NoRow] /\ local' = local \ {g} /\ strays' = strays \ {g}
        BY <2>2 DEF OpenGone, Unlink
    <3> QED
        BY <1>0, <2>0, <3>1 DEF Rows
  <2>3. ASSUME NEW g \in Files, NEW s \in Sizes, OpenFetch(g, s)
        PROVE  \/ f \in local' <=> Cached(f)'
               \/ f = op'.path /\ op'.pc = "contains"
    <3>1. row' = row /\ strays' = strays
        BY <2>3 DEF OpenFetch
    <3>2. local' = local \/ (local' = local \cup {g} /\ op'.path = g /\ op'.pc = "contains")
      <4>1. \/ UNCHANGED local
            \/ \E opened \in BOOLEAN :
                 /\ op' = [NoOp EXCEPT !.pc = "contains", !.path = g, !.size = s, !.opened = opened]
                 /\ local' = IF opened THEN local \cup {g} ELSE local
          BY <2>3 DEF OpenFetch
      <4>2. ASSUME NEW opened \in BOOLEAN,
                   op' = [NoOp EXCEPT !.pc = "contains", !.path = g, !.size = s, !.opened = opened]
            PROVE  op'.path = g /\ op'.pc = "contains"
          BY <4>2 DEF NoOp
      <4>3. CASE UNCHANGED local
          BY <4>3
      <4>4. ASSUME NEW opened \in BOOLEAN,
                   op' = [NoOp EXCEPT !.pc = "contains", !.path = g, !.size = s, !.opened = opened],
                   local' = IF opened THEN local \cup {g} ELSE local
            PROVE  local' = local \/ (local' = local \cup {g} /\ op'.path = g /\ op'.pc = "contains")
          BY <4>2, <4>4
      <4> QED
          BY <4>1, <4>3, <4>4
    <3>3. f \in local <=> Cached(f)
        BY <2>0, <3>1
    <3>4. Cached(f)' <=> Cached(f)
        BY <3>1
    <3> HIDE DEF Cached
    <3>5. CASE local' = local
        BY <3>3, <3>4, <3>5
    <3>6. CASE local' = local \cup {g} /\ op'.path = g /\ op'.pc = "contains"
      <4>1. CASE f = g
          BY <3>6, <4>1
      <4>2. CASE f # g
          BY <3>3, <3>4, <3>6, <4>2
      <4> QED
          BY <4>1, <4>2
    <3> QED
        BY <3>2, <3>5, <3>6
  <2>4. ASSUME NEW g \in Files, NEW s \in Sizes, NEW r \in Ranks,
               OpenForWriting(g) \/ Save(g, s) \/ Utimens(g, r)
        PROVE  f \in local' <=> Cached(f)'
    <3>1. SameCopies(row')
        BY <1>0, <2>4, ColumnsOnly DEF WritesColumns
    <3>2. local' = local /\ strays' = strays
        BY <2>4 DEF OpenForWriting, Save, Utimens
    <3> QED
        BY <1>c, <2>0, <3>1, <3>2
  <2>5. ASSUME NEW g \in Files, Create(g) PROVE f \in local' <=> Cached(f)'
    <3>1. /\ row'[g] # NoRow /\ row'[g].cached = TRUE
          /\ \A h \in Files \ {g} : row'[h] = row[h]
        BY <1>0, <2>5, NewRows, SizesAssumption, ColumnsAssumption DEF Create
    <3>2. local' = local \cup {g} /\ strays' = strays \ {g}
        BY <2>5 DEF Create
    <3> QED
        BY <1>0, <2>0, <3>1, <3>2
  <2>6. ASSUME NEW g \in Files, NEW s \in Sizes, NEW r \in Ranks, List(g, s, r)
        PROVE  f \in local' <=> Cached(f)'
    <3>1. /\ row'[g] # NoRow /\ row'[g].cached = FALSE /\ row[g] = NoRow
          /\ \A h \in Files \ {g} : row'[h] = row[h]
        BY <1>0, <2>6, NewRows DEF List, Known
    <3>2. local' = local /\ strays' = strays
        BY <2>6 DEF List
    <3> QED
        BY <1>0, <2>0, <3>1, <3>2
  <2>7. ASSUME NEW g \in Files, NEW h \in Files, NEW answered \in BOOLEAN, Rename(g, h, answered)
        PROVE  f \in local' <=> Cached(f)'
    <3>1. CASE f \in {g, h}
        BY <1>0, <2>7, <3>1 DEF Rename, Apart
    <3>2. CASE f \notin {g, h}
      <4>1. row'[f] = row[f] /\ (f \in local' <=> f \in local) /\ f \notin strays
          BY <1>0, <2>7, <3>2 DEF Rename, Rows
      <4> QED
          BY <2>0, <4>1
    <3> QED
        BY <3>1, <3>2
  <2>8. (IF Ranked THEN Ranks ELSE {0}) \subseteq Ranks
      BY ColumnsAssumption
  <2> QED
      BY <1>2, <2>1, <2>2, <2>3, <2>4, <2>5, <2>6, <2>7, <2>8, SizesAssumption, ColumnsAssumption DEF Begin
<1>3. CASE Contains
  <2>1. /\ op.pc = "contains" /\ op'.path = op.path /\ op'.pc \in {"store", "used"}
        /\ UNCHANGED <<row, local, gone, strays>>
      BY <1>0, <1>3 DEF Contains, Goto, OpFields
  <2> QED
      BY <1>a, <1>b, <2>1
<1>20. CASE StoreHits
  <2>1. /\ op.pc = "store" /\ op'.pc = "mark" /\ op'.path = op.path
        /\ UNCHANGED <<local, gone, strays>>
      BY <1>0, <1>20 DEF StoreHits, Goto, OpFields
  <2>2. SameCopies(row')
      BY <1>0, <1>20, ColumnsOnly DEF WritesColumns
  <2> QED
      BY <1>a, <1>b, <1>c, <2>1, <2>2
<1>4. CASE Mark
  <2>1. /\ op.pc = "mark" /\ UNCHANGED <<local, gone>>
        /\ strays' = IF Known(op.path) /\ op.path \in local THEN strays \ {op.path} ELSE strays
      BY <1>4 DEF Mark
  <2>2. Marked(row', op.path, TRUE)
      BY <1>0, <1>4, MarkMarks
  <2>3. CASE f # op.path
    <3>1. f \in local <=> Cached(f)
        BY <1>a, <2>1, <2>3
    <3> QED
        BY <1>0, <2>1, <2>2, <2>3, <3>1 DEF Marked
  <2>4. CASE f = op.path
    <3>1. f \in local <=> Known(f)
        BY <1>0, <2>1, <2>4 DEF SpaceInv, Fetched
    <3>2. Cached(f)' <=> Known(f)
        BY <1>0, <2>2, <2>4 DEF Marked, Known
    <3> QED
        BY <2>1, <3>1, <3>2
  <2> QED
      BY <2>3, <2>4
<1>5. CASE StoreNothing
  <2>1. op.pc = "store" /\ ~op.opened /\ UNCHANGED <<row, local, gone, strays>>
      BY <1>5 DEF StoreNothing
  <2>2. f = op.path => f \in local <=> Cached(f)
      BY <1>0, <2>1 DEF SpaceInv, Fetched
  <2> QED
      BY <1>a, <2>1, <2>2
<1>6. CASE UpdateRow \/ Count
  <2>1. op.pc \in {"update", "count"} /\ UNCHANGED <<local, gone, strays>>
      BY <1>6 DEF UpdateRow, Count
  <2>2. SameCopies(row')
      BY <1>0, <1>6, ColumnsOnly DEF WritesColumns
  <2> QED
      BY <1>a, <1>b, <1>c, <2>1, <2>2
<1>7. CASE GetUsedSize \/ Purge \/ Build \/ BuildEnds \/ RepairHeap \/ Poll \/ RunsDry
  <2>1. /\ UNCHANGED <<row, local, gone, strays>>
        /\ op.pc = "uncache" => op' = op
        /\ op' = op \/ op'.pc \in Cleaning \cup {"dead"}
        /\ op'.path = op.path
    <3>1. CASE GetUsedSize
        BY <1>0, <1>b, <3>1 DEF GetUsedSize, OpFields
    <3>2. CASE Purge
        BY <1>0, <1>b, <3>2 DEF Purge, OpFields
    <3>3. CASE Build
        BY <1>0, <1>b, <3>3 DEF Build, OpFields
    <3>4. CASE BuildEnds \/ RunsDry
        BY <1>0, <1>b, <3>4 DEF BuildEnds, RunsDry, Goto, OpFields
    <3>5. CASE RepairHeap
        BY <1>0, <1>b, <3>5 DEF RepairHeap, spaceVars
    <3>6. CASE Poll
        BY <1>0, <1>b, <3>6 DEF Poll, OpFields
    <3> QED
        BY <1>7, <3>1, <3>2, <3>3, <3>4, <3>5, <3>6
  <2> QED
      BY <1>a, <1>b, <2>1
<1>8. CASE PurgeEnds \/ AskHits \/ PollEnds
  <2>1. /\ UNCHANGED <<row, local, gone, strays>>
        /\ op.pc \in {"purge", "ask", "poll"} /\ op'.pc \in {"store", "build"}
        /\ op'.path = op.path
    <3>1. CASE PurgeEnds
        BY <1>0, <3>1, EnoughFrame DEF PurgeEnds
    <3>2. CASE AskHits
        BY <1>0, <3>2, EnoughFrame DEF AskHits, Goto, OpFields
    <3>3. CASE PollEnds
        BY <1>0, <3>3, EnoughFrame DEF PollEnds
    <3> QED
        BY <1>8, <3>1, <3>2, <3>3
  <2> QED
      BY <1>a, <1>b, <2>1
<1>9. CASE Evict
  <2>1. /\ UNCHANGED <<row, gone, strays>> /\ local' = local \ {op.victim.path}
        /\ op.pc = "evict" /\ op'.pc = "uncache"
        /\ op'.path = op.path /\ op'.victim = op.victim
      BY <1>0, <1>9 DEF Evict, OpFields
  <2> QED
      BY <1>a, <1>b, <2>1
<1>10. CASE Uncache
  <2>1. /\ UNCHANGED <<local, gone>> /\ strays' = strays \ {op.victim.path}
        /\ op.pc = "uncache" /\ op'.pc \in {"poll", "purge"} /\ op'.path = op.path
      BY <1>0, <1>10 DEF Uncache, OpFields
  <2>2. Marked(row', op.victim.path, FALSE) /\ op.victim.path \notin local
      BY <1>0, <1>10, <2>1, UncacheMarks DEF Victims
  <2>3. CASE f = op.victim.path
      BY <1>0, <2>1, <2>2, <2>3 DEF Marked
  <2>4. CASE f # op.victim.path
    <3>1. Cached(f)' <=> Cached(f)
        BY <1>0, <2>2, <2>4 DEF Marked
    <3> HIDE DEF Cached
    <3> QED
        BY <1>a, <1>b, <2>1, <2>4, <3>1
  <2> QED
      BY <2>3, <2>4
<1>11. CASE \E g \in Files : RescuerUnlinks(g)
  <2>1. PICK g \in Files : local' = local \ {g} /\ gone' = g /\ gone = 0 /\ UNCHANGED <<row, op, strays>>
      BY <1>11 DEF RescuerUnlinks
  <2> QED
      BY <1>0, <1>a, <2>1
<1>12. CASE RescuerRemoves
  <2>1. /\ row' = [row EXCEPT ![gone] = NoRow] /\ local' = local /\ gone' = 0
        /\ strays' = IF gone \in local THEN strays \cup {gone} ELSE strays \ {gone}
        /\ op'.pc = op.pc /\ op'.path = op.path /\ op'.victim = op.victim
      BY <1>0, <1>12 DEF RescuerRemoves, OpFields
  <2>2. row'[f] = IF f = gone THEN NoRow ELSE row[f]
      BY <1>0, <2>1 DEF Rows
  <2> QED
      BY <1>0, <1>a, <2>1, <2>2
<1>13. CASE Restart
    BY <1>0, <1>13 DEF Restart, Apart
<1> QED
    BY <1>20, <1>1, <1>2, <1>3, <1>4, <1>5, <1>6, <1>7, <1>8, <1>9, <1>10, <1>11, <1>12, <1>13 DEF Next, Continue
-----------------------------------------------------------------------------
(* The theorems.                                                           *)

LEMMA InitSpaceInv == Init => SpaceInv
<1> SUFFICES ASSUME Init PROVE SpaceInv
    OBVIOUS
<1>1. Typed /\ Contents = {}
    BY InitTyped, EmptyHeaps DEF Init
<1>2. op.pc = "idle" /\ op.path = 0 /\ op.snap = {}
    BY DEF Init, NoOp
<1>3. \A f \in Files : f \in local <=> Cached(f)
  <2>1. PICK cached \in SUBSET Files, rank \in Rankings :
           /\ row = [f \in Files |-> [id |-> f, size |-> Listed[f], cached |-> f \in cached,
                                      hits |-> 0,
                                      rank |-> IF Ranked THEN rank[f] ELSE 0]]
           /\ local = cached
      BY DEF Init
  <2>2. \A f \in Files : row[f] \in Row
    <3>1. \A f \in Files : Listed[f] \in Sizes /\ f \in Nat \ {0} /\ (f \in cached) \in BOOLEAN
        BY ColumnsAssumption, FilesAssumption
    <3>2. \A f \in Files : (IF Ranked THEN rank[f] ELSE 0) \in Ranks
        BY ColumnsAssumption
    <3> QED
        BY <2>1, <3>1, <3>2 DEF Row
  <2> QED
      BY <2>1, <2>2, ColumnsAssumption DEF Cached
<1> QED
    BY <1>1, <1>2, <1>3, FilesAssumption DEF SpaceInv, Victims, HeapInUse, Fetched, CopiesAreCounted, Cleaning

LEMMA SpaceInvKept == SpaceInv /\ HeapInv /\ [Next]_vars => SpaceInv' /\ HeapInv'
    BY TypedKept, VictimsKept, HeapInUseKept, FetchedKept, CountedKept, HeapSteps, NextInv DEF SpaceInv

(* In every behaviour of the cache the order in the heap of heap.c and the *)
(* bounds of its array hold: qlfuss never adds a path twice.               *)
THEOREM HeapInCache == Spec => []HeapInv
<1>1. Init => SpaceInv /\ HeapInv
    BY InitSpaceInv, InitInv DEF Init
<1>2. SpaceInv /\ HeapInv /\ [Next]_vars => (SpaceInv /\ HeapInv)'
    BY SpaceInvKept
<1> QED
    BY <1>1, <1>2, PTL DEF Spec

(* What qlfuss does to the heap of heap.c implements a priority queue: each *)
(* victim it polls is a file that no other one in the heap is better than.  *)
THEOREM VictimIsBest == Spec => HeapIsQueue
<1>1. Init => HeapInit /\ SpaceInv /\ HeapInv
    BY InitSpaceInv, InitInv DEF Init
<1>2. SpaceInv /\ HeapInv /\ [Next]_vars => (SpaceInv /\ HeapInv)'
    BY SpaceInvKept
<1>3. SpaceInv /\ [Next]_vars => [HeapNext]_heapVars
    BY HeapSteps DEF SpaceInv
<1>4. Spec => HeapSpec
    BY <1>1, <1>2, <1>3, PTL DEF Spec, HeapSpec
<1> QED
    BY <1>4, HeapImplementsQueue

(* A file is marked as cached just when it has a local copy, but for the   *)
(* files an operation or the rescuer is at, and those left apart before.   *)
THEOREM CopiesCounted == Spec => []CopiesAreCounted
<1>1. Init => SpaceInv /\ HeapInv
    BY InitSpaceInv, InitInv DEF Init
<1>2. SpaceInv /\ HeapInv /\ [Next]_vars => (SpaceInv /\ HeapInv)'
    BY SpaceInvKept
<1>3. SpaceInv => CopiesAreCounted
    BY DEF SpaceInv
<1> QED
    BY <1>1, <1>2, <1>3, PTL DEF Spec
=============================================================================
