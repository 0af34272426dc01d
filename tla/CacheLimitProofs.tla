-------------------------- MODULE CacheLimitProofs --------------------------
(***************************************************************************)
(* The space in the cache, for any files, sizes, limit and bounds: what    *)
(* cleanup.c has summed up pays for what it has still to evict, so that a  *)
(* cleanup leaves room for the file it was called for, the files marked as *)
(* cached stay within the limit and what is accounted as its excess, and   *)
(* qlfuss polls an empty heap only behind the back of the rescuer.         *)
(***************************************************************************)
EXTENDS CacheSpaceProofs
-----------------------------------------------------------------------------
(* What the writes to the table change.                                    *)

\* rows that differ in their hits and ranks at most
Alike(r, q) ==
    /\ r = NoRow <=> q = NoRow
    /\ r # NoRow => r.id = q.id /\ r.size = q.size /\ r.cached = q.cached

\* R is the table with the row q for f
Becomes(R, f, q) ==
    /\ R \in Rows
    /\ \A g \in Files : Alike(R[g], IF g = f THEN q ELSE row[g])

LEMMA HalvedAlike ==
    ASSUME NEW R \in Rows
    PROVE  Halved(R) \in Rows /\ \A g \in Files : Alike(Halved(R)[g], R[g])
<1> DEFINE H(r) == [r EXCEPT !.hits = @ \div 2]
<1>1. \A r \in Row : H(r) \in Row /\ H(r).id = r.id /\ H(r).size = r.size /\ H(r).cached = r.cached
    BY DEF Row
<1>2. NoRow \notin Row
    BY ColumnsAssumption
<1>3. \A g \in Files : R[g] \in Row \cup {NoRow}
    BY DEF Rows
<1> HIDE DEF H
<1>4. \A g \in Files : Halved(R)[g] = IF R[g] = NoRow THEN NoRow ELSE H(R[g])
    BY DEF Halved, H
<1> QED
    BY <1>1, <1>2, <1>3, <1>4, HalvedRows DEF Alike

LEMMA NormalisedAlike ==
    ASSUME NEW R \in Rows
    PROVE  Normalised(R) \in Rows /\ \A g \in Files : Alike(Normalised(R)[g], R[g])
<1>1. \A g \in Files : Alike(R[g], R[g])
    BY DEF Alike
<1> QED
    BY <1>1, HalvedAlike DEF Normalised

LEMMA UpdateBecomes ==
    ASSUME row \in Rows, NEW f \in Files, NEW r \in Row
    PROVE  /\ Known(f) => Becomes(Update(f, r), f, r)
           /\ ~Known(f) => Update(f, r) = row
<1>1. ASSUME Known(f) PROVE Becomes(Update(f, r), f, r)
  <2> DEFINE R == [row EXCEPT ![f] = r]
  <2>1. R \in Rows /\ \A g \in Files : R[g] = IF g = f THEN r ELSE row[g]
      BY DEF Rows
  <2>2. Update(f, r) = Normalised(R)
      BY <1>1 DEF Update
  <2> HIDE DEF R
  <2> QED
      BY <2>1, <2>2, NormalisedAlike DEF Becomes
<1> QED
    BY <1>1 DEF Update

\* the table that did not change
LEMMA SameBecomes ==
    ASSUME row \in Rows, NEW f \in Files
    PROVE  Becomes(row, f, row[f])
    BY DEF Becomes, Alike

LEMMA HitBecomes ==
    ASSUME row \in Rows, NEW f \in Files
    PROVE  Becomes(Hit(f), f, row[f])
<1>1. CASE ~Known(f)
    BY <1>1, SameBecomes DEF Hit
<1>2. CASE Known(f)
  <2> DEFINE r == [row[f] EXCEPT !.hits = @ + 1]
  <2>1. row[f] \in Row
      BY <1>2, KnownRow DEF Known
  <2>2. r \in Row /\ Alike(r, row[f])
      BY <1>2, <2>1, ColumnsAssumption DEF Row, Alike, Known
  <2>3. Hit(f) = Update(f, r)
      BY <1>2 DEF Hit
  <2> HIDE DEF r
  <2> QED
      BY <1>2, <2>2, <2>3, UpdateBecomes DEF Becomes, Alike
<1> QED
    BY <1>1, <1>2
-----------------------------------------------------------------------------
(* The sum of the sizes.                                                   *)

\* what a row counts for
Charge(r) == IF r # NoRow /\ r.cached THEN r.size ELSE 0
Charges(R) == [f \in Files |-> Charge(R[f])]
Total(w) == SumFunctionOnSet(w, Files)

LEMMA ChargeType ==
    ASSUME NEW R \in Rows
    PROVE  Charges(R) \in [Files -> Sizes] /\ \A f \in Files : Charges(R)[f] = Charge(R[f])
<1>1. \A f \in Files : Charge(R[f]) \in Sizes
    BY SizesAssumption DEF Charge, Rows, Row
<1> QED
    BY <1>1 DEF Charges

CachedIn(R) == {f \in Files : R[f] # NoRow /\ R[f].cached}
UsedIn(R) == SumFunction([f \in CachedIn(R) |-> R[f].size])

LEMMA UsedIsTotal ==
    ASSUME NEW R \in Rows
    PROVE  UsedIn(R) = Total(Charges(R))
<1> DEFINE C == CachedIn(R)
           v == [f \in C |-> R[f].size]
<1>1. C \in SUBSET Files /\ IsFiniteSet(C) /\ IsFiniteSet(Files)
    BY FilesAssumption, FS_Subset DEF CachedIn
<1>2. \A f \in C : v[f] = Charges(R)[f]
    BY DEF Charges, Charge, CachedIn
<1>3. \A f \in Files \ C : Charges(R)[f] = 0
    BY DEF Charges, Charge, CachedIn
<1>4. \A f \in Files : Charges(R)[f] \in Nat
    BY ChargeType, SizesAssumption
<1>5. SumFunction(v) = SumFunctionOnSet(v, C)
    BY DEF SumFunction
<1> HIDE DEF C, v
<1>6. SumFunctionOnSet(v, C) = SumFunctionOnSet(Charges(R), C)
    BY <1>1, <1>2, SumOfEqual
<1>7. SumFunctionOnSet(Charges(R), Files) = SumFunctionOnSet(Charges(R), C)
    BY <1>1, <1>3, <1>4, SumOfSome
<1> QED
    BY <1>5, <1>6, <1>7 DEF Total, UsedIn, C, v

LEMMA UsedNow == row \in Rows => UsedSize = Total(Charges(row))
<1>1. UsedSize = UsedIn(row)
    BY DEF UsedSize, UsedIn, CachedIn, CachedFiles, Cached
<1> QED
    BY <1>1, UsedIsTotal

LEMMA UsedNext == row' \in Rows => UsedSize' = Total(Charges(row'))
<1>1. UsedSize' = UsedIn(row')
    BY DEF UsedSize, UsedIn, CachedIn, CachedFiles, Cached
<1> QED
    BY <1>1, UsedIsTotal

LEMMA TotalType ==
    ASSUME NEW w \in [Files -> Sizes]
    PROVE  Total(w) \in Nat
    BY SumType, FilesAssumption, SizesAssumption DEF Total

LEMMA TotalChanges ==
    ASSUME NEW v \in [Files -> Sizes], NEW w \in [Files -> Sizes], NEW f \in Files,
           \A g \in Files \ {f} : w[g] = v[g]
    PROVE  Total(w) = Total(v) - v[f] + w[f]
<1>1. \A g \in Files : v[g] \in Nat /\ w[g] \in Nat
    BY SizesAssumption
<1>2. \A g \in Files \ {f} : v[g] = w[g]
    OBVIOUS
<1>3. SumFunctionOnSet(w, Files) = SumFunctionOnSet(v, Files) - v[f] + w[f]
  <2>1. IsFiniteSet(Files)
      BY FilesAssumption
  <2> QED
      BY <1>1, <1>2, <2>1, SumChanges
<1> QED
    BY <1>3 DEF Total

LEMMA TotalContains ==
    ASSUME NEW w \in [Files -> Sizes], NEW f \in Files
    PROVE  w[f] \in Nat /\ w[f] <= Total(w)
<1> DEFINE v == [w EXCEPT ![f] = 0]
<1>1. v \in [Files -> Sizes] /\ v[f] = 0 /\ \A g \in Files \ {f} : w[g] = v[g]
    BY SizesAssumption
<1> HIDE DEF v
<1>2. Total(w) = Total(v) - v[f] + w[f]
    BY <1>1, TotalChanges, Zenon
<1>3. Total(v) \in Nat /\ w[f] \in Nat
    BY <1>1, TotalType, SizesAssumption
<1> QED
    BY <1>1, <1>2, <1>3

LEMMA UsedBecomes ==
    ASSUME row \in Rows, NEW f \in Files, NEW q, Becomes(row', f, q)
    PROVE  /\ UsedSize \in Nat /\ UsedSize' \in Nat
           /\ Charge(row[f]) \in Nat /\ Charge(q) \in Nat /\ Charge(row'[f]) = Charge(q)
           /\ UsedSize' = UsedSize - Charge(row[f]) + Charge(q)
<1>1. row' \in Rows /\ \A g \in Files : Charge(row'[g]) = Charge(IF g = f THEN q ELSE row[g])
    BY DEF Becomes, Alike, Charge
<1>2. /\ Charges(row) \in [Files -> Sizes] /\ \A g \in Files : Charges(row)[g] = Charge(row[g])
      /\ Charges(row') \in [Files -> Sizes] /\ \A g \in Files : Charges(row')[g] = Charge(row'[g])
    BY <1>1, ChargeType
<1>3. Total(Charges(row')) = Total(Charges(row)) - Charge(row[f]) + Charge(q)
    BY <1>1, <1>2, TotalChanges
<1>4. UsedSize = Total(Charges(row)) /\ UsedSize' = Total(Charges(row'))
    BY <1>1, UsedNow, UsedNext
<1>5. Charge(row[f]) \in Nat /\ Charge(q) \in Nat /\ Charge(row'[f]) = Charge(q)
    BY <1>1, <1>2, SizesAssumption
<1> QED
    BY <1>2, <1>3, <1>4, <1>5, TotalType

LEMMA UsedType == row \in Rows => UsedSize \in Nat
    BY UsedNow, ChargeType, TotalType
-----------------------------------------------------------------------------
(* What each action makes of a row.                                        *)

LEMMA StoredBecomes ==
    ASSUME row \in Rows, NEW f \in Files, Known(f), NEW s \in Sizes, NEW r \in Stored(f, s)
    PROVE  /\ Becomes(Update(f, r), f, r)
           /\ r # NoRow /\ r.id = row[f].id /\ r.size = s /\ r.cached = row[f].cached
<1>1. row[f] \in Row
    BY KnownRow DEF Known
<1>2. PICK q \in Ranks : r = [row[f] EXCEPT !.size = s, !.rank = q]
    BY <1>1 DEF Stored, Row
<1>3. r \in Row /\ r.id = row[f].id /\ r.size = s /\ r.cached = row[f].cached
    BY <1>1, <1>2 DEF Row
<1> QED
    BY <1>3, UpdateBecomes, ColumnsAssumption

\* cache_update_read_hits leaves all but the hits
LEMMA StoreHitsBecomes ==
    ASSUME Typed, StoreHits
    PROVE  op.path \in Files /\ Becomes(row', op.path, row[op.path])
<1>1. op.path \in Files /\ row \in Rows
    BY DEF StoreHits, Typed
<1>2. PICK h \in InitialHits :
         row' = IF Known(op.path) THEN Update(op.path, [row[op.path] EXCEPT !.hits = h]) ELSE row
    BY DEF StoreHits
<1>3. h \in Nat
    BY ColumnsAssumption DEF InitialHits
<1>4. ASSUME Known(op.path) PROVE Becomes(row', op.path, row[op.path])
  <2> DEFINE r == [row[op.path] EXCEPT !.hits = h]
  <2>1. row[op.path] \in Row
      BY <1>1, <1>4, KnownRow DEF Known
  <2>2. r \in Row /\ Alike(r, row[op.path])
      BY <1>3, <1>4, <2>1, ColumnsAssumption DEF Row, Alike, Known
  <2>3. row' = Update(op.path, r)
      BY <1>2, <1>4
  <2> HIDE DEF r
  <2> QED
      BY <1>1, <1>4, <2>2, <2>3, UpdateBecomes DEF Becomes, Alike
<1> QED
    BY <1>1, <1>2, <1>4, SameBecomes

LEMMA MarkBecomes ==
    ASSUME Typed, Mark
    PROVE  /\ op.path \in Files
           /\ Known(op.path) => \E q : /\ Becomes(row', op.path, q) /\ q # NoRow
                                       /\ q.id = row[op.path].id /\ q.cached
                                       /\ q.size = row[op.path].size
           /\ ~Known(op.path) => row' = row
<1>1. op.path \in Files /\ row \in Rows
    BY DEF Mark, Typed
<1>2. row' = IF Known(op.path) THEN Update(op.path, [row[op.path] EXCEPT !.cached = TRUE]) ELSE row
    BY DEF Mark
<1>3. ASSUME Known(op.path)
      PROVE  \E q : /\ Becomes(row', op.path, q) /\ q # NoRow
                    /\ q.id = row[op.path].id /\ q.cached /\ q.size = row[op.path].size
  <2> DEFINE r == [row[op.path] EXCEPT !.cached = TRUE]
  <2>1. /\ r \in Row /\ r.cached = TRUE
        /\ r.id = row[op.path].id /\ r.size = row[op.path].size
      BY <1>1, <1>3, KnownRow DEF Row
  <2>2. row' = Update(op.path, r)
      BY <1>2, <1>3
  <2> HIDE DEF r
  <2>3. Becomes(row', op.path, r) /\ r # NoRow
      BY <1>1, <1>3, <2>1, <2>2, UpdateBecomes, ColumnsAssumption
  <2> QED
      BY <2>1, <2>3
<1> QED
    BY <1>1, <1>2, <1>3

LEMMA UncacheBecomes ==
    ASSUME Typed, Victims, Uncache
    PROVE  /\ op.victim.path \in Files
           /\ Known(op.victim.path) =>
                \E q : /\ Becomes(row', op.victim.path, q) /\ q # NoRow
                       /\ q.id = row[op.victim.path].id /\ ~q.cached
           /\ ~Known(op.victim.path) => row' = row
<1> DEFINE f == op.victim.path
<1>1. f \in Files /\ row \in Rows
    BY DEF Uncache, Victims, Typed
<1>2. row' = IF Known(f) THEN Update(f, [row[f] EXCEPT !.cached = FALSE]) ELSE row
    BY DEF Uncache
<1> HIDE DEF f
<1>3. ASSUME Known(f)
      PROVE  \E q : Becomes(row', f, q) /\ q # NoRow /\ q.id = row[f].id /\ ~q.cached
  <2> DEFINE r == [row[f] EXCEPT !.cached = FALSE]
  <2>1. row[f] \in Row
      BY <1>1, <1>3, KnownRow DEF Known
  <2>2. r \in Row /\ r.cached = FALSE /\ r.id = row[f].id
      BY <2>1 DEF Row
  <2>3. row' = Update(f, r)
      BY <1>2, <1>3
  <2> HIDE DEF r
  <2>4. Becomes(row', f, r) /\ r # NoRow
      BY <1>1, <1>3, <2>2, <2>3, UpdateBecomes, ColumnsAssumption
  <2> QED
      BY <2>2, <2>4
<1> QED
    BY <1>1, <1>2, <1>3 DEF f

\* an open for writing, a change of the times and a hit leave the sizes
LEMMA SizesStay ==
    ASSUME row \in Rows,
           \E f \in Files : OpenForWriting(f) \/ (\E r \in Ranks : Utimens(f, r)) \/ row' = Hit(f)
    PROVE  \E f \in Files : Becomes(row', f, row[f])
<1>1. PICK f \in Files : OpenForWriting(f) \/ (\E r \in Ranks : Utimens(f, r)) \/ row' = Hit(f)
    OBVIOUS
<1>2. CASE row' = row
    BY <1>2, SameBecomes
<1>3. CASE row' = Halved(row)
    BY <1>3, HalvedAlike DEF Becomes
<1>4. CASE OpenForWriting(f)
    BY <1>2, <1>3, <1>4 DEF OpenForWriting
<1>5. ASSUME NEW r \in Ranks, Utimens(f, r) PROVE Becomes(row', f, row[f])
  <2> DEFINE q == [row[f] EXCEPT !.rank = r]
  <2>1. Known(f) /\ row' = Update(f, q)
      BY <1>5 DEF Utimens
  <2>2. row[f] \in Row
      BY <2>1, KnownRow DEF Known
  <2>3. q \in Row /\ Alike(q, row[f])
      BY <2>2, ColumnsAssumption DEF Row, Alike
  <2> HIDE DEF q
  <2> QED
      BY <2>1, <2>3, UpdateBecomes DEF Becomes, Alike
<1> QED
    BY <1>1, <1>4, <1>5, HitBecomes

\* a row is deleted
LEMMA GoneBecomes ==
    ASSUME row \in Rows, NEW f \in Files, row' = [row EXCEPT ![f] = NoRow]
    PROVE  Becomes(row', f, NoRow)
<1>1. row' \in Rows /\ \A g \in Files : row'[g] = IF g = f THEN NoRow ELSE row[g]
    BY DEF Rows
<1> QED
    BY <1>1 DEF Becomes, Alike

\* a row is inserted, with an id of its own
LEMMA NewBecomes ==
    ASSUME Typed, NEW f \in Files, NEW s \in Sizes, NEW c \in BOOLEAN, NEW r \in Ranks,
           row' = [row EXCEPT ![f] = [id |-> NewId, size |-> s, cached |-> c, hits |-> 0, rank |-> r]]
    PROVE  \E q : /\ Becomes(row', f, q) /\ q # NoRow /\ q.id = NewId
                  /\ q.size = s /\ q.cached = c
<1>1. NewId \in Nat \ {0} /\ row \in Rows
    BY NewIdType DEF Typed
<1> HIDE DEF NewId
<1> DEFINE new == [id |-> NewId, size |-> s, cached |-> c, hits |-> 0, rank |-> r]
<1>2. new \in Row /\ new.id = NewId /\ new.size = s /\ new.cached = c
    BY <1>1 DEF Row
<1>3. row' = [row EXCEPT ![f] = new]
    OBVIOUS
<1> HIDE DEF new
<1>4. row' \in Rows /\ \A g \in Files : row'[g] = IF g = f THEN new ELSE row[g]
    BY <1>1, <1>2, <1>3 DEF Rows
<1>5. Becomes(row', f, new) /\ new # NoRow
    BY <1>2, <1>4, ColumnsAssumption DEF Becomes, Alike
<1> QED
    BY <1>2, <1>5

\* a row is moved, maybe onto another one
LEMMA MovedRows ==
    ASSUME row \in Rows, NEW f \in Files, NEW g \in Files, f # g,
           row' = [row EXCEPT ![g] = row[f], ![f] = NoRow]
    PROVE  /\ row' \in Rows
           /\ \A h \in Files : row'[h] = IF h = f THEN NoRow ELSE IF h = g THEN row[f] ELSE row[h]
    BY DEF Rows

\* the id of a new row is greater than all others
LEMMA NewIdIsNew ==
    ASSUME row \in Rows
    PROVE  \A f \in Files : Known(f) => row[f].id < NewId
<1> DEFINE K == {g \in Files : Known(g)}
           f == [g \in K |-> row[g].id]
           Ids == {row[g].id : g \in K}
<1>1. IsFiniteSet(K)
    BY FilesAssumption, FS_Subset
<1>2. \A g \in K : row[g].id \in Nat \ {0}
    BY DEF Rows, Row, Known
<1>3. f \in Surjection(K, Ids)
    BY DEF Surjection
<1>4. IsFiniteSet(Ids)
  <2> HIDE DEF K, f, Ids
  <2> QED
      BY <1>1, <1>3, FS_Surjection
<1>5. Ids \in SUBSET Nat
    BY <1>2
<1>6. \A i \in Ids : i < 1 + Max({0} \cup Ids)
  <2> HIDE DEF Ids
  <2> QED
      BY <1>4, <1>5, NextNumber
<1> QED
    BY <1>6 DEF NewId
-----------------------------------------------------------------------------
(* The inductive invariant.                                                *)

IdsDiffer == \A f, g \in Files : Known(f) /\ Known(g) /\ row[f].id = row[g].id => f = g

Entries == [path : Files, size : Sizes, weight : Nat]

\* with Typed, the type invariant
OpTyped ==
    /\ op.pc \in Cleaning \cup {"idle", "contains", "store", "mark", "update", "count", "dead"}
    /\ op.opened \in BOOLEAN /\ op.room \in BOOLEAN
    /\ op.used \in Nat /\ op.lost \in Nat /\ op.at \in Nat
    /\ op.snap \subseteq Entries /\ op.victim \in Entries \cup {NULL}
    /\ op.pc \in {"evict", "uncache"} => op.victim \in Entries
Ranged ==
    /\ policy \in Policies /\ pending \in BOOLEAN /\ excess \in Nat
    /\ OpTyped

(* A cleanup is for a file of less than half the limit, and lists files    *)
(* only while it purges; fifo and qlfuss never do.                         *)
Unlisted ==
    /\ op.at = 0 \/ policy \in {"FIFO", "QLFUSS"} => op.snap = {}
    /\ op.pc \notin {"purge", "evict", "uncache"} => op.snap = {}
    /\ op.pc \in {"contains", "used", "ask"} => op.at = 0
    /\ op.pc = "purge" => policy # "QLFUSS"
    /\ op.pc \in Cleaning \cup {"contains"} => ~op.room /\ op.size < Limit \div 2

(* The entries of files that are listed, in the result of a SELECT or in the *)
(* heap, or chosen, and not evicted yet: one for a file.                     *)
Listing == op.snap \cup Contents \cup (IF op.pc = "evict" THEN {op.victim} ELSE {})
Listings ==
    /\ \A c, d \in Listing : c.path = d.path => c = d
    /\ op.pc \in {"evict", "uncache"} => \A c \in op.snap \cup Contents : c.path # op.victim.path
    /\ op.pc = "build" => \A c \in Contents : Known(c.path) => row[c.path].id <= op.at

(* Each cached file is still ahead of the cleanup, or the one it evicts.     *)
Loops == {"purge", "poll", "evict", "uncache"}
Ahead(f) ==
    /\ op.pc = "build" => row[f].id > op.at \/ \E c \in Contents : c.path = f
    /\ op.pc \in Loops =>
         CASE policy = "QLFUSS" -> \E c \in Contents : c.path = f
           [] policy = "FIFO" -> row[f].id > op.at
           [] policy \notin {"QLFUSS", "FIFO"} -> op.at = 0 \/ \E c \in op.snap : c.path = f
Going(f) == op.pc \in {"evict", "uncache"} /\ f = op.victim.path
Covered == op.pc \in Cleaning => \A f \in Files : Cached(f) => Ahead(f) \/ Going(f)

(* What the cleanup has summed up pays for the files it may still evict, at  *)
(* the sizes it will subtract; under qlfuss it is no more than that and what *)
(* the rescuer has taken away.                                               *)
Paid(f) == op.pc = "uncache" /\ f = op.victim.path
Accounts(w) ==
    /\ \A c \in Listing : w[c.path] = c.size
    /\ \A f \in Files : Cached(f) /\ ~Paid(f) => w[f] = row[f].size
    /\ \A f \in Files : \/ w[f] = 0
                        \/ Cached(f) /\ ~Paid(f)
                        \/ \E c \in Listing : c.path = f
    /\ Total(w) <= op.used
    /\ policy = "QLFUSS" => op.used <= Total(w) + op.lost
Accounted == op.pc \in Cleaning \ {"used"} => \E w \in [Files -> Sizes] : Accounts(w)

(* The limit, and before a row gets its new size what it counted for.        *)
Taken(f) == Charge(row[f])
Spaced ==
    /\ op.pc # "update" \/ ~op.room => UsedSize <= Limit + excess
    /\ op.pc = "update" /\ op.room => UsedSize + op.size <= Limit + excess + Taken(op.path)
    /\ op.pc \in {"store", "mark"} /\ op.room => UsedSize + op.size <= Limit

LimitInv ==
    /\ Ranged /\ IdsDiffer /\ Unlisted
    /\ Listings /\ Covered /\ Accounted
    /\ Spaced /\ HeapLasts
-----------------------------------------------------------------------------
(* Types.                                                                  *)

LEMMA ContentsType == HeapInv => Contents \subseteq CFile
    BY CFileAssumption DEF HeapInv, HeapTypeOK, Contents, Held, Used

LEMMA EntriesType == CFile \subseteq Entries
    BY ColumnsAssumption DEF CFile, Entries

\* the candidates have weights, whatever the policy orders by
LEMMA CandidatesType ==
    ASSUME Typed, OpTyped, policy \in Policies, policy # "QLFUSS", NEW c \in Candidates
    PROVE  c \in Entries
<1>1. ASSUME NEW f \in CachedFiles, NEW w \in Nat PROVE Entry(f, w) \in Entries
  <2>1. f \in Files /\ row[f].size \in Sizes
      BY KnownRow DEF CachedFiles, Cached, Known, Typed, Row
  <2> QED
      BY <2>1 DEF Entry, Entries
<1>2. ASSUME NEW f \in CachedFiles, policy # "FIFO" PROVE Key(f) \in Nat
  <2>1. row[f].rank \in Nat /\ row[f].hits \in Nat
      BY KnownRow, ColumnsAssumption DEF CachedFiles, Cached, Known, Typed, Row
  <2>2. policy \in {"LRU", "LFU", "LFUSS", "WLFUSS"}
      BY <1>2, PoliciesAssumption
  <2> QED
      BY <2>1, <2>2 DEF Key
<1>3. CASE policy = "FIFO"
    BY <1>1, <1>3 DEF Candidates, Scanned
<1>4. CASE policy # "FIFO" /\ op.at = 0
    BY <1>1, <1>2, <1>4 DEF Candidates
<1>5. CASE policy # "FIFO" /\ op.at # 0
    BY <1>5 DEF Candidates, OpTyped
<1> QED
    BY <1>3, <1>4, <1>5

\* what changes a row keeps its id, or takes the row away
Rewritten(f) == \E q : Becomes(row', f, q) /\ (q = NoRow \/ (Known(f) /\ q.id = row[f].id))

LEMMA RewrittenFits ==
    ASSUME row \in Rows, IdsDiffer, NEW f \in Files, Rewritten(f)
    PROVE  IdsDiffer'
<1>1. PICK q : Becomes(row', f, q) /\ (q = NoRow \/ (Known(f) /\ q.id = row[f].id))
    BY DEF Rewritten
<1>2. \A g \in Files : row'[g] # NoRow => row[g] # NoRow /\ row'[g].id = row[g].id
    BY <1>1 DEF Becomes, Alike, Known
<1> QED
    BY <1>2 DEF IdsDiffer, Known

LEMMA RowsFit ==
    ASSUME Typed, Victims, IdsDiffer, [Next]_vars
    PROVE  IdsDiffer'
<1>0. row \in Rows
    BY DEF Typed
<1>1. CASE row' = row
    BY <1>1 DEF IdsDiffer, Known
<1>2. CASE UNCHANGED vars \/ LeavesRows
    BY <1>1, <1>2, RowsLeft DEF vars, spaceVars
<1>3. ASSUME NEW f \in Files, Becomes(row', f, row[f]) PROVE IdsDiffer'
    BY <1>0, <1>3, RewrittenFits DEF Rewritten, Known
<1>4. CASE WritesColumns
  <2>1. CASE UpdateRow
    <3>1. op.path \in Files /\ op.size \in Sizes
        BY <2>1 DEF UpdateRow, Typed
    <3>2. ASSUME Known(op.path), NEW r \in Stored(op.path, op.size), row' = Update(op.path, r)
          PROVE  Rewritten(op.path)
        BY <1>0, <3>1, <3>2, StoredBecomes DEF Rewritten
    <3> QED
        BY <1>0, <1>1, <2>1, <3>1, <3>2, RewrittenFits DEF UpdateRow
  <2>2. CASE Count
    <3>1. row' = row \/ \E f \in Files : row' = Hit(f)
        BY <2>2 DEF Count, Typed
    <3> QED
        BY <1>0, <1>1, <1>3, <3>1, SizesStay
  <2>3. ASSUME NEW f \in Files, NEW s \in Sizes, Save(f, s) PROVE Rewritten(f)
    <3>1. PICK r \in Stored(f, s) : row' = Update(f, r)
        BY <2>3 DEF Save
    <3>2. Known(f)
        BY <2>3 DEF Save
    <3> QED
        BY <1>0, <3>1, <3>2, StoredBecomes DEF Rewritten
  <2>4. CASE \E f \in Files : OpenForWriting(f) \/ \E r \in Ranks : Utimens(f, r)
      BY <1>0, <1>3, <2>4, SizesStay
  <2>5. CASE StoreHits
      BY <1>3, <2>5, StoreHitsBecomes
  <2> QED
      BY <1>0, <1>4, <2>1, <2>2, <2>3, <2>4, <2>5, RewrittenFits DEF WritesColumns
<1>5. CASE Mark
    BY <1>0, <1>1, <1>5, MarkBecomes, RewrittenFits DEF Rewritten
<1>6. CASE Uncache
    BY <1>0, <1>1, <1>6, UncacheBecomes, RewrittenFits DEF Rewritten
<1>7. ASSUME NEW f \in Files, row' = [row EXCEPT ![f] = NoRow] PROVE IdsDiffer'
    BY <1>0, <1>7, GoneBecomes, RewrittenFits DEF Rewritten
<1>8. CASE RescuerRemoves
    BY <1>7, <1>8 DEF RescuerRemoves, Typed
<1>9. ASSUME NEW f \in Files, NEW q, Becomes(row', f, q), q # NoRow, q.id = NewId
      PROVE  IdsDiffer'
  <2>1. \A g \in Files : row'[g] # NoRow => row'[g].id = (IF g = f THEN NewId ELSE row[g].id)
                                            /\ (g # f => row[g] # NoRow)
      BY <1>9 DEF Becomes, Alike
  <2>2. \A g \in Files : row[g] # NoRow => row[g].id < NewId /\ row[g].id \in Nat /\ NewId \in Nat
      BY <1>0, NewIdIsNew, NewIdType, KnownRow DEF Known, Row
  <2>3. \A g \in Files : row[g] # NoRow => row[g].id # NewId
      BY <2>2
  <2> QED
      BY <2>1, <2>3 DEF IdsDiffer, Known
<1>10. ASSUME NEW f \in Files, Create(f) PROVE IdsDiffer'
  <2>1. row' = [row EXCEPT ![f] = [id |-> NewId, size |-> 0, cached |-> TRUE, hits |-> 0, rank |-> 0]]
      BY <1>10 DEF Create
  <2>2. \E q : Becomes(row', f, q) /\ q # NoRow /\ q.id = NewId
      BY <2>1, NewBecomes, SizesAssumption, ColumnsAssumption
  <2> QED
      BY <1>9, <2>2
<1>11. ASSUME NEW f \in Files, NEW s \in Sizes, NEW r \in Ranks, List(f, s, r)
       PROVE  IdsDiffer'
  <2>1. row' = [row EXCEPT ![f] = [id |-> NewId, size |-> s, cached |-> FALSE, hits |-> 0, rank |-> r]]
      BY <1>11 DEF List
  <2>2. \E q : Becomes(row', f, q) /\ q # NoRow /\ q.id = NewId
      BY <2>1, NewBecomes
  <2> QED
      BY <1>9, <2>2
<1>12. ASSUME NEW f \in Files, NEW g \in Files, NEW answered \in BOOLEAN, Rename(f, g, answered)
       PROVE  IdsDiffer'
  <2>1. CASE ~answered
      BY <1>1, <1>12, <2>1 DEF Rename
  <2>2. CASE answered
    <3>1. f # g /\ row' = [row EXCEPT ![g] = row[f], ![f] = NoRow] /\ row[f] # NoRow
        BY <1>12, <2>2 DEF Rename, Known
    <3>2. \A h \in Files : row'[h] = IF h = f THEN NoRow ELSE IF h = g THEN row[f] ELSE row[h]
        BY <1>0, <3>1, MovedRows
    <3> DEFINE From(h) == IF h = g THEN f ELSE h
    <3>3. \A h \in Files : row'[h] # NoRow =>
            h # f /\ From(h) \in Files /\ row[From(h)] # NoRow /\ row'[h].id = row[From(h)].id
        BY <3>1, <3>2
    <3>4. \A h, i \in Files : h # f /\ i # f /\ From(h) = From(i) => h = i
        OBVIOUS
    <3> HIDE DEF From
    <3> QED
        BY <3>3, <3>4 DEF IdsDiffer, Known
  <2> QED
      BY <2>1, <2>2
<1>13. CASE NamesChange
  <2>1. (IF Ranked THEN Ranks ELSE {0}) \subseteq Ranks
      BY ColumnsAssumption
  <2>2. ASSUME NEW f \in Files, OpenGone(f) \/ Unlink(f) PROVE IdsDiffer'
      BY <1>7, <2>2 DEF OpenGone, Unlink
  <2> QED
      BY <1>10, <1>11, <1>12, <1>13, <2>1, <2>2 DEF NamesChange
<1> QED
    BY <1>2, <1>4, <1>5, <1>6, <1>8, <1>13, StepCases

(* A cleanup has summed up what it subtracts.                               *)
LEMMA VictimPaid ==
    ASSUME OpTyped, Accounted, op.pc = "evict"
    PROVE  op.used - op.victim.size \in Nat
<1>1. PICK w \in [Files -> Sizes] : Accounts(w)
    BY DEF Accounted, Cleaning
<1>2. op.victim \in Listing /\ op.victim.path \in Files /\ op.victim.size \in Nat /\ op.used \in Nat
    BY SizesAssumption DEF Listing, OpTyped, Entries
<1>3. w[op.victim.path] = op.victim.size /\ Total(w) <= op.used /\ Total(w) \in Nat
    BY <1>1, <1>2, TotalType DEF Accounts
<1>4. w[op.victim.path] <= Total(w)
    BY <1>2, TotalContains
<1> QED
    BY <1>2, <1>3, <1>4

LEMMA OpTypedKept ==
    ASSUME Typed, Victims, HeapInv, Ranged, Unlisted, Accounted, [Next]_vars
    PROVE  OpTyped'
<1>0. OpFields /\ OpTyped /\ policy \in Policies
    BY DEF Ranged, Typed
<1>a. Cleaning = {"used", "ask", "build", "poll", "purge", "evict", "uncache"}
    BY DEF Cleaning
<1> USE DEF OpTyped, OpFields
<1>1. CASE UNCHANGED vars
    BY <1>0, <1>1 DEF vars, spaceVars
<1>2. CASE Begin
  <2> USE DEF NoOp
  <2>1. ASSUME NEW f \in Files, OpenWithoutFetch(f) \/ OpenGone(f) PROVE OpTyped'
    <3>1. op' = [NoOp EXCEPT !.pc = "count", !.path = f]
        BY <2>1 DEF OpenWithoutFetch, OpenGone
    <3> QED
        BY <1>0, <3>1
  <2>2. ASSUME NEW f \in Files, NEW s \in Sizes, OpenFetch(f, s) PROVE OpTyped'
    <3>1. \/ op' = [NoOp EXCEPT !.pc = "update", !.path = f, !.size = s]
          \/ \E opened \in BOOLEAN :
               op' = [NoOp EXCEPT !.pc = "contains", !.path = f, !.size = s, !.opened = opened]
        BY <2>2 DEF OpenFetch
    <3>2. CASE op' = [NoOp EXCEPT !.pc = "update", !.path = f, !.size = s]
        BY <3>2
    <3>3. ASSUME NEW opened \in BOOLEAN,
                 op' = [NoOp EXCEPT !.pc = "contains", !.path = f, !.size = s, !.opened = opened]
          PROVE  OpTyped'
        BY <3>3
    <3> QED
        BY <3>1, <3>2, <3>3
  <2>3. ASSUME NEW f \in Files, NEW g \in Files, NEW s, NEW r, NEW answered,
               OpenForWriting(f) \/ Create(f) \/ Unlink(f) \/ Rename(f, g, answered)
               \/ List(f, s, r) \/ Save(f, s) \/ Utimens(f, r)
        PROVE  OpTyped'
      BY <1>0, <2>3 DEF OpenForWriting, Create, Unlink, Rename, List, Save, Utimens
  <2> QED
      BY <1>2, <2>1, <2>2, <2>3 DEF Begin
<1>3. CASE Contains \/ UpdateRow \/ BuildEnds \/ RunsDry
    BY <1>0, <1>a, <1>3 DEF Contains, UpdateRow, BuildEnds, RunsDry, Goto
<1>4. CASE StoreHits \/ Mark \/ StoreNothing
    BY <1>0, <1>4 DEF StoreHits, Mark, StoreNothing, Goto
<1>5. CASE Count \/ Restart
  <2>1. op' = NoOp
      BY <1>5 DEF Count, Restart
  <2> QED
      BY <2>1 DEF NoOp
<1>6. CASE GetUsedSize
    BY <1>0, <1>a, <1>6, UsedType DEF GetUsedSize, Typed
<1>7. CASE Purge
  <2>1. PICK c \in Candidates :
           op' = [op EXCEPT !.pc = "evict", !.victim = c,
                            !.at = IF policy = "FIFO" THEN row[c.path].id ELSE 1,
                            !.snap = IF policy = "FIFO" THEN {} ELSE Candidates \ {c}]
      BY <1>7 DEF Purge, After
  <2>2. \A d \in Candidates : d \in Entries
      BY <1>0, <1>7, CandidatesType DEF Purge, Unlisted
  <2>3. policy = "FIFO" => row[c.path].id \in Nat
    <3>1. ASSUME policy = "FIFO" PROVE c.path \in Files /\ Known(c.path)
        BY <3>1 DEF Candidates, Scanned, CachedFiles, Cached, Known, Entry
    <3> QED
        BY <3>1, KnownRow DEF Typed, Row
  <2> QED
      BY <1>0, <1>a, <2>1, <2>2, <2>3
<1>8. CASE PurgeEnds \/ AskHits \/ PollEnds
  <2>1. ASSUME Enough PROVE OpTyped'
      BY <1>0, <2>1 DEF Enough
  <2>2. ASSUME Goto("store") \/ Goto("build") PROVE OpTyped'
      BY <1>0, <1>a, <2>2 DEF Goto
  <2> QED
      BY <1>8, <2>1, <2>2 DEF PurgeEnds, AskHits, PollEnds
<1>9. CASE Build
  <2>1. PICK f \in Scanned : op' = [op EXCEPT !.at = row[f].id]
      BY <1>9 DEF Build
  <2>2. row[f].id \in Nat
      BY KnownRow DEF Typed, Row, Scanned, CachedFiles, Cached, Known
  <2> QED
      BY <1>0, <1>9, <2>1, <2>2 DEF Build
<1>10. CASE RepairHeap
    BY <1>0, <1>10 DEF RepairHeap, spaceVars
<1>11. CASE Poll
  <2>1. root[1] \in Entries
      BY <1>11, PollContents, ContentsType, EntriesType DEF Poll
  <2> QED
      BY <1>0, <1>a, <1>11, <2>1 DEF Poll
<1>12. CASE Evict
  <2>1. op.used - op.victim.size \in Nat
      BY <1>0, <1>12, VictimPaid DEF Evict
  <2> QED
      BY <1>0, <1>a, <1>12, <2>1 DEF Evict
<1>13. CASE Uncache
    BY <1>0, <1>a, <1>13 DEF Uncache
<1>14. CASE \E f \in Files : RescuerUnlinks(f)
    BY <1>0, <1>14 DEF RescuerUnlinks
<1>15. CASE RescuerRemoves
  <2>1. Cached(gone) /\ gone # 0 => row[gone].size \in Nat
      BY KnownRow, SizesAssumption DEF Typed, Row, Cached, Known
  <2>2. gone # 0
      BY <1>15 DEF RescuerRemoves
  <2>3. \/ op' = op
        \/ Cached(gone) /\ op' = [op EXCEPT !.lost = @ + row[gone].size]
      BY <1>15 DEF RescuerRemoves
  <2> HIDE DEF OpFields
  <2>4. CASE op' = op
      BY <1>0, <2>4
  <2>5. CASE Cached(gone) /\ op' = [op EXCEPT !.lost = @ + row[gone].size]
      BY <1>0, <2>1, <2>2, <2>5 DEF OpFields
  <2> QED
      BY <2>3, <2>4, <2>5
<1> QED
    BY <1>1, <1>2, <1>3, <1>4, <1>5, <1>6, <1>7, <1>8, <1>9, <1>10, <1>11, <1>12, <1>13, <1>14, <1>15
       DEF Next, Continue

LEMMA RangedKept ==
    ASSUME Typed, Victims, HeapInv, Ranged, IdsDiffer, Unlisted, Accounted, [Next]_vars
    PROVE  Ranged'
<1>1. OpTyped'
    BY OpTypedKept
<1>3. row \in Rows /\ op.size \in Nat /\ excess \in Nat
    BY SizesAssumption DEF Ranged, Typed
<1>s. \A f \in Files : Known(f) => row[f].size \in Nat
    BY <1>3, KnownRow, SizesAssumption DEF Row
<1>g. \A f \in Files : \A s \in Sizes : excess + Growth(f, s) \in Nat
  <2>1. \A f \in Files : Cached(f) => row[f].size \in Nat
      BY <1>s DEF Cached, Known
  <2>2. ASSUME NEW f \in Files, NEW s \in Sizes PROVE Growth(f, s) \in Nat
    <3>1. s \in Nat
        BY SizesAssumption
    <3> QED
        BY <2>1, <3>1 DEF Growth
  <2> QED
      BY <1>3, <2>2
<1>4. policy' = policy
  <2>1. CASE UNCHANGED vars
      BY <2>1 DEF vars, spaceVars
  <2>2. CASE Begin
      BY <2>2, BeginFrame DEF Begins
  <2>3. CASE Contains \/ StoreHits \/ Mark \/ StoreNothing \/ UpdateRow
      BY <2>3, OpenFrame DEF Opens, Typed
  <2>4. CASE Count \/ GetUsedSize \/ Purge \/ PurgeEnds \/ AskHits \/ Build \/ BuildEnds \/ RepairHeap
      BY <2>4 DEF Count, GetUsedSize, Purge, PurgeEnds, AskHits, Build, BuildEnds, RepairHeap, spaceVars
  <2>5. CASE Poll \/ PollEnds \/ RunsDry \/ Evict \/ Uncache \/ Restart \/ RescuerRemoves
             \/ \E f \in Files : RescuerUnlinks(f)
      BY <2>5 DEF Poll, PollEnds, RunsDry, Evict, Uncache, Restart, RescuerRemoves, RescuerUnlinks
  <2> QED
      BY <2>1, <2>2, <2>3, <2>4, <2>5 DEF Next, Continue
<1>5. pending' \in BOOLEAN
  <2>1. CASE UNCHANGED vars
      BY <2>1 DEF vars, spaceVars, Ranged
  <2>2. CASE Begin
      BY <2>2 DEF Begin, OpenWithoutFetch, OpenGone, OpenForWriting, Create, Unlink, Rename, OpenFetch,
                  Save, List, Utimens, Ranged
  <2>3. CASE Continue
      BY <2>3 DEF Continue, Contains, StoreHits, Mark, StoreNothing, UpdateRow, Count, GetUsedSize, Purge, PurgeEnds,
                  AskHits, Build, BuildEnds, RepairHeap, Poll, PollEnds, RunsDry, Evict, Uncache, spaceVars,
                  Ranged
  <2>4. CASE Restart \/ RescuerRemoves \/ \E f \in Files : RescuerUnlinks(f)
      BY <2>4 DEF Restart, RescuerRemoves, RescuerUnlinks, Ranged
  <2> QED
      BY <2>1, <2>2, <2>3, <2>4 DEF Next
<1>6. excess' \in Nat
  <2>1. CASE UNCHANGED vars
      BY <1>3, <2>1 DEF vars, spaceVars
  <2>2. ASSUME NEW f \in Files, NEW g \in Files, NEW s \in Sizes, NEW r, NEW answered,
               OpenWithoutFetch(f) \/ OpenGone(f) \/ OpenForWriting(f) \/ Create(f) \/ Unlink(f)
               \/ Rename(f, g, answered) \/ OpenFetch(f, s) \/ List(f, s, r) \/ Utimens(f, r)
        PROVE  excess' \in Nat
      BY <1>3, <2>2 DEF OpenWithoutFetch, OpenGone, OpenForWriting, Create, Unlink, Rename, OpenFetch,
                        List, Utimens
  <2>3. ASSUME NEW f \in Files, NEW s \in Sizes, Save(f, s) PROVE excess' \in Nat
      BY <1>g, <2>3 DEF Save
  <2>4. CASE Begin
      BY <2>2, <2>3, <2>4, SizesAssumption DEF Begin
  <2>5. CASE Mark
    <3>1. op.path \in Files
        BY <2>5 DEF Mark, Typed
    <3> DEFINE before == IF Cached(op.path) THEN row[op.path].size ELSE 0
    <3>2. before \in Nat
        BY <1>s, <3>1 DEF Cached, Known
    <3>3. excess' = IF op.room \/ op.size <= before THEN excess ELSE excess + (op.size - before)
        BY <2>5 DEF Mark
    <3> HIDE DEF before
    <3> QED
        BY <1>3, <3>2, <3>3
  <2>6. CASE UpdateRow
    <3>1. op.path \in Files /\ op.size \in Sizes
        BY <2>6 DEF UpdateRow, Typed
    <3> QED
        BY <1>3, <1>g, <2>6, <3>1 DEF UpdateRow
  <2>7. CASE PurgeEnds \/ AskHits \/ PollEnds
      BY <1>3, <2>7 DEF PurgeEnds, AskHits, PollEnds, Enough
  <2>8. CASE Contains \/ StoreHits \/ StoreNothing \/ Count \/ GetUsedSize \/ Purge \/ Build \/ BuildEnds \/ RepairHeap
      BY <1>3, <2>8 DEF Contains, StoreHits, StoreNothing, Count, GetUsedSize, Purge, Build, BuildEnds, RepairHeap, spaceVars
  <2>9. CASE Poll \/ RunsDry \/ Evict \/ Uncache \/ RescuerRemoves \/ \E f \in Files : RescuerUnlinks(f)
      BY <1>3, <2>9 DEF Poll, RunsDry, Evict, Uncache, RescuerRemoves, RescuerUnlinks
  <2>10. CASE Restart
    <3>1. ASSUME op.pc = "update" /\ op.room /\ Known(op.path) /\ row[op.path].size > op.size
          PROVE  row[op.path].size \in Nat
        BY <1>s, <3>1 DEF Typed
    <3>2. excess' = IF op.pc = "update" /\ op.room /\ Known(op.path) /\ row[op.path].size > op.size
                    THEN excess + (row[op.path].size - op.size) ELSE excess
        BY <2>10 DEF Restart
    <3> QED
        BY <1>3, <3>1, <3>2
  <2> QED
      BY <2>1, <2>4, <2>5, <2>6, <2>7, <2>8, <2>9, <2>10 DEF Next, Continue
<1> QED
    BY <1>1, <1>4, <1>5, <1>6 DEF Ranged
-----------------------------------------------------------------------------
(* The steps of a cleanup.                                                 *)

LEMMA UnlistedKept ==
    ASSUME Typed, HeapInUse, Unlisted, [Next]_vars
    PROVE  Unlisted'
<1>0. OpFields /\ Unlisted
    BY DEF Typed
<1>a. Cleaning = {"used", "ask", "build", "poll", "purge", "evict", "uncache"}
    BY DEF Cleaning
<1> USE DEF Unlisted, OpFields
<1>1. CASE UNCHANGED vars
    BY <1>0, <1>1 DEF vars, spaceVars
<1>2. CASE Begin
  <2>1. op = NoOp /\ op'.snap = {} /\ op'.pc \in {"idle", "count", "contains", "update"}
      BY <1>2, BeginFrame DEF Begins
  <2>2. ASSUME op'.pc = "contains" PROVE op'.at = 0 /\ ~op'.room /\ op'.size < Limit \div 2
    <3>0. op.pc # "contains"
        BY <2>1 DEF NoOp
    <3> HIDE DEF Unlisted, OpFields
    <3>1. PICK g \in Files, s \in Sizes : OpenFetch(g, s)
      <4>1. ASSUME NEW g \in Files, OpenWithoutFetch(g) \/ OpenGone(g) PROVE FALSE
          BY <2>2, <4>1 DEF OpenWithoutFetch, OpenGone, NoOp
      <4>2. ASSUME NEW f \in Files, NEW g \in Files, NEW s, NEW r, NEW answered,
                   OpenForWriting(f) \/ Create(f) \/ Unlink(f) \/ Rename(f, g, answered)
                   \/ List(f, s, r) \/ Save(f, s) \/ Utimens(f, r)
            PROVE  FALSE
          BY <2>2, <3>0, <4>2 DEF OpenForWriting, Create, Unlink, Rename, List, Save, Utimens
      <4> QED
          BY <1>2, <4>1, <4>2 DEF Begin
    <3>2. \/ op' = [NoOp EXCEPT !.pc = "update", !.path = g, !.size = s]
          \/ /\ s < Limit \div 2
             /\ \E opened \in BOOLEAN :
                  op' = [NoOp EXCEPT !.pc = "contains", !.path = g, !.size = s, !.opened = opened]
        BY <3>1 DEF OpenFetch
    <3> QED
        BY <2>2, <3>2 DEF NoOp
  <2> QED
      BY <1>a, <2>1, <2>2
<1>3. CASE Contains \/ UpdateRow
    BY <1>0, <1>a, <1>3 DEF Contains, UpdateRow, Goto
<1>4. CASE StoreHits \/ Mark \/ StoreNothing
  <2>1. policy' = policy /\ op'.at = op.at /\ op'.snap = op.snap /\ op.pc \in {"store", "mark"}
        /\ op'.pc \in {"mark", "update"}
    <3> HIDE DEF Unlisted
    <3>1. CASE StoreHits
        BY <1>0, <3>1 DEF StoreHits, Goto
    <3>2. CASE Mark \/ StoreNothing
        BY <1>0, <3>2 DEF Mark, StoreNothing
    <3> QED
        BY <1>4, <3>1, <3>2
  <2> HIDE DEF OpFields
  <2> QED
      BY <1>0, <1>a, <2>1
<1>5. CASE Count \/ Restart
  <2>1. op' = NoOp
      BY <1>5 DEF Count, Restart
  <2> QED
      BY <1>a, <2>1 DEF NoOp
<1>6. CASE GetUsedSize
    BY <1>0, <1>a, <1>6 DEF GetUsedSize
<1>7. CASE Purge
  <2>1. PICK c \in Candidates :
           op' = [op EXCEPT !.pc = "evict", !.victim = c,
                            !.at = IF policy = "FIFO" THEN row[c.path].id ELSE 1,
                            !.snap = IF policy = "FIFO" THEN {} ELSE Candidates \ {c}]
      BY <1>7 DEF Purge, After
  <2>2. op.pc = "purge" /\ policy' = policy
      BY <1>7 DEF Purge
  <2> QED
      BY <1>0, <1>a, <2>1, <2>2
<1>8. CASE PurgeEnds \/ AskHits \/ PollEnds
  <2>1. ASSUME Enough PROVE Unlisted'
      BY <1>0, <1>a, <2>1 DEF Enough
  <2>2. ASSUME AskHits, Goto("store") \/ Goto("build") PROVE Unlisted'
      BY <1>0, <1>a, <2>2 DEF AskHits, Goto
  <2> QED
      BY <1>8, <2>1, <2>2 DEF PurgeEnds, AskHits, PollEnds
<1>9. CASE Build
  <2>1. PICK f \in Scanned : op' = [op EXCEPT !.at = row[f].id]
      BY <1>9 DEF Build
  <2>2. op.pc = "build" /\ policy' = policy
      BY <1>9 DEF Build
  <2> QED
      BY <1>0, <1>a, <2>1, <2>2
<1>10. CASE RepairHeap
    BY <1>0, <1>10 DEF RepairHeap, spaceVars
<1>11. CASE BuildEnds \/ RunsDry
    BY <1>0, <1>a, <1>11 DEF BuildEnds, RunsDry, Goto
<1>12. CASE Poll
    BY <1>0, <1>a, <1>12 DEF Poll
<1>13. CASE Evict
    BY <1>0, <1>a, <1>13 DEF Evict
<1>14. CASE Uncache
    BY <1>0, <1>a, <1>14 DEF Uncache
<1>15. CASE \E f \in Files : RescuerUnlinks(f)
    BY <1>0, <1>15 DEF RescuerUnlinks
<1>16. CASE RescuerRemoves
  <2>1. policy' = policy /\ op'.pc = op.pc /\ op'.at = op.at /\ op'.snap = op.snap
        /\ op'.room = op.room /\ op'.size = op.size
      BY <1>0, <1>16 DEF RescuerRemoves
  <2> QED
      BY <1>0, <2>1
<1> QED
    BY <1>1, <1>2, <1>3, <1>4, <1>5, <1>6, <1>7, <1>8, <1>9, <1>10, <1>11, <1>12, <1>13, <1>14, <1>15, <1>16
       DEF Next, Continue

(* Outside a cleanup nothing is listed.                                     *)
LEMMA NothingListed ==
    ASSUME HeapInUse, Unlisted, op.pc \notin Cleaning
    PROVE  Listing = {} /\ Listings /\ Covered /\ Accounted
<1>1. op.pc \notin {"build", "poll", "evict", "uncache", "purge", "used"}
    BY DEF Cleaning
<1>2. op.snap = {} /\ Contents = {}
    BY <1>1 DEF HeapInUse, Unlisted
<1>3. Listing = {}
    BY <1>1, <1>2 DEF Listing
<1> QED
    BY <1>1, <1>2, <1>3 DEF Listings, Covered, Accounted

LEMMA NothingListedNext ==
    ASSUME HeapInUse', Unlisted', op'.pc \notin Cleaning
    PROVE  Listings' /\ Covered' /\ Accounted'
<1>1. op'.pc \notin {"build", "poll", "evict", "uncache", "purge", "used"}
    BY DEF Cleaning
<1>2. op'.snap = {} /\ Contents' = {}
    BY <1>1 DEF HeapInUse, Unlisted
<1>3. Listing' = {}
    BY <1>1, <1>2 DEF Listing
<1> QED
    BY <1>1, <1>2, <1>3 DEF Listings, Covered, Accounted

\* the steps after which a cleanup goes on
CleaningSteps ==
    \/ Contains /\ op.pc = "contains" /\ op' = [op EXCEPT !.pc = "used"]
    \/ AskHits /\ op.pc = "ask" /\ op' = [op EXCEPT !.pc = "build"]
    \/ GetUsedSize \/ Purge \/ Build \/ BuildEnds \/ RepairHeap \/ Poll \/ Evict \/ Uncache
    \/ (\E f \in Files : RescuerUnlinks(f)) \/ RescuerRemoves \/ UNCHANGED vars

LEMMA CleaningGoesOn ==
    ASSUME Typed, Unlisted, [Next]_vars, op'.pc \in Cleaning
    PROVE  CleaningSteps
<1>a. Cleaning = {"used", "ask", "build", "poll", "purge", "evict", "uncache"}
    BY DEF Cleaning
<1>b. OpFields
    BY DEF Typed
<1>1. ~Begin
    BY <1>a, BeginFrame DEF Begins
<1>2. ASSUME Contains PROVE op.pc = "contains" /\ op' = [op EXCEPT !.pc = "used"]
  <2>1. op.pc = "contains" /\ op' = [op EXCEPT !.pc = IF Cached(op.path) THEN "store" ELSE "used"]
      BY <1>2 DEF Contains, Goto
  <2>2. op'.pc = IF Cached(op.path) THEN "store" ELSE "used"
      BY <1>b, <2>1 DEF OpFields
  <2> QED
      BY <1>a, <2>1, <2>2
<1>3. ~(StoreHits \/ Mark \/ StoreNothing)
    BY <1>a, <1>b DEF StoreHits, Mark, StoreNothing, Goto, OpFields
<1>4. ~UpdateRow
    BY <1>a, <1>b DEF UpdateRow, Goto, OpFields
<1>5. ~(Count \/ Restart)
    BY <1>a DEF Count, Restart, NoOp
<1>6. ASSUME AskHits PROVE op.pc = "ask" /\ op' = [op EXCEPT !.pc = "build"]
    BY <1>a, <1>b, <1>6, EnoughFrame DEF AskHits, Goto, OpFields
<1>7. ~(PurgeEnds \/ PollEnds)
    BY <1>a, <1>b, EnoughFrame DEF PurgeEnds, PollEnds
<1>8. ~RunsDry
    BY <1>a, <1>b DEF RunsDry, Goto, OpFields
<1> QED
    BY <1>1, <1>2, <1>3, <1>4, <1>5, <1>6, <1>7, <1>8 DEF Next, Continue, CleaningSteps

(* The lists, and the accounts, of a cleanup.                               *)
Accounting == Listings /\ Covered /\ Accounted

LEMMA CleanupBegins ==
    ASSUME Typed, HeapInUse, Unlisted, op.pc = "contains", op' = [op EXCEPT !.pc = "used"],
           UNCHANGED <<heapVars, row, policy>>
    PROVE  Accounting'
<1>1. op'.pc = "used" /\ op'.snap = {} /\ Contents' = {}
    BY SameHeap DEF Typed, OpFields, HeapInUse, Unlisted
<1>2. Listing' = {}
    BY <1>1 DEF Listing
<1> QED
    BY <1>1, <1>2 DEF Accounting, Listings, Covered, Ahead, Loops, Accounted

LEMMA SumsUp ==
    ASSUME Typed, OpTyped, HeapInUse, Unlisted, GetUsedSize
    PROVE  Accounting'
<1>1. /\ op.pc = "used" /\ op'.used = UsedSize /\ op'.at = 0 /\ op'.snap = {} /\ op'.lost = op.lost
      /\ op'.pc = IF policy = "QLFUSS" THEN "ask" ELSE "purge"
      /\ row' = row /\ policy' = policy /\ Contents' = {}
    BY SameHeap DEF GetUsedSize, Typed, OpFields, HeapInUse, Unlisted
<1>2. Listing' = {}
    BY <1>1 DEF Listing
<1>3. Listings'
    BY <1>1, <1>2 DEF Listings
<1>4. Covered'
  <2>1. \A f \in Files : Cached(f)' => row'[f].id > 0
      BY <1>1, KnownRow DEF Cached, Known, Row, Typed
  <2> QED
      BY <1>1, <2>1 DEF Covered, Ahead, Loops
<1> DEFINE w == Charges(row)
<1>5. w \in [Files -> Sizes] /\ UsedSize = Total(w) /\ \A f \in Files : w[f] = Charge(row[f])
    BY ChargeType, UsedNow DEF Typed
<1>6. \A f \in Files : Cached(f)' <=> Cached(f)
    BY <1>1 DEF Cached
<1>7. \A f \in Files : IF Cached(f) THEN w[f] = row[f].size ELSE w[f] = 0
    BY <1>5 DEF Charge, Cached
<1>8. op'.used <= Total(w) /\ Total(w) <= op'.used /\ Total(w) \in Nat
    BY <1>1, <1>5, TotalType
<1> HIDE DEF w
<1>9. policy' = "QLFUSS" => op'.used <= Total(w) + op'.lost
  <2>1. op.lost \in Nat => op'.used <= Total(w) + op'.lost
      BY <1>1, <1>5, <1>8
  <2> QED
      BY <2>1 DEF OpTyped
<1> QED
    BY <1>1, <1>2, <1>3, <1>4, <1>5, <1>6, <1>7, <1>8, <1>9 DEF Accounting, Accounted, Accounts, Paid

\* what a SELECT finds is what is cached, and what it found before
LEMMA CandidatesFit ==
    ASSUME Typed, HeapInUse, Unlisted, Accounting, op.pc = "purge"
    PROVE  /\ Listing = op.snap /\ op.snap \subseteq Candidates
           /\ \A c \in Candidates : \/ c \in op.snap
                                    \/ Cached(c.path) /\ c.path \in Files /\ c.size = row[c.path].size
           /\ \A c, d \in Candidates : c.path = d.path => c = d
           /\ \A f \in Files : Cached(f) => \E c \in Candidates : c.path = f
<1>1. policy # "QLFUSS" /\ Contents = {} /\ op.pc \in Loops /\ op.pc \in Cleaning
    BY DEF HeapInUse, Unlisted, Loops, Cleaning
<1>2. Listing = op.snap
    BY <1>1 DEF Listing
<1>3. \A f \in Files : Cached(f) => Ahead(f)
    BY DEF Accounting, Covered, Going, Cleaning
<1>4. \A f, w : Entry(f, w).path = f /\ Entry(f, w).size = row[f].size
    BY DEF Entry
<1>5. CASE policy = "FIFO"
  <2>1. op.snap = {} /\ Candidates = {Entry(f, 0) : f \in Scanned}
      BY <1>5 DEF Unlisted, Candidates
  <2>2. \A f \in Files : Cached(f) => f \in Scanned
      BY <1>1, <1>3, <1>5 DEF Ahead, Scanned, CachedFiles
  <2>3. \A f \in Scanned : f \in Files /\ Cached(f)
      BY DEF Scanned, CachedFiles
  <2> QED
      BY <1>2, <1>4, <2>1, <2>2, <2>3
<1>6. CASE policy # "FIFO" /\ op.at = 0
  <2>1. op.snap = {} /\ Candidates = {Entry(f, Key(f)) : f \in CachedFiles}
      BY <1>6 DEF Unlisted, Candidates
  <2>2. \A f : f \in CachedFiles <=> f \in Files /\ Cached(f)
      BY DEF CachedFiles
  <2> QED
      BY <1>2, <1>4, <2>1, <2>2
<1>7. CASE policy # "FIFO" /\ op.at # 0
  <2>1. Candidates = op.snap
      BY <1>7 DEF Candidates
  <2>2. \A f \in Files : Cached(f) => \E c \in op.snap : c.path = f
      BY <1>1, <1>3, <1>7 DEF Ahead
  <2>3. \A c, d \in op.snap : c.path = d.path => c = d
      BY <1>2 DEF Accounting, Listings
  <2> QED
      BY <1>2, <2>1, <2>2, <2>3
<1> QED
    BY <1>5, <1>6, <1>7

LEMMA PurgeAccounts ==
    ASSUME Typed, HeapInUse, Unlisted, IdsDiffer, Accounting, Purge
    PROVE  Accounting'
<1>1. PICK c \in Candidates :
         /\ Foremost(c)
         /\ op' = [op EXCEPT !.pc = "evict", !.victim = c,
                             !.at = IF policy = "FIFO" THEN row[c.path].id ELSE 1,
                             !.snap = IF policy = "FIFO" THEN {} ELSE Candidates \ {c}]
    BY DEF Purge, After
<1>2. /\ op.pc = "purge" /\ op'.pc = "evict" /\ op'.victim = c /\ op'.used = op.used /\ op'.lost = op.lost
      /\ op'.at = (IF policy = "FIFO" THEN row[c.path].id ELSE 1)
      /\ op'.snap = (IF policy = "FIFO" THEN {} ELSE Candidates \ {c})
      /\ row' = row /\ policy' = policy /\ Contents' = {} /\ policy # "QLFUSS"
    BY <1>1, SameHeap DEF Purge, Typed, OpFields, HeapInUse, Unlisted
<1>3. /\ Listing = op.snap /\ op.snap \subseteq Candidates
      /\ \A d \in Candidates : \/ d \in op.snap
                               \/ Cached(d.path) /\ d.path \in Files /\ d.size = row[d.path].size
      /\ \A d, e \in Candidates : d.path = e.path => d = e
      /\ \A f \in Files : Cached(f) => \E d \in Candidates : d.path = f
    BY <1>2, CandidatesFit
<1>4. Listing' = (IF policy = "FIFO" THEN {c} ELSE Candidates)
    BY <1>2 DEF Listing
<1>5. \A f \in Files : Cached(f)' <=> Cached(f)
    BY <1>2 DEF Cached
<1>6. Listings'
    BY <1>1, <1>2, <1>3, <1>4 DEF Listings
<1>7. Covered'
  <2>1. ASSUME NEW f \in Files, Cached(f), f # c.path, policy = "FIFO" PROVE row[f].id > row[c.path].id
    <3>1. PICK d \in Candidates : d.path = f
        BY <1>3, <2>1
    <3>2. row[c.path].id <= row[f].id
        BY <1>1, <2>1, <3>1 DEF Foremost
    <3>3. op.snap = {}
        BY <2>1 DEF Unlisted
    <3>4. Known(f) /\ Known(c.path) /\ c.path \in Files
        BY <1>3, <2>1, <3>3 DEF Known, Cached
    <3>5. row[f].id \in Nat /\ row[c.path].id \in Nat /\ row[f].id # row[c.path].id
        BY <2>1, <3>4, KnownRow DEF Typed, Row, IdsDiffer
    <3> QED
        BY <3>2, <3>5
  <2>2. ASSUME NEW f \in Files, Cached(f), f # c.path, policy # "FIFO" PROVE \E d \in op'.snap : d.path = f
      BY <1>2, <1>3, <2>2
  <2> QED
      BY <1>2, <1>5, <2>1, <2>2 DEF Covered, Ahead, Going, Loops
<1>8. PICK w \in [Files -> Sizes] : Accounts(w)
    BY <1>2 DEF Accounting, Accounted, Cleaning
<1>9. \A d \in Candidates : w[d.path] = d.size
    BY <1>2, <1>3, <1>8 DEF Accounts, Paid
<1>10. \A f \in Files : w[f] = 0 \/ Cached(f) \/ \E d \in Listing' : d.path = f
  <2>1. \A d \in Listing : d \in Listing'
      BY <1>2, <1>3, <1>4 DEF Unlisted
  <2> QED
      BY <1>8, <2>1 DEF Accounts
<1>11. Accounted'
  <2>1. \A d \in Listing' : w[d.path] = d.size
      BY <1>1, <1>4, <1>9
  <2>2. \A f \in Files : Cached(f) => w[f] = row[f].size
      BY <1>2, <1>8 DEF Accounts, Paid
  <2>3. Total(w) <= op.used /\ policy # "QLFUSS"
      BY <1>2, <1>8 DEF Accounts
  <2> QED
      BY <1>2, <1>5, <1>10, <2>1, <2>2, <2>3 DEF Accounted, Accounts, Paid
<1> QED
    BY <1>6, <1>7, <1>11 DEF Accounting

LEMMA AskAccounts ==
    ASSUME Typed, HeapInUse, Unlisted, Accounting, AskHits, op.pc = "ask", op' = [op EXCEPT !.pc = "build"]
    PROVE  Accounting'
<1>1. /\ op'.pc = "build" /\ op'.snap = {} /\ op'.at = 0 /\ op'.used = op.used /\ op'.lost = op.lost
      /\ row' = row /\ policy' = policy /\ Contents' = {} /\ Contents = {} /\ op.snap = {}
    BY SameHeap DEF AskHits, Typed, OpFields, HeapInUse, Unlisted
<1>2. Listing' = {} /\ Listing = {}
    BY <1>1 DEF Listing
<1>3. \A f \in Files : (Cached(f)' <=> Cached(f)) /\ (Cached(f) => row[f].id > 0)
    BY <1>1, KnownRow DEF Cached, Known, Row, Typed
<1>4. PICK w \in [Files -> Sizes] : Accounts(w)
    BY DEF Accounting, Accounted, Cleaning
<1>5. Accounted'
    BY <1>1, <1>2, <1>3, <1>4 DEF Accounted, Accounts, Paid
<1> QED
    BY <1>1, <1>2, <1>3, <1>5 DEF Accounting, Listings, Covered, Ahead, Loops

\* the step of the loop that fills the heap
LEMMA BuildAdds ==
    ASSUME Typed, HeapInv, Build
    PROVE  \E f \in Files :
             /\ Cached(f) /\ row[f].id > op.at
             /\ \A g \in Files : Cached(g) /\ row[g].id > op.at => row[f].id <= row[g].id
             /\ Contents' = Contents \cup {Entry(f, row[f].rank)}
             /\ op' = [op EXCEPT !.at = row[f].id]
<1>1. PICK f \in Scanned : /\ \A g \in Scanned : row[f].id <= row[g].id
                           /\ HeapAdd(Entry(f, row[f].rank))
                           /\ op' = [op EXCEPT !.at = row[f].id]
    BY DEF Build
<1>2. f \in Files /\ Cached(f) /\ Known(f) /\ row[f].rank \in Ranks /\ row[f].id > op.at
    BY <1>1, KnownRow DEF Typed, Scanned, CachedFiles, Cached, Known, Row
<1>3. Entry(f, row[f].rank) \in CFile
    BY <1>2, EntryType DEF Typed
<1>4. PQ!Insert(Entry(f, row[f].rank))
    BY <1>1, <1>3, AddInserts, CFileAssumption
<1>5. \A g \in Files : Cached(g) /\ row[g].id > op.at => g \in Scanned
    BY DEF Scanned, CachedFiles
<1> QED
    BY <1>1, <1>2, <1>4, <1>5 DEF PQ!Insert

LEMMA BuildAccounts ==
    ASSUME Typed, OpTyped, HeapInUse, Unlisted, IdsDiffer, HeapInv, Accounting, Build
    PROVE  Accounting'
<1>1. PICK f \in Files :
         /\ Cached(f) /\ row[f].id > op.at
         /\ \A g \in Files : Cached(g) /\ row[g].id > op.at => row[f].id <= row[g].id
         /\ Contents' = Contents \cup {Entry(f, row[f].rank)}
         /\ op' = [op EXCEPT !.at = row[f].id]
    BY BuildAdds
<1> DEFINE e == Entry(f, row[f].rank)
<1>2. e.path = f /\ e.size = row[f].size
    BY DEF Entry
<1>3. /\ op.pc = "build" /\ op'.pc = "build" /\ op'.snap = {} /\ op.snap = {} /\ op'.at = row[f].id
      /\ op'.used = op.used /\ op'.lost = op.lost
      /\ row' = row /\ policy' = policy /\ Contents' = Contents \cup {e}
    BY <1>1 DEF Build, Typed, OpFields, Unlisted
<1> HIDE DEF e
<1>4. Listing = Contents /\ Listing' = Contents \cup {e}
    BY <1>3 DEF Listing
<1>5. \A g \in Files : (Cached(g)' <=> Cached(g)) /\ (Known(g) => row[g].id \in Nat) /\ (Cached(g) => Known(g))
    BY <1>3, KnownRow DEF Cached, Known, Row, Typed
<1>6. op.at \in Nat /\ row[f].id \in Nat
    BY <1>1, <1>5 DEF OpTyped
<1>7. \A c \in Contents : c.path \in Files /\ (Known(c.path) => row[c.path].id <= op.at)
    BY <1>3, ContentsType DEF Accounting, Listings, CFile
<1>8. \A c \in Contents : c.path # f
    BY <1>1, <1>5, <1>6, <1>7
<1>9. Listings'
  <2>1. \A c, d \in Listing' : c.path = d.path => c = d
      BY <1>2, <1>4, <1>8 DEF Accounting, Listings
  <2>2. \A c \in Contents' : Known(c.path)' => row'[c.path].id <= op'.at
    <3>1. \A c \in Contents : Known(c.path) => row[c.path].id <= row[f].id
        BY <1>1, <1>5, <1>6, <1>7
    <3> QED
        BY <1>2, <1>3, <1>6, <3>1 DEF Known
  <2> QED
      BY <1>3, <2>1, <2>2 DEF Listings
<1>10. Covered'
  <2>1. ASSUME NEW g \in Files, Cached(g)
        PROVE  row[g].id > row[f].id \/ \E c \in Contents \cup {e} : c.path = g
    <3>1. CASE row[g].id > op.at /\ g # f
      <4>1. row[g].id # row[f].id /\ row[f].id <= row[g].id
          BY <1>1, <1>5, <2>1, <3>1 DEF IdsDiffer
      <4> QED
          BY <1>5, <1>6, <2>1, <4>1
    <3>2. CASE ~(row[g].id > op.at)
        BY <1>3, <2>1, <3>2 DEF Accounting, Covered, Ahead, Going, Cleaning
    <3>3. CASE g = f
        BY <1>2, <3>3
    <3> QED
        BY <3>1, <3>2, <3>3
  <2> QED
      BY <1>3, <1>5, <2>1 DEF Covered, Ahead, Loops
<1>11. PICK w \in [Files -> Sizes] : Accounts(w)
    BY <1>3 DEF Accounting, Accounted, Cleaning
<1>12. Accounted'
  <2>1. \A c \in Listing' : w[c.path] = c.size
      BY <1>1, <1>2, <1>3, <1>4, <1>11 DEF Accounts, Paid
  <2>2. \A g \in Files : (Cached(g) => w[g] = row[g].size) /\ (w[g] = 0 \/ Cached(g) \/ \E c \in Listing' : c.path = g)
      BY <1>3, <1>4, <1>11 DEF Accounts, Paid
  <2>3. Total(w) <= op.used /\ (policy = "QLFUSS" => op.used <= Total(w) + op.lost)
      BY <1>11 DEF Accounts
  <2> QED
      BY <1>3, <1>5, <2>1, <2>2, <2>3 DEF Accounted, Accounts, Paid
<1> QED
    BY <1>9, <1>10, <1>12 DEF Accounting

LEMMA BuildEndsAccounts ==
    ASSUME Typed, HeapInUse, Unlisted, Accounting, BuildEnds
    PROVE  Accounting'
<1>1. /\ op.pc = "build" /\ op'.pc = "poll" /\ op'.snap = {} /\ op.snap = {} /\ op'.at = op.at
      /\ op'.used = op.used /\ op'.lost = op.lost
      /\ row' = row /\ policy' = policy /\ policy = "QLFUSS" /\ Contents' = Contents
    BY SameHeap DEF BuildEnds, Goto, Typed, OpFields, Unlisted, HeapInUse
<1>2. Listing = Contents /\ Listing' = Contents
    BY <1>1 DEF Listing
<1>3. \A f \in Files : Cached(f)' <=> Cached(f)
    BY <1>1 DEF Cached
<1>4. Listings'
    BY <1>1, <1>2 DEF Accounting, Listings
<1>5. \A f \in Files : Cached(f) => \E c \in Contents : c.path = f
  <2>1. \A f \in Files : Cached(f) => ~(row[f].id > op.at)
      BY DEF BuildEnds, Scanned, CachedFiles
  <2> QED
      BY <1>1, <2>1 DEF Accounting, Covered, Ahead, Going, Cleaning
<1>6. Covered'
    BY <1>1, <1>3, <1>5 DEF Covered, Ahead, Loops
<1>7. PICK w \in [Files -> Sizes] : Accounts(w)
    BY <1>1 DEF Accounting, Accounted, Cleaning
<1>8. Accounted'
    BY <1>1, <1>2, <1>3, <1>7 DEF Accounted, Accounts, Paid
<1> QED
    BY <1>4, <1>6, <1>8 DEF Accounting

\* nothing changes that a cleanup looks at
LEMMA SameAccounts ==
    ASSUME Accounting, UNCHANGED <<row, policy, op>>, Contents' = Contents
    PROVE  Accounting'
<1>1. Listing' = Listing
    BY DEF Listing
<1>2. \A f \in Files : /\ Cached(f)' <=> Cached(f)
                       /\ Known(f)' <=> Known(f)
                       /\ Ahead(f)' <=> Ahead(f)
                       /\ Going(f)' <=> Going(f)
                       /\ Paid(f)' <=> Paid(f)
    BY DEF Cached, Known, Ahead, Going, Paid
<1>3. Listings'
    BY <1>1 DEF Accounting, Listings, Known
<1>4. Covered'
    BY <1>2 DEF Accounting, Covered
<1>5. \A w \in [Files -> Sizes] : Accounts(w) => Accounts(w)'
    BY <1>1, <1>2 DEF Accounts
<1>6. Accounted'
    BY <1>5 DEF Accounting, Accounted
<1> QED
    BY <1>3, <1>4, <1>6 DEF Accounting

LEMMA PollTakes ==
    ASSUME HeapInv, HeapPoll
    PROVE  root[1] \in Contents /\ Contents' = Contents \ {root[1]}
<1>1. PICK x \in Items : PQ!Remove(x)
    BY PollRemovesBest
<1>2. polled' = root[1]
    BY DEF HeapPoll
<1> QED
    BY <1>1, <1>2 DEF PQ!Remove

LEMMA PollAccounts ==
    ASSUME Typed, HeapInUse, Unlisted, HeapInv, Accounting, Poll
    PROVE  Accounting'
<1> DEFINE c == root[1]
<1>1. c \in Contents /\ Contents' = Contents \ {c}
    BY PollTakes DEF Poll
<1>2. /\ op.pc = "poll" /\ op'.pc = "evict" /\ op'.snap = {} /\ op.snap = {} /\ op'.victim = c
      /\ op'.used = op.used /\ op'.lost = op.lost
      /\ row' = row /\ policy' = policy /\ policy = "QLFUSS"
    BY DEF Poll, Typed, OpFields, Unlisted, HeapInUse
<1> HIDE DEF c
<1>3. Listing = Contents /\ Listing' = Contents
    BY <1>1, <1>2 DEF Listing
<1>4. \A f \in Files : Cached(f)' <=> Cached(f)
    BY <1>2 DEF Cached
<1>5. \A d, e \in Contents : d.path = e.path => d = e
    BY <1>3 DEF Accounting, Listings
<1>6. Listings'
    BY <1>1, <1>2, <1>3, <1>5 DEF Listings
<1>7. Covered'
  <2>1. \A f \in Files : Cached(f) => \E d \in Contents : d.path = f
      BY <1>2 DEF Accounting, Covered, Ahead, Going, Cleaning, Loops
  <2> QED
      BY <1>1, <1>2, <1>4, <2>1 DEF Covered, Ahead, Going, Loops
<1>8. PICK w \in [Files -> Sizes] : Accounts(w)
    BY <1>2 DEF Accounting, Accounted, Cleaning
<1>9. Accounted'
    BY <1>2, <1>3, <1>4, <1>8 DEF Accounted, Accounts, Paid
<1> QED
    BY <1>6, <1>7, <1>9 DEF Accounting

LEMMA EvictAccounts ==
    ASSUME Typed, Victims, OpTyped, HeapInUse, Accounting, Evict
    PROVE  Accounting'
<1> DEFINE c == op.victim
<1>1. /\ op.pc = "evict" /\ op'.pc = "uncache" /\ op'.victim = c /\ op'.snap = op.snap /\ op'.at = op.at
      /\ op'.used = op.used - c.size /\ op'.lost = op.lost
      /\ row' = row /\ policy' = policy /\ Contents' = Contents
    BY SameHeap DEF Evict, Typed, OpFields
<1>2. c.path \in Files /\ c.size \in Nat /\ op.used \in Nat /\ op.lost \in Nat
    BY <1>1, SizesAssumption DEF OpTyped, Entries
<1>3. Listing = op.snap \cup Contents \cup {c} /\ Listing' = op.snap \cup Contents
    BY <1>1 DEF Listing
<1>4. \A f \in Files : Cached(f)' <=> Cached(f)
    BY <1>1 DEF Cached
<1>5. \A d \in op.snap \cup Contents : d.path \in Files /\ d.path # c.path
    BY <1>1 DEF Accounting, Listings, Victims
<1>6. Listings'
    BY <1>1, <1>3, <1>5 DEF Accounting, Listings
<1>7. Covered'
  <2>1. \A f \in Files : Cached(f) => Ahead(f) \/ f = c.path
      BY <1>1 DEF Accounting, Covered, Going, Cleaning
  <2>2. \A f \in Files : Ahead(f) => Ahead(f)'
      BY <1>1 DEF Ahead, Loops
  <2> QED
      BY <1>1, <1>4, <2>1, <2>2 DEF Covered, Going
<1>8. PICK w \in [Files -> Sizes] : Accounts(w)
    BY <1>1 DEF Accounting, Accounted, Cleaning
<1> DEFINE v == [w EXCEPT ![c.path] = 0]
<1>9. v \in [Files -> Sizes] /\ v[c.path] = 0 /\ \A f \in Files \ {c.path} : v[f] = w[f]
    BY <1>2, SizesAssumption
<1>10. w[c.path] = c.size
    BY <1>3, <1>8 DEF Accounts
<1> HIDE DEF v, c
<1>11. Total(v) = Total(w) - c.size /\ Total(w) \in Nat /\ Total(v) \in Nat
  <2>1. Total(v) = Total(w) - w[c.path] + v[c.path]
      BY <1>2, <1>9, TotalChanges
  <2>2. Total(w) \in Nat /\ Total(v) \in Nat
      BY <1>9, TotalType
  <2> QED
      BY <1>2, <1>9, <1>10, <2>1, <2>2
<1>12. Accounted'
  <2>1. \A d \in Listing' : v[d.path] = d.size
      BY <1>3, <1>5, <1>8, <1>9 DEF Accounts
  <2>2. \A f \in Files : Cached(f) /\ f # c.path => v[f] = row[f].size
      BY <1>1, <1>8, <1>9 DEF Accounts, Paid
  <2>3. \A f \in Files : v[f] = 0 \/ (Cached(f) /\ f # c.path) \/ \E d \in Listing' : d.path = f
      BY <1>1, <1>3, <1>8, <1>9 DEF Accounts
  <2>4. Total(w) <= op.used /\ (policy = "QLFUSS" => op.used <= Total(w) + op.lost)
      BY <1>8 DEF Accounts
  <2>5. Total(v) <= op'.used /\ (policy = "QLFUSS" => op'.used <= Total(v) + op'.lost)
      BY <1>1, <1>2, <1>11, <2>4
  <2> QED
      BY <1>1, <1>4, <1>9, <2>1, <2>2, <2>3, <2>5 DEF Accounted, Accounts, Paid
<1> QED
    BY <1>6, <1>7, <1>12 DEF Accounting

LEMMA UncacheAccounts ==
    ASSUME Typed, Victims, HeapInUse, Accounting, Uncache
    PROVE  Accounting'
<1> DEFINE p == op.victim.path
<1>1. /\ op.pc = "uncache" /\ op'.pc \in {"poll", "purge"} /\ op'.snap = op.snap /\ op'.at = op.at
      /\ op'.used = op.used /\ op'.lost = op.lost
      /\ policy' = policy /\ Contents' = Contents
    BY SameHeap DEF Uncache, Typed, OpFields
<1>2. /\ p \in Files
      /\ \A f \in Files : Cached(f)' => Cached(f) /\ f # p /\ row'[f].size = row[f].size /\ row'[f].id = row[f].id
      /\ \A f \in Files : Cached(f) /\ f # p => Cached(f)'
  <2>1. CASE ~Known(p)
      BY <2>1, UncacheBecomes DEF Known, Cached
  <2>2. CASE Known(p)
    <3>1. p \in Files
        BY UncacheBecomes
    <3>2. PICK q : Becomes(row', p, q) /\ q # NoRow /\ q.id = row[p].id /\ ~q.cached
        BY <2>2, UncacheBecomes
    <3> HIDE DEF p
    <3>3. Alike(row'[p], q) /\ \A f \in Files \ {p} : Alike(row'[f], row[f])
        BY <3>1, <3>2 DEF Becomes
    <3>4. row'[p] = NoRow \/ ~row'[p].cached
        BY <3>2, <3>3 DEF Alike
    <3>5. \A f \in Files \ {p} : /\ Cached(f)' <=> Cached(f)
                                 /\ Cached(f) => row'[f].size = row[f].size /\ row'[f].id = row[f].id
        BY <3>3 DEF Alike, Cached
    <3>6. \A f \in Files : Cached(f)' => f # p
        BY <3>4 DEF Cached
    <3> QED
        BY <3>1, <3>5, <3>6
  <2> QED
      BY <2>1, <2>2
<1>3. Listing = op.snap \cup Contents /\ Listing' = op.snap \cup Contents
    BY <1>1 DEF Listing
<1>4. \A d \in op.snap \cup Contents : d.path # p
    BY <1>1 DEF Accounting, Listings
<1> HIDE DEF p
<1>5. Listings'
    BY <1>1, <1>3 DEF Accounting, Listings
<1>6. Covered'
  <2>1. \A f \in Files : Cached(f) /\ f # p => Ahead(f)
      BY <1>1 DEF Accounting, Covered, Going, Cleaning, p
  <2>2. \A f \in Files : Cached(f)' /\ Ahead(f) => Ahead(f)'
      BY <1>1, <1>2 DEF Ahead, Loops
  <2> QED
      BY <1>2, <2>1, <2>2 DEF Covered
<1>7. PICK w \in [Files -> Sizes] : Accounts(w)
    BY <1>1 DEF Accounting, Accounted, Cleaning
<1>8. Accounted'
  <2>1. \A d \in Listing' : w[d.path] = d.size
      BY <1>3, <1>7 DEF Accounts
  <2>2. \A f \in Files : Cached(f)' => w[f] = row'[f].size
      BY <1>1, <1>2, <1>7 DEF Accounts, Paid, p
  <2>3. \A f \in Files : w[f] = 0 \/ Cached(f)' \/ \E d \in Listing' : d.path = f
      BY <1>1, <1>2, <1>3, <1>7 DEF Accounts, Paid, p
  <2>4. Total(w) <= op'.used /\ (policy' = "QLFUSS" => op'.used <= Total(w) + op'.lost)
      BY <1>1, <1>7 DEF Accounts
  <2> QED
      BY <1>1, <2>1, <2>2, <2>3, <2>4 DEF Accounted, Accounts, Paid
<1> QED
    BY <1>5, <1>6, <1>8 DEF Accounting

(* What the rescuer takes away was either listed, then the cleanup subtracts *)
(* it all the same, or is no longer paid for.                                *)
LEMMA RemovalAccounts ==
    ASSUME Typed, OpTyped, Victims, HeapInUse, Unlisted, Accounting, RescuerRemoves, op.pc \in Cleaning
    PROVE  Accounting'
<1>1. /\ gone \in Files /\ row \in Rows /\ row' = [row EXCEPT ![gone] = NoRow]
      /\ op'.pc = op.pc /\ op'.snap = op.snap /\ op'.at = op.at /\ op'.victim = op.victim
      /\ op'.used = op.used
      /\ policy' = policy /\ Contents' = Contents
    BY SameHeap DEF RescuerRemoves, Typed, OpFields
<1>2. op'.lost = IF Cached(gone) /\ (op.pc = "ask" \/ (op.pc = "build" /\ row[gone].id > op.at))
                 THEN op.lost + row[gone].size ELSE op.lost
    BY DEF RescuerRemoves, Typed, OpFields
<1>3. \A f \in Files : row'[f] = IF f = gone THEN NoRow ELSE row[f]
    BY <1>1 DEF Rows
<1>4. Listing' = Listing /\ \A d \in Listing : d.path \in Files
    BY <1>1 DEF Listing, Victims
<1>5. \A f \in Files : /\ Cached(f)' <=> Cached(f) /\ f # gone
                       /\ Known(f)' <=> Known(f) /\ f # gone
                       /\ Paid(f)' <=> Paid(f)
                       /\ Going(f)' <=> Going(f)
    BY <1>1, <1>3 DEF Cached, Known, Paid, Going
<1>6. Listings'
  <2>1. \A c \in Contents : c.path \in Files
      BY DEF Victims
  <2> QED
      BY <1>1, <1>3, <1>4, <2>1 DEF Accounting, Listings, Known
<1>7. Covered'
  <2>1. \A f \in Files : f # gone /\ Ahead(f) => Ahead(f)'
      BY <1>1, <1>3 DEF Ahead, Loops
  <2> QED
      BY <1>5, <2>1 DEF Accounting, Covered
<1>s. Cached(gone) => row[gone].size \in Nat
    BY <1>1, KnownRow, SizesAssumption DEF Cached, Known, Row
<1>l. op.lost \in Nat /\ op'.lost \in Nat /\ op'.lost >= op.lost /\ op.used \in Nat
    BY <1>2, <1>s DEF OpTyped
<1>8. CASE op.pc = "used"
    BY <1>1, <1>6, <1>7, <1>8 DEF Accounting, Accounted
<1>9. CASE op.pc # "used"
  <2>1. PICK w \in [Files -> Sizes] : Accounts(w)
      BY <1>9 DEF Accounting, Accounted
  <2>2. Total(w) \in Nat
      BY TotalType
  <2>3. Total(w) <= op.used /\ (policy = "QLFUSS" => op.used <= Total(w) + op.lost)
      BY <2>1 DEF Accounts
  <2>4. CASE ~Cached(gone) \/ Paid(gone) \/ \E c \in Listing : c.path = gone
    <3>1. \A d \in Listing' : w[d.path] = d.size
        BY <1>4, <2>1 DEF Accounts
    <3>2. \A f \in Files : Cached(f)' /\ ~Paid(f)' => w[f] = row'[f].size
        BY <1>3, <1>5, <2>1 DEF Accounts
    <3>3. \A f \in Files : w[f] = 0 \/ (Cached(f)' /\ ~Paid(f)') \/ \E d \in Listing' : d.path = f
        BY <1>4, <1>5, <2>1, <2>4 DEF Accounts
    <3>4. Total(w) <= op'.used /\ (policy' = "QLFUSS" => op'.used <= Total(w) + op'.lost)
        BY <1>1, <1>l, <2>2, <2>3
    <3>5. Accounted'
        BY <3>1, <3>2, <3>3, <3>4 DEF Accounted, Accounts
    <3> QED
        BY <1>6, <1>7, <3>5 DEF Accounting
  <2>5. CASE Cached(gone) /\ ~Paid(gone) /\ ~\E c \in Listing : c.path = gone
    <3> DEFINE v == [w EXCEPT ![gone] = 0]
    <3>1. v \in [Files -> Sizes] /\ v[gone] = 0 /\ \A f \in Files \ {gone} : v[f] = w[f]
        BY <1>1, SizesAssumption
    <3>2. w[gone] = row[gone].size
        BY <1>1, <2>1, <2>5 DEF Accounts
    <3> HIDE DEF v
    <3>3. Total(v) = Total(w) - row[gone].size /\ Total(v) \in Nat
      <4>1. Total(v) = Total(w) - w[gone] + v[gone]
          BY <1>1, <3>1, TotalChanges
      <4>2. Total(v) \in Nat
          BY <3>1, TotalType
      <4> QED
          BY <1>s, <2>2, <2>5, <3>1, <3>2, <4>1, <4>2
    <3>4. policy = "QLFUSS" => op'.lost = op.lost + row[gone].size
      <4>1. ~Going(gone)
        <5>1. op.pc = "evict" => op.victim \in Listing
            BY DEF Listing
        <5> QED
            BY <2>5, <5>1 DEF Going, Paid
      <4>2. Ahead(gone)
          BY <1>1, <2>5, <4>1 DEF Accounting, Covered
      <4>3. ~\E c \in Contents : c.path = gone
          BY <2>5 DEF Listing
      <4>4. policy = "QLFUSS" => op.pc \notin Loops
          BY <4>2, <4>3 DEF Ahead
      <4>5. op.pc = "build" => row[gone].id > op.at
          BY <4>2, <4>3 DEF Ahead
      <4>6. policy = "QLFUSS" => op.pc \in {"ask", "build"}
          BY <1>9, <4>4 DEF Cleaning, Loops
      <4> QED
          BY <1>2, <2>5, <4>5, <4>6
    <3>5. \A d \in Listing' : v[d.path] = d.size
        BY <1>4, <2>1, <2>5, <3>1 DEF Accounts
    <3>6. \A f \in Files : Cached(f)' /\ ~Paid(f)' => v[f] = row'[f].size
        BY <1>3, <1>5, <2>1, <3>1 DEF Accounts
    <3>7. \A f \in Files : v[f] = 0 \/ (Cached(f)' /\ ~Paid(f)') \/ \E d \in Listing' : d.path = f
        BY <1>4, <1>5, <2>1, <3>1 DEF Accounts
    <3>8. Total(v) <= op'.used /\ (policy' = "QLFUSS" => op'.used <= Total(v) + op'.lost)
        BY <1>1, <1>s, <1>l, <2>2, <2>3, <2>5, <3>3, <3>4
    <3>9. Accounted'
        BY <3>1, <3>5, <3>6, <3>7, <3>8 DEF Accounted, Accounts
    <3> QED
        BY <1>6, <1>7, <3>9 DEF Accounting
  <2> QED
      BY <2>4, <2>5
<1> QED
    BY <1>8, <1>9

LEMMA AccountingKept ==
    ASSUME SpaceInv, HeapInv, LimitInv, [Next]_vars
    PROVE  Accounting'
<1>1. /\ Typed /\ Victims /\ HeapInUse /\ Unlisted /\ IdsDiffer /\ Accounting
      /\ OpTyped /\ OpFields
    BY DEF SpaceInv, LimitInv, Accounting, Ranged, Typed
<1>2. HeapInUse' /\ Unlisted'
    BY <1>1, SpaceInvKept, UnlistedKept DEF SpaceInv
<1>3. CASE op'.pc \notin Cleaning
    BY <1>2, <1>3, NothingListedNext DEF Accounting
<1>4. CASE op'.pc \in Cleaning
  <2>1. CASE Contains /\ op.pc = "contains" /\ op' = [op EXCEPT !.pc = "used"]
    <3>1. UNCHANGED <<heapVars, row, policy>>
        BY <2>1 DEF Contains
    <3> QED
        BY <1>1, <2>1, <3>1, CleanupBegins
  <2>2. CASE RepairHeap
    <3>1. Contents' = Contents /\ UNCHANGED <<row, policy, op>>
        BY <2>2, RepairStutters DEF RepairHeap, spaceVars
    <3> QED
        BY <1>1, <3>1, SameAccounts
  <2>3. CASE UNCHANGED vars \/ \E f \in Files : RescuerUnlinks(f)
    <3>1. Contents' = Contents /\ UNCHANGED <<row, policy, op>>
        BY <2>3, SameHeap DEF vars, spaceVars, RescuerUnlinks
    <3> QED
        BY <1>1, <3>1, SameAccounts
  <2>4. CASE RescuerRemoves
    <3>1. op.pc \in Cleaning
        BY <1>1, <1>4, <2>4 DEF RescuerRemoves, OpFields
    <3> QED
        BY <1>1, <2>4, <3>1, RemovalAccounts
  <2>5. CleaningSteps
      BY <1>1, <1>4, CleaningGoesOn
  <2> QED
      BY <1>1, <2>1, <2>2, <2>3, <2>4, <2>5, AskAccounts, SumsUp, PurgeAccounts, BuildAccounts,
         BuildEndsAccounts, PollAccounts, EvictAccounts, UncacheAccounts DEF CleaningSteps
<1> QED
    BY <1>3, <1>4
-----------------------------------------------------------------------------
(* The limit.                                                              *)

LEMMA Half ==
    ASSUME NEW n \in Nat, n < Limit \div 2
    PROVE  n <= Limit /\ 2 * n < Limit
    BY SizesAssumption

\* the sum covers what is cached
LEMMA UsedIsPaid ==
    ASSUME Typed, OpTyped, Accounted, op.pc \in Cleaning \ {"used", "uncache"}
    PROVE  UsedSize <= op.used
<1>1. PICK w \in [Files -> Sizes] : Accounts(w)
    BY DEF Accounted
<1> DEFINE v == Charges(row)
<1>2. /\ v \in [Files -> Sizes] /\ UsedSize = Total(v)
      /\ \A f \in Files : v[f] = Charge(row[f])
    BY ChargeType, UsedNow DEF Typed
<1>3. \A f \in Files : v[f] \in Nat /\ w[f] \in Nat
    BY <1>2, SizesAssumption
<1>4. \A f \in Files : v[f] <= w[f]
  <2>1. \A f \in Files : Cached(f) => w[f] = v[f]
      BY <1>1, <1>2 DEF Accounts, Paid, Charge, Cached
  <2>2. \A f \in Files : ~Cached(f) => v[f] = 0
      BY <1>2 DEF Charge, Cached
  <2> QED
      BY <1>3, <2>1, <2>2
<1> HIDE DEF v
<1>5. Total(v) <= Total(w)
  <2>1. IsFiniteSet(Files)
      BY FilesAssumption
  <2>2. SumFunctionOnSet(v, Files) <= SumFunctionOnSet(w, Files)
      BY <1>3, <1>4, <2>1, SumGrows
  <2> QED
      BY <2>2 DEF Total
<1>6. Total(w) <= op.used /\ Total(v) \in Nat /\ Total(w) \in Nat /\ op.used \in Nat
    BY <1>1, <1>2, TotalType DEF Accounts, OpTyped
<1> QED
    BY <1>2, <1>5, <1>6

\* nothing is cached
LEMMA UsedByNone ==
    ASSUME row \in Rows, \A f \in Files : ~Cached(f)
    PROVE  UsedSize = 0
<1>1. \A f \in Files : Charges(row)[f] = 0
    BY ChargeType DEF Charge, Cached
<1>2. IsFiniteSet(Files)
    BY FilesAssumption
<1>3. SumFunctionOnSet(Charges(row), Files) = 0
    BY <1>1, <1>2, SumOfZeros
<1> QED
    BY <1>3, UsedNow DEF Total

\* a cleanup that ends well has made room, and so has one that finds no row left
LEMMA RoomIsMade ==
    ASSUME SpaceInv, LimitInv, PurgeEnds \/ (AskHits /\ ~Tight) \/ PollEnds
    PROVE  UsedSize \in Nat /\ op.size \in Nat /\ UsedSize + op.size <= Limit
<1>1. /\ Typed /\ HeapInUse /\ Unlisted /\ Accounting /\ OpTyped /\ row \in Rows
      /\ op.size \in Nat /\ op.used \in Nat /\ Limit \in Nat
    BY SizesAssumption DEF SpaceInv, LimitInv, Accounting, Ranged, OpTyped, Typed
<1>2. UsedSize \in Nat
    BY <1>1, UsedType
<1>3. op.pc \in {"purge", "ask", "poll"}
    BY DEF PurgeEnds, AskHits, PollEnds
<1>4. CASE ~Tight
  <2>1. UsedSize <= op.used
      BY <1>1, <1>3, UsedIsPaid DEF Accounting, Cleaning
  <2> QED
      BY <1>1, <1>2, <1>4, <2>1 DEF Tight
<1>5. CASE Tight
  <2>1. op.pc = "purge" /\ Candidates = {}
      BY <1>5 DEF PurgeEnds, PurgeFails, PollEnds
  <2>2. \A f \in Files : ~Cached(f)
      BY <1>1, <2>1, CandidatesFit
  <2>3. UsedSize = 0
      BY <1>1, <2>2, UsedByNone
  <2>4. op.size < Limit \div 2
      BY <1>1, <2>1 DEF Unlisted, Cleaning
  <2> QED
      BY <1>1, <2>3, <2>4, Half
<1> QED
    BY <1>4, <1>5

\* the loop of qlfuss that runs dry
LEMMA DryIsLost ==
    ASSUME SpaceInv, LimitInv, RunsDry
    PROVE  op.lost + op.size > Limit /\ 2 * op.lost > Limit
<1>1. /\ Typed /\ HeapInUse /\ Unlisted /\ Accounting /\ OpTyped
      /\ op.size \in Nat /\ op.used \in Nat /\ op.lost \in Nat /\ Limit \in Nat
    BY SizesAssumption DEF SpaceInv, LimitInv, Accounting, Ranged, OpTyped, Typed
<1>2. op.pc = "poll" /\ op.used + op.size > Limit /\ Contents = {} /\ policy = "QLFUSS"
    BY <1>1 DEF RunsDry, Tight, Contents, HeapInUse
<1>3. Listing = {}
    BY <1>1, <1>2 DEF Listing, Unlisted
<1>4. \A f \in Files : ~Cached(f)
    BY <1>1, <1>2 DEF Accounting, Covered, Ahead, Going, Cleaning, Loops
<1>5. PICK w \in [Files -> Sizes] : Accounts(w)
    BY <1>1, <1>2 DEF Accounting, Accounted, Cleaning
<1>6. \A f \in Files : w[f] = 0
    BY <1>3, <1>4, <1>5 DEF Accounts
<1>7. Total(w) = 0
  <2>1. IsFiniteSet(Files)
      BY FilesAssumption
  <2>2. SumFunctionOnSet(w, Files) = 0
      BY <1>6, <2>1, SumOfZeros
  <2> QED
      BY <2>2 DEF Total
<1>8. op.used <= op.lost
    BY <1>1, <1>2, <1>5, <1>7 DEF Accounts
<1>9. op.size < Limit \div 2
    BY <1>1, <1>2 DEF Unlisted, Cleaning
<1>10. 2 * op.size < Limit
    BY <1>1, <1>9, Half
<1> QED
    BY <1>1, <1>2, <1>8, <1>10

LEMMA HeapLastsKept ==
    ASSUME SpaceInv, LimitInv, [Next]_vars
    PROVE  HeapLasts'
<1>0. OpFields /\ Typed /\ HeapLasts
    BY DEF SpaceInv, Typed, LimitInv
<1>a. Cleaning = {"used", "ask", "build", "poll", "purge", "evict", "uncache"}
    BY DEF Cleaning
<1>1. CASE RunsDry
  <2>1. op'.lost = op.lost /\ op'.size = op.size
      BY <1>0, <1>1 DEF RunsDry, Goto, OpFields
  <2> QED
      BY <1>1, <2>1, DryIsLost DEF HeapLasts
<1>2. CASE UNCHANGED vars \/ RescuerRemoves \/ RepairHeap \/ \E f \in Files : RescuerUnlinks(f)
  <2>1. op' = op \/ (op'.pc = op.pc /\ op.pc \in {"ask", "build"})
      BY <1>0, <1>2 DEF vars, spaceVars, RescuerRemoves, RepairHeap, RescuerUnlinks, OpFields
  <2> QED
      BY <1>0, <2>1 DEF HeapLasts
<1>3. ASSUME op'.pc # "dead" PROVE HeapLasts'
    BY <1>3 DEF HeapLasts
<1>4. CASE Begin
    BY <1>0, <1>3, <1>4, BeginFrame DEF Begins
<1>5. CASE Contains \/ StoreHits \/ Mark \/ StoreNothing \/ UpdateRow
    BY <1>0, <1>3, <1>5, OpenFrame DEF Opens
<1>6. CASE Count \/ Restart
    BY <1>3, <1>6 DEF Count, Restart, NoOp
<1>7. CASE GetUsedSize \/ Purge \/ Build \/ BuildEnds \/ Poll \/ Evict \/ Uncache
  <2>1. CASE GetUsedSize
      BY <1>0, <1>3, <2>1 DEF GetUsedSize, OpFields
  <2>2. CASE Purge
      BY <1>0, <1>3, <2>2 DEF Purge, OpFields
  <2>3. CASE Build \/ BuildEnds
      BY <1>0, <1>3, <2>3 DEF Build, BuildEnds, Goto, OpFields
  <2>4. CASE Poll \/ Evict
      BY <1>0, <1>3, <2>4 DEF Poll, Evict, OpFields
  <2>5. CASE Uncache
      BY <1>0, <1>3, <2>5 DEF Uncache, OpFields
  <2> QED
      BY <1>7, <2>1, <2>2, <2>3, <2>4, <2>5
<1>8. CASE PurgeEnds \/ AskHits \/ PollEnds
    BY <1>0, <1>3, <1>8, EnoughFrame DEF PurgeEnds, AskHits, PollEnds, Goto, OpFields
<1> QED
    BY <1>1, <1>2, <1>4, <1>5, <1>6, <1>7, <1>8 DEF Next, Continue

(* What a write to one row does to the space that is used.                  *)
LEMMA ChargeNow ==
    ASSUME row \in Rows, NEW f \in Files
    PROVE  /\ Charge(row[f]) \in Nat
           /\ Cached(f) => Charge(row[f]) = row[f].size
           /\ ~Cached(f) => Charge(row[f]) = 0
    BY SizesAssumption, ChargeType DEF Charge, Cached, Rows, Row

LEMMA MovedUsed ==
    ASSUME row \in Rows, NEW f \in Files, NEW g \in Files, f # g,
           row' = [row EXCEPT ![g] = row[f], ![f] = NoRow]
    PROVE  UsedSize \in Nat /\ UsedSize' \in Nat /\ UsedSize' <= UsedSize
<1>1. /\ row' \in Rows
      /\ \A h \in Files : row'[h] = IF h = f THEN NoRow ELSE IF h = g THEN row[f] ELSE row[h]
    BY MovedRows
<1> DEFINE v == Charges(row)
           w == Charges(row')
           u == [v EXCEPT ![f] = 0]
<1>2. /\ v \in [Files -> Sizes] /\ \A h \in Files : v[h] = Charge(row[h])
      /\ w \in [Files -> Sizes] /\ \A h \in Files : w[h] = Charge(row'[h])
    BY <1>1, ChargeType
<1>3. u \in [Files -> Sizes] /\ u[f] = 0 /\ \A h \in Files \ {f} : u[h] = v[h]
    BY <1>2, SizesAssumption
<1>4. w[f] = 0 /\ w[g] = v[f] /\ \A h \in Files \ {f, g} : w[h] = v[h]
    BY <1>1, <1>2 DEF Charge
<1>5. \A h \in Files \ {g} : w[h] = u[h]
    BY <1>3, <1>4
<1>6. UsedSize = Total(v) /\ UsedSize' = Total(w)
    BY <1>1, UsedNow, UsedNext
<1> HIDE DEF u, v, w
<1>7. Total(u) = Total(v) - v[f] + u[f]
    BY <1>2, <1>3, TotalChanges
<1>8. Total(w) = Total(u) - u[g] + w[g]
    BY <1>2, <1>3, <1>5, TotalChanges
<1>9. /\ Total(u) \in Nat /\ Total(v) \in Nat /\ Total(w) \in Nat
      /\ v[f] \in Nat /\ u[g] \in Nat
    BY <1>2, <1>3, TotalType, SizesAssumption
<1> QED
    BY <1>3, <1>4, <1>6, <1>7, <1>8, <1>9

\* the columns the sum reads stay as they are
LEMMA UsedStays == row' = row => UsedSize' = UsedSize
    BY DEF UsedSize, CachedFiles, Cached

LEMMA SpacedKept ==
    ASSUME SpaceInv, HeapInv, LimitInv, [Next]_vars
    PROVE  Spaced'
<1>0. /\ Typed /\ Victims /\ Unlisted /\ Spaced /\ OpTyped /\ OpFields /\ row \in Rows
      /\ UsedSize \in Nat /\ Limit \in Nat /\ excess \in Nat /\ op.size \in Nat
    BY UsedType, SizesAssumption DEF SpaceInv, LimitInv, Ranged, Typed
<1>a. Cleaning = {"used", "ask", "build", "poll", "purge", "evict", "uncache"}
    BY DEF Cleaning
\* no more is used, and no operation waits for room
<1>1. ASSUME UsedSize' \in Nat, UsedSize' <= UsedSize, excess' = excess,
             op.pc # "update" \/ ~op.room, op'.pc # "update" \/ ~op'.room, op'.pc \notin {"store", "mark"} \/ ~op'.room
      PROVE  Spaced'
    BY <1>0, <1>1 DEF Spaced
<1>2. ASSUME row' = row, excess' = excess,
             op.pc # "update" \/ ~op.room, op'.pc # "update" \/ ~op'.room, op'.pc \notin {"store", "mark"} \/ ~op'.room
      PROVE  Spaced'
    BY <1>0, <1>1, <1>2, UsedStays
<1>3. ASSUME NEW f \in Files, Becomes(row', f, row[f]) PROVE UsedSize' \in Nat /\ UsedSize' <= UsedSize
    BY <1>0, <1>3, UsedBecomes
<1>4. CASE Begin
  <2>1. /\ op.pc = "idle" /\ op'.pc \in {"idle", "count", "contains", "update"}
    <3>1. op = NoOp /\ op'.pc \in {"idle", "count", "contains", "update"}
        BY <1>0, <1>4, BeginFrame DEF Begins
    <3> QED
        BY <3>1 DEF NoOp
  <2>2. ASSUME NEW f \in Files, OpenWithoutFetch(f) PROVE Spaced'
      BY <1>2, <2>1, <2>2 DEF OpenWithoutFetch, NoOp
  <2>3. ASSUME NEW f \in Files, NEW s \in Sizes, OpenFetch(f, s) PROVE Spaced'
    <3>1. \/ op' = [NoOp EXCEPT !.pc = "update", !.path = f, !.size = s]
          \/ \E opened \in BOOLEAN :
               op' = [NoOp EXCEPT !.pc = "contains", !.path = f, !.size = s, !.opened = opened]
        BY <2>3 DEF OpenFetch
    <3>2. op'.room = FALSE /\ row' = row /\ excess' = excess
        BY <2>3, <3>1 DEF OpenFetch, NoOp
    <3> QED
        BY <1>2, <2>1, <3>2
  <2>4. ASSUME NEW f \in Files, OpenGone(f) \/ Unlink(f) PROVE Spaced'
    <3>1. row' = [row EXCEPT ![f] = NoRow] /\ excess' = excess
        BY <2>4 DEF OpenGone, Unlink
    <3>2. Becomes(row', f, NoRow)
        BY <1>0, <3>1, GoneBecomes
    <3>3. UsedSize' \in Nat /\ UsedSize' = UsedSize - Charge(row[f]) + Charge(NoRow)
          /\ Charge(row[f]) \in Nat /\ Charge(NoRow) = 0
        BY <1>0, <3>2, UsedBecomes DEF Charge
    <3>4. op'.pc \in {"idle", "count"}
        BY <2>1, <2>4 DEF OpenGone, Unlink, NoOp
    <3> QED
        BY <1>0, <1>1, <2>1, <3>1, <3>3, <3>4
  <2>5. ASSUME NEW f \in Files, NEW s, NEW r, NEW g \in Files, NEW answered,
               OpenForWriting(f) \/ List(f, s, r) \/ Utimens(f, r) \/ Rename(f, g, answered)
        PROVE  op' = op /\ excess' = excess
      BY <2>5 DEF OpenForWriting, List, Utimens, Rename
  <2>6. ASSUME NEW f \in Files, OpenForWriting(f) \/ \E r \in Ranks : Utimens(f, r) PROVE Spaced'
    <3>1. UsedSize' \in Nat /\ UsedSize' <= UsedSize
        BY <1>0, <1>3, <2>6, SizesStay
    <3> QED
        BY <1>1, <2>1, <2>5, <2>6, <3>1
  <2>7. ASSUME NEW f \in Files, NEW s \in Sizes, Save(f, s) PROVE Spaced'
    <3>1. PICK r \in Stored(f, s) : row' = Update(f, r)
        BY <2>7 DEF Save
    <3>2. Known(f) /\ op' = op /\ excess' = excess + Growth(f, s)
        BY <2>7 DEF Save
    <3>3. Becomes(row', f, r) /\ r # NoRow /\ r.size = s /\ r.cached = row[f].cached
        BY <1>0, <3>1, <3>2, StoredBecomes
    <3>4. UsedSize' \in Nat /\ UsedSize' = UsedSize - Charge(row[f]) + Charge(r)
        BY <1>0, <3>3, UsedBecomes
    <3>5. Charge(r) = (IF Cached(f) THEN s ELSE 0) /\ s \in Nat
        BY <3>2, <3>3, SizesAssumption DEF Charge, Cached, Known
    <3>6. /\ Charge(row[f]) \in Nat
          /\ Cached(f) => Charge(row[f]) = row[f].size
          /\ ~Cached(f) => Charge(row[f]) = 0
        BY <1>0, ChargeNow
    <3>7. UsedSize' <= Limit + excess'
        BY <1>0, <2>1, <3>2, <3>4, <3>5, <3>6 DEF Growth, Spaced
    <3> QED
        BY <2>1, <3>2, <3>7 DEF Spaced
  <2>8. ASSUME NEW f \in Files, Create(f) PROVE Spaced'
    <3>1. row' = [row EXCEPT ![f] = [id |-> NewId, size |-> 0, cached |-> TRUE, hits |-> 0, rank |-> 0]]
        BY <2>8 DEF Create
    <3>2. PICK q : Becomes(row', f, q) /\ q.size = 0 /\ q # NoRow
        BY <1>0, <3>1, NewBecomes, SizesAssumption, ColumnsAssumption
    <3>3. /\ UsedSize' \in Nat /\ UsedSize' = UsedSize - Charge(row[f]) + Charge(q)
          /\ Charge(row[f]) \in Nat /\ Charge(q) = 0
        BY <1>0, <3>2, UsedBecomes DEF Charge
    <3>4. op' = op /\ excess' = excess
        BY <2>8 DEF Create
    <3> QED
        BY <1>0, <1>1, <2>1, <3>3, <3>4
  <2>9. ASSUME NEW f \in Files, NEW s \in Sizes, NEW r \in Ranks, List(f, s, r) PROVE Spaced'
    <3>1. row' = [row EXCEPT ![f] = [id |-> NewId, size |-> s, cached |-> FALSE, hits |-> 0, rank |-> r]]
        BY <2>9 DEF List
    <3>2. PICK q : Becomes(row', f, q) /\ q.cached = FALSE
        BY <1>0, <3>1, NewBecomes
    <3>3. /\ UsedSize' \in Nat /\ UsedSize' = UsedSize - Charge(row[f]) + Charge(q)
          /\ Charge(row[f]) \in Nat /\ Charge(q) = 0
        BY <1>0, <3>2, UsedBecomes DEF Charge
    <3>4. op' = op /\ excess' = excess
        BY <2>5, <2>9
    <3> QED
        BY <1>0, <1>1, <2>1, <3>3, <3>4
  <2>10. ASSUME NEW f \in Files, NEW g \in Files, NEW answered \in BOOLEAN, Rename(f, g, answered)
         PROVE  Spaced'
    <3>1. CASE answered
      <4>1. f # g /\ row' = [row EXCEPT ![g] = row[f], ![f] = NoRow]
          BY <2>10, <3>1 DEF Rename
      <4> QED
          BY <1>0, <1>1, <2>1, <2>5, <2>10, <4>1, MovedUsed
    <3>2. CASE ~answered
      <4>1. row' = row
          BY <2>10, <3>2 DEF Rename
      <4> QED
          BY <1>2, <2>1, <2>5, <2>10, <4>1
    <3> QED
        BY <3>1, <3>2
  <2>11. (IF Ranked THEN Ranks ELSE {0}) \subseteq Ranks
      BY ColumnsAssumption
  <2> QED
      BY <1>4, <2>2, <2>3, <2>4, <2>6, <2>7, <2>8, <2>9, <2>10, <2>11 DEF Begin
<1>5. CASE Contains
  <2>1. op.pc = "contains" /\ ~op'.room /\ row' = row /\ excess' = excess
      BY <1>0, <1>5 DEF Contains, Goto, OpFields, Unlisted
  <2> QED
      BY <1>2, <2>1
<1>16. CASE StoreHits
  <2>1. /\ op.pc = "store" /\ op'.pc = "mark" /\ op'.room = op.room /\ op'.size = op.size
        /\ excess' = excess
      BY <1>0, <1>16 DEF StoreHits, Goto, OpFields
  <2>2. UsedSize' \in Nat /\ UsedSize' <= UsedSize
      BY <1>0, <1>3, <1>16, StoreHitsBecomes
  <2> QED
      BY <1>0, <2>1, <2>2 DEF Spaced
<1>6. CASE Mark
  <2> DEFINE f == op.path
             before == IF Cached(f) THEN row[f].size ELSE 0
  <2>1. /\ op.pc = "mark" /\ op'.pc = "update" /\ op'.room = TRUE /\ op'.path = op.path /\ op'.size = op.size
        /\ excess' = IF op.room \/ op.size <= before THEN excess ELSE excess + (op.size - before)
      BY <1>0, <1>6 DEF Mark, OpFields
  <2>2. f \in Files
      BY <1>0, <1>6, MarkBecomes
  <2>3. /\ before \in Nat /\ Charge(row[f]) = before
      BY <1>0, <2>2, ChargeNow
  <2>4. /\ UsedSize + op.size <= Limit + excess' + Charge(row[f])
        /\ excess' \in Nat
    <3>1. UsedSize <= Limit + excess /\ (op.room => UsedSize + op.size <= Limit)
        BY <1>0, <2>1 DEF Spaced
    <3> HIDE DEF before, f
    <3> QED
        BY <1>0, <2>1, <2>3, <3>1
  <2>5. UsedSize' + op.size <= Limit + excess' + Charge(row'[f])
    <3>1. CASE Known(f)
      <4>1. PICK q : Becomes(row', f, q) /\ q # NoRow
          BY <1>0, <1>6, <3>1, MarkBecomes
      <4>2. /\ UsedSize' = UsedSize - Charge(row[f]) + Charge(q) /\ Charge(row'[f]) = Charge(q)
            /\ Charge(row[f]) \in Nat /\ Charge(q) \in Nat
          BY <1>0, <2>2, <4>1, UsedBecomes
      <4> HIDE DEF before, f
      <4> QED
          BY <1>0, <2>4, <4>2
    <3>2. CASE ~Known(f)
      <4>1. row' = row
          BY <1>0, <1>6, <3>2, MarkBecomes
      <4> QED
          BY <2>4, <4>1, UsedStays
    <3> QED
        BY <3>1, <3>2
  <2> QED
      BY <2>1, <2>5 DEF Spaced, Taken
<1>7. CASE StoreNothing
  <2>1. op.pc = "store" /\ ~op'.room /\ row' = row /\ excess' = excess
      BY <1>0, <1>7 DEF StoreNothing, OpFields
  <2> QED
      BY <1>2, <2>1
<1>8. CASE UpdateRow
  <2>1. /\ op.pc = "update" /\ op'.pc = "count" /\ op.path \in Files /\ op.size \in Sizes
        /\ excess' = IF op.room THEN excess ELSE excess + Growth(op.path, op.size)
      BY <1>0, <1>8 DEF UpdateRow, Goto, OpFields, Typed
  <2>2. /\ Charge(row[op.path]) \in Nat
        /\ Cached(op.path) => Charge(row[op.path]) = row[op.path].size
        /\ ~Cached(op.path) => Charge(row[op.path]) = 0
      BY <1>0, <2>1, ChargeNow
  <2>3. /\ op.room => UsedSize + op.size <= Limit + excess + Charge(row[op.path])
        /\ ~op.room => UsedSize <= Limit + excess
      BY <2>1, <1>0 DEF Spaced, Taken
  <2>4. CASE ~Known(op.path)
    <3>1. row' = row /\ ~Cached(op.path)
        BY <1>8, <2>4 DEF UpdateRow, Cached, Known
    <3>2. UsedSize' = UsedSize /\ excess' = excess
        BY <1>0, <2>1, <3>1, UsedStays DEF Growth
    <3> QED
        BY <1>0, <2>1, <2>2, <2>3, <3>1, <3>2 DEF Spaced
  <2>5. CASE Known(op.path)
    <3>1. PICK r \in Stored(op.path, op.size) : row' = Update(op.path, r)
        BY <1>8, <2>5 DEF UpdateRow
    <3>2. Becomes(row', op.path, r) /\ r # NoRow /\ r.size = op.size /\ r.cached = row[op.path].cached
        BY <1>0, <2>1, <2>5, <3>1, StoredBecomes
    <3>3. UsedSize' \in Nat /\ UsedSize' = UsedSize - Charge(row[op.path]) + Charge(r)
        BY <1>0, <2>1, <3>2, UsedBecomes
    <3>4. Charge(r) = IF Cached(op.path) THEN op.size ELSE 0
        BY <2>5, <3>2 DEF Charge, Cached, Known
    <3>5. UsedSize' <= Limit + excess'
      <4>1. CASE Cached(op.path)
        <5>1. UsedSize' = UsedSize - row[op.path].size + op.size /\ row[op.path].size \in Nat
            BY <2>2, <3>3, <3>4, <4>1
        <5>2. CASE op.room
            BY <1>0, <2>1, <2>2, <2>3, <4>1, <5>1, <5>2
        <5>3. CASE ~op.room
            BY <1>0, <2>1, <2>2, <2>3, <4>1, <5>1, <5>3 DEF Growth
        <5> QED
            BY <5>2, <5>3
      <4>2. CASE ~Cached(op.path)
        <5>1. UsedSize' = UsedSize /\ excess' = excess
            BY <1>0, <2>1, <2>2, <3>3, <3>4, <4>2 DEF Growth
        <5> QED
            BY <1>0, <2>2, <2>3, <4>2, <5>1
      <4> QED
          BY <4>1, <4>2
    <3> QED
        BY <2>1, <3>5 DEF Spaced
  <2> QED
      BY <2>4, <2>5
<1>9. CASE Count
  <2>1. op.pc = "count" /\ op'.pc = "idle" /\ excess' = excess
        /\ (row' = row \/ \E f \in Files : row' = Hit(f))
      BY <1>0, <1>9 DEF Count, NoOp, Typed
  <2>2. CASE \E f \in Files : row' = Hit(f)
    <3>1. UsedSize' \in Nat /\ UsedSize' <= UsedSize
        BY <1>0, <1>3, <2>2, SizesStay
    <3> QED
        BY <1>1, <2>1, <3>1
  <2> QED
      BY <1>2, <2>1, <2>2
<1>10. CASE GetUsedSize \/ Purge \/ Build \/ BuildEnds \/ RunsDry \/ Poll \/ Evict
  <2>1. /\ row' = row /\ excess' = excess
        /\ op.pc \in Cleaning /\ op'.pc \in Cleaning \cup {"dead"}
    <3>1. CASE GetUsedSize
        BY <1>0, <1>a, <3>1 DEF GetUsedSize, OpFields
    <3>2. CASE Purge
        BY <1>0, <1>a, <3>2 DEF Purge, OpFields
    <3>3. CASE Build \/ BuildEnds \/ RunsDry
        BY <1>0, <1>a, <3>3 DEF Build, BuildEnds, RunsDry, Goto, OpFields
    <3>4. CASE Poll \/ Evict
        BY <1>0, <1>a, <3>4 DEF Poll, Evict, OpFields
    <3> QED
        BY <1>10, <3>1, <3>2, <3>3, <3>4
  <2> QED
      BY <1>2, <1>a, <2>1
<1>11. CASE Uncache
  <2>1. /\ op.pc = "uncache" /\ op'.pc \in {"poll", "purge"} /\ excess' = excess
      BY <1>0, <1>11 DEF Uncache, OpFields
  <2>2. CASE Known(op.victim.path)
    <3>1. PICK q : Becomes(row', op.victim.path, q) /\ ~q.cached
        BY <1>0, <1>11, <2>2, UncacheBecomes
    <3>2. op.victim.path \in Files
        BY <1>0, <1>11, UncacheBecomes
    <3>3. /\ UsedSize' \in Nat /\ UsedSize' = UsedSize - Charge(row[op.victim.path]) + Charge(q)
          /\ Charge(row[op.victim.path]) \in Nat /\ Charge(q) = 0
        BY <1>0, <3>1, <3>2, UsedBecomes DEF Charge
    <3> QED
        BY <1>0, <1>1, <2>1, <3>3
  <2>3. CASE ~Known(op.victim.path)
    <3>1. row' = row
        BY <1>0, <1>11, <2>3, UncacheBecomes
    <3> QED
        BY <1>2, <2>1, <3>1
  <2> QED
      BY <2>2, <2>3
<1>12. CASE PurgeEnds \/ AskHits \/ PollEnds
  <2>1. row' = row /\ op.pc \in {"purge", "ask", "poll"} /\ ~op.room
      BY <1>0, <1>a, <1>12 DEF PurgeEnds, AskHits, PollEnds, Unlisted
  <2>2. CASE PurgeEnds \/ (AskHits /\ ~Tight /\ Enough) \/ PollEnds
    <3>1. op'.pc = "store" /\ op'.size = op.size /\ excess' = 0
        BY <1>0, <2>2 DEF PurgeEnds, PollEnds, Enough, OpFields
    <3>2. UsedSize + op.size <= Limit
        BY <2>2, RoomIsMade
    <3>3. UsedSize' = UsedSize
        BY <2>1, UsedStays
    <3> QED
        BY <1>0, <3>1, <3>2, <3>3 DEF Spaced
  <2>3. CASE AskHits /\ excess' = excess /\ (Goto("store") \/ Goto("build"))
    <3>1. op'.pc \in {"store", "build"} /\ op'.room = op.room
        BY <1>0, <2>3 DEF Goto, OpFields
    <3> QED
        BY <1>2, <2>1, <2>3, <3>1
  <2> QED
      BY <1>12, <2>2, <2>3 DEF AskHits
<1>13. CASE UNCHANGED vars \/ RepairHeap \/ \E f \in Files : RescuerUnlinks(f)
  <2>1. UNCHANGED <<row, op, excess>>
      BY <1>13 DEF vars, spaceVars, RepairHeap, RescuerUnlinks
  <2>2. UsedSize' = UsedSize
      BY <2>1, UsedStays
  <2> QED
      BY <1>0, <2>1, <2>2 DEF Spaced, Taken
<1>14. CASE RescuerRemoves
  <2>1. /\ gone \in Files /\ row' = [row EXCEPT ![gone] = NoRow] /\ excess' = excess
        /\ op'.pc = op.pc /\ op'.path = op.path /\ op'.room = op.room /\ op'.size = op.size
      BY <1>0, <1>14 DEF RescuerRemoves, OpFields, Typed
  <2>2. Becomes(row', gone, NoRow)
      BY <1>0, <2>1, GoneBecomes
  <2>3. /\ UsedSize' \in Nat /\ UsedSize' = UsedSize - Charge(row[gone]) + Charge(NoRow)
        /\ Charge(row[gone]) \in Nat /\ Charge(NoRow) = 0
      BY <1>0, <2>1, <2>2, UsedBecomes DEF Charge
  <2>4. UsedSize' <= UsedSize
      BY <1>0, <2>3
  <2>5. ASSUME op.pc = "update", op.room
        PROVE  UsedSize' + op.size <= Limit + excess + Charge(row'[op.path])
    <3>1. op.path \in Files /\ UsedSize + op.size <= Limit + excess + Charge(row[op.path])
        BY <1>0, <2>5 DEF Spaced, Taken, Typed
    <3>2. row'[op.path] = IF op.path = gone THEN NoRow ELSE row[op.path]
        BY <1>0, <2>1, <3>1 DEF Rows
    <3>3. Charge(row[op.path]) \in Nat
        BY <1>0, <3>1, ChargeNow
    <3>4. CASE op.path = gone
      <4>1. row'[op.path] = NoRow
          BY <3>2, <3>4
      <4>2. Charge(row'[op.path]) = 0
          BY <4>1 DEF Charge
      <4> QED
          BY <1>0, <2>3, <3>1, <3>3, <3>4, <4>2
    <3>5. CASE op.path # gone
      <4>1. row'[op.path] = row[op.path]
          BY <3>2, <3>5
      <4> QED
          BY <1>0, <2>3, <2>4, <3>1, <3>3, <4>1
    <3> QED
        BY <3>4, <3>5
  <2>6. ASSUME op.pc # "update" \/ ~op.room PROVE UsedSize' <= Limit + excess
      BY <1>0, <2>3, <2>4, <2>6 DEF Spaced
  <2>7. ASSUME op.pc \in {"store", "mark"}, op.room PROVE UsedSize' + op.size <= Limit
      BY <1>0, <2>3, <2>4, <2>7 DEF Spaced
  <2> QED
      BY <2>1, <2>5, <2>6, <2>7 DEF Spaced, Taken
<1>15. CASE Restart
  <2>1. /\ row' = row /\ op'.pc = "idle"
        /\ excess' = IF op.pc = "update" /\ op.room /\ Known(op.path) /\ row[op.path].size > op.size
                     THEN excess + (row[op.path].size - op.size) ELSE excess
      BY <1>15 DEF Restart, NoOp
  <2>2. UsedSize' = UsedSize
      BY <2>1, UsedStays
  <2>3. CASE op.pc = "update" /\ op.room
    <3>1. op.path \in Files /\ UsedSize + op.size <= Limit + excess + Charge(row[op.path])
        BY <1>0, <2>3 DEF Spaced, Taken, Typed
    <3>2. /\ Charge(row[op.path]) \in Nat
          /\ Known(op.path) => Charge(row[op.path]) <= row[op.path].size /\ row[op.path].size \in Nat
          /\ ~Known(op.path) => Charge(row[op.path]) = 0
      <4>1. Known(op.path) => row[op.path].size \in Nat
          BY <1>0, <3>1, KnownRow, SizesAssumption DEF Row
      <4> QED
          BY <1>0, <3>1, <4>1, ChargeNow DEF Cached, Known
    <3>3. UsedSize <= Limit + excess'
        BY <1>0, <2>1, <2>3, <3>1, <3>2
    <3> QED
        BY <2>1, <2>2, <3>3 DEF Spaced
  <2>4. CASE op.pc # "update" \/ ~op.room
    <3>1. excess' = excess
        BY <2>1, <2>4
    <3> QED
        BY <1>0, <2>1, <2>2, <2>4, <3>1 DEF Spaced
  <2> QED
      BY <2>3, <2>4
<1> QED
    BY <1>4, <1>5, <1>6, <1>7, <1>8, <1>9, <1>10, <1>11, <1>12, <1>13, <1>14, <1>15, <1>16
       DEF Next, Continue
-----------------------------------------------------------------------------
(* What is left for a cleanup to evict.                                    *)

\* the paths of a set of entries
Paths(S) == {c.path : c \in S}

LEMMA EntryPath == \A f, w : Entry(f, w).path = f
    BY DEF Entry

LEMMA PathsJoin == \A S, c : Paths(S \cup {c}) = Paths(S) \cup {c.path}
    BY DEF Paths

LEMMA RemainingStays ==
    ASSUME UNCHANGED <<row, policy, op>>, Contents' = Contents
    PROVE  Remaining' = Remaining
    BY DEF Remaining, Scanning, Scanned, CachedFiles, Cached

\* the files in the table, cached and after the row the scan is at
LEMMA ScannedAre == \A f : f \in Scanned <=> f \in Files /\ Cached(f) /\ row[f].id > op.at
    BY DEF Scanned, CachedFiles

\* no row is added or marked and the scan goes on from where it was
LEMMA ScannedFewer ==
    ASSUME Typed, op.at \in Nat, op'.at \in Nat, op'.at >= op.at,
           \A f \in Files : Cached(f)' => Cached(f) /\ row'[f].id = row[f].id
    PROVE  Scanned' \subseteq Scanned
<1>1. \A f \in Files : Cached(f) => row[f].id \in Nat
    BY KnownRow DEF Typed, Cached, Known, Row
<1>2. \A f : f \in Scanned' <=> f \in Files /\ Cached(f)' /\ row'[f].id > op'.at
    BY DEF Scanned, CachedFiles
<1> QED
    BY <1>1, <1>2, ScannedAre

LEMMA PurgeTakes ==
    ASSUME Typed, OpTyped, HeapInUse, Unlisted, IdsDiffer, Accounting, Purge
    PROVE  /\ Remaining' \subseteq Remaining
           /\ op'.victim.path \in Remaining \ Remaining'
<1>1. PICK c \in Candidates :
         /\ Foremost(c)
         /\ op' = [op EXCEPT !.pc = "evict", !.victim = c,
                             !.at = IF policy = "FIFO" THEN row[c.path].id ELSE 1,
                             !.snap = After(c)]
    BY DEF Purge
<1>2. /\ op.pc = "purge" /\ op'.pc = "evict" /\ op'.victim = c
      /\ op'.at = (IF policy = "FIFO" THEN row[c.path].id ELSE 1)
      /\ op'.snap = (IF policy = "FIFO" THEN {} ELSE Candidates \ {c})
      /\ row' = row /\ policy' = policy /\ Contents' = {} /\ Contents = {} /\ policy # "QLFUSS"
    BY <1>1, SameHeap DEF Purge, After, Typed, OpFields, HeapInUse, Unlisted
<1>3. \A f : f \in Scanned' <=> f \in Files /\ Cached(f) /\ row[f].id > op'.at
    BY <1>2 DEF Scanned, CachedFiles, Cached
<1>4. Remaining' = (IF policy = "FIFO" THEN Scanned' ELSE Paths(Candidates \ {c}))
    BY <1>2 DEF Remaining, Scanning, Paths
<1>5. CASE policy = "FIFO"
  <2>1. op.snap = {} /\ Candidates = {Entry(f, 0) : f \in Scanned}
      BY <1>5 DEF Unlisted, Candidates
  <2>2. c.path \in Scanned
      BY <2>1 DEF Entry
  <2>3. Remaining = Scanned
      BY <1>2, <1>5, <2>1 DEF Remaining, Scanning
  <2>4. row[c.path].id \in Nat /\ op'.at = row[c.path].id /\ op'.at >= op.at /\ op.at \in Nat
    <3>1. row[c.path].id \in Nat /\ row[c.path].id > op.at
        BY <2>2, ScannedAre, KnownRow DEF Typed, Cached, Known, Row
    <3> QED
        BY <1>2, <1>5, <3>1 DEF OpTyped
  <2>5. Scanned' \subseteq Scanned
      BY <1>2, <2>4, ScannedFewer DEF Cached
  <2>6. c.path \notin Scanned'
      BY <1>3, <2>4
  <2> QED
      BY <1>2, <1>4, <1>5, <2>2, <2>3, <2>5, <2>6
<1>6. CASE policy # "FIFO"
  <2>1. Remaining = Paths(Candidates)
    <3>1. CASE op.at = 0
      <4>1. op.snap = {} /\ Candidates = {Entry(f, Key(f)) : f \in CachedFiles}
          BY <1>6, <3>1 DEF Unlisted, Candidates
      <4>2. Scanned = CachedFiles
        <5>1. \A f \in CachedFiles : row[f].id > 0
            BY KnownRow DEF Typed, CachedFiles, Cached, Known, Row
        <5> QED
            BY <3>1, <5>1 DEF Scanned
      <4>3. Paths(Candidates) = CachedFiles
          BY <4>1, EntryPath DEF Paths
      <4> QED
          BY <1>2, <3>1, <4>1, <4>2, <4>3 DEF Remaining, Scanning
    <3>2. CASE op.at # 0
        BY <1>2, <1>6, <3>2 DEF Remaining, Scanning, Candidates, Paths
    <3> QED
        BY <3>1, <3>2
  <2>2. \A d, e \in Candidates : d.path = e.path => d = e
      BY <1>2, CandidatesFit
  <2> QED
      BY <1>2, <1>4, <1>6, <2>1, <2>2 DEF Paths
<1> QED
    BY <1>5, <1>6

LEMMA BuildLeaves ==
    ASSUME Typed, OpTyped, HeapInUse, Unlisted, HeapInv, Build
    PROVE  Remaining' \subseteq Remaining
<1>1. PICK f \in Files :
         /\ Cached(f) /\ row[f].id > op.at
         /\ \A g \in Files : Cached(g) /\ row[g].id > op.at => row[f].id <= row[g].id
         /\ Contents' = Contents \cup {Entry(f, row[f].rank)}
         /\ op' = [op EXCEPT !.at = row[f].id]
    BY BuildAdds
<1>2. /\ op.pc = "build" /\ op'.pc = "build" /\ op'.snap = {} /\ op.snap = {} /\ op'.at = row[f].id
      /\ row' = row /\ policy' = policy
    BY <1>1 DEF Build, Typed, OpFields, Unlisted
<1>3. op.at \in Nat /\ row[f].id \in Nat
    BY <1>1, KnownRow DEF OpTyped, Typed, Cached, Known, Row
<1>4. Scanned' \subseteq Scanned
    BY <1>1, <1>2, <1>3, ScannedFewer DEF Cached
<1>5. f \in Scanned
    BY <1>1, ScannedAre
<1>6. Remaining = Scanned \cup Paths(Contents) /\ Remaining' = Scanned' \cup Paths(Contents')
    BY <1>2 DEF Remaining, Scanning, Paths
<1>7. Paths(Contents') = Paths(Contents) \cup {f}
    BY <1>1, EntryPath, PathsJoin
<1> QED
    BY <1>4, <1>5, <1>6, <1>7

LEMMA PollTakesOne ==
    ASSUME Typed, HeapInUse, Unlisted, HeapInv, Accounting, Poll
    PROVE  /\ Remaining' \subseteq Remaining
           /\ op'.victim.path \in Remaining \ Remaining'
<1> DEFINE c == root[1]
<1>1. c \in Contents /\ Contents' = Contents \ {c}
    BY PollTakes DEF Poll
<1>2. /\ op.pc = "poll" /\ op'.pc = "evict" /\ op'.snap = {} /\ op.snap = {} /\ op'.victim = c
      /\ policy' = policy /\ policy = "QLFUSS"
    BY DEF Poll, Typed, OpFields, Unlisted, HeapInUse
<1> HIDE DEF c
<1>3. Remaining = Paths(Contents) /\ Remaining' = Paths(Contents')
    BY <1>2 DEF Remaining, Scanning, Paths
<1>4. \A d, e \in Contents : d.path = e.path => d = e
    BY DEF Accounting, Listings, Listing
<1> QED
    BY <1>1, <1>2, <1>3, <1>4 DEF Paths

\* a step that goes on where it was and takes no victim
LEMMA OthersLeave ==
    ASSUME Typed, OpTyped, UNCHANGED policy, op'.at = op.at, op'.snap = op.snap, Contents' = Contents,
           Scanning' => Scanning,
           \A f \in Files : Cached(f)' => Cached(f) /\ row'[f].id = row[f].id
    PROVE  Remaining' \subseteq Remaining
<1>1. op.at \in Nat /\ op'.at >= op.at
    BY DEF OpTyped
<1>2. Scanned' \subseteq Scanned
    BY <1>1, ScannedFewer
<1> QED
    BY <1>2 DEF Remaining

LEMMA TakenOnce ==
    ASSUME SpaceInv, HeapInv, LimitInv, [Next]_vars, op.pc \in Cleaning, op'.pc \in Cleaning
    PROVE  /\ Remaining' \subseteq Remaining
           /\ op.pc # "evict" /\ op'.pc = "evict" => op'.victim.path \in Remaining \ Remaining'
<1>0. /\ Typed /\ Victims /\ OpTyped /\ HeapInUse /\ Unlisted /\ IdsDiffer /\ Accounting /\ OpFields
    BY DEF SpaceInv, LimitInv, Ranged, Accounting, Typed
<1>1. CleaningSteps
    BY <1>0, CleaningGoesOn
<1>2. ~(Contains /\ op.pc = "contains")
    BY DEF Cleaning
<1>3. CASE Purge
    BY <1>0, <1>3, PurgeTakes
<1>4. CASE Poll
    BY <1>0, <1>4, PollTakesOne
<1>5. CASE Build
  <2>1. op'.pc = op.pc
      BY <1>0, <1>5 DEF Build, OpFields
  <2> QED
      BY <1>0, <1>5, <2>1, BuildLeaves
<1>6. CASE RepairHeap \/ (\E f \in Files : RescuerUnlinks(f)) \/ UNCHANGED vars
  <2>1. UNCHANGED <<row, policy, op>> /\ Contents' = Contents
    <3>1. CASE RepairHeap
        BY <3>1, RepairStutters DEF RepairHeap, spaceVars
    <3>2. CASE (\E f \in Files : RescuerUnlinks(f)) \/ UNCHANGED vars
        BY <3>2, SameHeap DEF RescuerUnlinks, vars, spaceVars
    <3> QED
        BY <1>6, <3>1, <3>2
  <2> QED
      BY <2>1, RemainingStays
<1>7. CASE (AskHits /\ op.pc = "ask" /\ op' = [op EXCEPT !.pc = "build"]) \/ GetUsedSize \/ BuildEnds \/ Evict
  <2>1. /\ UNCHANGED <<row, policy>> /\ Contents' = Contents /\ op'.at = op.at /\ op'.snap = op.snap
        /\ op'.pc # "evict"
      BY <1>0, <1>7, SameHeap DEF AskHits, GetUsedSize, BuildEnds, Evict, Goto, OpFields
  <2>2. Scanning' => Scanning
      BY <1>0, <1>7 DEF AskHits, GetUsedSize, BuildEnds, Evict, Goto, OpFields, Scanning, Unlisted, HeapInUse
  <2> QED
      BY <1>0, <2>1, <2>2, OthersLeave DEF Cached
<1>8. CASE Uncache
  <2>1. /\ UNCHANGED policy /\ Contents' = Contents /\ op'.at = op.at /\ op'.snap = op.snap
        /\ op.pc = "uncache" /\ op'.pc = IF policy = "QLFUSS" THEN "poll" ELSE "purge"
      BY <1>0, <1>8, SameHeap DEF Uncache, OpFields
  <2>2. \A f \in Files : Cached(f)' => Cached(f) /\ row'[f].id = row[f].id
      BY <1>0, <1>8, UncacheBecomes DEF Becomes, Alike, Cached
  <2>3. Scanning' => Scanning
      BY <2>1 DEF Scanning
  <2> QED
      BY <1>0, <2>1, <2>2, <2>3, OthersLeave
<1>9. CASE RescuerRemoves
  <2>1. /\ UNCHANGED policy /\ Contents' = Contents /\ op'.at = op.at /\ op'.snap = op.snap /\ op'.pc = op.pc
        /\ row' = [row EXCEPT ![gone] = NoRow]
      BY <1>0, <1>9, SameHeap DEF RescuerRemoves, OpFields
  <2>2. \A f \in Files : Cached(f)' => Cached(f) /\ row'[f].id = row[f].id
      BY <1>0, <2>1 DEF Typed, Rows, Cached
  <2>3. Scanning' => Scanning
      BY <2>1 DEF Scanning
  <2> QED
      BY <1>0, <2>1, <2>2, <2>3, OthersLeave
<1> QED
    BY <1>1, <1>2, <1>3, <1>4, <1>5, <1>6, <1>7, <1>8, <1>9 DEF CleaningSteps
-----------------------------------------------------------------------------
(* The theorems.                                                           *)

LEMMA InitLimitInv == Init => LimitInv
<1> SUFFICES ASSUME Init PROVE LimitInv
    OBVIOUS
<1>1. Typed /\ SpaceInv /\ op = NoOp /\ excess = 0 /\ policy \in Policies /\ pending = FALSE
    BY InitTyped, InitSpaceInv DEF Init
<1>2. /\ op.pc = "idle" /\ op.snap = {} /\ op.at = 0 /\ op.used = 0 /\ op.lost = 0
      /\ op.opened = FALSE /\ op.room = FALSE /\ op.victim = NULL
    BY <1>1 DEF NoOp
<1>3. PICK cached \in SUBSET Files, rank \in Rankings :
         row = [f \in Files |-> [id |-> f, size |-> Listed[f], cached |-> f \in cached,
                                 hits |-> 0,
                                 rank |-> IF Ranked THEN rank[f] ELSE 0]]
    BY DEF Init
<1>4. UsedSize \in Filled .. Limit
    BY DEF Init
<1>5. \A f \in Files : row[f].id = f
    BY <1>3
<1>6. Ranged
  <2>1. OpTyped
      BY <1>1 DEF OpTyped, NoOp
  <2> QED
      BY <1>1, <2>1 DEF Ranged
<1>7. IdsDiffer
    BY <1>5 DEF IdsDiffer
<1>8. Unlisted
    BY <1>2 DEF Unlisted, Cleaning
<1>9. Accounting
    BY <1>1, <1>2, <1>8, NothingListed DEF SpaceInv, Cleaning, Accounting
<1>10. Spaced /\ HeapLasts
    BY <1>1, <1>2, <1>4, SizesAssumption DEF Spaced, HeapLasts
<1> QED
    BY <1>6, <1>7, <1>8, <1>9, <1>10 DEF LimitInv, Accounting

LEMMA LimitInvKept == SpaceInv /\ HeapInv /\ LimitInv /\ [Next]_vars => LimitInv'
<1> SUFFICES ASSUME SpaceInv, HeapInv, LimitInv, [Next]_vars PROVE LimitInv'
    OBVIOUS
<1>1. Typed /\ Victims /\ HeapInUse /\ Ranged /\ IdsDiffer /\ Unlisted /\ Accounted
    BY DEF SpaceInv, LimitInv, Ranged
<1>2. Ranged' /\ IdsDiffer' /\ Unlisted'
    BY <1>1, RangedKept, RowsFit, UnlistedKept
<1>3. Accounting' /\ Spaced' /\ HeapLasts'
    BY AccountingKept, SpacedKept, HeapLastsKept
<1> QED
    BY <1>2, <1>3 DEF LimitInv, Accounting

LEMMA LimitInvHolds == Spec => [](SpaceInv /\ LimitInv)
<1>1. Init => SpaceInv /\ HeapInv /\ LimitInv
    BY InitSpaceInv, InitInv, InitLimitInv DEF Init
<1>2. SpaceInv /\ HeapInv /\ LimitInv /\ [Next]_vars => (SpaceInv /\ HeapInv /\ LimitInv)'
    BY SpaceInvKept, LimitInvKept
<1> QED
    BY <1>1, <1>2, PTL DEF Spec

(* The columns keep their types whatever the policy stores in them and      *)
(* however often the trigger halves; the sum that purge_file counts down is *)
(* never negative; and the entries it evicts by are those of files with a   *)
(* size and a weight.                                                       *)
THEOREM TypeCorrect == Spec => []TypeOK
<1>1. SpaceInv /\ LimitInv => TypeOK
  <2> SUFFICES ASSUME Typed, Ranged PROVE TypeOK
      BY DEF SpaceInv, LimitInv
  <2>1. op \in [pc : Cleaning \cup {"idle", "contains", "store", "mark", "update", "count", "dead"},
                path : Files \cup {0}, size : Sizes, opened : BOOLEAN, room : BOOLEAN,
                used : Nat, lost : Nat, at : Nat, snap : SUBSET [path : Files, size : Sizes, weight : Nat],
                victim : [path : Files, size : Sizes, weight : Nat] \cup {NULL}]
      BY DEF Typed, OpFields, Ranged, OpTyped, Entries
  <2> QED
      BY <2>1 DEF Typed, Ranged, Rows, TypeOK
<1> QED
    BY <1>1, LimitInvHolds, PTL

(* The files marked as cached take no more than the limit and the excess   *)
(* that is accounted for, and a cleanup leaves room for the file it was    *)
(* called for.                                                             *)
THEOREM LimitKept == Spec => []WithinLimit
<1>1. SpaceInv /\ LimitInv => WithinLimit
    BY DEF LimitInv, Spaced, WithinLimit
<1> QED
    BY <1>1, LimitInvHolds, PTL

(* qlfuss polls an empty heap only if the rescuer has removed more than the *)
(* half of the limit between the sum of the sizes and the scan.             *)
THEOREM HeapRunsDryByRescuerOnly == Spec => []HeapLasts
<1>1. SpaceInv /\ LimitInv => HeapLasts
    BY DEF LimitInv
<1> QED
    BY <1>1, LimitInvHolds, PTL

(* A cleanup evicts no file twice, and only files it had found cached: what  *)
(* is left for it to evict grows in no step, and loses each file it chooses, *)
(* in all six policies and whatever the rescuer removes meanwhile.           *)
THEOREM NoneTwiceHolds == Spec => NoneTwice
<1>1. SpaceInv /\ HeapInv /\ LimitInv /\ [Next]_vars =>
        [op.pc \in Cleaning /\ op'.pc \in Cleaning =>
           /\ Remaining' \subseteq Remaining
           /\ op.pc # "evict" /\ op'.pc = "evict" => op'.victim.path \in Remaining \ Remaining']_vars
    BY TakenOnce
<1> QED
    BY <1>1, LimitInvHolds, HeapInCache, PTL DEF Spec, NoneTwice
=============================================================================
