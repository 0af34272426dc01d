---------------------------- MODULE OpLogProofs ----------------------------
(****************************************************************************)
(* Proofs about OpLog, for any tree of paths and any bounds: the types, and *)
(* that a removal the server did not hear of is remembered.                 *)
(****************************************************************************)
EXTENDS OpLog, NumberProofs

Entries == [row : Nat \ {0}, path : Paths, new : Paths \cup {NULL}, action : Actions]
Requests == Creates \cup Removes \cup {"MOVE", "CHMOD", "READDIR", "OPEN"}

\* the paths that a rename of p to q may bring into being
Targets(p, q) == Moved({c \in Paths : Within(c, p)}, p, q)

\* q is a path that p may be renamed to
Fits(p, q) == q \in Paths /\ (p \in Dirs => q \in Dirs)
-----------------------------------------------------------------------------
(* Renames.                                                                *)

LEMMA RebaseFits ==
    ASSUME NEW p \in Paths, NEW q, Fits(p, q), NEW c \in Paths
    PROVE  /\ Rebase(c, p, q) \in Paths
           /\ Within(c, p) => Rebase(c, p, q) \in Targets(p, q)
           /\ ~Within(c, p) => Rebase(c, p, q) = c
<1>1. Within(c, p) => Rebase(c, p, q) \in Paths
    BY TreeAssumption DEF Fits
<1>2. ~Within(c, p) => Rebase(c, p, q) = c
    BY DEF Rebase
<1>3. Within(c, p) => Rebase(c, p, q) \in Targets(p, q)
    BY DEF Targets, Moved
<1> QED
    BY <1>1, <1>2, <1>3

LEMMA MovedFits ==
    ASSUME NEW p \in Paths, NEW q, Fits(p, q), NEW S \in SUBSET Paths
    PROVE  Moved(S, p, q) \subseteq Paths /\ Moved(S, p, q) \ S \subseteq Targets(p, q)
    BY RebaseFits DEF Moved

LEMMA RenameFits ==
    ASSUME NEW p \in Paths, NEW q, Fits(p, q), NEW S \in SUBSET Paths
    PROVE  CacheRename(S, p, q) \subseteq Paths
<1> DEFINE rest == S \ {q}
           subtree == {c \in rest : Within(c, p)}
<1>1. Moved(subtree, p, q) \subseteq Paths
    BY MovedFits
<1> QED
    BY <1>1 DEF CacheRename
-----------------------------------------------------------------------------
(* What the server may answer, and the names it has then.                  *)

LEMMA PerformFacts ==
    ASSUME srv \subseteq Paths, NEW a \in Requests, NEW p, NEW q,
           p \in Paths \/ a = "READDIR", a = "MOVE" => Fits(p, q),
           NEW r \in Perform(a, p, q)
    PROVE  /\ r[1] \in Answers
           /\ r[2] \subseteq Paths
           /\ \A x \in r[2] \ srv : \/ a \in Creates \cup {"OPEN"} /\ x = p
                                    \/ a = "MOVE" /\ x \in Targets(p, q)
           /\ a \in Removes /\ Verdict(r[1]) = "delete" => p \notin r[2]
<1>1. CASE a \in Creates \cup {"OPEN"}
    BY <1>1 DEF Perform, Creates, Removes, Answers, AlreadyThere, Requests
<1>2. CASE a \in Removes
    BY <1>2 DEF Perform, Creates, Removes, Answers, NoSuch, Verdict, Outdated, Exists
<1>3. CASE a = "MOVE"
    BY <1>3, MovedFits DEF Perform, Creates, Removes, Answers, NoSuch, AlreadyThere
<1>4. CASE a \in {"CHMOD", "READDIR"}
    BY <1>4 DEF Perform, Creates, Removes, Answers, NoSuch
<1> QED
    BY <1>1, <1>2, <1>3, <1>4 DEF Requests

LEMMA AskFacts ==
    ASSUME srv \subseteq Paths, online \in BOOLEAN, NEW a \in Requests, NEW p, NEW q,
           p \in Paths \/ a = "READDIR", a = "MOVE" => Fits(p, q),
           NEW res, Ask(a, p, q, res)
    PROVE  /\ res \in Answers /\ online' \in BOOLEAN
           /\ srv' \subseteq Paths
           /\ \A x \in srv' \ srv : \/ a \in Creates \cup {"OPEN"} /\ x = p
                                    \/ a = "MOVE" /\ x \in Targets(p, q)
           /\ a \in Removes /\ Verdict(res) = "delete" => p \notin srv'
<1>1. CASE \E r \in Perform(a, p, q) : res = r[1] /\ srv' = r[2] /\ UNCHANGED online
    BY <1>1, PerformFacts
<1>2. Verdict("NETWORK") # "delete" /\ "NETWORK" \in Answers
    BY DEF Verdict, Outdated, Answers
<1>3. CASE srv' = srv /\ res = "NETWORK" /\ online' \in BOOLEAN
    BY <1>2, <1>3
<1>4. CASE (\E r \in Perform(a, p, q) : srv' = r[2]) /\ res = "NETWORK"
           /\ online' \in BOOLEAN
    BY <1>2, <1>4, PerformFacts
<1> QED
    BY <1>1, <1>3, <1>4 DEF Ask
-----------------------------------------------------------------------------
(* The log: its types and constraints, and what its entries are about.     *)

KeysHold(L) ==
    /\ L \subseteq Entries /\ IsFiniteSet(L)
    /\ Unique(L) /\ \A e, f \in L : e.row = f.row => e = f

\* an entry names a target it may be renamed to; what is to be created is anew
MeansWell(e) ==
    /\ e.new # NULL => Fits(e.path, e.new)
    /\ e.action = "MOVE" => e.new # NULL
    /\ e.action \in Creates => e.new = NULL /\ e.path \in anew

LogInv(L) == KeysHold(L) /\ \A e \in L : MeansWell(e)

\* L is told of the operation "a" on p, with the target q
Tells(p, q, a) ==
    /\ p \in Paths
    /\ a \in Creates \cup Removes \cup {"MOVE", "CHMOD"}
    /\ a = "MOVE" => Fits(p, q) /\ Targets(p, q) \subseteq anew
    /\ a # "MOVE" => q = NULL
    /\ a \in Creates => p \in anew

(* A removal that the log holds is held by M too, unless the path is anew.  *)
KeepsRemovals(L, M) ==
    \A e \in L : e.action \in Removes /\ e.path \notin anew =>
        \E f \in M : f.path = e.path /\ f.action \in Removes

LEMMA SmallerLog ==
    ASSUME NEW L, LogInv(L), NEW M \in SUBSET L
    PROVE  LogInv(M)
    BY FS_Subset DEF LogInv, KeysHold, Unique

LEMMA AppendKeeps ==
    ASSUME NEW L, LogInv(L), NEW p, NEW q, NEW a, Tells(p, q, a),
           Unique(L \cup {Entry(L, p, q, a)})
    PROVE  /\ LogInv(L \cup {Entry(L, p, q, a)})
           /\ Entry(L, p, q, a).path = p /\ Entry(L, p, q, a).action = a
           /\ Entry(L, p, q, a) \notin L
<1> DEFINE Numbers == {e.row : e \in L}
           f == [e \in L |-> e.row]
           new == Entry(L, p, q, a)
<1>1. L \subseteq Entries /\ IsFiniteSet(L) /\ Numbers \in SUBSET Nat
    BY DEF LogInv, KeysHold, Entries
<1>2. IsFiniteSet(Numbers)
  <2>1. Numbers = {f[e] : e \in L} /\ f = [e \in L |-> f[e]]
      OBVIOUS
  <2> HIDE DEF f, Numbers
  <2> QED
      BY <1>1, <2>1, ValuesAreFinite
<1>3. NextRow(L) \in Nat \ {0} /\ \A x \in Numbers : x < NextRow(L)
  <2> HIDE DEF Numbers
  <2>1. /\ 1 + Max({0} \cup Numbers) \in Nat \ {0}
        /\ \A x \in Numbers : x < 1 + Max({0} \cup Numbers)
      BY <1>1, <1>2, NextNumber
  <2> QED
      BY <2>1 DEF NextRow, Numbers
<1>4. \A e \in L : e.row \in Nat /\ e.row < NextRow(L)
    BY <1>1, <1>3
<1>5. new = [row |-> NextRow(L), path |-> p, new |-> q, action |-> a]
    BY DEF Entry
<1>6. new.row = NextRow(L) /\ new.path = p /\ new.new = q /\ new.action = a
    BY <1>5
<1>7. a \in Actions /\ q \in Paths \cup {NULL}
    BY DEF Tells, Fits, Actions, Creates, Removes
<1>8. new \in Entries
    BY <1>3, <1>5, <1>7 DEF Entries, Tells
<1>9. MeansWell(new)
  <2>1. NULL \notin Paths /\ "MOVE" \notin Creates
      BY PathsAssumption DEF Creates
  <2> QED
      BY <1>6, <2>1 DEF MeansWell, Tells, Fits
<1> HIDE DEF new
<1>10. IsFiniteSet(L \cup {new})
    BY <1>1, FS_AddElement
<1>11. \A e, g \in L \cup {new} : e.row = g.row => e = g
  <2>1. \A e \in L : e.row # new.row
      BY <1>3, <1>4, <1>6
  <2> QED
      BY <2>1 DEF LogInv, KeysHold
<1>12. Unique(L \cup {new})
    BY DEF new
<1>13. LogInv(L \cup {new})
    BY <1>1, <1>8, <1>9, <1>10, <1>11, <1>12 DEF LogInv, KeysHold
<1>14. new \notin L
    BY <1>3, <1>4, <1>6
<1> QED
    BY <1>6, <1>13, <1>14 DEF new

LEMMA MergedFacts ==
    ASSUME NEW old \in Actions, NEW a \in Removes \cup {"TOUCH", "CHMOD"}
    PROVE  /\ Merged(old, a) \in Actions
           /\ Merged(old, a) \in Creates \cup {"MOVE"} => Merged(old, a) = old
           /\ a \in Removes => Merged(old, a) = a
           /\ old \in Removes /\ a # "TOUCH" => Merged(old, a) \in Removes
<1>1. CASE a \in Removes
    BY <1>1 DEF Merged, Actions, Removes, Creates
<1>2. CASE a = "TOUCH"
    BY <1>2 DEF Merged, Actions, Removes, Creates
<1>3. CASE a = "CHMOD"
    BY <1>3 DEF Merged, Actions, Removes, Creates
<1> QED
    BY <1>1, <1>2, <1>3

(* An UPDATE: every entry keeps its row.                                   *)
LEMMA ImageKeeps ==
    ASSUME NEW L, LogInv(L), NEW f, f = [e \in L |-> f[e]],
           \A e \in L : f[e] \in Entries /\ f[e].row = e.row /\ MeansWell(f[e]),
           Unique({f[e] : e \in L})
    PROVE  LogInv({f[e] : e \in L})
<1> DEFINE M == {f[e] : e \in L}
<1>1. IsFiniteSet(M)
  <2> HIDE DEF M
  <2> QED
      BY ValuesAreFinite DEF LogInv, KeysHold, M
<1>2. \A x, y \in M : x.row = y.row => x = y
    BY DEF LogInv, KeysHold
<1> QED
    BY <1>1, <1>2 DEF LogInv, KeysHold

LEMMA SetActionKeeps ==
    ASSUME NEW L, LogInv(L), NEW p \in Paths, NEW a \in Removes \cup {"TOUCH", "CHMOD"}
    PROVE  /\ LogInv(SetAction(L, p, a))
           /\ \A e \in L : \E g \in SetAction(L, p, a) :
                /\ g.path = e.path
                /\ g.action = IF e.path = p THEN Merged(e.action, a) ELSE e.action
<1> DEFINE f == [e \in L |-> IF e.path = p THEN [e EXCEPT !.action = Merged(@, a)] ELSE e]
<1>1. SetAction(L, p, a) = {f[e] : e \in L} /\ f = [e \in L |-> f[e]]
    BY DEF SetAction
<1>2. \A e \in L : e \in Entries /\ MeansWell(e)
    BY DEF LogInv, KeysHold
<1>3. ASSUME NEW e \in L
      PROVE  /\ f[e] \in Entries /\ f[e].row = e.row /\ f[e].path = e.path /\ f[e].new = e.new
             /\ f[e].action = IF e.path = p THEN Merged(e.action, a) ELSE e.action
  <2>1. Merged(e.action, a) \in Actions
      BY <1>2, MergedFacts DEF Entries
  <2>2. f[e] = IF e.path = p THEN [e EXCEPT !.action = Merged(e.action, a)] ELSE e
      OBVIOUS
  <2> HIDE DEF f
  <2> QED
      BY <1>2, <2>1, <2>2 DEF Entries
<1>4. ASSUME NEW e \in L PROVE MeansWell(f[e])
  <2>1. e.action \in Actions /\ MeansWell(e)
      BY <1>2 DEF Entries
  <2>2. f[e].action \in Creates \cup {"MOVE"} => f[e].action = e.action
      BY <1>3, <2>1, MergedFacts
  <2> HIDE DEF f
  <2> QED
      BY <1>3, <2>1, <2>2 DEF MeansWell
<1> HIDE DEF f
<1>5. Unique({f[e] : e \in L})
    BY <1>3 DEF LogInv, KeysHold, Unique
<1> QED
    BY <1>1, <1>3, <1>4, <1>5, ImageKeeps

(* A pattern matches what lies below directories only.                     *)
LEMMA MatchBelowDir ==
    ASSUME NEW c \in Paths, NEW p \in Paths, LikeBelow(c, p)
    PROVE  p \in Dirs
<1>1. PICK q \in Paths : Matches(q, p) /\ Below(c, q)
    BY DEF LikeBelow
<1>2. q \in Dirs
    BY <1>1, TreeAssumption
<1>3. <<p, q>> \in Like => (p \in Dirs <=> q \in Dirs)
    BY PathsAssumption
<1> QED
    BY <1>1, <1>2, <1>3 DEF Matches

LEMMA MoveKeeps ==
    ASSUME NEW L, LogInv(L), NEW p, NEW q, Tells(p, q, "MOVE")
    PROVE  LogInv(LogMove(L, p, q)) /\ KeepsRemovals(L, LogMove(L, p, q))
<1> DEFINE f == [e \in L |-> MovedEntry(e, p, q)]
           M == {f[e] : e \in L}
<1>1. M = {MovedEntry(e, p, q) : e \in L} /\ f = [e \in L |-> f[e]]
    OBVIOUS
<1>2. \A e \in L : e \in Entries /\ MeansWell(e)
    BY DEF LogInv, KeysHold
<1>3. p \in Paths /\ Fits(p, q) /\ Targets(p, q) \subseteq anew
    BY DEF Tells
<1>4. ASSUME NEW e \in L
      PROVE  /\ f[e] \in Entries /\ f[e].row = e.row /\ MeansWell(f[e])
             /\ f[e].action = e.action
             /\ e.action \notin Creates => f[e].path = e.path
  <2>1. f[e] = MovedEntry(e, p, q) /\ e \in Entries /\ MeansWell(e)
      BY <1>2
  <2> HIDE DEF f
  <2>2. CASE e.path # p /\ ~LikeBelow(e.path, p)
      BY <2>1, <2>2 DEF MovedEntry
  <2>3. CASE (e.path = p \/ LikeBelow(e.path, p)) /\ e.action \in Creates
    <3>1. Rebase(e.path, p, q) \in Paths \cap anew
      <4>1. e.path \in Paths \cap anew
          BY <2>1, <2>3 DEF Entries, MeansWell
      <4> QED
          BY <1>3, <4>1, RebaseFits
    <3>2. f[e] = [e EXCEPT !.path = Rebase(e.path, p, q)]
        BY <2>1, <2>3 DEF MovedEntry
    <3> QED
        BY <2>1, <2>3, <3>1, <3>2 DEF Entries, MeansWell, Creates
  <2>4. CASE (e.path = p \/ LikeBelow(e.path, p)) /\ e.action \notin Creates
    <3>1. f[e] = [e EXCEPT !.new = q]
        BY <2>1, <2>4 DEF MovedEntry
    <3>2. LikeBelow(e.path, p) => p \in Dirs
        BY <1>3, <2>1, MatchBelowDir DEF Entries
    <3>3. Fits(e.path, q)
        BY <1>3, <2>4, <3>2 DEF Fits
    <3>4. q \in Paths /\ NULL \notin Paths
        BY <1>3, PathsAssumption DEF Fits
    <3> QED
        BY <2>1, <2>4, <3>1, <3>3, <3>4 DEF Entries, MeansWell
  <2> QED
      BY <2>2, <2>3, <2>4
<1>5. Removes \cap Creates = {}
    BY DEF Removes, Creates
<1>6. KeepsRemovals(L, M)
  <2> HIDE DEF f
  <2> QED
      BY <1>4, <1>5 DEF KeepsRemovals
<1>7. CASE Unique(M)
  <2>1. LogMove(L, p, q) = M
      BY <1>1, <1>7 DEF LogMove
  <2> HIDE DEF f
  <2>2. LogInv(M)
      BY <1>1, <1>4, <1>7, ImageKeeps
  <2> QED
      BY <1>6, <2>1, <2>2
<1>8. CASE ~Unique(M)
    BY <1>1, <1>8 DEF LogMove, KeepsRemovals
<1> QED
    BY <1>7, <1>8

(* The INSERT of cache_log: the entry is there, or a constraint refuses it, *)
(* which an operation without a target owes to an entry of its path.        *)
LEMMA InsertKeeps ==
    ASSUME NEW L, LogInv(L), NEW p, NEW q, NEW a, Tells(p, q, a)
    PROVE  /\ LogInv(Insert(L, p, q, a)) /\ KeepsRemovals(L, Insert(L, p, q, a))
           /\ Insert(L, p, q, a) # L =>
                \E e \in Insert(L, p, q, a) : e.path = p /\ e.action = a
           /\ Insert(L, p, q, a) = L /\ a # "MOVE" => \E e \in L : e.path = p
<1> DEFINE new == Entry(L, p, q, a)
           M == L \cup {new}
<1>1. CASE Unique(M)
  <2>1. LogInv(M) /\ new.path = p /\ new.action = a /\ new \notin L
      BY <1>1, AppendKeeps
  <2>2. Insert(L, p, q, a) = M
      BY <1>1 DEF Insert
  <2> HIDE DEF new
  <2> QED
      BY <2>1, <2>2 DEF KeepsRemovals
<1>2. CASE ~Unique(M)
  <2>1. Insert(L, p, q, a) = L
      BY <1>2 DEF Insert
  <2>2. ASSUME a # "MOVE" PROVE \E e \in L : e.path = p
    <3>1. new.path = p /\ new.new = NULL
        BY <2>2 DEF Entry, Tells
    <3> HIDE DEF new
    <3> QED
        BY <1>2, <3>1 DEF Unique, LogInv, KeysHold
  <2> QED
      BY <2>1, <2>2 DEF KeepsRemovals
<1> QED
    BY <1>1, <1>2

(* The UPDATE of the conflict solver turns the entry into the removal.      *)
LEMMA MergeKeeps ==
    ASSUME NEW L, LogInv(L), NEW p \in Paths, NEW a \in Removes
    PROVE  /\ LogInv(SetAction(L, p, a)) /\ KeepsRemovals(L, SetAction(L, p, a))
           /\ (\E e \in L : e.path = p) =>
                \E e \in SetAction(L, p, a) : e.path = p /\ e.action \in Removes
<1>1. \A x \in L : x \in Entries
    BY DEF LogInv, KeysHold
<1>2. LogInv(SetAction(L, p, a))
    BY SetActionKeeps
<1>3. \A x \in L : \E g \in SetAction(L, p, a) :
         /\ g.path = x.path
         /\ g.action = IF x.path = p THEN Merged(x.action, a) ELSE x.action
    BY SetActionKeeps
<1>4. \A x \in L : Merged(x.action, a) = a
    BY <1>1, MergedFacts DEF Entries
<1>5. KeepsRemovals(L, SetAction(L, p, a))
    BY <1>3, <1>4 DEF KeepsRemovals
<1>6. (\E e \in L : e.path = p) =>
         \E e \in SetAction(L, p, a) : e.path = p /\ e.action \in Removes
    BY <1>3, <1>4
<1> QED
    BY <1>2, <1>5, <1>6

(* The first statement of the conflict solver keeps the log in order and   *)
(* the removals in it, and deletes only what is anew.                      *)
LEMMA SolveKeeps ==
    ASSUME NEW L, LogInv(L), NEW p, NEW q, NEW a, Tells(p, q, a)
    PROVE  /\ LogInv(Solve(L, p, q, a)) /\ KeepsRemovals(L, Solve(L, p, q, a))
           /\ a \in Removes /\ p \notin anew => Solve(L, p, q, a) = L
<1>1. \A e \in L : e \in Entries
    BY DEF LogInv, KeysHold
<1>2. p \in Paths
    BY DEF Tells
<1>3. CASE a = "MKDIR"
    BY <1>3 DEF Solve, Removes, KeepsRemovals
<1>4. CASE a = "MOVE"
    BY <1>4, MoveKeeps DEF Solve, Removes
<1>5. CASE a \in {"TOUCH", "CHMOD"}
  <2>1. Solve(L, p, q, a) = SetAction(L, p, a)
      BY <1>5 DEF Solve, Removes
  <2>2. a = "TOUCH" => p \in anew
      BY DEF Tells, Creates
  <2>3. KeepsRemovals(L, SetAction(L, p, a))
      BY <1>1, <1>2, <1>5, <2>2, SetActionKeeps, MergedFacts DEF KeepsRemovals, Entries
  <2> QED
      BY <1>2, <1>5, <2>1, <2>3, SetActionKeeps DEF Removes
<1>6. CASE a \in Removes
  <2>1. Solve(L, p, q, a) = Annihilate(L, p) /\ Annihilate(L, p) \subseteq L
      BY <1>6 DEF Solve, Removes, Annihilate
  <2>2. p \notin anew => Annihilate(L, p) = L
      BY DEF Annihilate, LogInv, MeansWell
  <2>3. KeepsRemovals(L, Annihilate(L, p))
      BY DEF KeepsRemovals, Annihilate, Removes, Creates
  <2> QED
      BY <2>1, <2>2, <2>3, SmallerLog
<1> QED
    BY <1>3, <1>4, <1>5, <1>6 DEF Tells, Creates
-----------------------------------------------------------------------------
(* The inductive invariant.                                                *)

(* What the operation in progress is about.                                *)
OpInv ==
    /\ op.step = "idle" => op = NoOp
    /\ op.step # "idle" =>
         /\ op.cmd \in AllCommands
         /\ op.cmd = "READDIR" \/ op.path \in Paths
         /\ op.cmd = "MOVE" => Fits(op.path, op.new) /\ Targets(op.path, op.new) \subseteq anew
         /\ op.cmd # "MOVE" => op.new = NULL
         /\ op.cmd \in Creates => op.path \in anew
    /\ op.step = "apply" => op.cmd \in {"MOVE", "READDIR"}
    /\ op.step \in {"log", "solve"} => op.cmd # "READDIR"
    /\ op.step \in {"changes", "merge"} => op.cmd \in Removes

(* What the conflict solver is about to do will log the removal, unless the *)
(* rescuer has made it forget.                                              *)
MergeInv ==
    op.cmd \in Removes /\ Solving /\ op.path \notin anew \cup mislaid =>
        /\ \E e \in log : e.path = op.path
        /\ op.step = "changes" => op.hit = FALSE

(* What the rescuer is about to replay, or has replayed and is to delete:  *)
(* a removal that succeeded has left no such name, or one that came anew.  *)
SyncInv ==
    /\ sync.pc \in {"send", "delete"} =>
         /\ sync.path \in Paths /\ sync.action \in Actions
         /\ sync.action = "MOVE" => Fits(sync.path, sync.new)
    /\ sync.pc = "delete" /\ sync.action \in Removes =>
         sync.path \notin srv \/ sync.path \in anew

(* The removal that is about to be logged is the one of the operation.     *)
Logging == op.step = "log" \/ Solving
Remembered ==
    \A p \in owed \ (anew \cup mislaid) :
        \/ Logged(p, Removes)
        \/ Logging /\ op.path = p /\ op.cmd \in Removes

IInv == TypeOK /\ LogInv(log) /\ OpInv /\ MergeInv /\ SyncInv /\ Remembered

OpType ==
    [cmd : Commands \cup {"NONE"}, path : Paths \cup {NULL, <<>>}, new : Paths \cup {NULL},
     step : {"idle", "ask", "chmod", "apply", "log", "solve", "changes", "merge"},
     seen : SUBSET Paths, hit : BOOLEAN]
SyncType ==
    [pc : {"idle", "scan", "send", "delete", "modified"}, at : Nat, path : Paths \cup {NULL},
     new : Paths \cup {NULL}, action : Actions \cup {"NONE"}]

\* TypeOK, but for the log
OthersOK ==
    /\ rows \subseteq Paths /\ srv \subseteq Paths /\ online \in BOOLEAN
    /\ op \in OpType /\ sync \in SyncType
    /\ sync.pc \in {"send", "delete"} => sync.path # NULL /\ sync.action # "NONE"
    /\ budget \in [ops : 0 .. MaxOps, foreign : 0 .. MaxForeign]
    /\ anew \subseteq Paths /\ owed \subseteq srv /\ mislaid \subseteq Paths

LEMMA TypeParts ==
    /\ TypeOK => OthersOK
    /\ KeysHold(log) /\ OthersOK => TypeOK
    /\ KeysHold(log)' /\ OthersOK' => TypeOK'
    BY DEF OthersOK, KeysHold, Entries, TypeOK, OpType, SyncType

LEMMA InitIInv == Init => IInv
<1> SUFFICES ASSUME Init PROVE IInv
    OBVIOUS
<1> USE DEF Init
<1>1. TypeOK
  <2>1. op \in OpType /\ sync \in SyncType
      BY DEF NoOp, Idle, OpType, SyncType
  <2>2. budget \in [ops : 0 .. MaxOps, foreign : 0 .. MaxForeign]
      BY PathsAssumption
  <2>3. KeysHold(log)
      BY FS_EmptySet DEF KeysHold, Unique
  <2> QED
      BY <2>1, <2>2, <2>3, PathsAssumption, TypeParts DEF Idle, OthersOK
<1>2. LogInv(log)
    BY FS_EmptySet DEF LogInv, KeysHold, Unique
<1>3. OpInv /\ MergeInv /\ SyncInv /\ Remembered
    BY DEF OpInv, MergeInv, Solving, SyncInv, Remembered, NoOp, Idle
<1> QED
    BY <1>1, <1>2, <1>3 DEF IInv

(* A log that is left alone keeps its invariant while more becomes anew.    *)
LEMMA LogStays ==
    ASSUME LogInv(log), log' = log, anew \subseteq anew'
    PROVE  LogInv(log)'
    BY DEF LogInv, KeysHold, Unique, MeansWell, Fits, Entries

LEMMA RemovalsStay ==
    ASSUME Remembered, KeepsRemovals(log, log'), anew \subseteq anew', owed' \subseteq owed,
           mislaid \subseteq mislaid',
           Logging => Logging' /\ op.path = op'.path /\ op.cmd = op'.cmd
    PROVE  Remembered'
<1> SUFFICES ASSUME NEW p \in owed' \ (anew' \cup mislaid')
             PROVE  \/ \E e \in log' : e.path = p /\ e.action \in Removes
                    \/ Logging' /\ op'.path = p /\ op'.cmd \in Removes
    BY DEF Remembered, Logged
<1>1. p \in owed \ (anew \cup mislaid)
    OBVIOUS
<1>2. CASE \E e \in log : e.path = p /\ e.action \in Removes
    BY <1>1, <1>2 DEF KeepsRemovals
<1>3. CASE Logging /\ op.path = p /\ op.cmd \in Removes
    BY <1>3
<1> QED
    BY <1>1, <1>2, <1>3 DEF Remembered, Logged

LEMMA MergeStays ==
    ASSUME MergeInv, log' = log, op' = op, anew \subseteq anew', mislaid \subseteq mislaid'
    PROVE  MergeInv'
    BY DEF MergeInv, Solving

LEMMA SameRemovals == log' = log => KeepsRemovals(log, log')
    BY DEF KeepsRemovals

LEMMA NotSolving == op'.step \in {"idle", "ask", "chmod", "apply", "log"} => MergeInv'
    BY DEF MergeInv, Solving

(* The operation that begins.                                              *)
Begins ==
    /\ op = NoOp /\ op'.step = "ask"
    /\ rows' \subseteq Paths /\ anew \subseteq anew' /\ anew' \subseteq Paths
    /\ op' \in OpType /\ OpInv'
    /\ budget' \in [ops : 0 .. MaxOps, foreign : 0 .. MaxForeign]
    /\ UNCHANGED <<srv, log, online, sync, owed, mislaid>>

LEMMA StartFacts ==
    ASSUME TypeOK, NEW c, NEW p, NEW q, Start(c, p, q)
    PROVE  /\ op = NoOp /\ c \in Commands
           /\ op'.cmd = c /\ op'.path = p /\ op'.new = q /\ op'.step = "ask"
           /\ p \in Paths \cup {NULL, <<>>} /\ q \in Paths \cup {NULL} => op' \in OpType
           /\ budget' \in [ops : 0 .. MaxOps, foreign : 0 .. MaxForeign]
           /\ UNCHANGED <<srv, log, online, sync, owed, mislaid>>
<1>1. budget' \in [ops : 0 .. MaxOps, foreign : 0 .. MaxForeign]
    BY PathsAssumption DEF Start, TypeOK
<1>2. /\ op = NoOp /\ c \in Commands /\ UNCHANGED <<srv, log, online, sync, owed, mislaid>>
      /\ op' = [cmd |-> c, path |-> p, new |-> q, step |-> "ask", seen |-> {}, hit |-> FALSE]
    BY DEF Start, NoOp
<1>3. /\ op'.cmd = c /\ op'.path = p /\ op'.new = q /\ op'.step = "ask"
      /\ p \in Paths \cup {NULL, <<>>} /\ q \in Paths \cup {NULL} => op' \in OpType
    BY <1>2 DEF OpType
<1> QED
    BY <1>1, <1>2, <1>3

LEMMA StartBegins ==
    ASSUME TypeOK, NEW p \in Paths, StartCreate(p) \/ StartRemove(p) \/ StartChmod(p)
    PROVE  Begins
<1> USE DEF TypeOK, Begins, OpInv, AllCommands, Creates
<1>1. CASE StartCreate(p)
  <2>1. PICK c \in Creates : Start(c, p, NULL)
      BY <1>1 DEF StartCreate
  <2>2. rows' = rows \cup {p} /\ anew' = anew \cup {p}
      BY <1>1 DEF StartCreate
  <2> QED
      BY <2>1, <2>2, StartFacts
<1>2. CASE StartRemove(p)
  <2>1. PICK c \in Removes : Start(c, p, NULL)
      BY <1>2 DEF StartRemove, Removes
  <2>2. rows' = rows \ {p} /\ anew' = anew
      BY <1>2 DEF StartRemove
  <2> QED
      BY <2>1, <2>2, StartFacts DEF Removes
<1>3. CASE StartChmod(p)
  <2>1. Start("CHMOD", p, NULL) /\ rows' = rows /\ anew' = anew
      BY <1>3 DEF StartChmod
  <2> QED
      BY <2>1, StartFacts
<1> QED
    BY <1>1, <1>2, <1>3

LEMMA StartReaddirBegins ==
    ASSUME TypeOK, NEW p \in Dirs \cup {<<>>}, StartReaddir(p)
    PROVE  Begins
<1>1. Start("READDIR", p, NULL) /\ rows' = rows /\ anew' = anew
    BY DEF StartReaddir
<1> QED
    BY <1>1, StartFacts, PathsAssumption DEF TypeOK, Begins, OpInv, AllCommands, Creates

LEMMA StartRenameBegins ==
    ASSUME TypeOK, NEW p \in Paths, NEW q \in Paths, StartRename(p, q)
    PROVE  Begins
<1>1. /\ Start("MOVE", p, q) /\ rows' = rows /\ anew' = anew \cup Targets(p, q)
      /\ (p \in Dirs) = (q \in Dirs)
    BY DEF StartRename, Targets
<1>2. Fits(p, q)
    BY <1>1 DEF Fits
<1>3. Targets(p, q) \subseteq Paths
    BY <1>2, RebaseFits DEF Targets, Moved
<1> HIDE DEF Targets
<1> QED
    BY <1>1, <1>2, <1>3, StartFacts DEF TypeOK, Begins, OpInv, AllCommands, Creates

LEMMA BeginsKeeps == IInv /\ Begins => IInv'
<1> SUFFICES ASSUME IInv, Begins PROVE IInv'
    OBVIOUS
<1> USE DEF IInv
<1>1. LogInv(log)' /\ KeysHold(log)'
    BY LogStays DEF Begins, LogInv
<1>2. TypeOK'
    BY <1>1, TypeParts DEF OthersOK, Begins
<1>3. SyncInv'
    BY DEF SyncInv, Begins, Fits
<1>4. Remembered'
    BY SameRemovals, RemovalsStay DEF Begins, NoOp, Logging, Solving
<1>5. MergeInv'
    BY NotSolving DEF Begins
<1> QED
    BY <1>1, <1>2, <1>3, <1>4, <1>5 DEF Begins

LEMMA Assemble ==
    ASSUME OthersOK', LogInv(log)', OpInv', MergeInv', SyncInv', Remembered'
    PROVE  IInv'
    BY TypeParts DEF IInv, LogInv

LEMMA IInvParts == IInv => OthersOK /\ LogInv(log) /\ OpInv /\ MergeInv /\ SyncInv /\ Remembered
    BY TypeParts DEF IInv

-----------------------------------------------------------------------------
(* The operation that asks the server, and what follows the answer.        *)

(* New names on the server are names that came anew: what was replayed as  *)
(* removed is still gone or anew.                                          *)
LEMMA SyncStays ==
    ASSUME SyncInv, sync' = sync, anew \subseteq anew', srv' \ srv \subseteq anew'
    PROVE  SyncInv'
    BY DEF SyncInv, Fits

LEMMA ContinueFacts ==
    ASSUME op \in OpType, NEW step \in {"idle", "chmod", "apply", "log"}, NEW seen \in SUBSET Paths,
           Continue(step, seen)
    PROVE  /\ op' \in OpType
           /\ op'.step = step
           /\ IF step = "idle" THEN op' = NoOp
              ELSE op'.cmd = op.cmd /\ op'.path = op.path /\ op'.new = op.new /\ op'.seen = seen
<1>1. CASE step = "idle"
    BY <1>1 DEF Continue, NoOp, OpType
<1>2. CASE step # "idle"
    BY <1>2 DEF Continue, OpType
<1> QED
    BY <1>1, <1>2

LEMMA AskOpenKeeps == IInv /\ AskOpen => IInv'
<1> SUFFICES ASSUME IInv, AskOpen PROVE IInv'
    OBVIOUS
<1>0. OthersOK /\ LogInv(log) /\ OpInv /\ MergeInv /\ SyncInv /\ Remembered
    BY IInvParts
<1>1. /\ op.cmd = "TOUCH" /\ op.step = "ask" /\ owed' = owed \cap srv'
      /\ UNCHANGED <<rows, log, sync, budget, anew, mislaid>>
    BY DEF AskOpen
<1>2. op \in OpType /\ op.path \in Paths /\ op.path \in anew
    BY <1>0, <1>1 DEF OthersOK, OpInv, Creates
<1>3. srv' \subseteq Paths /\ online' \in BOOLEAN /\ srv' \ srv \subseteq anew
  <2>1. CASE UNCHANGED <<srv, online>>
      BY <1>0, <2>1 DEF OthersOK
  <2>2. ASSUME NEW res, Ask("OPEN", op.path, NULL, res)
        PROVE  srv' \subseteq Paths /\ online' \in BOOLEAN /\ srv' \ srv \subseteq anew
    <3>1. "OPEN" \in Requests /\ "OPEN" # "MOVE"
        BY DEF Requests
    <3>2. srv \subseteq Paths /\ online \in BOOLEAN
        BY <1>0 DEF OthersOK
    <3>3. /\ srv' \subseteq Paths /\ online' \in BOOLEAN
          /\ \A x \in srv' \ srv : x = op.path
        BY <1>2, <2>2, <3>1, <3>2, AskFacts
    <3> QED
        BY <1>2, <3>3
  <2> QED
      BY <2>1, <2>2 DEF AskOpen
<1>4. Continue("chmod", {}) \/ op' = NoOp
    BY DEF AskOpen
<1>5. /\ op' \in OpType
      /\ \/ op' = NoOp
         \/ op'.step = "chmod" /\ op'.cmd = op.cmd /\ op'.path = op.path /\ op'.new = op.new
  <2>1. NoOp \in OpType
      BY DEF NoOp, OpType
  <2> QED
      BY <1>2, <1>4, <2>1, ContinueFacts
<1>6. OthersOK'
    BY <1>0, <1>1, <1>3, <1>5 DEF OthersOK, OpType, SyncType
<1>7. OpInv'
  <2>1. CASE op' = NoOp
      BY <2>1 DEF OpInv, NoOp
  <2>2. CASE op'.step = "chmod" /\ op'.cmd = op.cmd /\ op'.path = op.path /\ op'.new = op.new
      BY <1>0, <1>1, <2>2 DEF OpInv, Fits
  <2> QED
      BY <1>5, <2>1, <2>2
<1>8. SyncInv'
    BY <1>0, <1>1, <1>3, SyncStays
<1>9. Remembered'
    BY <1>0, <1>1, SameRemovals, RemovalsStay DEF Logging, Solving
<1>10. MergeInv'
    BY <1>5, NotSolving DEF NoOp
<1> QED
    BY <1>0, <1>1, <1>6, <1>7, <1>8, <1>9, <1>10, LogStays, Assemble

LEMMA AskServerKeeps == IInv /\ AskServer => IInv'
<1> SUFFICES ASSUME IInv, AskServer PROVE IInv'
    OBVIOUS
<1>0. OthersOK /\ LogInv(log) /\ OpInv /\ MergeInv /\ SyncInv /\ Remembered
    BY IInvParts
<1> DEFINE a == IF op.cmd = "TOUCH" THEN "CHMOD" ELSE op.cmd
           failed(r) == {p \in {op.path} : op.cmd \in Removes /\ NeedsLog(op.cmd, r)}
<1>1. PICK res \in Answers :
         /\ Ask(a, op.path, op.new, res)
         /\ Continue(StepAfter(op.cmd, res),
                     IF op.cmd = "READDIR" THEN Children(srv, op.path) ELSE {})
         /\ owed' = srv' \cap (owed \cup failed(res)) /\ mislaid' = mislaid \ failed(res)
    BY DEF AskServer
<1>2. /\ op.step \in {"ask", "chmod"} /\ UNCHANGED <<rows, log, sync, budget, anew>>
    BY DEF AskServer
<1>3. /\ op \in OpType /\ op.cmd \in AllCommands
      /\ op.cmd = "READDIR" \/ op.path \in Paths
      /\ op.cmd = "MOVE" => Fits(op.path, op.new) /\ Targets(op.path, op.new) \subseteq anew
      /\ op.cmd \in Creates => op.path \in anew
    BY <1>0, <1>2 DEF OthersOK, OpInv
<1>4. srv' \subseteq Paths /\ online' \in BOOLEAN /\ srv' \ srv \subseteq anew
  <2>1. a \in Requests /\ a # "OPEN" /\ (a = "MOVE" => op.cmd = "MOVE")
        /\ (a = "READDIR" <=> op.cmd = "READDIR") /\ (a \in Creates => op.cmd \in Creates)
      BY <1>3 DEF Requests, AllCommands, Creates, Removes
  <2> HIDE DEF a
  <2>2. srv \subseteq Paths /\ online \in BOOLEAN
      BY <1>0 DEF OthersOK
  <2>3. op.path \in Paths \/ a = "READDIR"
      BY <1>3, <2>1
  <2>4. /\ srv' \subseteq Paths /\ online' \in BOOLEAN
        /\ \A x \in srv' \ srv : \/ a \in Creates /\ x = op.path
                                 \/ a = "MOVE" /\ x \in Targets(op.path, op.new)
    <3>1. a = "MOVE" => Fits(op.path, op.new)
        BY <1>3, <2>1
    <3>2. Ask(a, op.path, op.new, res)
        BY <1>1 DEF a
    <3> QED
        BY <2>1, <2>2, <2>3, <3>1, <3>2, AskFacts
  <2> QED
      BY <1>3, <2>1, <2>4
<1>5. /\ StepAfter(op.cmd, res) \in {"idle", "apply", "log"}
      /\ StepAfter(op.cmd, res) = "apply" => op.cmd \in {"MOVE", "READDIR"}
      /\ StepAfter(op.cmd, res) = "log" => op.cmd # "READDIR"
      /\ NeedsLog(op.cmd, res) => StepAfter(op.cmd, res) = "log"
  <2>1. op.cmd = "READDIR" => ~NeedsLog(op.cmd, res)
      BY DEF NeedsLog, Creates
  <2> QED
      BY <2>1 DEF StepAfter
<1>6. (IF op.cmd = "READDIR" THEN Children(srv, op.path) ELSE {}) \in SUBSET Paths
    BY <1>0 DEF OthersOK, Children
<1>7. /\ op' \in OpType /\ op'.step = StepAfter(op.cmd, res)
      /\ op'.step = "idle" => op' = NoOp
      /\ op'.step # "idle" => op'.cmd = op.cmd /\ op'.path = op.path /\ op'.new = op.new
    BY <1>1, <1>3, <1>5, <1>6, ContinueFacts
<1>8. OthersOK'
  <2>1. owed' \subseteq srv' /\ mislaid' \subseteq mislaid
      BY <1>1
  <2> HIDE DEF failed, a
  <2> QED
      BY <1>0, <1>2, <1>4, <1>7, <2>1 DEF OthersOK, OpType, SyncType
<1>9. OpInv'
    BY <1>0, <1>2, <1>5, <1>7 DEF OpInv, Fits, NoOp
<1>10. SyncInv'
    BY <1>0, <1>2, <1>4, SyncStays
<1>11. Remembered'
  <2> SUFFICES ASSUME NEW p \in owed' \ (anew' \cup mislaid')
               PROVE  \/ Logged(p, Removes)'
                      \/ op'.step = "log" /\ op'.path = p /\ op'.cmd \in Removes
      BY DEF Remembered, Logging
  <2>1. CASE p \in failed(res)
    <3>1. op.cmd \in Removes /\ NeedsLog(op.cmd, res) /\ p = op.path
        BY <2>1
    <3> QED
        BY <1>5, <1>7, <3>1
  <2>2. CASE p \notin failed(res)
    <3>1. p \in owed \ (anew \cup mislaid)
        BY <1>1, <1>2, <2>2
    <3> QED
        BY <1>0, <1>2, <3>1 DEF Remembered, Logged, Logging, Solving
  <2> QED
      BY <2>1, <2>2
<1>12. MergeInv'
    BY <1>5, <1>7, NotSolving
<1> QED
    BY <1>0, <1>2, <1>8, <1>9, <1>10, <1>11, <1>12, LogStays, Assemble

LEMMA RmdirFailsKeeps == IInv /\ LocalRmdirFails => IInv'
<1> SUFFICES ASSUME IInv, LocalRmdirFails PROVE IInv'
    OBVIOUS
<1>0. OthersOK /\ LogInv(log) /\ OpInv /\ MergeInv /\ SyncInv /\ Remembered
    BY IInvParts
<1>1. /\ op.step = "ask" /\ op' = NoOp
      /\ UNCHANGED <<rows, srv, log, online, sync, budget, anew, owed, mislaid>>
    BY DEF LocalRmdirFails
<1>2. OthersOK' /\ OpInv'
    BY <1>0, <1>1 DEF OthersOK, OpInv, NoOp, OpType, SyncType
<1>3. SyncInv'
    BY <1>0, <1>1, SyncStays
<1>4. Remembered'
    BY <1>0, <1>1, SameRemovals, RemovalsStay DEF Logging, Solving
<1>5. MergeInv'
    BY <1>1, NotSolving DEF NoOp
<1> QED
    BY <1>0, <1>1, <1>2, <1>3, <1>4, <1>5, LogStays, Assemble

LEMMA ApplyKeeps == IInv /\ Apply => IInv'
<1> SUFFICES ASSUME IInv, Apply PROVE IInv'
    OBVIOUS
<1>0. OthersOK /\ LogInv(log) /\ OpInv /\ MergeInv /\ SyncInv /\ Remembered
    BY IInvParts
<1>1. /\ op.step = "apply" /\ op' = NoOp
      /\ rows' = IF op.cmd = "MOVE" THEN CacheRename(rows, op.path, op.new)
                 ELSE rows \cup op.seen
      /\ UNCHANGED <<srv, log, online, sync, budget, anew, owed, mislaid>>
    BY DEF Apply
<1>2. rows' \subseteq Paths
  <2>1. CASE op.cmd = "MOVE"
    <3>1. op.path \in Paths /\ Fits(op.path, op.new) /\ rows \subseteq Paths
        BY <1>0, <1>1, <2>1 DEF OpInv, OthersOK
    <3> QED
        BY <1>1, <2>1, <3>1, RenameFits
  <2>2. CASE op.cmd # "MOVE"
      BY <1>0, <1>1, <2>2 DEF OthersOK, OpType
  <2> QED
      BY <2>1, <2>2
<1>3. OthersOK' /\ OpInv'
    BY <1>0, <1>1, <1>2 DEF OthersOK, OpInv, NoOp, OpType, SyncType
<1>4. SyncInv'
    BY <1>0, <1>1, SyncStays
<1>5. Remembered'
    BY <1>0, <1>1, SameRemovals, RemovalsStay DEF Logging, Solving
<1>6. MergeInv'
    BY <1>1, NotSolving DEF NoOp
<1> QED
    BY <1>0, <1>1, <1>3, <1>4, <1>5, <1>6, LogStays, Assemble

(* The statements of cache_log.                                            *)

LEMMA LogInsertKeeps == IInv /\ LogInsert => IInv'
<1> SUFFICES ASSUME IInv, LogInsert PROVE IInv'
    OBVIOUS
<1>0. OthersOK /\ LogInv(log) /\ OpInv /\ MergeInv /\ SyncInv /\ Remembered
    BY IInvParts
<1>1. /\ op.step = "log" /\ log' = Insert(log, op.path, op.new, op.cmd)
      /\ op' = IF log' = log THEN [op EXCEPT !.step = "solve"] ELSE NoOp
      /\ UNCHANGED <<rows, srv, online, sync, budget, anew, owed, mislaid>>
    BY DEF LogInsert
<1>2. Tells(op.path, op.new, op.cmd)
    BY <1>0, <1>1 DEF OpInv, Tells, AllCommands, Creates, Removes
<1>3. /\ LogInv(log') /\ KeepsRemovals(log, log')
      /\ log' # log => \E e \in log' : e.path = op.path /\ e.action = op.cmd
      /\ log' = log /\ op.cmd # "MOVE" => \E e \in log : e.path = op.path
    BY <1>0, <1>1, <1>2, InsertKeeps
<1>4. LogInv(log)'
    BY <1>1, <1>3 DEF LogInv, KeysHold, Unique, MeansWell, Fits, Entries
<1>5. /\ log' = log => /\ op'.step = "solve" /\ op'.cmd = op.cmd /\ op'.path = op.path
                       /\ op'.new = op.new /\ op' \in OpType
      /\ log' # log => op' = NoOp
    BY <1>0, <1>1 DEF OthersOK, OpType
<1>6. OthersOK' /\ OpInv'
  <2>1. NoOp \in OpType
      BY DEF NoOp, OpType
  <2>2. OthersOK'
      BY <1>0, <1>1, <1>5, <2>1 DEF OthersOK, SyncType
  <2>3. OpInv'
      BY <1>0, <1>1, <1>5 DEF OpInv, NoOp, Fits
  <2> QED
      BY <2>2, <2>3
<1>7. SyncInv'
    BY <1>0, <1>1, SyncStays
<1>8. MergeInv'
  <2>1. CASE log' = log
      BY <1>3, <1>5, <2>1 DEF MergeInv, Solving, Removes
  <2>2. CASE log' # log
      BY <1>5, <2>2, NotSolving DEF NoOp
  <2> QED
      BY <2>1, <2>2
<1>9. Remembered'
  <2> SUFFICES ASSUME NEW p \in owed \ (anew \cup mislaid)
               PROVE  \/ \E e \in log' : e.path = p /\ e.action \in Removes
                      \/ op'.step = "solve" /\ op'.path = p /\ op'.cmd \in Removes
      BY <1>1 DEF Remembered, Logged, Logging, Solving
  <2>1. CASE Logged(p, Removes)
      BY <1>3, <2>1 DEF Logged, KeepsRemovals
  <2>2. CASE op.path = p /\ op.cmd \in Removes
      BY <1>3, <1>5, <2>2
  <2> QED
      BY <1>0, <2>1, <2>2 DEF Remembered
<1> QED
    BY <1>4, <1>6, <1>7, <1>8, <1>9, Assemble

LEMMA LogSolveKeeps == IInv /\ LogSolve => IInv'
<1> SUFFICES ASSUME IInv, LogSolve PROVE IInv'
    OBVIOUS
<1>0. OthersOK /\ LogInv(log) /\ OpInv /\ MergeInv /\ SyncInv /\ Remembered
    BY IInvParts
<1>1. /\ op.step = "solve" /\ log' = Solve(log, op.path, op.new, op.cmd)
      /\ op' = IF op.cmd \in Removes
               THEN [op EXCEPT !.step = "changes", !.hit = (log' # log)] ELSE NoOp
      /\ UNCHANGED <<rows, srv, online, sync, budget, anew, owed, mislaid>>
    BY DEF LogSolve
<1>2. Tells(op.path, op.new, op.cmd)
    BY <1>0, <1>1 DEF OpInv, Tells, AllCommands, Creates, Removes
<1>3. /\ LogInv(log') /\ KeepsRemovals(log, log')
      /\ op.cmd \in Removes /\ op.path \notin anew => log' = log
    BY <1>0, <1>1, <1>2, SolveKeeps
<1>4. LogInv(log)'
    BY <1>1, <1>3 DEF LogInv, KeysHold, Unique, MeansWell, Fits, Entries
<1>5. /\ op.cmd \in Removes => /\ op'.step = "changes" /\ op'.cmd = op.cmd
                               /\ op'.path = op.path /\ op'.new = op.new
                               /\ op' \in OpType /\ (log' = log => op'.hit = FALSE)
      /\ op.cmd \notin Removes => op' = NoOp
  <2>1. CASE op.cmd \in Removes /\ log' = log
    <3>1. op' = [op EXCEPT !.step = "changes", !.hit = FALSE]
        BY <1>1, <2>1
    <3> QED
        BY <1>0, <2>1, <3>1 DEF OthersOK, OpType
  <2>2. CASE op.cmd \in Removes /\ log' # log
    <3>1. op' = [op EXCEPT !.step = "changes", !.hit = TRUE]
        BY <1>1, <2>2
    <3> QED
        BY <1>0, <2>2, <3>1 DEF OthersOK, OpType
  <2> QED
      BY <1>1, <2>1, <2>2
<1>6. OthersOK' /\ OpInv'
  <2>1. NoOp \in OpType
      BY DEF NoOp, OpType
  <2>2. OthersOK'
      BY <1>0, <1>1, <1>5, <2>1 DEF OthersOK, SyncType
  <2>3. OpInv'
      BY <1>0, <1>1, <1>5 DEF OpInv, NoOp, Fits
  <2> QED
      BY <2>2, <2>3
<1>7. SyncInv'
    BY <1>0, <1>1, SyncStays
<1>8. MergeInv'
  <2>1. CASE op.cmd \in Removes
      BY <1>0, <1>1, <1>3, <1>5, <2>1 DEF MergeInv, Solving
  <2>2. CASE op.cmd \notin Removes
      BY <1>5, <2>2, NotSolving DEF NoOp
  <2> QED
      BY <2>1, <2>2
<1>9. Remembered'
    BY <1>0, <1>1, <1>3, <1>5 DEF Remembered, Logged, Logging, Solving, KeepsRemovals
<1> QED
    BY <1>4, <1>6, <1>7, <1>8, <1>9, Assemble

LEMMA LogChangesKeeps == IInv /\ LogChanges => IInv'
<1> SUFFICES ASSUME IInv, LogChanges PROVE IInv'
    OBVIOUS
<1>0. OthersOK /\ LogInv(log) /\ OpInv /\ MergeInv /\ SyncInv /\ Remembered
    BY IInvParts
<1>1. /\ op.step = "changes" /\ op' = Changes(op.hit)
      /\ UNCHANGED <<rows, srv, log, online, sync, budget, anew, owed, mislaid>>
    BY DEF LogChanges
<1>2. op.hit \in BOOLEAN /\ op.cmd \in Removes
    BY <1>0, <1>1 DEF OthersOK, OpType, OpInv
<1>3. /\ op.hit = TRUE => op' = NoOp
      /\ op.hit = FALSE => /\ op'.step = "merge" /\ op'.cmd = op.cmd /\ op'.path = op.path
                           /\ op'.new = op.new /\ op' \in OpType
  <2>1. CASE op.hit = TRUE
      BY <1>1, <2>1 DEF Changes
  <2>2. CASE op.hit = FALSE
    <3>1. op' = [op EXCEPT !.step = "merge"]
        BY <1>1, <2>2 DEF Changes
    <3> QED
        BY <1>0, <2>2, <3>1 DEF OthersOK, OpType
  <2> QED
      BY <2>1, <2>2
<1>4. OthersOK' /\ OpInv'
  <2>1. NoOp \in OpType
      BY DEF NoOp, OpType
  <2>2. OthersOK'
      BY <1>0, <1>1, <1>2, <1>3, <2>1 DEF OthersOK, SyncType
  <2>3. ASSUME op.hit = TRUE PROVE OpInv'
      BY <1>3, <2>3 DEF OpInv, NoOp
  <2>4. ASSUME op.hit = FALSE PROVE OpInv'
      BY <1>0, <1>1, <1>2, <1>3, <2>4 DEF OpInv, Fits
  <2> QED
      BY <1>2, <2>2, <2>3, <2>4
<1>5. SyncInv'
    BY <1>0, <1>1, SyncStays
<1>6. MergeInv'
  <2>1. CASE op.hit = TRUE
      BY <1>3, <2>1, NotSolving DEF NoOp
  <2>2. CASE op.hit = FALSE
      BY <1>0, <1>1, <1>3, <2>2 DEF MergeInv, Solving
  <2> QED
      BY <1>2, <2>1, <2>2
<1>7. Remembered'
  <2> SUFFICES ASSUME NEW p \in owed \ (anew \cup mislaid)
               PROVE  Logged(p, Removes) \/ (op'.step = "merge" /\ op'.path = p /\ op'.cmd \in Removes)
      BY <1>1 DEF Remembered, Logged, Logging, Solving
  <2>1. CASE op.path = p
    <3>1. op.hit = FALSE
        BY <1>0, <1>1, <1>2, <2>1 DEF MergeInv, Solving
    <3> QED
        BY <1>2, <1>3, <2>1, <3>1
  <2> QED
      BY <1>0, <2>1 DEF Remembered
<1> QED
    BY <1>0, <1>1, <1>4, <1>5, <1>6, <1>7, LogStays, Assemble

LEMMA LogMergeKeeps == IInv /\ LogMerge => IInv'
<1> SUFFICES ASSUME IInv, LogMerge PROVE IInv'
    OBVIOUS
<1>0. OthersOK /\ LogInv(log) /\ OpInv /\ MergeInv /\ SyncInv /\ Remembered
    BY IInvParts
<1>1. /\ op.step = "merge" /\ op' = NoOp /\ log' = SetAction(log, op.path, op.cmd)
      /\ UNCHANGED <<rows, srv, online, sync, budget, anew, owed, mislaid>>
    BY DEF LogMerge
<1>2. op.cmd \in Removes /\ op.path \in Paths
    BY <1>0, <1>1 DEF OpInv, Removes
<1>3. /\ LogInv(log') /\ KeepsRemovals(log, log')
      /\ (\E e \in log : e.path = op.path) =>
            \E e \in log' : e.path = op.path /\ e.action \in Removes
    BY <1>0, <1>1, <1>2, MergeKeeps
<1>4. LogInv(log)'
    BY <1>1, <1>3 DEF LogInv, KeysHold, Unique, MeansWell, Fits, Entries
<1>5. OthersOK' /\ OpInv' /\ MergeInv'
    BY <1>0, <1>1, NotSolving DEF OthersOK, OpInv, NoOp, OpType, SyncType
<1>6. SyncInv'
    BY <1>0, <1>1, SyncStays
<1>7. Remembered'
  <2> SUFFICES ASSUME NEW p \in owed \ (anew \cup mislaid)
               PROVE  \E e \in log' : e.path = p /\ e.action \in Removes
      BY <1>1 DEF Remembered, Logged
  <2>1. CASE Logged(p, Removes)
      BY <1>3, <2>1 DEF Logged, KeepsRemovals
  <2>2. CASE op.path = p
    <3>1. \E e \in log : e.path = op.path
        BY <1>0, <1>1, <1>2, <2>2 DEF MergeInv, Solving
    <3> QED
        BY <1>3, <2>2, <3>1
  <2> QED
      BY <1>0, <2>1, <2>2 DEF Remembered
<1> QED
    BY <1>4, <1>5, <1>6, <1>7, Assemble
-----------------------------------------------------------------------------
(* The rescuer.                                                            *)

LEMMA SyncStartKeeps == IInv /\ (SyncStart \/ SyncEnd \/ SyncFinish) => IInv'
<1> SUFFICES ASSUME IInv, SyncStart \/ SyncEnd \/ SyncFinish PROVE IInv'
    OBVIOUS
<1>0. OthersOK /\ LogInv(log) /\ OpInv /\ MergeInv /\ SyncInv /\ Remembered
    BY IInvParts
<1>1. /\ sync' \in {Idle, Uploading, [Idle EXCEPT !.pc = "scan"]}
      /\ online' \in BOOLEAN
      /\ UNCHANGED <<rows, srv, log, op, budget, anew, owed, mislaid>>
    BY <1>0 DEF SyncStart, SyncEnd, SyncFinish, OthersOK
<1>2. sync' \in SyncType /\ sync'.pc \in {"idle", "scan", "modified"}
    BY <1>1 DEF Idle, Uploading, SyncType
<1>3. OthersOK'
    BY <1>0, <1>1, <1>2 DEF OthersOK, OpType
<1>4. OpInv'
    BY <1>0, <1>1 DEF OpInv, Fits, NoOp
<1>5. SyncInv'
    BY <1>2 DEF SyncInv
<1>6. Remembered'
    BY <1>0, <1>1, SameRemovals, RemovalsStay DEF Logging, Solving
<1>7. MergeInv'
    BY <1>0, <1>1, MergeStays
<1> QED
    BY <1>0, <1>1, <1>3, <1>4, <1>5, <1>6, <1>7, LogStays, Assemble

LEMMA SyncReadKeeps == IInv /\ SyncRead => IInv'
<1> SUFFICES ASSUME IInv, SyncRead PROVE IInv'
    OBVIOUS
<1>0. OthersOK /\ LogInv(log) /\ OpInv /\ MergeInv /\ SyncInv /\ Remembered
    BY IInvParts
<1>1. PICK e \in log : sync' = [pc |-> "send", at |-> e.row, path |-> e.path, new |-> e.new,
                                action |-> e.action]
    BY DEF SyncRead
<1>2. UNCHANGED <<rows, srv, log, online, op, budget, anew, owed, mislaid>>
    BY DEF SyncRead
<1>3. e \in Entries /\ MeansWell(e)
    BY <1>0 DEF LogInv, KeysHold
<1>4. /\ sync' \in SyncType /\ sync'.pc = "send" /\ sync'.path \in Paths
      /\ sync'.action \in Actions
      /\ sync'.action = "MOVE" => Fits(sync'.path, sync'.new)
    BY <1>1, <1>3 DEF Entries, MeansWell, SyncType
<1>5. NULL \notin Paths /\ "NONE" \notin Actions
    BY PathsAssumption DEF Actions
<1>6. OthersOK'
    BY <1>0, <1>2, <1>4, <1>5 DEF OthersOK, OpType
<1>7. OpInv'
    BY <1>0, <1>2 DEF OpInv, Fits, NoOp
<1>8. SyncInv'
    BY <1>4 DEF SyncInv, Fits
<1>9. Remembered'
    BY <1>0, <1>2, SameRemovals, RemovalsStay DEF Logging, Solving
<1>10. MergeInv'
    BY <1>0, <1>2, MergeStays
<1> QED
    BY <1>0, <1>2, <1>6, <1>7, <1>8, <1>9, <1>10, LogStays, Assemble

LEMMA SyncSendKeeps == ASSUME NEW res PROVE IInv /\ SyncSend(res) => IInv'
<1> SUFFICES ASSUME IInv, SyncSend(res) PROVE IInv'
    OBVIOUS
<1>0. OthersOK /\ LogInv(log) /\ OpInv /\ MergeInv /\ SyncInv /\ Remembered
    BY IInvParts
<1>1. /\ sync.pc = "send" /\ owed' = owed \cap srv'
      /\ sync' = IF Verdict(res) = "stop" THEN Uploading ELSE [sync EXCEPT !.pc = Verdict(res)]
      /\ UNCHANGED <<rows, log, op, budget, anew, mislaid>>
    BY DEF SyncSend
<1>2. /\ srv \subseteq Paths /\ online \in BOOLEAN /\ sync \in SyncType
      /\ sync.path \in Paths /\ sync.action \in Actions
      /\ sync.action = "MOVE" => Fits(sync.path, sync.new)
    BY <1>0, <1>1 DEF OthersOK, SyncInv
<1>3. /\ srv' \subseteq Paths /\ online' \in BOOLEAN
      /\ Verdict(res) = "delete" /\ sync.action \in Removes => sync.path \notin srv'
  <2>1. CASE sync.action \in Replayable /\ Ask(sync.action, sync.path, sync.new, res)
    <3>1. sync.action \in Requests
        BY <2>1 DEF Replayable, Requests
    <3> QED
        BY <1>2, <2>1, <3>1, AskFacts
  <2>2. CASE sync.action \notin Replayable /\ UNCHANGED <<srv, online>>
      BY <1>2, <2>2 DEF Replayable
  <2> QED
      BY <2>1, <2>2 DEF SyncSend
<1>4. Verdict(res) \in {"delete", "scan", "stop"}
    BY DEF Verdict
<1>5. /\ sync' \in SyncType
      /\ \/ sync'.pc \in {"modified", "scan"}
         \/ /\ sync'.pc = "delete" /\ Verdict(res) = "delete"
            /\ sync'.path = sync.path /\ sync'.new = sync.new /\ sync'.action = sync.action
  <2>1. CASE Verdict(res) = "stop"
      BY <1>1, <2>1 DEF Idle, Uploading, SyncType
  <2>2. CASE Verdict(res) # "stop"
      BY <1>1, <1>2, <1>4, <2>2 DEF SyncType
  <2> QED
      BY <2>1, <2>2
<1>6. NULL \notin Paths /\ "NONE" \notin Actions
    BY PathsAssumption DEF Actions
<1>7. OthersOK'
    BY <1>0, <1>1, <1>2, <1>3, <1>5, <1>6 DEF OthersOK, OpType
<1>8. OpInv'
    BY <1>0, <1>1 DEF OpInv, Fits, NoOp
<1>9. SyncInv'
    BY <1>1, <1>2, <1>3, <1>5 DEF SyncInv, Fits
<1>10. Remembered'
    BY <1>0, <1>1, SameRemovals, RemovalsStay DEF Logging, Solving
<1>11. MergeInv'
    BY <1>0, <1>1, MergeStays
<1> QED
    BY <1>0, <1>1, <1>7, <1>8, <1>9, <1>10, <1>11, LogStays, Assemble

(* A statement of cache_sync_modified may only be taken for the DELETE.     *)
LEMMA SyncModifiedKeeps == IInv /\ SyncModified => IInv'
<1> SUFFICES ASSUME IInv, SyncModified PROVE IInv'
    OBVIOUS
<1>0. OthersOK /\ LogInv(log) /\ OpInv /\ MergeInv /\ SyncInv /\ Remembered
    BY IInvParts
<1>1. PICK hit \in BOOLEAN :
         /\ op' = [op EXCEPT !.hit = hit]
         /\ mislaid' = IF hit THEN mislaid \cup {op.path} ELSE mislaid
    BY DEF SyncModified
<1>2. op.step = "changes" /\ UNCHANGED <<rows, srv, log, online, sync, budget, anew, owed>>
    BY DEF SyncModified
<1>3. /\ op' \in OpType /\ op'.step = op.step /\ op'.cmd = op.cmd /\ op'.path = op.path
      /\ op'.new = op.new /\ op'.hit = hit
    BY <1>0, <1>1 DEF OthersOK, OpType
<1>4. op.path \in Paths /\ op.cmd \in Removes
    BY <1>0, <1>2 DEF OpInv, Removes
<1>5. mislaid \subseteq mislaid' /\ mislaid' \subseteq Paths
      /\ (hit = TRUE => op.path \in mislaid')
    BY <1>0, <1>1, <1>4 DEF OthersOK
<1>6. OthersOK'
    BY <1>0, <1>2, <1>3, <1>5 DEF OthersOK, SyncType
<1>7. OpInv'
    BY <1>0, <1>2, <1>3 DEF OpInv, Fits
<1>8. SyncInv'
    BY <1>0, <1>2, SyncStays
<1>9. MergeInv'
    BY <1>0, <1>2, <1>3, <1>5 DEF MergeInv, Solving
<1>10. Remembered'
    BY <1>0, <1>2, <1>3, <1>5, SameRemovals, RemovalsStay DEF Logging, Solving
<1> QED
    BY <1>0, <1>2, <1>6, <1>7, <1>8, <1>9, <1>10, LogStays, Assemble

(* cache_log_delete takes the entry it has replayed, one that a thread has *)
(* put in its place, or one of a name that matches.  Of a removal that is  *)
(* still owed the first two do not exist; the last, and an entry that the  *)
(* conflict solver counts on, are what Forgets names.                      *)
LEMMA SyncDeleteKeeps == IInv /\ SyncDelete => IInv'
<1> SUFFICES ASSUME IInv, SyncDelete PROVE IInv'
    OBVIOUS
<1>0. OthersOK /\ LogInv(log) /\ OpInv /\ MergeInv /\ SyncInv /\ Remembered
    BY IInvParts
<1> DEFINE gone == {e.path : e \in log \ log'}
<1>1. /\ sync.pc = "delete" /\ log' = {e \in log : ~Replayed(e)}
      /\ sync' = [sync EXCEPT !.pc = "scan"]
      /\ op' = IF op.step = "changes" THEN [op EXCEPT !.hit = (gone # {})] ELSE op
      /\ mislaid' = mislaid \cup Forgets(gone)
      /\ UNCHANGED <<rows, srv, online, budget, anew, owed>>
    BY DEF SyncDelete
<1>2. LogInv(log)'
  <2>1. LogInv(log')
      BY <1>0, <1>1, SmallerLog
  <2> QED
      BY <1>1, <2>1 DEF LogInv, KeysHold, Unique, MeansWell, Fits, Entries
<1>3. gone \subseteq Paths
    BY <1>0 DEF LogInv, KeysHold, Entries
<1>4. sync' \in SyncType /\ sync'.pc = "scan"
    BY <1>0, <1>1 DEF OthersOK, SyncType
<1>5. /\ op' \in OpType /\ op'.step = op.step /\ op'.cmd = op.cmd /\ op'.path = op.path
      /\ op'.new = op.new /\ (op.step # "changes" => op' = op)
      /\ op.step = "changes" /\ gone = {} => op'.hit = FALSE
  <2>1. CASE op.step = "changes" /\ gone = {}
    <3>1. op' = [op EXCEPT !.hit = FALSE]
        BY <1>1, <2>1
    <3> QED
        BY <1>0, <2>1, <3>1 DEF OthersOK, OpType
  <2>2. CASE op.step = "changes" /\ gone # {}
    <3>1. op' = [op EXCEPT !.hit = TRUE]
        BY <1>1, <2>2
    <3> QED
        BY <1>0, <2>2, <3>1 DEF OthersOK, OpType
  <2>3. CASE op.step # "changes"
      BY <1>0, <1>1, <2>3 DEF OthersOK
  <2> QED
      BY <2>1, <2>2, <2>3
<1>6. mislaid' \subseteq Paths
  <2>1. op.cmd \in Removes /\ Solving => op.path \in Paths
      BY <1>0 DEF OpInv, Removes, Solving
  <2>2. Forgets(gone) \subseteq Paths
      BY <1>3, <2>1 DEF Forgets
  <2> QED
      BY <1>0, <1>1, <2>2 DEF OthersOK
<1>7. OthersOK'
    BY <1>0, <1>1, <1>4, <1>5, <1>6 DEF OthersOK
<1>8. OpInv'
  <2>1. ASSUME op.step = "changes" PROVE OpInv'
      BY <1>0, <1>1, <1>5, <2>1 DEF OpInv, Fits
  <2>2. ASSUME op.step # "changes" PROVE OpInv'
    <3>1. op' = op /\ anew' = anew
        BY <1>1, <1>5, <2>2
    <3> QED
        BY <1>0, <3>1 DEF OpInv, Fits, NoOp
  <2> QED
      BY <2>1, <2>2
<1>9. SyncInv'
    BY <1>4 DEF SyncInv
<1>10. MergeInv'
  <2> SUFFICES ASSUME op.cmd \in Removes, Solving, op.path \notin anew \cup mislaid'
               PROVE  /\ \E e \in log' : e.path = op.path
                      /\ op.step = "changes" => op'.hit = FALSE
      BY <1>1, <1>5 DEF MergeInv, Solving
  <2>1. op.path \notin gone /\ (op.step = "changes" => gone = {})
      BY <1>1 DEF Forgets
  <2>2. PICK e \in log : e.path = op.path
      BY <1>0, <1>1 DEF MergeInv
  <2>3. e \in log'
      BY <2>1, <2>2
  <2> QED
      BY <1>5, <2>1, <2>2, <2>3
<1>11. Remembered'
  <2> SUFFICES ASSUME NEW p \in owed \ (anew \cup mislaid'), Logged(p, Removes)
               PROVE  \E e \in log' : e.path = p /\ e.action \in Removes
    <3>1. Logging' <=> Logging
        BY <1>5 DEF Logging, Solving
    <3> QED
        BY <1>0, <1>1, <1>5, <3>1 DEF Remembered, Logged
  <2>1. PICK e \in log : e.path = p /\ e.action \in Removes
      BY DEF Logged
  <2>2. p \in srv
      BY <1>0 DEF OthersOK
  <2>3. CASE p = sync.path
      BY <1>0, <1>1, <2>1, <2>2, <2>3 DEF SyncInv, Replayed
  <2>4. CASE p # sync.path
    <3>1. ASSUME Replayed(e) PROVE FALSE
      <4>1. p \in gone /\ sync.action \in Removes
          BY <1>1, <2>1, <3>1 DEF Replayed
      <4> QED
          BY <1>1, <2>4, <4>1 DEF Forgets
    <3> QED
        BY <1>1, <2>1, <3>1
  <2> QED
      BY <2>3, <2>4
<1> QED
    BY <1>2, <1>7, <1>8, <1>9, <1>10, <1>11, Assemble
-----------------------------------------------------------------------------
(* The surroundings.                                                       *)

LEMMA DisconnectKeeps == IInv /\ Disconnect => IInv'
<1> SUFFICES ASSUME IInv, Disconnect PROVE IInv'
    OBVIOUS
<1>0. OthersOK /\ LogInv(log) /\ OpInv /\ MergeInv /\ SyncInv /\ Remembered
    BY IInvParts
<1>1. online' = FALSE /\ UNCHANGED <<rows, srv, log, op, sync, budget, anew, owed, mislaid>>
    BY DEF Disconnect
<1>2. OthersOK' /\ OpInv'
  <2>1. OthersOK'
      BY <1>0, <1>1 DEF OthersOK
  <2>2. OpInv'
      BY <1>0, <1>1 DEF OpInv, Fits, NoOp
  <2> QED
      BY <2>1, <2>2
<1>3. SyncInv'
    BY <1>0, <1>1, SyncStays
<1>4. Remembered'
    BY <1>0, <1>1, SameRemovals, RemovalsStay DEF Logging, Solving
<1>5. MergeInv'
    BY <1>0, <1>1, MergeStays
<1> QED
    BY <1>0, <1>1, <1>2, <1>3, <1>4, <1>5, LogStays, Assemble

LEMMA ForeignKeeps == ASSUME NEW p \in Paths PROVE IInv /\ Foreign(p) => IInv'
<1> SUFFICES ASSUME IInv, Foreign(p) PROVE IInv'
    OBVIOUS
<1>0. OthersOK /\ LogInv(log) /\ OpInv /\ MergeInv /\ SyncInv /\ Remembered
    BY IInvParts
<1>1. /\ srv' = srv \cup {p} \/ srv' = srv \ {p}
      /\ budget.foreign > 0 /\ budget' = [budget EXCEPT !.foreign = @ - 1]
      /\ owed' = owed \cap srv' /\ anew' = anew \cup (srv' \ srv)
      /\ UNCHANGED <<rows, log, online, op, sync, mislaid>>
    BY DEF Foreign
<1>2. budget' \in [ops : 0 .. MaxOps, foreign : 0 .. MaxForeign]
    BY <1>0, <1>1, PathsAssumption DEF OthersOK
<1>3. OthersOK'
    BY <1>0, <1>1, <1>2 DEF OthersOK
<1>4. OpInv'
    BY <1>0, <1>1 DEF OpInv, Fits, NoOp
<1>5. SyncInv'
    BY <1>0, <1>1, SyncStays
<1>6. Remembered'
    BY <1>0, <1>1, SameRemovals, RemovalsStay DEF Logging, Solving
<1>7. MergeInv'
    BY <1>0, <1>1, MergeStays
<1> QED
    BY <1>0, <1>1, <1>3, <1>4, <1>5, <1>6, <1>7, LogStays, Assemble

LEMMA UnchangedKeeps == IInv /\ UNCHANGED vars => IInv'
<1> SUFFICES ASSUME IInv, UNCHANGED vars PROVE IInv'
    OBVIOUS
<1>0. OthersOK /\ LogInv(log) /\ OpInv /\ MergeInv /\ SyncInv /\ Remembered
    BY IInvParts
<1>1. UNCHANGED <<rows, srv, log, online, op, sync, budget, anew, owed, mislaid>>
    BY DEF vars
<1>2. OthersOK' /\ OpInv'
  <2>1. OthersOK'
      BY <1>0, <1>1 DEF OthersOK
  <2>2. OpInv'
      BY <1>0, <1>1 DEF OpInv, Fits, NoOp
  <2> QED
      BY <2>1, <2>2
<1>3. SyncInv'
    BY <1>0, <1>1, SyncStays
<1>4. Remembered'
    BY <1>0, <1>1, SameRemovals, RemovalsStay DEF Logging, Solving
<1>5. MergeInv'
    BY <1>0, <1>1, MergeStays
<1> QED
    BY <1>0, <1>1, <1>2, <1>3, <1>4, <1>5, LogStays, Assemble
-----------------------------------------------------------------------------
(* The theorems.                                                           *)

LEMMA NextKeeps == IInv /\ [Next]_vars => IInv'
<1> SUFFICES ASSUME IInv, [Next]_vars PROVE IInv'
    OBVIOUS
<1>1. CASE \E p \in Paths : StartCreate(p) \/ StartRemove(p) \/ StartChmod(p)
    BY <1>1, StartBegins, BeginsKeeps DEF IInv
<1>2. CASE \E p, q \in Paths : StartRename(p, q)
    BY <1>2, StartRenameBegins, BeginsKeeps DEF IInv
<1>3. CASE \E p \in Dirs \cup {<<>>} : StartReaddir(p)
    BY <1>3, StartReaddirBegins, BeginsKeeps DEF IInv
<1>4. CASE LocalRmdirFails \/ AskOpen \/ AskServer \/ Apply
    BY <1>4, RmdirFailsKeeps, AskOpenKeeps, AskServerKeeps, ApplyKeeps
<1>9. CASE LogInsert \/ LogSolve \/ LogChanges \/ LogMerge
    BY <1>9, LogInsertKeeps, LogSolveKeeps, LogChangesKeeps, LogMergeKeeps
<1>5. CASE SyncStart \/ SyncRead \/ SyncEnd \/ SyncDelete \/ SyncModified \/ SyncFinish
    BY <1>5, SyncStartKeeps, SyncReadKeeps, SyncDeleteKeeps, SyncModifiedKeeps
<1>6. CASE \E res \in Answers \cup {"NOSYS"} : SyncSend(res)
    BY <1>6, SyncSendKeeps
<1>7. CASE Disconnect \/ \E p \in Paths : Foreign(p)
    BY <1>7, DisconnectKeeps, ForeignKeeps
<1>8. CASE UNCHANGED vars
    BY <1>8, UnchangedKeeps
<1> QED
    BY <1>1, <1>2, <1>3, <1>4, <1>5, <1>6, <1>7, <1>8, <1>9 DEF Next, OpStep, SyncStep

LEMMA Invariance == Spec => []IInv
<1> QED
    BY InitIInv, NextKeeps, PTL DEF Spec

(* The tables hold paths, and the two constraints of the table "log" and   *)
(* its rowids hold whatever cache_log, cache_solve_conflict and the        *)
(* replaying rescuer do to it, in any order.                               *)
THEOREM TypeCorrect == Spec => []TypeOK
<1>1. IInv => TypeOK
    BY DEF IInv
<1> QED
    BY <1>1, Invariance, PTL

(* A removal that did not reach the server stays in the log, or is at work    *)
(* in cache_log, as long as the server has the name, unless the name came     *)
(* anew or the rescuer did one of the three things that Forgets and           *)
(* SyncModified name: whatever else is merged, replayed and deleted between   *)
(* any two statements, for any tree of paths and any names that match each    *)
(* other (kivfs_unlink, kivfs_rmdir, cache_solve_conflict, cache_log_delete). *)
THEOREM RemovalRememberedHolds == Spec => []RemovalRemembered
<1>1. IInv => RemovalRemembered
    BY DEF IInv, Remembered, RemovalRemembered, Logging
<1> QED
    BY <1>1, Invariance, PTL
=============================================================================
