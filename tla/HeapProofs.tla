----------------------------- MODULE HeapProofs -----------------------------
(***************************************************************************)
(* Proofs about Heap: the heap order is inductive, the item in the first   *)
(* slot is a best one, and the heap implements PriorityQueue, for any set  *)
(* of items, any weights and any initial size of the array.                *)
(***************************************************************************)
EXTENDS Heap, NumberProofs, TLAPS

(* Arithmetic of the slots: the children of a slot, and their parent.      *)
LEMMA UpFacts ==
    ASSUME NEW i \in Nat, i >= 2
    PROVE  /\ Up(i) \in Nat \ {0} /\ Up(i) < i
           /\ i = 2 * Up(i) \/ i = 2 * Up(i) + 1
    BY DEF Up

LEMMA ChildFacts ==
    ASSUME NEW i \in Nat \ {0}
    PROVE  Up(2 * i) = i /\ Up(2 * i + 1) = i
    BY DEF Up

(* Ranks are integers, so Better is the order of numbers.                  *)
LEMMA RankType == \A x \in Items : Rank(x) \in Int
    BY WeightAssumption DEF Rank

LEMMA BetterFacts ==
    /\ \A x \in Items : ~Better(x, x)
    /\ \A x, y \in Items : Better(x, y) => ~Better(y, x)
    /\ \A x, y, z \in Items : ~Better(x, y) /\ ~Better(y, z) => ~Better(x, z)
    BY RankType DEF Better
-----------------------------------------------------------------------------
(* The first slot holds a best item as soon as no repair is in progress.   *)

LEMMA HeldType == HeapTypeOK => \A i \in Used : Held(i) \in Items
    BY DEF HeapTypeOK, Held

LEMMA BestFirst ==
    ASSUME HeapTypeOK, Ordered, repair = "none"
    PROVE  \A i \in Used : ~Better(root[i], root[1])
<1> DEFINE Bad == {i \in Used : Better(root[i], root[1])}
<1>1. SUFFICES ASSUME Bad # {} PROVE FALSE
    OBVIOUS
<1>2. Bad \in SUBSET Nat
    BY DEF Used, HeapTypeOK
<1>3. PICK b \in Bad : \A m \in Bad : b <= m
  <2> HIDE DEF Bad
  <2> QED
    BY <1>1, <1>2, LeastNumber
<1>4. b \in Used /\ b \in Nat /\ root[b] \in Items /\ root[1] \in Items
    BY <1>2, <1>3 DEF Used, HeapTypeOK
<1>5. b >= 2
    BY <1>3, <1>4, BetterFacts DEF Used
<1>6. Up(b) \in Used /\ Up(b) < b
    BY <1>4, <1>5, UpFacts DEF Used, HeapTypeOK
<1>7. ~Better(root[b], root[Up(b)])
    BY <1>4, <1>5 DEF Ordered, Held
<1>8. ~Better(root[Up(b)], root[1])
    BY <1>2, <1>3, <1>6 DEF Used, HeapTypeOK
<1>9. root[Up(b)] \in Items
    BY <1>6 DEF HeapTypeOK
<1> QED
    BY <1>3, <1>4, <1>7, <1>8, <1>9, BetterFacts
-----------------------------------------------------------------------------
(* The invariant holds initially and is kept by every action.              *)

LEMMA InitInv == HeapInit => HeapInv
<1> SUFFICES ASSUME HeapInit PROVE HeapInv
    OBVIOUS
<1>1. HeapTypeOK
    BY HeapSizeAssumption DEF HeapInit, HeapTypeOK, Used
<1>2. Ordered /\ Bridged /\ Distinct
    BY DEF HeapInit, Ordered, Bridged, Distinct, Used
<1> QED
    BY <1>1, <1>2 DEF HeapInv

LEMMA AddInv ==
    ASSUME HeapInv, NEW x \in Items, HeapAdd(x)
    PROVE  HeapInv'
<1> USE DEF HeapInv
<1>1. /\ index \in Nat \ {0} /\ index < size /\ size \in Nat
      /\ Grown \in Nat /\ index + 1 < Grown /\ size <= Grown
    BY DEF HeapTypeOK, Grown
<1>2. Used' = Used \cup {index} /\ index \notin Used
    BY <1>1 DEF Used, HeapAdd
<1>3. \A i \in 1 .. Grown - 1 :
         root'[i] = IF i = index THEN x ELSE IF i < size THEN root[i] ELSE NULL
    BY DEF HeapAdd
<1>4. \A i \in Used : i < size /\ i \in Nat /\ i < index
    BY <1>1 DEF Used
<1>5. /\ \A i \in Used : Held(i) = root[i] /\ Held(i)' = root[i]
      /\ \A i : i = index => Held(i)' = x
  <2>1. repair = "none" /\ repair' = "bottom" /\ k' = index /\ last' = x
    BY DEF HeapAdd
  <2>2. \A i \in Used : i # index /\ root'[i] = root[i]
    BY <1>1, <1>3, <1>4 DEF Used
  <2> QED
    BY <2>1, <2>2 DEF Held
<1>6. HeapTypeOK'
  <2>1. size' \in Nat /\ index' \in 1 .. size' - 1
    BY <1>1 DEF HeapAdd
  <2>2. root' \in [1 .. size' - 1 -> Items \cup {NULL}]
    BY <1>1 DEF HeapAdd, HeapTypeOK
  <2>3. \A i \in Used' : root'[i] \in Items
    BY <1>1, <1>2, <1>3, <1>4 DEF HeapTypeOK, Used
  <2> QED
    BY <1>1, <1>2, <2>1, <2>2, <2>3 DEF HeapAdd, HeapTypeOK
<1>7. Ordered'
  <2> SUFFICES ASSUME NEW i \in Used' \ {1}, i # index
               PROVE  ~Better(Held(i)', Held(Up(i))')
    BY DEF Ordered, HeapAdd, Better, Rank
  <2>1. i \in Used /\ i \in Nat /\ i >= 2
    BY <1>2, <1>4 DEF Used
  <2>2. Up(i) \in Used
    BY <2>1, <1>1, <1>4, UpFacts DEF Used
  <2>3. ~Better(Held(i), Held(Up(i)))
    BY <2>1 DEF Ordered, HeapAdd
  <2> QED
    BY <1>5, <2>1, <2>2, <2>3
<1>8. Bridged'
  <2> SUFFICES ASSUME NEW i \in Used' \ {1}, Up(i) = index
               PROVE  FALSE
    BY DEF Bridged, HeapAdd
  <2>1. i \in Nat /\ i >= 2 /\ i <= index
    BY <1>1, <1>2, <1>4 DEF Used
  <2> QED
    BY <1>1, <2>1, UpFacts
<1>9. Distinct'
  <2>1. \A i \in Used : x # Held(i)
    BY DEF HeapAdd, Contents, Used
  <2>2. \A i, j \in Used : root[i] = root[j] => i = j
    BY <1>5 DEF Distinct
  <2> QED
    BY <1>2, <1>5, <2>1, <2>2 DEF Distinct
<1> QED
    BY <1>6, <1>7, <1>8, <1>9

LEMMA RiseInv ==
    ASSUME HeapInv, Rise
    PROVE  HeapInv'
<1> USE DEF HeapInv
<1>0. PICK p : p = Up(k)
    OBVIOUS
<1>1. /\ repair = "bottom" /\ k \in Used /\ k \in Nat /\ k >= 2 /\ last \in Items
      /\ p \in Used /\ p \in Nat \ {0} /\ p < k /\ index \in Nat
      /\ Better(last, root[p])
      /\ repair' = repair /\ index' = index /\ size' = size /\ last' = last
      /\ Used' = Used /\ k' = p
  <2>1. repair = "bottom" /\ k \in Used /\ k > 1 /\ last \in Items /\ index \in Nat
    BY DEF Rise, Rises, HeapTypeOK
  <2>2. k \in Nat /\ k >= 2 /\ k < index
    BY <2>1 DEF Used
  <2>3. p \in Nat \ {0} /\ p < k
    BY <1>0, <2>2, UpFacts
  <2> QED
    BY <1>0, <2>1, <2>2, <2>3 DEF Rise, Rises, Used
<1>2. \A i \in Used : root'[i] = IF i = k THEN root[p] ELSE root[i]
  <2>1. root' = [root EXCEPT ![k] = root[p]] /\ Used \subseteq DOMAIN root
    BY <1>0 DEF Rise, HeapTypeOK, Used
  <2> QED
    BY <2>1
<1>3. /\ \A i \in Used : Held(i) = IF i = k THEN last ELSE root[i]
      /\ \A i \in Used : Held(i)' = IF i = p THEN last ELSE IF i = k THEN root[p] ELSE root[i]
    BY <1>1, <1>2 DEF Held
<1>4. \A i \in Used : root[i] \in Items
    BY DEF HeapTypeOK
<1>5. HeapTypeOK'
  <2>1. root' \in [1 .. size' - 1 -> Items \cup {NULL}]
    BY <1>0, <1>1, <1>4 DEF Rise, HeapTypeOK
  <2>2. \A i \in Used' : root'[i] \in Items
    BY <1>1, <1>2, <1>4
  <2> QED
    BY <1>1, <2>1, <2>2 DEF HeapTypeOK, Rise
<1>6. \A i \in Used \ {1} : i \in Nat /\ i >= 2 /\ Up(i) \in Used /\ Up(i) < i
  <2> TAKE i \in Used \ {1}
  <2>1. i \in Nat /\ i >= 2 /\ i < index
    BY <1>1 DEF Used
  <2> QED
    BY <1>1, <2>1, UpFacts DEF Used
<1>7. \A i \in Used \ {1} : i # k => ~Better(root[i], Held(Up(i)))
    BY <1>1, <1>3 DEF Ordered
<1>8. \A i \in Used \ {1} : Up(i) = k => ~Better(root[i], root[p])
    BY <1>0, <1>1, <1>3, <1>6 DEF Bridged
<1>9. Ordered'
  <2> SUFFICES ASSUME NEW i \in Used \ {1}, i # p
               PROVE  ~Better(Held(i)', Held(Up(i))')
    BY <1>1 DEF Ordered, Better, Rank
  <2>1. CASE i = k
    BY <2>1, <1>0, <1>1, <1>3, <1>4, BetterFacts
  <2>2. CASE i # k /\ Up(i) = p
    BY <2>2, <1>1, <1>3, <1>4, <1>7, BetterFacts
  <2>3. CASE i # k /\ Up(i) = k
    BY <2>3, <1>1, <1>3, <1>6, <1>8
  <2>4. CASE i # k /\ Up(i) # p /\ Up(i) # k
    BY <2>4, <1>3, <1>6, <1>7
  <2> QED
    BY <2>1, <2>2, <2>3, <2>4
<1>10. Bridged'
  <2> SUFFICES ASSUME p > 1, NEW i \in Used \ {1}, Up(i) = p
               PROVE  ~Better(Held(i)', Held(Up(p))')
    BY <1>1 DEF Bridged, Better, Rank
  <2>1. Up(p) \in Used /\ Up(p) # p /\ Up(p) # k /\ i # p
    BY <1>1, <1>6, UpFacts
  <2>2. Held(Up(p))' = root[Up(p)] /\ Held(Up(p)) = root[Up(p)]
    BY <2>1, <1>1, <1>3
  <2>3. ~Better(root[p], root[Up(p)])
    BY <2>2, <1>1, <1>7
  <2>4. CASE i = k
    BY <2>1, <2>2, <2>3, <2>4, <1>1, <1>3
  <2>5. CASE i # k
    <3>0. Held(p) = root[p] /\ p # k
      BY <1>1, <1>3
    <3>1. Held(i)' = root[i] /\ ~Better(root[i], root[p])
      BY <3>0, <2>1, <2>5, <1>3, <1>7
    <3>2. root[i] \in Items /\ root[p] \in Items /\ root[Up(p)] \in Items
      BY <2>1, <1>1, <1>4
    <3>3. ~Better(root[i], root[Up(p)])
      BY <3>1, <3>2, <2>3, BetterFacts
    <3> QED
      BY <3>1, <3>3, <2>2
  <2> QED
    BY <2>4, <2>5
<1>11. Distinct'
  <2>1. \A i, j \in Used : Held(i) = Held(j) => i = j
    BY DEF Distinct
  <2>2. \A i, j \in Used \ {k} : root[i] = root[j] => i = j
    BY <2>1, <1>3
  <2>3. \A i \in Used \ {k} : root[i] # last
    BY <2>1, <1>1, <1>3
  <2> QED
    BY <2>2, <2>3, <1>1, <1>3 DEF Distinct
<1> QED
    BY <1>5, <1>9, <1>10, <1>11

LEMMA PlaceInv ==
    ASSUME HeapInv, Place
    PROVE  HeapInv'
<1> USE DEF HeapInv
<1>1. /\ repair = "bottom" /\ k \in Used /\ k \in Nat \ {0} /\ last \in Items
      /\ index \in Nat
      /\ k > 1 => ~Better(last, root[Up(k)])
      /\ repair' = "none" /\ index' = index /\ size' = size
      /\ Used' = Used /\ k' = 1
    BY DEF Place, Rises, HeapTypeOK, Used
<1>2. \A i \in Used : root'[i] = IF i = k THEN last ELSE root[i]
  <2>1. root' = [root EXCEPT ![k] = last] /\ Used \subseteq DOMAIN root
    BY DEF Place, HeapTypeOK, Used
  <2> QED
    BY <2>1
<1>3. \A i \in Used : Held(i)' = Held(i)
    BY <1>1, <1>2 DEF Held
<1>4. HeapTypeOK'
  <2>1. root' \in [1 .. size' - 1 -> Items \cup {NULL}]
    BY <1>1 DEF Place, HeapTypeOK
  <2>2. \A i \in Used' : root'[i] \in Items
    BY <1>1, <1>2 DEF HeapTypeOK
  <2> QED
    BY <1>1, <2>1, <2>2 DEF HeapTypeOK, Place
<1>5. Ordered'
  <2> SUFFICES ASSUME NEW i \in Used \ {1}
               PROVE  ~Better(Held(i)', Held(Up(i))')
    BY <1>1 DEF Ordered, Better, Rank
  <2>1. i \in Nat /\ i >= 2 /\ i < index
    BY <1>1 DEF Used
  <2>2. Up(i) \in Used /\ Up(i) # i
    BY <2>1, <1>1, UpFacts DEF Used
  <2>3. ~Better(Held(i), Held(Up(i)))
    BY <2>1, <2>2, <1>1 DEF Ordered, Held
  <2> QED
    BY <2>2, <2>3, <1>3
<1>6. Bridged' /\ Distinct'
    BY <1>1, <1>3 DEF Bridged, Distinct
<1> QED
    BY <1>4, <1>5, <1>6

LEMMA PollInv ==
    ASSUME HeapInv, HeapPoll
    PROVE  HeapInv'
<1> USE DEF HeapInv
<1>1. /\ repair = "none" /\ index \in Nat /\ index > 1
      /\ repair' = "top" /\ index' = index - 1 /\ size' = size /\ k' = 1
      /\ 1 \in Used /\ index - 1 \in Used
      /\ Used' = Used \ {index - 1}
    BY DEF HeapPoll, HeapTypeOK, Used
<1>2. \A i \in Used : root'[i] = IF i = 1 THEN root[index - 1] ELSE root[i]
  <2>1. root' = [root EXCEPT ![1] = root[index - 1]] /\ Used \subseteq DOMAIN root
    BY DEF HeapPoll, HeapTypeOK, Used
  <2> QED
    BY <2>1
<1>3. \A i \in Used : Held(i) = root[i] /\ Held(i)' = root'[i]
    BY <1>1 DEF Held
<1>4. HeapTypeOK'
  <2>1. root' \in [1 .. size' - 1 -> Items \cup {NULL}]
    BY <1>1 DEF HeapPoll, HeapTypeOK
  <2>2. \A i \in Used' : root'[i] \in Items
    BY <1>1, <1>2 DEF HeapTypeOK
  <2>3. index' \in 1 .. size' - 1 /\ polled' \in Items \cup {NULL}
    BY <1>1 DEF HeapTypeOK, HeapPoll
  <2> QED
    BY <1>1, <2>1, <2>2, <2>3 DEF HeapTypeOK, HeapPoll
<1>5. Ordered'
  <2> SUFFICES ASSUME NEW i \in Used' \ {1}, Up(i) # 1
               PROVE  ~Better(Held(i)', Held(Up(i))')
    BY <1>1 DEF Ordered, Better, Rank
  <2>1. i \in Nat /\ i >= 2 /\ i < index /\ i \in Used
    BY <1>1 DEF Used
  <2>2. Up(i) \in Used
    BY <2>1, <1>1, UpFacts DEF Used
  <2>3. ~Better(Held(i), Held(Up(i)))
    BY <2>1, <1>1 DEF Ordered
  <2> QED
    BY <2>1, <2>2, <2>3, <1>2, <1>3
<1>6. Bridged'
    BY <1>1 DEF Bridged
<1>7. Distinct'
  <2>1. \A i, j \in Used : root[i] = root[j] => i = j
    BY <1>3 DEF Distinct
  <2> QED
    BY <2>1, <1>1, <1>2, <1>3 DEF Distinct
<1> QED
    BY <1>4, <1>5, <1>6, <1>7

(* The child repair_from_top compares with its parent: it is in the heap,  *)
(* and no other child of that parent is better.                            *)
LEMMA ChildIsBest ==
    ASSUME HeapInv, repair = "top", 2 * k < index
    PROVE  /\ k \in Used /\ k \in Nat \ {0} /\ Child \in Used \ {1} /\ Up(Child) = k
           /\ Child > k
           /\ \A i \in Used \ {1} : Up(i) = k => ~Better(root[i], root[Child])
<1> USE DEF HeapInv
<1>1. k \in Nat \ {0} /\ index \in Nat /\ k \in Used
    BY DEF HeapTypeOK, Used
<1>2. 2 * k \in Used /\ (2 * k + 1 \in Used <=> 2 * k < index - 1)
    BY <1>1 DEF Used
<1>3. Child \in {2 * k, 2 * k + 1} /\ Child \in Used
    BY <1>2 DEF Child
<1>4. Up(Child) = k /\ Child > k /\ Child # 1
    BY <1>1, <1>3, ChildFacts
<1>5. ASSUME NEW i \in Used \ {1}, Up(i) = k
      PROVE  ~Better(root[i], root[Child])
  <2>1. i \in Nat /\ i >= 2
    BY <1>1 DEF Used
  <2>2. i = 2 * k \/ i = 2 * k + 1
    BY <2>1, <1>5, UpFacts
  <2>3. root[2 * k] \in Items
    BY <1>2 DEF HeapTypeOK
  <2>4. 2 * k + 1 \in Used => root[2 * k + 1] \in Items
    BY DEF HeapTypeOK
  <2>5. CASE i = 2 * k
    BY <2>3, <2>4, <2>5, <1>2, BetterFacts DEF Child
  <2>6. CASE i = 2 * k + 1
    BY <2>3, <2>4, <2>6, <1>2, BetterFacts DEF Child
  <2> QED
    BY <2>2, <2>5, <2>6
<1> QED
    BY <1>1, <1>3, <1>4, <1>5

LEMMA SinkInv ==
    ASSUME HeapInv, Sink
    PROVE  HeapInv'
<1> USE DEF HeapInv
<1>0. PICK c : c = Child
    OBVIOUS
<1>1. /\ repair = "top" /\ index \in Nat /\ k \in Used /\ k \in Nat \ {0}
      /\ c \in Used /\ c \in Nat /\ c > k /\ Up(c) = k
      /\ Better(root[c], root[k])
      /\ repair' = "top" /\ index' = index /\ size' = size /\ Used' = Used /\ k' = c
      /\ \A i \in Used \ {1} : Up(i) = k => ~Better(root[i], root[c])
  <2>1. repair = "top" /\ 2 * k < index /\ Better(root[c], root[k]) /\ index \in Nat
    BY <1>0 DEF Sink, Sinks, HeapTypeOK
  <2> QED
    BY <2>1, <1>0, ChildIsBest DEF Sink, Used
<1>2. \A i \in Used : root[i] \in Items
    BY DEF HeapTypeOK
<1>3. \A i \in Used :
         root'[i] = IF i = c THEN root[k] ELSE IF i = k THEN root[c] ELSE root[i]
  <2>1. root' = [root EXCEPT ![k] = root[c], ![c] = root[k]] /\ Used \subseteq DOMAIN root
    BY <1>0 DEF Sink, HeapTypeOK, Used
  <2> QED
    BY <2>1, <1>1
<1>4. \A i \in Used : Held(i) = root[i] /\ Held(i)' = root'[i]
    BY <1>1 DEF Held
<1>5. HeapTypeOK'
  <2>1. root' \in [1 .. size' - 1 -> Items \cup {NULL}]
    BY <1>0, <1>1, <1>2 DEF Sink, HeapTypeOK
  <2>2. \A i \in Used' : root'[i] \in Items
    BY <1>1, <1>2, <1>3
  <2>3. polled' = polled /\ polled \in Items \cup {NULL} /\ index \in 1 .. size - 1
        /\ size \in Nat
    BY DEF Sink, HeapTypeOK
  <2> QED
    BY <1>1, <2>1, <2>2, <2>3 DEF HeapTypeOK
<1>6. \A i \in Used \ {1} : Up(i) \in Used /\ Up(i) # i
  <2> TAKE i \in Used \ {1}
  <2>1. i \in Nat /\ i >= 2 /\ i < index
    BY <1>1 DEF Used
  <2> QED
    BY <1>1, <2>1, UpFacts DEF Used
<1>7. \A i \in Used \ {1} : Up(i) # k => ~Better(root[i], root[Up(i)])
    BY <1>1, <1>4, <1>6 DEF Ordered
<1>8. Ordered'
  <2> SUFFICES ASSUME NEW i \in Used \ {1}, Up(i) # c
               PROVE  ~Better(root'[i], root'[Up(i)])
    BY <1>1, <1>4, <1>6 DEF Ordered, Better, Rank
  <2>1. CASE i = c
    BY <2>1, <1>1, <1>2, <1>3, BetterFacts
  <2>2. CASE i # c /\ Up(i) = k
    <3>1. root'[i] = root[i] /\ root'[Up(i)] = root[c]
      BY <2>2, <1>1, <1>3, <1>6
    <3> QED
      BY <3>1, <2>2, <1>1
  <2>3. CASE i = k
    <3>1. k > 1 /\ Up(k) # c /\ Up(k) \in Used /\ Up(k) # k
      BY <2>3, <1>1, <1>6
    <3>2. root'[i] = root[c] /\ root'[Up(i)] = root[Up(k)]
      BY <2>3, <3>1, <1>1, <1>3
    <3>3. c \in Used \ {1}
      BY <1>1
    <3>4. ~Better(root[c], root[Up(k)])
      BY <3>1, <3>3, <1>1, <1>4 DEF Bridged
    <3> QED
      BY <3>2, <3>4
  <2>4. CASE i # c /\ i # k /\ Up(i) # k
    BY <2>4, <1>3, <1>6, <1>7
  <2> QED
    BY <2>1, <2>2, <2>3, <2>4
<1>9. Bridged'
  <2> SUFFICES ASSUME NEW i \in Used \ {1}, Up(i) = c
               PROVE  ~Better(root'[i], root'[k])
    BY <1>1, <1>4 DEF Bridged, Better, Rank
  <2>1. i # c /\ i # k
    <3>1. i \in Nat /\ i >= 2
      BY <1>1 DEF Used
    <3> QED
      BY <3>1, <1>1, UpFacts
  <2>2. ~Better(root[i], root[c])
    BY <1>1, <1>7
  <2> QED
    BY <2>1, <2>2, <1>1, <1>3
<1>10. Distinct'
  <2>1. \A i, j \in Used : root[i] = root[j] => i = j
    BY <1>4 DEF Distinct
  <2>2. \A i, j \in Used : root'[i] = root'[j] => i = j
    BY <2>1, <1>1, <1>3
  <2> QED
    BY <2>2, <1>1, <1>4 DEF Distinct
<1> QED
    BY <1>5, <1>8, <1>9, <1>10

LEMMA RestInv ==
    ASSUME HeapInv, Rest
    PROVE  HeapInv'
<1> USE DEF HeapInv
<1>1. /\ repair = "top" /\ repair' = "none" /\ index' = index /\ root' = root /\ k' = 1
      /\ size' = size /\ Used' = Used /\ index \in Nat /\ k \in Nat \ {0}
    BY DEF Rest, HeapTypeOK, Used
<1>2. \A i \in Used : Held(i) = root[i] /\ Held(i)' = root[i] /\ root[i] \in Items
    BY <1>1 DEF Held, HeapTypeOK
<1>3. HeapTypeOK'
  <2>1. \A i \in Used' : root'[i] \in Items
    BY <1>1, <1>2
  <2>2. polled' = polled /\ polled \in Items \cup {NULL} /\ index \in 1 .. size - 1
    BY DEF Rest, HeapTypeOK
  <2>3. size \in Nat /\ root \in [1 .. size - 1 -> Items \cup {NULL}]
    BY DEF HeapTypeOK
  <2> QED
    BY <1>1, <2>1, <2>2, <2>3 DEF HeapTypeOK
<1>4. Ordered'
  <2> SUFFICES ASSUME NEW i \in Used \ {1}
               PROVE  ~Better(Held(i)', Held(Up(i))')
    BY <1>1 DEF Ordered, Better, Rank
  <2>1. i \in Nat /\ i >= 2 /\ i < index
    BY <1>1 DEF Used
  <2>2. Up(i) \in Used
    BY <2>1, <1>1, UpFacts DEF Used
  <2>3. CASE Up(i) # k
    BY <2>2, <2>3, <1>1, <1>2 DEF Ordered
  <2>4. CASE Up(i) = k
    <3>1. 2 * k < index
      BY <2>1, <2>4, <1>1, UpFacts
    <3>2. ~Better(root[i], root[Child]) /\ Child \in Used
      BY <3>1, <2>4, <1>1, ChildIsBest
    <3>3. ~Better(root[Child], root[k])
      BY <3>1 DEF Rest, Sinks
    <3>4. root[Child] \in Items
      BY <3>2, <1>2
    <3>5. ~Better(root[i], root[k])
      BY <3>2, <3>3, <3>4, <2>2, <2>4, <1>2, BetterFacts
    <3> QED
      BY <3>5, <2>2, <2>4, <1>2
  <2> QED
    BY <2>3, <2>4
<1>5. Bridged' /\ Distinct'
    BY <1>1, <1>2 DEF Bridged, Distinct
<1> QED
    BY <1>3, <1>4, <1>5

(* The order of the heap is kept by every step of heap.c.                  *)
LEMMA NextInv == HeapInv /\ [HeapNext]_heapVars => HeapInv'
<1> SUFFICES ASSUME HeapInv, [HeapNext]_heapVars PROVE HeapInv'
    OBVIOUS
<1>1. CASE \E x \in Items : HeapAdd(x)
    BY <1>1, AddInv
<1>2. CASE HeapPoll
    BY <1>2, PollInv
<1>3. CASE HeapPollEmpty
  <2>1. polled' = NULL /\ UNCHANGED <<root, size, index, repair, k, last>>
    BY <1>3 DEF HeapPollEmpty
  <2> QED
    BY <2>1 DEF HeapInv, HeapTypeOK, Ordered, Bridged, Distinct, Held, Used, Better, Rank
<1>4. CASE HeapRenew
  <2>1. HeapTypeOK'
    BY <1>4, HeapSizeAssumption DEF HeapRenew, HeapTypeOK, Used
  <2>2. Ordered' /\ Bridged' /\ Distinct'
    BY <1>4 DEF HeapRenew, Ordered, Bridged, Distinct, Used
  <2> QED
    BY <2>1, <2>2 DEF HeapInv
<1>5. CASE Repair
    BY <1>5, RiseInv, PlaceInv, SinkInv, RestInv DEF Repair
<1>6. CASE UNCHANGED heapVars
    BY <1>6 DEF heapVars, HeapInv, HeapTypeOK, Ordered, Bridged, Distinct, Held, Used,
                Better, Rank
<1> QED
    BY <1>1, <1>2, <1>3, <1>4, <1>5, <1>6 DEF HeapNext

(* Bounds, order and injectivity of the heap hold for every run of it.     *)
THEOREM HeapIsOrdered == HeapSpec => []HeapInv
<1>1. HeapInit => HeapInv
    BY InitInv
<1>2. HeapInv /\ [HeapNext]_heapVars => HeapInv'
    BY NextInv
<1> QED
    BY <1>1, <1>2, PTL DEF HeapSpec
-----------------------------------------------------------------------------
(* The heap implements PriorityQueue.                                      *)

(* What is in the slots, when Held is known in both states.                *)
LEMMA SameContents ==
    ASSUME Used' = Used, \A i \in Used : Held(i)' = Held(i)
    PROVE  Contents' = Contents
    BY DEF Contents, Used

LEMMA SwappedContents ==
    ASSUME Used' = Used, NEW a \in Used, NEW b \in Used,
           \A i \in Used : Held(i)' = IF i = a THEN Held(b) ELSE IF i = b THEN Held(a) ELSE Held(i)
    PROVE  Contents' = Contents
<1>1. Contents = {Held(i) : i \in Used} /\ Contents' = {Held(i)' : i \in Used}
    BY DEF Contents, Used
<1>2. ASSUME NEW x \in Contents PROVE x \in Contents'
  <2>1. PICK i \in Used : x = Held(i)
    BY <1>1, <1>2
  <2>2. CASE i = a
    BY <1>1, <2>1, <2>2
  <2>3. CASE i = b
    BY <1>1, <2>1, <2>3
  <2>4. CASE i # a /\ i # b
    BY <1>1, <2>1, <2>4
  <2> QED
    BY <2>2, <2>3, <2>4
<1>3. ASSUME NEW x \in Contents' PROVE x \in Contents
  <2>1. PICK i \in Used : x = Held(i)'
    BY <1>1, <1>3
  <2> QED
    BY <1>1, <2>1
<1> QED
    BY <1>2, <1>3

LEMMA AddInserts ==
    ASSUME HeapInv, NEW x \in Items, HeapAdd(x)
    PROVE  PQ!Insert(x)
<1>1. index \in Nat \ {0} /\ index < size /\ size \in Nat /\ Grown \in Nat /\ index < Grown
    BY DEF HeapInv, HeapTypeOK, Grown
<1>2. Used' = Used \cup {index} /\ index \notin Used
    BY <1>1 DEF Used, HeapAdd
<1>3. \A i \in Used : Held(i)' = Held(i)
    BY <1>1 DEF HeapAdd, Held, Used
<1>4. \A i : i = index => Held(i)' = x
    BY DEF HeapAdd, Held
<1>5. Contents = {Held(i) : i \in Used} /\ Contents' = {Held(i)' : i \in Used'}
    BY DEF Contents, Used
<1>6. Contents' = Contents \cup {x}
  <2>1. ASSUME NEW y \in Contents' PROVE y \in Contents \cup {x}
    BY <2>1, <1>2, <1>3, <1>4, <1>5
  <2>2. Contents \subseteq Contents'
    BY <1>2, <1>3, <1>5
  <2>3. x \in Contents'
    BY <1>2, <1>4, <1>5
  <2> QED
    BY <2>1, <2>2, <2>3
<1> QED
    BY <1>6 DEF PQ!Insert, HeapAdd

LEMMA PollRemovesBest ==
    ASSUME HeapInv, HeapPoll
    PROVE  \E x \in Items : PQ!Remove(x)
<1>1. /\ repair = "none" /\ repair' = "top" /\ index \in Nat /\ index > 1
      /\ 1 \in Used /\ index - 1 \in Used
      /\ Used' = Used \ {index - 1} /\ polled' = root[1]
    BY DEF HeapPoll, HeapInv, HeapTypeOK, Used
<1>2. \A i \in Used : root'[i] = IF i = 1 THEN root[index - 1] ELSE root[i]
  <2>1. root' = [root EXCEPT ![1] = root[index - 1]] /\ Used \subseteq DOMAIN root
    BY DEF HeapPoll, HeapInv, HeapTypeOK, Used
  <2> QED
    BY <2>1
<1>3. \A i \in Used : Held(i) = root[i] /\ Held(i)' = root'[i]
    BY <1>1 DEF Held
<1>4. Contents = {root[i] : i \in Used} /\ Contents' = {root'[i] : i \in Used'}
    BY <1>1, <1>3 DEF Contents, Used
<1>5. \A i, j \in Used : root[i] = root[j] => i = j
    BY <1>3 DEF HeapInv, Distinct
<1>6. Contents' = Contents \ {root[1]}
  <2>1. ASSUME NEW y \in Contents' PROVE y \in Contents /\ y # root[1]
    <3>1. PICK i \in Used' : y = root'[i]
      BY <2>1, <1>4
    <3> QED
      BY <3>1, <1>1, <1>2, <1>4, <1>5
  <2>2. ASSUME NEW y \in Contents, y # root[1] PROVE y \in Contents'
    <3>1. PICK i \in Used : y = root[i]
      BY <2>2, <1>4
    <3>2. CASE i = index - 1
      BY <2>2, <3>1, <3>2, <1>1, <1>2, <1>4
    <3>3. CASE i # index - 1
      BY <2>2, <3>1, <3>3, <1>1, <1>2, <1>4
    <3> QED
      BY <3>2, <3>3
  <2> QED
    BY <2>1, <2>2
<1>7. root[1] \in Items /\ root[1] \in Contents
    BY <1>1, <1>4 DEF HeapInv, HeapTypeOK
<1>8. \A y \in Contents : ~Better(y, root[1])
    BY <1>1, <1>4, BestFirst DEF HeapInv
<1> QED
    BY <1>1, <1>6, <1>7, <1>8 DEF PQ!Remove

(* An iteration of a repair loop changes nothing a user can see.           *)
LEMMA RepairStutters ==
    ASSUME HeapInv, Repair
    PROVE  Contents' = Contents /\ polled' = polled
<1>1. polled' = polled /\ index' = index /\ Used' = Used
    BY DEF Repair, Rise, Place, Sink, Rest, Used
<1>2. k \in Nat \ {0} /\ index \in Nat /\ Used \subseteq DOMAIN root
    BY DEF HeapInv, HeapTypeOK, Used
<1>3. CASE Rise
  <2>1. PICK p : p = Up(k)
    OBVIOUS
  <2>2. k \in Used /\ k >= 2 /\ p \in Used /\ p # k /\ p \in Nat
    BY <1>2, <1>3, <2>1, UpFacts DEF Rise, Rises, HeapInv, HeapTypeOK, Used
  <2>3. repair = "bottom" /\ repair' = "bottom" /\ k' = p /\ last' = last
        /\ root' = [root EXCEPT ![k] = root[p]]
    BY <1>3, <2>1 DEF Rise
  <2>4. \A i \in Used : Held(i)' = IF i = k THEN Held(p) ELSE IF i = p THEN Held(k) ELSE Held(i)
    BY <1>2, <2>2, <2>3 DEF Held
  <2> QED
    BY <1>1, <2>2, <2>4, SwappedContents
<1>4. CASE Place
  <2>1. \A i \in Used : Held(i)' = Held(i)
    BY <1>2, <1>4 DEF Place, Held
  <2> QED
    BY <1>1, <2>1, SameContents
<1>5. CASE Sink
  <2>1. PICK c : c = Child
    OBVIOUS
  <2>2. k \in Used /\ c \in Used /\ c # k
    BY <1>5, <2>1, ChildIsBest, <1>2 DEF Sink, Sinks, Used
  <2>3. repair = "top" /\ repair' = "top"
        /\ root' = [root EXCEPT ![k] = root[c], ![c] = root[k]]
    BY <1>5, <2>1 DEF Sink
  <2>4. \A i \in Used : Held(i)' = IF i = k THEN Held(c) ELSE IF i = c THEN Held(k) ELSE Held(i)
    BY <1>2, <2>2, <2>3 DEF Held
  <2> QED
    BY <1>1, <2>2, <2>4, SwappedContents
<1>6. CASE Rest
  <2>1. \A i \in Used : Held(i)' = Held(i)
    BY <1>6 DEF Rest, Held
  <2> QED
    BY <1>1, <2>1, SameContents
<1> QED
    BY <1>1, <1>3, <1>4, <1>5, <1>6 DEF Repair

LEMMA StepRefines ==
    ASSUME HeapInv, [HeapNext]_heapVars
    PROVE  [PQ!PQNext]_(PQ!pqVars)
<1>1. CASE \E x \in Items : HeapAdd(x)
    BY <1>1, AddInserts DEF PQ!PQNext
<1>2. CASE HeapPoll
    BY <1>2, PollRemovesBest DEF PQ!PQNext
<1>3. CASE HeapPollEmpty
  <2>1. Contents = {} /\ Contents' = Contents
    BY <1>3 DEF HeapPollEmpty, Contents, Held
  <2> QED
    BY <1>3, <2>1 DEF HeapPollEmpty, PQ!PQNext, PQ!RemoveNone
<1>4. CASE HeapRenew
  <2>1. Contents' = {}
    BY <1>4 DEF HeapRenew, HeapInit, Contents
  <2> QED
    BY <1>4, <2>1 DEF HeapRenew, HeapInit, PQ!PQNext, PQ!Clear
<1>5. CASE Repair
    BY <1>5, RepairStutters DEF PQ!pqVars
<1>6. CASE UNCHANGED heapVars
    BY <1>6 DEF heapVars, PQ!pqVars, Contents, Held
<1> QED
    BY <1>1, <1>2, <1>3, <1>4, <1>5, <1>6 DEF HeapNext

(* Every behaviour of heap.c is one of the abstract queue: no item is lost *)
(* or polled twice, and each poll takes one that no other is better than.  *)
THEOREM HeapImplementsQueue == HeapSpec => HeapIsQueue
<1>1. HeapInit => PQ!PQInit
    BY DEF HeapInit, PQ!PQInit, Contents
<1>2. HeapInv /\ [HeapNext]_heapVars => [PQ!PQNext]_(PQ!pqVars)
    BY StepRefines
<1> QED
    BY <1>1, <1>2, HeapIsOrdered, PTL DEF HeapSpec, HeapIsQueue, PQ!PQSpec
=============================================================================
