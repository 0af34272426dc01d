-------------------------------- MODULE Heap --------------------------------
(***************************************************************************)
(* The binary heap of heap.c, in which qlfuss of cleanup.c orders the      *)
(* files it evicts: heap_create, heap_add and heap_poll, with every        *)
(* iteration of the loops of repair_from_bottom and repair_from_top a      *)
(* step of its own.  No option selects that policy (main.c:57-63), so the  *)
(* heap is code that only another default policy would run.                *)
(*                                                                         *)
(* The array grows by realloc and never shrinks; a slot that was given up  *)
(* keeps its pointer.  Weights are numbers: the comparator of cleanup.c is *)
(* no order on NaN.                                                        *)
(***************************************************************************)
EXTENDS Integers

CONSTANTS
    Items,      \* the data pointers users store, each at most once at a time
    Weight,     \* what heap->compare compares, for every item
    HeapType,   \* HEAP_MIN or HEAP_MAX
    HeapSize,   \* the initial size
    NULL        \* no item: a slot never written, the result of an empty heap

ASSUME ItemsAssumption  == NULL \notin Items
ASSUME WeightAssumption == Weight \in [Items -> Int]
ASSUME HeapTypeAssumption == HeapType \in {"HEAP_MIN", "HEAP_MAX"}
ASSUME HeapSizeAssumption == HeapSize \in Nat /\ HeapSize >= 2

VARIABLES
    root,       \* the array; its slot 0 is never used
    size,       \* the slots allocated, slot 0 included
    index,      \* the first free slot
    repair,     \* the loop in progress: none, from the bottom or from the top
    k,          \* where that loop is
    last,       \* repair_from_bottom: the item to be placed
    polled      \* the result of the last heap_poll

heapVars == <<root, size, index, repair, k, last, polled>>
-----------------------------------------------------------------------------
\* heap_compare(a, b) > 0, which HEAP_MIN negates
Rank(x) == IF HeapType = "HEAP_MIN" THEN -Weight[x] ELSE Weight[x]
Better(x, y) == Rank(x) > Rank(y)

Up(i) == i \div 2

\* heap_create
HeapInit ==
    /\ size = HeapSize /\ index = 1
    /\ root = [i \in 1 .. HeapSize - 1 |-> NULL]
    /\ repair = "none" /\ k = 1 /\ last = NULL /\ polled = NULL

\* the slot that holds item i of the heap, or would if repair_from_bottom had
\* placed "last" already
Held(i) == IF repair = "bottom" /\ i = k THEN last ELSE root[i]
Contents == {Held(i) : i \in 1 .. index - 1}

\* heap_add, up to the call of repair_from_bottom
Grown == IF index + 1 = size THEN 2 * size ELSE size
HeapAdd(x) ==
    /\ repair = "none" /\ x \notin Contents
    /\ index' = index + 1 /\ size' = Grown
    /\ root' = [i \in 1 .. Grown - 1 |->
                  IF i = index THEN x ELSE IF i < size THEN root[i] ELSE NULL]
    /\ repair' = "bottom" /\ k' = index /\ last' = x
    /\ UNCHANGED polled

\* repair_from_bottom: an iteration of its loop, and its end
\* mutant: the arguments of the comparison are swapped
RisesSwapped == k > 1 /\ Better(root[Up(k)], last)
Rises == k > 1 /\ Better(last, root[Up(k)])
Rise ==
    /\ repair = "bottom" /\ Rises
    /\ root' = [root EXCEPT ![k] = root[Up(k)]]
    /\ k' = Up(k)
    /\ UNCHANGED <<size, index, repair, last, polled>>
Place ==
    /\ repair = "bottom" /\ ~Rises
    /\ root' = [root EXCEPT ![k] = last]
    /\ repair' = "none" /\ k' = 1 /\ last' = NULL
    /\ UNCHANGED <<size, index, polled>>

\* heap_poll, up to the call of repair_from_top
HeapPoll ==
    /\ repair = "none" /\ index > 1
    /\ polled' = root[1]
    /\ root' = [root EXCEPT ![1] = root[index - 1]]
    /\ index' = index - 1
    /\ repair' = "top" /\ k' = 1
    /\ UNCHANGED <<size, last>>

\* heap_poll of an empty heap has looked at root[1]->data by then: the process
\* survives only if the heap once held an item
HeapPollEmpty ==
    /\ repair = "none" /\ index = 1 /\ root[1] # NULL
    /\ polled' = NULL
    /\ UNCHANGED <<root, size, index, repair, k, last>>

\* repair_from_top: the better one of the children, an iteration, the end
\* mutant: the second child of the last parent is forgotten
FirstChild == 2 * k
Child == IF 2 * k < index - 1 /\ Better(root[2 * k + 1], root[2 * k]) THEN 2 * k + 1 ELSE 2 * k
Sinks == 2 * k < index /\ Better(root[Child], root[k])
Sink ==
    /\ repair = "top" /\ Sinks
    /\ root' = [root EXCEPT ![k] = root[Child], ![Child] = root[k]]
    /\ k' = Child
    /\ UNCHANGED <<size, index, repair, last, polled>>
Rest ==
    /\ repair = "top" /\ ~Sinks
    /\ repair' = "none" /\ k' = 1
    /\ UNCHANGED <<root, size, index, last, polled>>

\* heap_destroy, or the end of the process; the next heap_create starts afresh
HeapRenew ==
    /\ size' = HeapSize /\ index' = 1
    /\ root' = [i \in 1 .. HeapSize - 1 |-> NULL]
    /\ repair' = "none" /\ k' = 1 /\ last' = NULL /\ polled' = NULL

Repair == Rise \/ Place \/ Sink \/ Rest
HeapNext == (\E x \in Items : HeapAdd(x)) \/ HeapPoll \/ HeapPollEmpty \/ HeapRenew \/ Repair

HeapSpec == HeapInit /\ [][HeapNext]_heapVars
-----------------------------------------------------------------------------
(* Properties.                                                             *)

\* Types, and the bounds of the array: heap_add writes root[index] before it
\* compares index with size, repair_from_top reads a second child only if there
\* is one, and the slots in use hold items.
Used == 1 .. index - 1
HeapTypeOK ==
    /\ size \in Nat /\ index \in 1 .. size - 1
    /\ root \in [1 .. size - 1 -> Items \cup {NULL}]
    /\ \A i \in Used : root[i] \in Items
    /\ repair \in {"none", "bottom", "top"}
    /\ k \in Nat \ {0}
    /\ repair = "bottom" => k \in Used /\ last \in Items
    /\ repair = "top" /\ k # 1 => k \in Used
    /\ polled \in Items \cup {NULL}

\* No item is better than the one above it, except where a loop of heap.c is
\* about to repair the order; there, the items below that place are not better
\* than the one above it.
Ordered ==
    \A i \in Used \ {1} :
        \/ ~Better(Held(i), Held(Up(i)))
        \/ repair = "bottom" /\ i = k
        \/ repair = "top" /\ Up(i) = k
Bridged ==
    repair # "none" /\ k > 1 =>
        \A i \in Used \ {1} : Up(i) = k => ~Better(Held(i), Held(Up(k)))

\* No item is in two slots: the swaps and shifts of the repairs lose and
\* duplicate nothing.
Distinct == \A i, j \in Used : Held(i) = Held(j) => i = j

HeapInv == HeapTypeOK /\ Ordered /\ Bridged /\ Distinct

\* heap.c is a priority queue: the items in the slots are those added and not
\* yet polled at every step of a repair, and what heap_poll takes from the
\* first slot is an item that no other is better than.
PQ == INSTANCE PriorityQueue WITH queue <- Contents
HeapIsQueue == PQ!PQSpec
=============================================================================
