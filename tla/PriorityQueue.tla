--------------------------- MODULE PriorityQueue ---------------------------
(***************************************************************************)
(* What a user of heap.c relies on: a set of items from which heap_poll    *)
(* takes one that no other item in the set is better than.                 *)
(***************************************************************************)
CONSTANTS
    Items,          \* what may be stored
    Better(_, _),   \* the first item is to be polled before the second
    NULL            \* the result of polling an empty queue

VARIABLES
    queue,          \* the items stored
    polled          \* what the last poll returned

pqVars == <<queue, polled>>

PQInit == queue = {} /\ polled = NULL

\* heap_add
Insert(x) ==
    /\ x \notin queue
    /\ queue' = queue \cup {x}
    /\ UNCHANGED polled

\* heap_poll
Remove(x) ==
    /\ x \in queue
    /\ \A y \in queue : ~Better(y, x)
    /\ queue' = queue \ {x}
    /\ polled' = x

RemoveNone ==
    /\ queue = {}
    /\ polled' = NULL
    /\ UNCHANGED queue

\* heap_destroy and the next heap_create
Clear == queue' = {} /\ polled' = NULL

PQNext == (\E x \in Items : Insert(x) \/ Remove(x)) \/ RemoveNone \/ Clear

PQSpec == PQInit /\ [][PQNext]_pqVars
=============================================================================
