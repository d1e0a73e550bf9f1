----------------------------- MODULE TimerList -----------------------------
(***************************************************************************)
(* The doubly linked lists of Timer/List/List.cpp at the level of their    *)
(* pointers.  The end marker embedded in a list (list_end) closes the ring *)
(* of its items; its value portMAX_DELAY stops every scan.  One list is    *)
(* changed at a time: the timer module runs in one thread.                 *)
(***************************************************************************)
EXTENDS Naturals, Sequences, FiniteSets

CONSTANTS
    Items,      \* the list_item fields of the timers
    Lists,      \* the lists, each standing for its list_end as well
    MaxDelay,   \* portMAX_DELAY
    NULL

ASSUME ListParams ==
    /\ MaxDelay \in Nat
    /\ Items \cap Lists = {}
    /\ NULL \notin Items \cup Lists
    /\ IsFiniteSet(Items)

VARIABLES
    next, previous,     \* of items and end markers
    item_value,
    container,          \* the list an item is in, or NULL
    number_of_items,
    index               \* of a list: the item last walked to

vars == <<next, previous, item_value, container, number_of_items, index>>

-----------------------------------------------------------------------------
Nodes == Items \cup Lists

\* The ring a node belongs to.
Home(n) == IF n \in Lists THEN n ELSE container[n]

\* InitialiseList on every list, InitialiseListItem on every item: pointers
\* and values of an item are left as they are.
Init ==
    /\ next = [n \in Nodes |-> IF n \in Lists THEN n ELSE NULL]
    /\ previous = [n \in Nodes |-> IF n \in Lists THEN n ELSE NULL]
    /\ item_value = [n \in Nodes |-> IF n \in Lists THEN MaxDelay ELSE 0]
    /\ container = [i \in Items |-> NULL]
    /\ number_of_items = [l \in Lists |-> 0]
    /\ index = [l \in Lists |-> l]

\* Faulty: the comparison of the scan is the wrong way round.
FaultyStopsAt(n, l, v) ==
    /\ Home(n) = l
    /\ IF v = MaxDelay
       THEN n = previous[l]
       ELSE /\ ~(v < item_value[next[n]])
            /\ n # l => v < item_value[n]

\* Faulty: every item goes to the end of the list.
FaultyStopsAtEnd(n, l, v) == Home(n) = l /\ n = previous[l]

\* Where the scan of InsertItem stops in list l: the last node before an
\* item whose value is not below v.  portMAX_DELAY goes to the very end.
StopsAt(n, l, v) ==
    /\ Home(n) = l
    /\ IF v = MaxDelay
       THEN n = previous[l]
       ELSE /\ ~(v > item_value[next[n]])
            /\ n # l => v > item_value[n]

\* Faulty: the back pointer of the follower is forgotten.
FaultyLink(i, n) ==
    /\ previous' = [previous EXCEPT ![i] = n]
    /\ next' = [next EXCEPT ![i] = next[n], ![n] = i]

\* Links i behind node n: the four pointer assignments of InsertItem.
Link(i, n) ==
    /\ previous' = [previous EXCEPT ![i] = n, ![next[n]] = i]
    /\ next' = [next EXCEPT ![i] = next[n], ![n] = i]

(* The caller sets the value of an item that is in no list and inserts it. *)
InsertItem(l, i, v) ==
    /\ container[i] = NULL
    /\ \E n \in Nodes : StopsAt(n, l, v) /\ Link(i, n)
    /\ item_value' = [item_value EXCEPT ![i] = v]
    /\ container' = [container EXCEPT ![i] = l]
    /\ number_of_items' = [number_of_items EXCEPT ![l] = @ + 1]
    /\ UNCHANGED index

\* Faulty: the item is taken for a member of the list after its removal.
FaultyRemoveItem(i) ==
    /\ container[i] # NULL
    /\ next' = [next EXCEPT ![previous[i]] = next[i]]
    /\ previous' = [previous EXCEPT ![next[i]] = previous[i]]
    /\ container' = [container EXCEPT ![i] = NULL]
    /\ UNCHANGED <<item_value, index, number_of_items>>

RemoveItem(i) ==
    /\ container[i] # NULL
    /\ next' = [next EXCEPT ![previous[i]] = next[i]]
    /\ previous' = [previous EXCEPT ![next[i]] = previous[i]]
    /\ index' = [index EXCEPT ![container[i]] = IF @ = i THEN previous[i] ELSE @]
    /\ container' = [container EXCEPT ![i] = NULL]
    /\ number_of_items' = [number_of_items EXCEPT ![container[i]] = @ - 1]
    /\ UNCHANGED item_value

Next ==
    \/ \E l \in Lists, i \in Items, v \in 0 .. MaxDelay : InsertItem(l, i, v)
    \/ \E i \in Items : RemoveItem(i)

Spec == Init /\ [][Next]_vars
-----------------------------------------------------------------------------
(* Properties                                                              *)

TypeOK ==
    /\ next \in [Nodes -> Nodes \cup {NULL}]
    /\ previous \in [Nodes -> Nodes \cup {NULL}]
    /\ item_value \in [Nodes -> 0 .. MaxDelay]
    /\ \A l \in Lists : item_value[l] = MaxDelay
    /\ container \in [Items -> Lists \cup {NULL}]
    /\ number_of_items \in [Lists -> Nat]
    /\ index \in [Lists -> Nodes]

(* The nodes of a list are linked into rings: next and previous undo each  *)
(* other and never lead into another list or to an item that was removed.  *)
Linked ==
    \A n \in Nodes :
        Home(n) # NULL =>
            /\ next[n] \in Nodes /\ previous[n] \in Nodes
            /\ Home(next[n]) = Home(n) /\ Home(previous[n]) = Home(n)
            /\ previous[next[n]] = n /\ next[previous[n]] = n

(* Neighbours are in ascending order of their values, so that the head of  *)
(* a list expires first.                                                   *)
Ascending ==
    \A i \in Items :
        container[i] # NULL => item_value[i] <= item_value[next[i]]

(* listLIST_IS_EMPTY, a test of the counter, tells the truth: it counts    *)
(* the items whose container is the list.                                  *)
Counted ==
    \A l \in Lists : number_of_items[l] = Cardinality({i \in Items : container[i] = l})

\* Node k of the ring that closes at list_end of l, when its items are s.
NodeAt(l, s, k) == IF k \in DOMAIN s THEN s[k] ELSE l

\* s is what l holds: its items, each once, in the order of the next pointers
\* and of their values.
Chain(l, s) ==
    /\ \A k \in 0 .. number_of_items[l] : next[NodeAt(l, s, k)] = NodeAt(l, s, k + 1)
    /\ \A i \in Items : container[i] = l <=> \E k \in DOMAIN s : s[k] = i
    /\ \A j, k \in DOMAIN s : j < k => s[j] # s[k] /\ item_value[s[j]] <= item_value[s[k]]

(* Every list is one ring: from list_end the next pointers lead through all *)
(* the items of the list, once each and in order, and number_of_items + 1   *)
(* steps lead back.  Linked alone would allow a second ring that no scan    *)
(* from list_end can reach.                                                 *)
Threaded == \A l \in Lists : \E s \in [1 .. number_of_items[l] -> Items] : Chain(l, s)

\* What one finds behind l, number_of_items[l] nodes far.
Walk(l) ==
    LET At[k \in 0 .. number_of_items[l]] == IF k = 0 THEN l ELSE next[At[k - 1]]
    IN  [k \in 1 .. number_of_items[l] |-> At[k]]

Contents == [l \in Lists |-> Walk(l)]
Values == [i \in Items |-> item_value[i]]

Abstract == INSTANCE SortedLists WITH
    MaxValue <- MaxDelay,
    lists <- Contents,
    value <- Values

(* Read from list_end for number_of_items nodes, each list is a sequence   *)
(* of items that insertions keep sorted and removals shorten by one.       *)
IsSortedLists == Abstract!Spec

\* The scan as InsertItem performs it.
Scan(l, v) ==
    LET Ring == {n \in Nodes : Home(n) = l}
        From[n \in Ring] == IF v > item_value[next[n]] THEN From[next[n]] ELSE n
    IN  IF v = MaxDelay THEN previous[l] ELSE From[l]

(* The loop of InsertItem ends, and at the one node StopsAt describes.     *)
ScanEnds ==
    \A l \in Lists, v \in 0 .. MaxDelay :
        \A n \in Nodes : StopsAt(n, l, v) <=> n = Scan(l, v)
=============================================================================
