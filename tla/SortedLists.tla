---------------------------- MODULE SortedLists ----------------------------
(***************************************************************************)
(* What Timer/List/List.cpp promises the timer module: lists of items in   *)
(* ascending order of their values.  An item is in one list at most.       *)
(***************************************************************************)
EXTENDS Naturals, Sequences

CONSTANTS
    Items,
    Lists,
    MaxValue    \* the largest value of an item

VARIABLES
    lists,      \* lists[l]: the items of l, first to last
    value       \* value[i]: the value of item i

vars == <<lists, value>>

In(i, s) == \E k \in DOMAIN s : s[k] = i

Sorted(s, v) == \A j, k \in DOMAIN s : j < k => v[s[j]] <= v[s[k]]

\* s with i at position k + 1.
Put(s, k, i) == SubSeq(s, 1, k) \o <<i>> \o SubSeq(s, k + 1, Len(s))

\* s without the item at position k.
Cut(s, k) == SubSeq(s, 1, k - 1) \o SubSeq(s, k + 1, Len(s))

Init ==
    /\ lists = [l \in Lists |-> <<>>]
    /\ value \in [Items -> 0 .. MaxValue]

\* Among equal values the place is not promised.
Insert(l, i) ==
    /\ \A m \in Lists : ~In(i, lists[m])
    /\ \E v \in 0 .. MaxValue : value' = [value EXCEPT ![i] = v]
    /\ \E k \in 0 .. Len(lists[l]) :
          LET s == Put(lists[l], k, i) IN
          /\ Sorted(s, value')
          /\ lists' = [lists EXCEPT ![l] = s]

Remove(l, i) ==
    /\ \E k \in DOMAIN lists[l] :
          /\ lists[l][k] = i
          /\ lists' = [lists EXCEPT ![l] = Cut(@, k)]
    /\ UNCHANGED value

Next == \E l \in Lists, i \in Items : Insert(l, i) \/ Remove(l, i)

Spec == Init /\ [][Next]_vars
=============================================================================
