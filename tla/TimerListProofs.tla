-------------------------- MODULE TimerListProofs --------------------------
(***************************************************************************)
(* The pointer structure of List.cpp stays sound for any number of items   *)
(* and lists.  The invariant is inductive as the conjunction of its parts: *)
(* a removal keeps the order because the rings are linked, and keeps the   *)
(* counter a natural number because it counts the items.                   *)
(***************************************************************************)
EXTENDS TimerList, Lemmas

ListInv == TypeOK /\ Linked /\ Ascending /\ Counted

In(l) == {j \in Items : container[j] = l}

-----------------------------------------------------------------------------
LEMMA InitInv == Init => ListInv
<1> SUFFICES ASSUME Init PROVE ListInv
  OBVIOUS
<1> USE ListParams DEF Init, Nodes
<1>1. TypeOK
  BY DEF TypeOK
<1>2. Linked
  BY DEF Linked, Home
<1>3. Ascending
  BY DEF Ascending
<1>4. Counted
  <2> SUFFICES ASSUME NEW l \in Lists PROVE number_of_items[l] = Cardinality(In(l))
    BY DEF Counted, In
  <2>1. In(l) = {}
    BY DEF In
  <2>2. QED
    BY <2>1, FS_EmptySet
<1>5. QED
  BY <1>1, <1>2, <1>3, <1>4 DEF ListInv

-----------------------------------------------------------------------------
(* What a step that puts i into l, or takes it out, does to the counters.  *)

LEMMA CountInsert ==
  ASSUME TypeOK, Counted,
         NEW l \in Lists, NEW i \in Items, container[i] = NULL,
         container' = [container EXCEPT ![i] = l],
         number_of_items' = [number_of_items EXCEPT ![l] = @ + 1]
  PROVE  Counted'
<1> USE ListParams
<1> SUFFICES ASSUME NEW m \in Lists PROVE number_of_items'[m] = Cardinality(In(m)')
  BY DEF Counted, In
<1>1. IsFiniteSet(In(m)) /\ number_of_items[m] = Cardinality(In(m))
  BY FS_Subset DEF Counted, In
<1>2. CASE m = l
  <2>1. In(m)' = In(m) \cup {i} /\ i \notin In(m)
    BY <1>2 DEF TypeOK, In
  <2>2. Cardinality(In(m)') = Cardinality(In(m)) + 1
    BY <1>1, <2>1, FS_AddElement
  <2>3. number_of_items'[m] = number_of_items[m] + 1
    BY <1>2 DEF TypeOK
  <2>4. QED
    BY <1>1, <2>2, <2>3
<1>3. CASE m # l
  <2>1. In(m)' = In(m)
    BY <1>3 DEF TypeOK, In
  <2>2. QED
    BY <1>1, <1>3, <2>1 DEF TypeOK
<1>4. QED
  BY <1>2, <1>3

LEMMA CountRemove ==
  ASSUME TypeOK, Counted,
         NEW l \in Lists, NEW i \in Items, container[i] = l,
         container' = [container EXCEPT ![i] = NULL],
         number_of_items' = [number_of_items EXCEPT ![l] = @ - 1]
  PROVE  Counted' /\ number_of_items' \in [Lists -> Nat]
<1> USE ListParams
<1>1. \A m \in Lists : IsFiniteSet(In(m)) /\ number_of_items[m] = Cardinality(In(m))
  BY FS_Subset DEF Counted, In
<1>2. In(l)' = In(l) \ {i} /\ i \in In(l)
  BY DEF TypeOK, In
<1>3. Cardinality(In(l)') = Cardinality(In(l)) - 1 /\ IsFiniteSet(In(l)')
  BY <1>1, <1>2, FS_RemoveElement
<1>4. Cardinality(In(l)') \in Nat
  BY <1>3, FS_CardinalityType
<1>5. number_of_items'[l] = Cardinality(In(l)')
  BY <1>1, <1>3 DEF TypeOK
<1>6. ASSUME NEW m \in Lists, m # l PROVE number_of_items'[m] = Cardinality(In(m)')
  <2>1. In(m)' = In(m)
    BY <1>6 DEF TypeOK, In
  <2>2. QED
    BY <1>1, <1>6, <2>1 DEF TypeOK
<1>7. Counted'
  <2>1. \A m \in Lists : number_of_items'[m] = Cardinality(In(m)')
    BY <1>5, <1>6
  <2>2. QED
    BY <2>1 DEF Counted, In
<1>8. number_of_items' \in [Lists -> Nat]
  BY <1>4, <1>5 DEF TypeOK
<1>9. QED
  BY <1>7, <1>8

-----------------------------------------------------------------------------
LEMMA InsertKeeps ==
  ASSUME ListInv,
         NEW l \in Lists, NEW i \in Items, NEW v \in 0 .. MaxDelay,
         InsertItem(l, i, v)
  PROVE  ListInv'
<1> USE ListParams
<1>0. TypeOK /\ Linked /\ Ascending /\ Counted
  BY DEF ListInv
<1>1. PICK n \in Nodes : StopsAt(n, l, v) /\ Link(i, n)
  BY DEF InsertItem
<1> DEFINE q == next[n]
<1>2. /\ Home(n) = l /\ l \in Nodes /\ i \in Nodes
      /\ Home(i) = NULL /\ Home(l) = l /\ l # NULL
  BY <1>1 DEF StopsAt, InsertItem, Home, Nodes
<1>3. q \in Nodes /\ Home(q) = l /\ previous[q] = n /\ i # n /\ i # q
  BY <1>0, <1>1, <1>2 DEF Linked
<1>4. /\ \A m \in Nodes : next'[m] = IF m = n THEN i ELSE IF m = i THEN q ELSE next[m]
      /\ \A m \in Nodes : previous'[m] = IF m = q THEN i ELSE IF m = i THEN n ELSE previous[m]
      /\ next' \in [Nodes -> Nodes \cup {NULL}]
      /\ previous' \in [Nodes -> Nodes \cup {NULL}]
  BY <1>0, <1>1, <1>2, <1>3 DEF Link, TypeOK
<1>5. \A m \in Nodes : Home(m)' = IF m = i THEN l ELSE Home(m)
  BY <1>0 DEF InsertItem, Home, Nodes, TypeOK
<1>6. TypeOK'
  <2>1. item_value' \in [Nodes -> 0 .. MaxDelay] /\ \A m \in Lists : item_value'[m] = MaxDelay
    BY <1>0 DEF InsertItem, TypeOK, Nodes
  <2>2. container' \in [Items -> Lists \cup {NULL}]
    BY <1>0 DEF InsertItem, TypeOK
  <2>3. number_of_items' \in [Lists -> Nat]
    BY <1>0 DEF InsertItem, TypeOK
  <2>4. index' \in [Lists -> Nodes]
    BY <1>0 DEF InsertItem, TypeOK
  <2>5. QED
    BY <1>4, <2>1, <2>2, <2>3, <2>4 DEF TypeOK, Nodes
<1>7. Linked'
  <2> SUFFICES ASSUME NEW m \in Nodes, Home(m)' # NULL
               PROVE  /\ next'[m] \in Nodes /\ previous'[m] \in Nodes
                      /\ Home(next[m])' = Home(m)' /\ Home(previous[m])' = Home(m)'
                      /\ previous'[next'[m]] = m /\ next'[previous'[m]] = m
    BY DEF Linked, Nodes
  <2>0. /\ \A k \in Nodes : Home(k) # NULL =>
              /\ next[k] \in Nodes /\ previous[k] \in Nodes
              /\ Home(next[k]) = Home(k) /\ Home(previous[k]) = Home(k)
              /\ previous[next[k]] = k /\ next[previous[k]] = k
        /\ next'[m] \in Nodes => Home(next[m])' = IF next'[m] = i THEN l ELSE Home(next'[m])
        /\ previous'[m] \in Nodes => Home(previous[m])' = IF previous'[m] = i THEN l ELSE Home(previous'[m])
    BY <1>0, <1>5 DEF Linked, Home, InsertItem, TypeOK, Nodes
  <2>1. CASE m = i
    BY <1>2, <1>3, <1>4, <1>5, <2>0, <2>1
  <2>2. CASE m = n
    BY <1>2, <1>3, <1>4, <1>5, <2>0, <2>2
  <2>3. CASE m = q
    BY <1>2, <1>3, <1>4, <1>5, <2>0, <2>3
  <2>4. CASE m # i /\ m # n /\ m # q
    <3>1. Home(m) # NULL /\ Home(m)' = Home(m)
      BY <1>5, <2>4
    <3>2. /\ next[m] \in Nodes /\ next[m] # i /\ next[m] # q /\ next'[m] = next[m]
          /\ previous'[next[m]] = m
      BY <1>2, <1>3, <1>4, <2>0, <2>4, <3>1
    <3>3. /\ previous[m] \in Nodes /\ previous[m] # i /\ previous[m] # n
          /\ previous'[m] = previous[m] /\ next'[previous[m]] = m
      BY <1>2, <1>3, <1>4, <2>0, <2>4, <3>1
    <3>4. QED
      BY <2>0, <3>1, <3>2, <3>3
  <2>5. QED
    BY <2>1, <2>2, <2>3, <2>4
<1>8. Ascending'
  <2>1. /\ \A m \in Nodes : item_value'[m] = IF m = i THEN v ELSE item_value[m]
        /\ \A m \in Nodes : item_value[m] \in 0 .. MaxDelay
        /\ item_value[l] = MaxDelay
    BY <1>0 DEF InsertItem, TypeOK, Nodes
  <2>2. v <= item_value[q]
    <3>1. CASE v = MaxDelay
      <4>1. q = l
        BY <1>0, <1>1, <1>2, <3>1 DEF StopsAt, Linked
      <4>2. QED
        BY <2>1, <4>1, <3>1
    <3>2. CASE v # MaxDelay
      BY <1>1, <1>3, <2>1, <3>2 DEF StopsAt
    <3>3. QED
      BY <3>1, <3>2
  <2>3. n # l => item_value[n] <= v
    <3>1. CASE v = MaxDelay
      BY <2>1, <3>1
    <3>2. CASE v # MaxDelay
      BY <1>1, <2>1, <3>2 DEF StopsAt
    <3>3. QED
      BY <3>1, <3>2
  <2>4. ASSUME NEW j \in Items, container'[j] # NULL
        PROVE  item_value'[j] <= item_value'[next'[j]]
    <3>0. j \in Nodes
      BY DEF Nodes
    <3>1. CASE j = i
      BY <1>3, <1>4, <2>1, <2>2, <3>0, <3>1
    <3>2. CASE j = n
      <4>1. n # l
        BY <3>2
      <4>2. next'[j] = i /\ item_value'[j] = item_value[n]
        BY <1>3, <1>4, <2>1, <3>0, <3>2
      <4>3. QED
        BY <1>2, <2>1, <2>3, <4>1, <4>2
    <3>3. CASE j # i /\ j # n
      <4>1. container[j] # NULL /\ Home(j) = container[j]
        BY <1>0, <2>4, <3>3 DEF InsertItem, TypeOK, Home
      <4>2. next'[j] = next[j] /\ next[j] \in Nodes /\ next[j] # i
        BY <1>0, <1>2, <1>4, <3>0, <3>3, <4>1 DEF Linked
      <4>3. item_value[j] <= item_value[next[j]]
        BY <1>0, <4>1 DEF Ascending
      <4>4. QED
        BY <2>1, <3>0, <3>3, <4>2, <4>3
    <3>4. QED
      BY <3>1, <3>2, <3>3
  <2>5. QED
    BY <2>4 DEF Ascending
<1>9. Counted'
  BY <1>0, CountInsert DEF InsertItem
<1>10. QED
  BY <1>6, <1>7, <1>8, <1>9 DEF ListInv

-----------------------------------------------------------------------------
LEMMA RemoveKeeps ==
  ASSUME ListInv, NEW i \in Items, RemoveItem(i)
  PROVE  ListInv'
<1> USE ListParams
<1>0. TypeOK /\ Linked /\ Ascending /\ Counted
  BY DEF ListInv
<1> DEFINE l == container[i]
           p == previous[i]
           q == next[i]
<1>1. l \in Lists /\ i \in Nodes /\ Home(i) = l /\ l # NULL
  BY <1>0 DEF RemoveItem, TypeOK, Home, Nodes
<1>2. p \in Nodes /\ q \in Nodes /\ Home(p) = l /\ Home(q) = l /\ next[p] = i /\ previous[q] = i
  BY <1>0, <1>1 DEF Linked
<1>3. p # i <=> q # i
  BY <1>1, <1>2
<1>4. /\ \A m \in Nodes : next'[m] = IF m = p THEN q ELSE next[m]
      /\ \A m \in Nodes : previous'[m] = IF m = q THEN p ELSE previous[m]
      /\ next' \in [Nodes -> Nodes \cup {NULL}]
      /\ previous' \in [Nodes -> Nodes \cup {NULL}]
  BY <1>0, <1>1, <1>2 DEF RemoveItem, TypeOK
<1>5. \A m \in Nodes : Home(m)' = IF m = i THEN NULL ELSE Home(m)
  BY <1>0 DEF RemoveItem, Home, Nodes, TypeOK, ListParams
<1>6. Counted' /\ number_of_items' \in [Lists -> Nat]
  BY <1>0, <1>1, CountRemove DEF RemoveItem
<1>7. TypeOK'
  <2>1. item_value' \in [Nodes -> 0 .. MaxDelay] /\ \A m \in Lists : item_value'[m] = MaxDelay
    BY <1>0 DEF RemoveItem, TypeOK
  <2>2. container' \in [Items -> Lists \cup {NULL}]
    BY <1>0 DEF RemoveItem, TypeOK
  <2>3. index' \in [Lists -> Nodes]
    BY <1>0, <1>1, <1>2 DEF RemoveItem, TypeOK
  <2>4. QED
    BY <1>4, <1>6, <2>1, <2>2, <2>3 DEF TypeOK, Nodes
<1>8. Linked'
  <2> SUFFICES ASSUME NEW m \in Nodes, Home(m)' # NULL
               PROVE  /\ next'[m] \in Nodes /\ previous'[m] \in Nodes
                      /\ Home(next[m])' = Home(m)' /\ Home(previous[m])' = Home(m)'
                      /\ previous'[next'[m]] = m /\ next'[previous'[m]] = m
    BY DEF Linked, Nodes
  <2>0. /\ \A k \in Nodes : Home(k) # NULL =>
              /\ next[k] \in Nodes /\ previous[k] \in Nodes
              /\ Home(next[k]) = Home(k) /\ Home(previous[k]) = Home(k)
              /\ previous[next[k]] = k /\ next[previous[k]] = k
        /\ next'[m] \in Nodes => Home(next[m])' = IF next'[m] = i THEN NULL ELSE Home(next'[m])
        /\ previous'[m] \in Nodes => Home(previous[m])' = IF previous'[m] = i THEN NULL ELSE Home(previous'[m])
    BY <1>0, <1>5 DEF Linked, Home, RemoveItem, TypeOK, Nodes
  <2>1. m # i /\ Home(m) # NULL /\ Home(m)' = Home(m)
    BY <1>5
  <2>2. CASE m = p
    BY <1>1, <1>2, <1>3, <1>4, <2>0, <2>1, <2>2
  <2>3. CASE m = q
    BY <1>1, <1>2, <1>3, <1>4, <2>0, <2>1, <2>3
  <2>4. CASE m # p /\ m # q
    <3>1. /\ next[m] \in Nodes /\ next[m] # i /\ next[m] # q /\ next'[m] = next[m]
          /\ previous'[next[m]] = m
      BY <1>1, <1>2, <1>4, <2>0, <2>1, <2>4
    <3>2. /\ previous[m] \in Nodes /\ previous[m] # i /\ previous[m] # p
          /\ previous'[m] = previous[m] /\ next'[previous[m]] = m
      BY <1>1, <1>2, <1>4, <2>0, <2>1, <2>4
    <3>3. QED
      BY <2>0, <2>1, <3>1, <3>2
  <2>5. QED
    BY <2>2, <2>3, <2>4
<1>9. Ascending'
  <2>1. item_value' = item_value /\ \A m \in Nodes : item_value[m] \in 0 .. MaxDelay
    BY <1>0 DEF RemoveItem, TypeOK
  <2> SUFFICES ASSUME NEW j \in Items, container'[j] # NULL
               PROVE  item_value[j] <= item_value[next'[j]]
    BY <2>1 DEF Ascending
  <2>2. j \in Nodes /\ j # i /\ container[j] # NULL /\ Home(j) = container[j]
    BY <1>0, <1>1 DEF RemoveItem, TypeOK, Home, Nodes, ListParams
  <2>3. item_value[j] <= item_value[next[j]] /\ item_value[i] <= item_value[q]
    BY <1>0, <1>1, <2>2 DEF Ascending
  <2>4. CASE j = p
    BY <1>1, <1>2, <1>4, <2>1, <2>2, <2>3, <2>4
  <2>5. CASE j # p
    BY <1>4, <2>2, <2>3, <2>5
  <2>6. QED
    BY <2>4, <2>5
<1>10. QED
  BY <1>6, <1>7, <1>8, <1>9 DEF ListInv

-----------------------------------------------------------------------------
LEMMA StutterKeeps ==
  ASSUME ListInv, UNCHANGED vars
  PROVE  ListInv'
BY DEF ListInv, TypeOK, Linked, Ascending, Counted, Home, vars

LEMMA Invariance == Spec => []ListInv
<1>1. ListInv /\ [Next]_vars => ListInv'
  BY InsertKeeps, RemoveKeeps, StutterKeeps DEF Next
<1>2. QED
  BY InitInv, <1>1, PTL DEF Spec

(* All fields of items and end markers keep their types.  In particular no *)
(* counter goes below zero, and pointers are only ever followed to nodes.  *)
THEOREM TypeCorrect == Spec => []TypeOK
<1>1. ListInv => TypeOK
  BY DEF ListInv
<1>2. QED
  BY Invariance, <1>1, PTL

(* The nodes of a list form closed doubly linked rings, apart from those   *)
(* of other lists and from removed items.                                  *)
THEOREM RingsLinked == Spec => []Linked
<1>1. ListInv => Linked
  BY DEF ListInv
<1>2. QED
  BY Invariance, <1>1, PTL

(* Every list is in ascending order of its values.                         *)
THEOREM Sorted == Spec => []Ascending
<1>1. ListInv => Ascending
  BY DEF ListInv
<1>2. QED
  BY Invariance, <1>1, PTL

(* The counter tested by listLIST_IS_EMPTY counts the items of the list.   *)
THEOREM CounterRight == Spec => []Counted
<1>1. ListInv => Counted
  BY DEF ListInv
<1>2. QED
  BY Invariance, <1>1, PTL

-----------------------------------------------------------------------------
(* The order of a list.  ListInv would also hold of a list with a second   *)
(* ring that list_end does not reach; that there is none is Threaded, kept *)
(* by giving the sequence an insertion or a removal makes of the old one.  *)

\* The nodes of the ring by their places in it.
Placed(l, s, n) ==
    /\ NodeAt(l, s, 0) = l /\ NodeAt(l, s, n + 1) = l
    /\ \A k \in 1 .. n : NodeAt(l, s, k) = s[k]
    /\ \A k \in 0 .. n + 1 : NodeAt(l, s, k) \in Nodes /\ Home(NodeAt(l, s, k)) = l
    /\ \A x \in Nodes : Home(x) = l => \E k \in 0 .. n : x = NodeAt(l, s, k)
    /\ \A j, k \in 0 .. n : NodeAt(l, s, j) = NodeAt(l, s, k) => j = k

LEMMA RingNodes ==
  ASSUME TypeOK, NEW l \in Lists, NEW n \in Nat, n = number_of_items[l],
         NEW s \in [1 .. n -> Items], Chain(l, s)
  PROVE  Placed(l, s, n)
<1>0. n \in Nat /\ n = number_of_items[l] /\ DOMAIN s = 1 .. n /\ l \in Nodes /\ l \notin Items /\ Home(l) = l
  BY ListParams DEF TypeOK, Nodes, Home
<1>1. NodeAt(l, s, 0) = l /\ NodeAt(l, s, n + 1) = l
  BY <1>0, SMT DEF NodeAt
<1>2. \A k \in 1 .. n : NodeAt(l, s, k) = s[k] /\ s[k] \in Items
  BY <1>0 DEF NodeAt
<1>3. \A k \in 1 .. n : container[s[k]] = l
  BY <1>0, <1>2 DEF Chain
<1>4. \A k \in 0 .. n + 1 : NodeAt(l, s, k) \in Nodes /\ Home(NodeAt(l, s, k)) = l
  <2>1. \A k \in 0 .. n + 1 : k = 0 \/ k = n + 1 \/ k \in 1 .. n
    BY <1>0, SMT
  <2>2. \A k \in 1 .. n : s[k] \in Nodes /\ s[k] \notin Lists
    BY <1>2, ListParams DEF Nodes
  <2> QED BY <1>0, <1>1, <1>2, <1>3, <2>1, <2>2 DEF Home
<1>5. ASSUME NEW x \in Nodes, Home(x) = l PROVE \E k \in 0 .. n : x = NodeAt(l, s, k)
  <2>1. CASE x \in Lists
    <3>1. 0 \in 0 .. n
      BY <1>0, SMT
    <3> QED BY <1>1, <1>5, <2>1, <3>1 DEF Home
  <2>2. CASE x \notin Lists
    <3>1. x \in Items /\ container[x] = l
      BY <1>5, <2>2 DEF Home, Nodes
    <3>2. PICK k \in 1 .. n : s[k] = x
      BY <1>0, <3>1 DEF Chain
    <3>3. k \in 0 .. n
      BY <1>0, SMT
    <3> QED BY <1>2, <3>2, <3>3
  <2> QED BY <2>1, <2>2
<1>6. ASSUME NEW j \in 0 .. n, NEW k \in 0 .. n, NodeAt(l, s, j) = NodeAt(l, s, k), j # k PROVE FALSE
  <2>1. (j = 0 /\ k \in 1 .. n) \/ (k = 0 /\ j \in 1 .. n) \/ (j \in 1 .. n /\ k \in 1 .. n /\ (j < k \/ k < j))
    BY <1>0, <1>6, SMT
  <2>2. \A a, b \in 1 .. n : a < b => s[a] # s[b]
    BY <1>0 DEF Chain
  <2> QED BY <1>0, <1>1, <1>2, <1>6, <2>1, <2>2
<1> QED BY <1>1, <1>2, <1>4, <1>5, <1>6 DEF Placed

(* The chain of a list whose nodes a step leaves alone.                    *)
LEMMA OtherChain ==
  ASSUME TypeOK, NEW l \in Lists, NEW n \in Nat, n = number_of_items[l],
         NEW s \in [1 .. n -> Items], Chain(l, s),
         number_of_items'[l] = number_of_items[l],
         \A x \in Items : container'[x] = l <=> container[x] = l,
         \A x \in Nodes : Home(x) = l => next'[x] = next[x] /\ item_value'[x] = item_value[x]
  PROVE  Chain(l, s)'
<1>0. n = number_of_items[l] /\ DOMAIN s = 1 .. n
  OBVIOUS
<1>9. /\ \A k \in 0 .. n + 1 : NodeAt(l, s, k) \in Nodes /\ Home(NodeAt(l, s, k)) = l
      /\ \A k \in 1 .. n : NodeAt(l, s, k) = s[k]
  BY RingNodes DEF Placed
<1>1. \A k \in 0 .. n : next'[NodeAt(l, s, k)] = NodeAt(l, s, k + 1)
  <2>1. \A k \in 0 .. n : k \in 0 .. n + 1
    BY <1>0, SMT
  <2> QED BY <1>9, <2>1 DEF Chain
<1>2. \A x \in Items : container'[x] = l <=> \E k \in DOMAIN s : s[k] = x
  BY DEF Chain
<1>3. \A k \in 1 .. n : s[k] \in Nodes /\ item_value'[s[k]] = item_value[s[k]]
  <2>1. \A k \in 1 .. n : k \in 0 .. n + 1
    BY <1>0, SMT
  <2> QED BY <1>9, <2>1
<1>4. \A j, k \in DOMAIN s : j < k => s[j] # s[k] /\ item_value'[s[j]] <= item_value'[s[k]]
  BY <1>0, <1>3 DEF Chain
<1> QED BY <1>1, <1>2, <1>4 DEF Chain, NodeAt

\* PutIs for items
LEMMA ItemsPut ==
  ASSUME NEW n \in Nat, NEW s \in [1 .. n -> Items], NEW i \in Items, NEW k \in 0 .. n
  PROVE  Put(s, k, i) = [j \in 1 .. n + 1 |-> IF j <= k THEN s[j] ELSE IF j = k + 1 THEN i ELSE s[j - 1]]
  BY PutIs

Lengthened(l, n, s, i) ==
    \E t \in [1 .. n + 1 -> Items] : Chain(l, t)' /\ \E k \in 0 .. n : t = Put(s, k, i)

Shortened(l, n, s, i) ==
    \E t \in [1 .. n - 1 -> Items] : Chain(l, t)' /\ \E k \in 1 .. n : s[k] = i /\ t = Cut(s, k)

(* InsertItem puts the item into the chain where its scan has stopped.     *)
LEMMA InsertChain ==
  ASSUME ListInv,
         NEW l \in Lists, NEW i \in Items, NEW v \in 0 .. MaxDelay, InsertItem(l, i, v),
         NEW n \in Nat, n = number_of_items[l],
         NEW s \in [1 .. n -> Items], Chain(l, s)
  PROVE  Lengthened(l, n, s, i)
<1>0. /\ TypeOK /\ Linked /\ n = number_of_items[l] /\ DOMAIN s = 1 .. n
      /\ number_of_items'[l] = n + 1
  BY DEF ListInv, TypeOK, InsertItem
<1>1. PICK x \in Nodes : StopsAt(x, l, v) /\ Link(i, x)
  BY DEF InsertItem
<1> DEFINE N(k) == NodeAt(l, s, k)
<1>2. /\ N(0) = l /\ N(n + 1) = l
      /\ \A k \in 1 .. n : N(k) = s[k]
      /\ \A k \in 0 .. n + 1 : N(k) \in Nodes /\ Home(N(k)) = l
      /\ \A y \in Nodes : Home(y) = l => \E k \in 0 .. n : y = N(k)
      /\ \A j, k \in 0 .. n : N(j) = N(k) => j = k
      /\ \A k \in 0 .. n : next[N(k)] = N(k + 1)
  <2>1. \A k \in 0 .. n : next[N(k)] = N(k + 1)
    BY <1>0 DEF Chain
  <2>2. Placed(l, s, n)
    BY <1>0, RingNodes
  <2> QED BY <2>1, <2>2 DEF Placed
<1>3. PICK k \in 0 .. n : x = N(k)
  BY <1>1, <1>2 DEF StopsAt
<1> DEFINE t == [j \in 1 .. n + 1 |-> IF j <= k THEN s[j] ELSE IF j = k + 1 THEN i ELSE s[j - 1]]
           M(j) == NodeAt(l, t, j)
<1>4. /\ t \in [1 .. n + 1 -> Items] /\ DOMAIN t = 1 .. n + 1
      /\ \A j \in 1 .. n + 1 : t[j] = IF j <= k THEN s[j] ELSE IF j = k + 1 THEN i ELSE s[j - 1]
  <2>1. \A j \in 1 .. n + 1 : j <= k => j \in 1 .. n
    BY <1>0, SMT
  <2>2. \A j \in 1 .. n + 1 : ~(j <= k) /\ j # k + 1 => j - 1 \in 1 .. n
    BY <1>0, SMT
  <2>3. \A j \in 1 .. n + 1 : (IF j <= k THEN s[j] ELSE IF j = k + 1 THEN i ELSE s[j - 1]) \in Items
    <3>1. \A j \in 1 .. n : s[j] \in Items
      OBVIOUS
    <3> QED BY <2>1, <2>2, <3>1, Zenon
  <2> QED BY <2>3
<1> HIDE DEF t
<1>5. /\ \A j \in 0 .. n + 2 : (j < k + 1 => M(j) = N(j)) /\ (k + 1 < j => M(j) = N(j - 1))
      /\ M(k + 1) = i
  <2>1. \A j \in 1 .. n + 1 : M(j) = t[j]
    BY <1>4 DEF NodeAt
  <2>2. M(0) = l /\ M(n + 2) = l
    BY <1>0, <1>4, SMT DEF NodeAt
  <2>3. k + 1 \in 1 .. n + 1 /\ ~(k + 1 <= k)
    BY <1>0, SMT
  <2>4. ASSUME NEW j \in 0 .. n + 2, j < k + 1 PROVE M(j) = N(j)
    <3>1. j = 0 \/ (j \in 1 .. n + 1 /\ j \in 1 .. n /\ j <= k)
      BY <1>0, <2>4, SMT
    <3> QED BY <1>2, <1>4, <2>1, <2>2, <3>1
  <2>5. ASSUME NEW j \in 0 .. n + 2, k + 1 < j PROVE M(j) = N(j - 1)
    <3>1. \/ j = n + 2 /\ j - 1 = n + 1
          \/ j \in 1 .. n + 1 /\ j - 1 \in 1 .. n /\ ~(j <= k) /\ j # k + 1
      BY <1>0, <2>5, SMT
    <3>2. CASE j = n + 2
      BY <1>2, <2>2, <3>1, <3>2
    <3>3. CASE j \in 1 .. n + 1 /\ j - 1 \in 1 .. n /\ ~(j <= k) /\ j # k + 1
      <4>1. M(j) = t[j] /\ N(j - 1) = s[j - 1]
        BY <1>2, <2>1, <3>3
      <4>2. t[j] = s[j - 1]
        BY <1>4, <3>3, Zenon
      <4> HIDE DEF M, N
      <4> QED BY <4>1, <4>2
    <3> QED BY <3>1, <3>2, <3>3
  <2> QED BY <1>4, <2>1, <2>3, <2>4, <2>5
<1> DEFINE q == N(k + 1)
<1>6. /\ i \in Nodes /\ Home(i) = NULL /\ l # NULL /\ container[i] = NULL
      /\ \A y \in Nodes : next'[y] = IF y = x THEN i ELSE IF y = i THEN q ELSE next[y]
      /\ \A y \in Nodes : item_value'[y] = IF y = i THEN v ELSE item_value[y]
      /\ \A y \in Items : container'[y] = IF y = i THEN l ELSE container[y]
  <2>1. i \in Nodes /\ Home(i) = NULL /\ l # NULL /\ container[i] = NULL
    BY <1>0, ListParams DEF InsertItem, Home, Nodes, TypeOK
  <2>2. next[x] = q /\ x # i
    BY <1>1, <1>2, <1>3, <2>1 DEF StopsAt
  <2> QED BY <1>0, <1>1, <2>1, <2>2 DEF InsertItem, Link, TypeOK
<1>7. \A j \in 0 .. n + 1 : next'[M(j)] = M(j + 1)
  <2> SUFFICES ASSUME NEW j \in 0 .. n + 1 PROVE next'[M(j)] = M(j + 1)
    OBVIOUS
  <2>1. CASE j < k
    <3>1. /\ j \in 0 .. n + 2 /\ j < k + 1 /\ j + 1 \in 0 .. n + 2 /\ j + 1 < k + 1
          /\ j \in 0 .. n /\ j \in 0 .. n + 1 /\ j # k
      BY <1>0, <2>1, SMT
    <3>2. M(j) = N(j) /\ M(j + 1) = N(j + 1)
      BY <1>5, <3>1
    <3>3. N(j) # x /\ N(j) # i /\ N(j) \in Nodes /\ next[N(j)] = N(j + 1)
      BY <1>2, <1>3, <1>6, <3>1
    <3> HIDE DEF M, N
    <3> QED BY <1>6, <3>2, <3>3
  <2>2. CASE j = k
    <3>1. j \in 0 .. n + 2 /\ j < k + 1
      BY <1>0, <2>2, SMT
    <3> QED BY <1>3, <1>5, <1>6, <2>2, <3>1
  <2>3. CASE j = k + 1
    <3>1. j + 1 \in 0 .. n + 2 /\ k + 1 < j + 1 /\ (j + 1) - 1 = k + 1
      BY <1>0, <2>3, SMT
    <3>2. x # i
      BY <1>1, <1>6 DEF StopsAt
    <3> QED BY <1>5, <1>6, <2>3, <3>1, <3>2
  <2>4. CASE k + 1 < j
    <3>1. /\ j \in 0 .. n + 2 /\ j + 1 \in 0 .. n + 2 /\ k + 1 < j + 1 /\ (j + 1) - 1 = j
          /\ j - 1 \in 0 .. n /\ j - 1 \in 0 .. n + 1 /\ j - 1 # k /\ (j - 1) + 1 = j
      BY <1>0, <2>4, SMT
    <3>2. M(j) = N(j - 1) /\ M(j + 1) = N(j)
      BY <1>5, <2>4, <3>1
    <3>3. N(j - 1) # x /\ N(j - 1) # i /\ N(j - 1) \in Nodes
      BY <1>2, <1>3, <1>6, <3>1
    <3>4. next[N(j - 1)] = N(j)
      BY <1>2, <3>1
    <3> HIDE DEF M, N
    <3> QED BY <1>6, <3>2, <3>3, <3>4
  <2>5. j < k \/ j = k \/ j = k + 1 \/ k + 1 < j
    BY <1>0, SMT
  <2> QED BY <2>1, <2>2, <2>3, <2>4, <2>5
<1>8. \A y \in Items : container'[y] = l <=> \E j \in 1 .. n + 1 : t[j] = y
  <2> TAKE y \in Items
  <2>1. container[y] = l <=> \E j \in 1 .. n : s[j] = y
    BY <1>0 DEF Chain
  <2>2. ASSUME NEW j \in 1 .. n + 1, t[j] = y PROVE container'[y] = l
    <3>1. (j \in 1 .. n /\ j <= k) \/ j = k + 1 \/ (j - 1 \in 1 .. n /\ ~(j <= k) /\ j # k + 1)
      BY <1>0, SMT
    <3> QED BY <1>4, <1>6, <2>1, <2>2, <3>1
  <2>3. ASSUME container'[y] = l PROVE \E j \in 1 .. n + 1 : t[j] = y
    <3>1. CASE y = i
      <4>1. k + 1 \in 1 .. n + 1 /\ ~(k + 1 <= k)
        BY <1>0, SMT
      <4> QED BY <1>4, <3>1, <4>1
    <3>2. CASE y # i
      <4>1. PICK j \in 1 .. n : s[j] = y
        BY <1>6, <2>1, <2>3, <3>2
      <4>2. CASE j <= k
        <5>1. j \in 1 .. n + 1
          BY <1>0, SMT
        <5> QED BY <1>4, <4>1, <4>2, <5>1
      <4>3. CASE ~(j <= k)
        <5>1. j + 1 \in 1 .. n + 1 /\ ~(j + 1 <= k) /\ j + 1 # k + 1 /\ (j + 1) - 1 = j
          BY <1>0, <4>3, SMT
        <5> QED BY <1>4, <4>1, <5>1
      <4> QED BY <4>2, <4>3
    <3> QED BY <3>1, <3>2
  <2> QED BY <2>2, <2>3
<1>9. /\ \A j \in 1 .. n : s[j] # i /\ s[j] \in Nodes /\ item_value'[s[j]] = item_value[s[j]]
      /\ \A j \in 1 .. n : item_value[s[j]] \in 0 .. MaxDelay
  <2>1. \A j \in 1 .. n : j \in 0 .. n + 1
    BY <1>0, SMT
  <2>2. \A j \in 1 .. n : s[j] \in Nodes /\ Home(s[j]) = l
    BY <1>2, <2>1
  <2> QED BY <1>0, <1>6, <2>2 DEF TypeOK
<1>10. /\ \A j \in 1 .. n : j <= k => item_value[s[j]] <= v
       /\ \A j \in 1 .. n : k < j => v <= item_value[s[j]]
  <2>1. \A a, b \in 1 .. n : a < b => item_value[s[a]] <= item_value[s[b]]
    BY <1>0 DEF Chain
  <2>2. CASE v = MaxDelay
    <3>1. x = previous[l] /\ l \in Nodes
      BY <1>1, <1>2, <2>2, <1>0, SMT DEF StopsAt, Nodes
    <3>2. next[x] = l /\ q = l
      <4>1. Home(l) # NULL
        BY <1>6 DEF Home
      <4>2. next[x] = l
        BY <1>0, <3>1, <4>1 DEF Linked
      <4> QED BY <1>2, <1>3, <4>2
    <3>3. k + 1 \notin 1 .. n
      <4> SUFFICES ASSUME k + 1 \in 1 .. n PROVE FALSE
        OBVIOUS
      <4>1. q = s[k + 1]
        BY <1>2
      <4> QED BY <1>0, <3>2, <4>1, ListParams
    <3>4. \A j \in 1 .. n : ~(k < j)
      BY <1>0, <3>3, SMT
    <3> QED BY <1>9, <2>2, <3>4, ListParams, SMT
  <2>3. CASE v # MaxDelay
    <3>1. ~(v > item_value[q]) /\ (x # l => v > item_value[x])
      BY <1>1, <1>2, <1>3, <2>3 DEF StopsAt
    <3>2. ASSUME NEW j \in 1 .. n, j <= k PROVE item_value[s[j]] <= v
      <4>1. k \in 1 .. n /\ (j = k \/ j < k)
        BY <1>0, <3>2, SMT
      <4>2. x = s[k] /\ x # l
        BY <1>0, <1>2, <1>3, <4>1, ListParams
      <4>3. item_value[s[j]] <= item_value[s[k]]
        BY <1>9, <2>1, <4>1, SMT
      <4> QED BY <1>9, <3>1, <4>1, <4>2, <4>3, ListParams, SMT
    <3>3. ASSUME NEW j \in 1 .. n, k < j PROVE v <= item_value[s[j]]
      <4>1. k + 1 \in 1 .. n /\ (j = k + 1 \/ k + 1 < j)
        BY <1>0, <3>3, SMT
      <4>2. q = s[k + 1]
        BY <1>2, <4>1
      <4>3. item_value[s[k + 1]] <= item_value[s[j]]
        BY <1>9, <2>1, <4>1, SMT
      <4> QED BY <1>9, <3>1, <4>1, <4>2, <4>3, ListParams, SMT
    <3> QED BY <3>2, <3>3
  <2> QED BY <2>2, <2>3
<1>11. \A a, b \in 1 .. n + 1 : a < b => t[a] # t[b] /\ item_value'[t[a]] <= item_value'[t[b]]
  <2> SUFFICES ASSUME NEW a \in 1 .. n + 1, NEW b \in 1 .. n + 1, a < b
               PROVE  t[a] # t[b] /\ item_value'[t[a]] <= item_value'[t[b]]
    OBVIOUS
  <2>1. \A c, d \in 1 .. n : c < d => s[c] # s[d] /\ item_value[s[c]] <= item_value[s[d]]
    BY <1>0 DEF Chain
  <2>2. item_value'[i] = v
    BY <1>6
  <2>3. CASE b <= k
    <3>1. a \in 1 .. n /\ b \in 1 .. n /\ a <= k
      BY <1>0, <2>3, SMT
    <3> QED BY <1>4, <1>9, <2>1, <2>3, <3>1
  <2>4. CASE b = k + 1
    <3>1. a \in 1 .. n /\ a <= k /\ ~(b <= k)
      BY <1>0, <2>4, SMT
    <3> QED BY <1>4, <1>9, <1>10, <2>2, <2>4, <3>1
  <2>5. CASE k + 1 < b
    <3>1. b - 1 \in 1 .. n /\ k < b - 1 /\ ~(b <= k) /\ b # k + 1
      BY <1>0, <2>5, SMT
    <3>2. t[b] = s[b - 1]
      BY <1>4, <3>1
    <3>3. CASE a <= k
      <4>1. a \in 1 .. n /\ a < b - 1
        BY <1>0, <3>1, <3>3, SMT
      <4> QED BY <1>4, <1>9, <2>1, <3>1, <3>2, <3>3, <4>1
    <3>4. CASE a = k + 1
      <4>1. ~(a <= k)
        BY <1>0, <3>4, SMT
      <4> QED BY <1>4, <1>9, <1>10, <2>2, <3>1, <3>2, <3>4, <4>1
    <3>5. CASE k + 1 < a
      <4>1. a - 1 \in 1 .. n /\ ~(a <= k) /\ a # k + 1 /\ a - 1 < b - 1
        BY <1>0, <3>1, <3>5, SMT
      <4>2. t[a] = s[a - 1]
        BY <1>4, <4>1
      <4> QED BY <1>9, <2>1, <3>1, <3>2, <4>1, <4>2
    <3>6. a <= k \/ a = k + 1 \/ k + 1 < a
      BY <1>0, SMT
    <3> QED BY <3>3, <3>4, <3>5, <3>6
  <2>6. b <= k \/ b = k + 1 \/ k + 1 < b
    BY <1>0, SMT
  <2> QED BY <2>3, <2>4, <2>5, <2>6
<1>12. Chain(l, t)'
  BY <1>0, <1>4, <1>7, <1>8, <1>11 DEF Chain, NodeAt
<1>13. Put(s, k, i) = t
  <2>1. s \in [1 .. n -> Items]
    BY <1>0
  <2> QED BY <2>1, ItemsPut DEF t
<1> QED BY <1>0, <1>4, <1>12, <1>13 DEF Lengthened

\* CutIs for items
LEMMA ItemsCut ==
  ASSUME NEW n \in Nat, NEW s \in [1 .. n -> Items], NEW k \in 1 .. n
  PROVE  Cut(s, k) = [j \in 1 .. n - 1 |-> IF j < k THEN s[j] ELSE s[j + 1]]
  BY CutIs

(* RemoveItem takes the item out of the chain and leaves the rest in order. *)
LEMMA RemoveChain ==
  ASSUME ListInv, NEW i \in Items, RemoveItem(i),
         NEW l \in Lists, l = container[i],
         NEW n \in Nat, n = number_of_items[l],
         NEW s \in [1 .. n -> Items], Chain(l, s)
  PROVE  Shortened(l, n, s, i)
<1>0. /\ TypeOK /\ Linked /\ n = number_of_items[l] /\ DOMAIN s = 1 .. n
      /\ number_of_items'[l] = n - 1
  BY DEF ListInv, TypeOK, RemoveItem
<1> DEFINE N(k) == NodeAt(l, s, k)
<1>2. /\ N(0) = l /\ N(n + 1) = l
      /\ \A k \in 1 .. n : N(k) = s[k]
      /\ \A k \in 0 .. n + 1 : N(k) \in Nodes /\ Home(N(k)) = l
      /\ \A y \in Nodes : Home(y) = l => \E k \in 0 .. n : y = N(k)
      /\ \A j, k \in 0 .. n : N(j) = N(k) => j = k
      /\ \A k \in 0 .. n : next[N(k)] = N(k + 1)
  <2>1. \A k \in 0 .. n : next[N(k)] = N(k + 1)
    BY <1>0 DEF Chain
  <2>2. Placed(l, s, n)
    BY <1>0, RingNodes
  <2> QED BY <2>1, <2>2 DEF Placed
<1>3. PICK k \in 1 .. n : s[k] = i
  BY <1>0 DEF Chain
<1> DEFINE t == [j \in 1 .. n - 1 |-> IF j < k THEN s[j] ELSE s[j + 1]]
           M(j) == NodeAt(l, t, j)
<1>4. /\ t \in [1 .. n - 1 -> Items] /\ DOMAIN t = 1 .. n - 1
      /\ \A j \in 1 .. n - 1 : t[j] = IF j < k THEN s[j] ELSE s[j + 1]
  <2>1. \A j \in 1 .. n - 1 : j \in 1 .. n /\ j + 1 \in 1 .. n
    BY SMT
  <2>2. \A j \in 1 .. n - 1 : (IF j < k THEN s[j] ELSE s[j + 1]) \in Items
    <3>1. \A j \in 1 .. n : s[j] \in Items
      OBVIOUS
    <3> QED BY <2>1, <3>1, Zenon
  <2> QED BY <2>2
<1> HIDE DEF t
<1>5. \A j \in 0 .. n : (j < k => M(j) = N(j)) /\ (k <= j => M(j) = N(j + 1))
  <2>1. \A j \in 1 .. n - 1 : M(j) = t[j]
    BY <1>4 DEF NodeAt
  <2>2. M(0) = l /\ M(n) = l
    BY <1>0, <1>4, SMT DEF NodeAt
  <2>3. ASSUME NEW j \in 0 .. n, j < k PROVE M(j) = N(j)
    <3>1. j = 0 \/ (j \in 1 .. n - 1 /\ j \in 1 .. n)
      BY <2>3, SMT
    <3> QED BY <1>2, <1>4, <2>1, <2>2, <2>3, <3>1
  <2>4. ASSUME NEW j \in 0 .. n, k <= j PROVE M(j) = N(j + 1)
    <3>1. j = n \/ (j \in 1 .. n - 1 /\ j + 1 \in 1 .. n /\ ~(j < k))
      BY <2>4, SMT
    <3>2. CASE j = n
      BY <1>2, <2>2, <3>2
    <3>3. CASE j \in 1 .. n - 1 /\ j + 1 \in 1 .. n /\ ~(j < k)
      <4>1. M(j) = t[j] /\ N(j + 1) = s[j + 1]
        BY <1>2, <2>1, <3>3
      <4>2. t[j] = s[j + 1]
        BY <1>4, <3>3, Zenon
      <4> HIDE DEF M, N
      <4> QED BY <4>1, <4>2
    <3> QED BY <3>1, <3>2, <3>3
  <2> QED BY <2>3, <2>4
<1>6. /\ l # NULL
      /\ \A y \in Nodes : next'[y] = IF y = N(k - 1) THEN N(k + 1) ELSE next[y]
      /\ item_value' = item_value
      /\ \A y \in Items : container'[y] = IF y = i THEN NULL ELSE container[y]
  <2>1. k - 1 \in 0 .. n /\ k - 1 \in 0 .. n + 1 /\ (k - 1) + 1 = k /\ k \in 0 .. n
    BY SMT
  <2>2. next[N(k - 1)] = i /\ next[i] = N(k + 1) /\ N(k - 1) \in Nodes /\ Home(N(k - 1)) = l
    BY <1>2, <1>3, <2>1
  <2>3. l # NULL
    BY ListParams
  <2>4. previous[i] = N(k - 1)
    BY <1>0, <2>2, <2>3 DEF Linked
  <2> QED BY <1>0, <2>2, <2>3, <2>4 DEF RemoveItem, TypeOK
<1>7. \A j \in 0 .. n - 1 : next'[M(j)] = M(j + 1)
  <2> SUFFICES ASSUME NEW j \in 0 .. n - 1 PROVE next'[M(j)] = M(j + 1)
    OBVIOUS
  <2>0. k - 1 \in 0 .. n /\ j \in 0 .. n /\ j + 1 \in 0 .. n
    BY SMT
  <2>1. CASE j < k - 1
    <3>1. j < k /\ j + 1 < k /\ j \in 0 .. n + 1 /\ j # k - 1
      BY <2>1, SMT
    <3>2. M(j) = N(j) /\ M(j + 1) = N(j + 1)
      BY <1>5, <2>0, <3>1
    <3>3. N(j) # N(k - 1) /\ N(j) \in Nodes /\ next[N(j)] = N(j + 1)
      BY <1>2, <2>0, <3>1
    <3> HIDE DEF M, N
    <3> QED BY <1>6, <3>2, <3>3
  <2>2. CASE j = k - 1
    <3>1. j < k /\ k <= j + 1 /\ (j + 1) + 1 = k + 1 /\ j \in 0 .. n + 1
      BY <2>2, SMT
    <3>2. M(j) = N(k - 1) /\ M(j + 1) = N(k + 1) /\ N(k - 1) \in Nodes
      BY <1>2, <1>5, <2>0, <2>2, <3>1
    <3> HIDE DEF M, N
    <3> QED BY <1>6, <3>2
  <2>3. CASE k <= j
    <3>1. k <= j + 1 /\ j + 1 \in 0 .. n + 1 /\ j + 1 # k - 1
      BY <2>3, SMT
    <3>2. M(j) = N(j + 1) /\ M(j + 1) = N((j + 1) + 1)
      BY <1>5, <2>0, <2>3, <3>1
    <3>3. N(j + 1) # N(k - 1) /\ N(j + 1) \in Nodes /\ next[N(j + 1)] = N((j + 1) + 1)
      BY <1>2, <2>0, <3>1
    <3> HIDE DEF M, N
    <3> QED BY <1>6, <3>2, <3>3
  <2>4. j < k - 1 \/ j = k - 1 \/ k <= j
    BY SMT
  <2> QED BY <2>1, <2>2, <2>3, <2>4
<1>8. \A y \in Items : container'[y] = l <=> \E j \in 1 .. n - 1 : t[j] = y
  <2> TAKE y \in Items
  <2>1. container[y] = l <=> \E j \in 1 .. n : s[j] = y
    BY <1>0 DEF Chain
  <2>2. \A a, b \in 1 .. n : a < b => s[a] # s[b]
    BY <1>0 DEF Chain
  <2>3. ASSUME NEW j \in 1 .. n - 1, t[j] = y PROVE container'[y] = l
    <3>1. CASE j < k
      <4>1. j \in 1 .. n
        BY SMT
      <4>2. t[j] = s[j] /\ s[j] # i
        BY <1>3, <1>4, <2>2, <3>1, <4>1
      <4> QED BY <1>6, <2>1, <2>3, <4>1, <4>2
    <3>2. CASE ~(j < k)
      <4>1. j + 1 \in 1 .. n /\ k < j + 1
        BY <3>2, SMT
      <4>2. t[j] = s[j + 1] /\ s[j + 1] # i
        BY <1>3, <1>4, <2>2, <3>2, <4>1
      <4> QED BY <1>6, <2>1, <2>3, <4>1, <4>2
    <3> QED BY <3>1, <3>2
  <2>4. ASSUME container'[y] = l PROVE \E j \in 1 .. n - 1 : t[j] = y
    <3>1. y # i /\ container[y] = l
      BY <1>6, <2>4
    <3>2. PICK j \in 1 .. n : s[j] = y /\ j # k
      BY <1>3, <2>1, <3>1
    <3>3. CASE j < k
      <4>1. j \in 1 .. n - 1
        BY <3>3, SMT
      <4> QED BY <1>4, <3>2, <3>3, <4>1
    <3>4. CASE ~(j < k)
      <4>1. j - 1 \in 1 .. n - 1 /\ ~(j - 1 < k) /\ (j - 1) + 1 = j
        BY <3>2, <3>4, SMT
      <4>2. t[j - 1] = s[j]
        BY <1>4, <4>1
      <4> QED BY <3>2, <4>1, <4>2
    <3> QED BY <3>3, <3>4
  <2> QED BY <2>3, <2>4
<1>9. \A a, b \in 1 .. n - 1 : a < b => t[a] # t[b] /\ item_value'[t[a]] <= item_value'[t[b]]
  <2> SUFFICES ASSUME NEW a \in 1 .. n - 1, NEW b \in 1 .. n - 1, a < b
               PROVE  t[a] # t[b] /\ item_value[t[a]] <= item_value[t[b]]
    BY <1>6
  <2>1. \A c, d \in 1 .. n : c < d => s[c] # s[d] /\ item_value[s[c]] <= item_value[s[d]]
    BY <1>0 DEF Chain
  <2>2. /\ a \in 1 .. n /\ a + 1 \in 1 .. n /\ b \in 1 .. n /\ b + 1 \in 1 .. n
        /\ a < b + 1 /\ a + 1 < b + 1 /\ (b < k => a < k)
    BY SMT
  <2>3. t[a] = IF a < k THEN s[a] ELSE s[a + 1]
    BY <1>4
  <2>4. t[b] = IF b < k THEN s[b] ELSE s[b + 1]
    BY <1>4
  <2>5. CASE b < k
    BY <2>1, <2>2, <2>3, <2>4, <2>5
  <2>6. CASE ~(b < k) /\ a < k
    BY <2>1, <2>2, <2>3, <2>4, <2>6
  <2>7. CASE ~(b < k) /\ ~(a < k)
    BY <2>1, <2>2, <2>3, <2>4, <2>7
  <2> QED BY <2>5, <2>6, <2>7
<1>10. Chain(l, t)'
  BY <1>0, <1>4, <1>7, <1>8, <1>9 DEF Chain, NodeAt
<1>11. Cut(s, k) = t
  BY ItemsCut DEF t
<1> QED BY <1>3, <1>4, <1>10, <1>11 DEF Shortened

-----------------------------------------------------------------------------
(* Walk follows the chain.                                                 *)

(* The recursive function of Walk: the chain satisfies its equation, and   *)
(* nothing else does, since there is no first place to differ.             *)
LEMMA WalkIs ==
  ASSUME NEW l \in Lists, number_of_items[l] \in Nat,
         NEW s \in [1 .. number_of_items[l] -> Items], Chain(l, s)
  PROVE  Walk(l) = s
<1> DEFINE n == number_of_items[l]
           Steps(f) == [k \in 0 .. n |-> IF k = 0 THEN l ELSE next[f[k - 1]]]
           At == CHOOSE f : f = Steps(f)
           m == [k \in 0 .. n |-> NodeAt(l, s, k)]
<1>1. Walk(l) = [k \in 1 .. n |-> At[k]]
  BY DEF Walk
<1>2. \A k \in 1 .. n : m[k] = s[k] /\ m[k] = next[m[k - 1]]
  <2> SUFFICES ASSUME NEW k \in 1 .. n PROVE m[k] = s[k] /\ m[k] = next[m[k - 1]]
    OBVIOUS
  <2>1. k \in 0 .. n /\ k - 1 \in 0 .. n /\ (k - 1) + 1 = k
    BY SMT
  <2>2. m[k] = NodeAt(l, s, k) /\ m[k - 1] = NodeAt(l, s, k - 1)
    BY <2>1
  <2> QED BY <2>1, <2>2 DEF Chain, NodeAt
<1>3. m = Steps(m) /\ m[0] = l
  <2>1. 0 \in 0 .. n /\ 0 \notin 1 .. n
    BY SMT
  <2>2. m[0] = l
    BY <2>1 DEF NodeAt
  <2>3. \A k \in 0 .. n : m[k] = IF k = 0 THEN l ELSE next[m[k - 1]]
    <3>1. \A k \in 0 .. n : k = 0 \/ (k # 0 /\ k \in 1 .. n)
      BY SMT
    <3> HIDE DEF m
    <3> QED BY <1>2, <2>2, <3>1, Zenon
  <2> HIDE DEF m
  <2>4. m \in [0 .. n -> {m[k] : k \in 0 .. n}] /\ m = [k \in 0 .. n |-> m[k]]
    BY DEF m
  <2> QED BY <2>2, <2>3, <2>4
<1> HIDE DEF m
<1>4. At = Steps(At)
  BY <1>3, Zenon
<1> HIDE DEF At
<1>5. ASSUME NEW k \in 0 .. n, At[k] # m[k] PROVE FALSE
  <2> DEFINE S == {j \in 0 .. n : At[j] # m[j]}
  <2>1. PICK j \in S : \A i \in S : j <= i
    <3>1. S \subseteq Nat /\ S # {}
      BY <1>5, SMT
    <3> HIDE DEF S
    <3> QED BY <3>1, Least
  <2>2. j \in 0 .. n /\ At[j] # m[j]
    BY <2>1
  <2>3. At[0] = l
    BY <1>4
  <2>4. j # 0
    BY <1>3, <2>2, <2>3
  <2>5. j \in 1 .. n /\ j - 1 \in 0 .. n /\ j - 1 < j
    BY <2>2, <2>4, SMT
  <2>6. At[j - 1] = m[j - 1]
    BY <2>1, <2>5, SMT
  <2>7. At[j] = next[At[j - 1]]
    BY <1>4, <2>2, <2>4
  <2> QED BY <1>2, <2>2, <2>5, <2>6, <2>7
<1>6. \A k \in 1 .. n : At[k] = s[k]
  BY <1>2, <1>5, SMT
<1> QED BY <1>1, <1>6

LEMMA Walks ==
  TypeOK => \A l \in Lists : \A s \in [1 .. number_of_items[l] -> Items] : Chain(l, s) => Walk(l) = s
  BY WalkIs DEF TypeOK

LEMMA InitThreaded == Init => Threaded
<1> SUFFICES ASSUME Init, NEW l \in Lists
             PROVE  \E s \in [1 .. number_of_items[l] -> Items] : Chain(l, s)
  BY DEF Threaded
<1>1. number_of_items[l] = 0 /\ next[l] = l /\ \A i \in Items : container[i] # l
  BY ListParams DEF Init, Nodes
<1>2. 1 .. 0 = {} /\ 0 .. 0 = {0}
  BY SMT
<1> DEFINE s == [k \in {} |-> l]
<1>3. s \in [1 .. number_of_items[l] -> Items] /\ DOMAIN s = {}
  BY <1>1, <1>2
<1> HIDE DEF s
<1>4. NodeAt(l, s, 0) = l /\ NodeAt(l, s, 0 + 1) = l
  BY <1>3 DEF NodeAt
<1>5. Chain(l, s)
  BY <1>1, <1>2, <1>3, <1>4 DEF Chain
<1> QED BY <1>3, <1>5

\* What the two operations do not do to the other lists
LEMMA InsertOthers ==
  ASSUME ListInv,
         NEW l \in Lists, NEW i \in Items, NEW v \in 0 .. MaxDelay, InsertItem(l, i, v),
         NEW m \in Lists, m # l, NEW n \in Nat, n = number_of_items[m],
         NEW s \in [1 .. n -> Items], Chain(m, s)
  PROVE  number_of_items'[m] = n /\ Chain(m, s)'
<1>1. TypeOK /\ number_of_items'[m] = n
  BY DEF ListInv, TypeOK, InsertItem
<1>2. PICK x \in Nodes : StopsAt(x, l, v) /\ Link(i, x)
  BY DEF InsertItem
<1>3. \A y \in Items : container'[y] = m <=> container[y] = m
  BY <1>1, ListParams DEF InsertItem, TypeOK
<1>4. Home(x) = l /\ Home(i) = NULL /\ NULL # m /\ i \in Nodes
  BY <1>2, ListParams DEF StopsAt, InsertItem, Home, Nodes
<1>5. \A y \in Nodes : y # x /\ y # i => next'[y] = next[y] /\ item_value'[y] = item_value[y]
  BY <1>1, <1>2 DEF Link, InsertItem, TypeOK
<1>6. \A y \in Nodes : Home(y) = m => next'[y] = next[y] /\ item_value'[y] = item_value[y]
  BY <1>4, <1>5
<1> QED BY <1>1, <1>3, <1>6, OtherChain

LEMMA RemoveOthers ==
  ASSUME ListInv, NEW i \in Items, RemoveItem(i),
         NEW m \in Lists, m # container[i], NEW n \in Nat, n = number_of_items[m],
         NEW s \in [1 .. n -> Items], Chain(m, s)
  PROVE  number_of_items'[m] = n /\ Chain(m, s)'
<1>1. TypeOK /\ Linked /\ number_of_items'[m] = n
  BY DEF ListInv, TypeOK, RemoveItem
<1>2. \A y \in Items : container'[y] = m <=> container[y] = m
  BY <1>1, ListParams DEF RemoveItem, TypeOK
<1>3. Home(i) = container[i] /\ container[i] # NULL /\ i \in Nodes
  BY ListParams DEF RemoveItem, Home, Nodes
<1>4. previous[i] \in Nodes /\ Home(previous[i]) # m
  BY <1>1, <1>3 DEF Linked
<1>5. \A y \in Nodes : y # previous[i] => next'[y] = next[y]
  BY <1>1 DEF RemoveItem, TypeOK
<1>6. \A y \in Nodes : Home(y) = m => next'[y] = next[y] /\ item_value'[y] = item_value[y]
  BY <1>4, <1>5 DEF RemoveItem
<1> QED BY <1>1, <1>2, <1>6, OtherChain

LEMMA StepThreaded ==
  ASSUME ListInv, ListInv', Threaded, [Next]_vars
  PROVE  Threaded'
<1> SUFFICES ASSUME NEW m \in Lists
             PROVE  \E s \in [1 .. number_of_items'[m] -> Items] : Chain(m, s)'
  BY DEF Threaded
<1>1. PICK n \in Nat : n = number_of_items[m]
  BY DEF ListInv, TypeOK
<1>2. PICK s \in [1 .. n -> Items] : Chain(m, s)
  BY <1>1 DEF Threaded
<1>3. ASSUME NEW l \in Lists, NEW i \in Items, NEW v \in 0 .. MaxDelay, InsertItem(l, i, v)
      PROVE  \E t \in [1 .. number_of_items'[m] -> Items] : Chain(m, t)'
  <2>1. CASE m = l
    <3>1. number_of_items'[m] = n + 1
      BY <1>1, <1>3, <2>1 DEF InsertItem, ListInv, TypeOK
    <3>2. InsertItem(m, i, v)
      BY <1>3, <2>1
    <3>3. Lengthened(m, n, s, i)
      BY <1>1, <1>2, <3>2, InsertChain
    <3> QED BY <3>1, <3>3 DEF Lengthened
  <2>2. CASE m # l
    BY <1>1, <1>2, <1>3, <2>2, InsertOthers
  <2> QED BY <2>1, <2>2
<1>4. ASSUME NEW i \in Items, RemoveItem(i)
      PROVE  \E t \in [1 .. number_of_items'[m] -> Items] : Chain(m, t)'
  <2>1. CASE m = container[i]
    <3>1. number_of_items'[m] = n - 1
      BY <1>1, <1>4, <2>1 DEF RemoveItem, ListInv, TypeOK
    <3>2. Shortened(m, n, s, i)
      BY <1>1, <1>2, <1>4, <2>1, RemoveChain
    <3> QED BY <3>1, <3>2 DEF Shortened
  <2>2. CASE m # container[i]
    BY <1>1, <1>2, <1>4, <2>2, RemoveOthers
  <2> QED BY <2>1, <2>2
<1>5. CASE UNCHANGED vars
  <2>1. Chain(m, s)' /\ number_of_items'[m] = n
    BY <1>1, <1>2, <1>5 DEF vars, Chain
  <2> QED BY <2>1
<1> QED BY <1>3, <1>4, <1>5 DEF Next

-----------------------------------------------------------------------------
(* The scan                                                                *)

\* The scan of InsertItem in a list whose chain is s: the values are below v
\* up to one place and not from there on.
Divides(l, n, s, v, p) ==
    /\ \A k \in 0 .. n : v > item_value[NodeAt(l, s, k + 1)] <=> k < p
    /\ \A x \in Nodes : StopsAt(x, l, v) <=> x = NodeAt(l, s, p)

LEMMA ScanPlace ==
  ASSUME ListInv, NEW l \in Lists, NEW v \in 0 .. MaxDelay, v # MaxDelay,
         NEW n \in Nat, n = number_of_items[l], NEW s \in [1 .. n -> Items], Chain(l, s)
  PROVE  \E p \in 0 .. n : Divides(l, n, s, v, p)
<1> DEFINE N(k) == NodeAt(l, s, k)
           Above(k) == v > item_value[N(k + 1)]
           S == {k \in 0 .. n : ~Above(k)}
<1>1. Placed(l, s, n) /\ TypeOK /\ DOMAIN s = 1 .. n /\ MaxDelay \in Nat
  BY RingNodes, ListParams DEF ListInv
<1>2. /\ N(0) = l /\ N(n + 1) = l
      /\ \A k \in 1 .. n : N(k) = s[k]
      /\ \A k \in 0 .. n + 1 : N(k) \in Nodes /\ Home(N(k)) = l
      /\ \A x \in Nodes : Home(x) = l => \E k \in 0 .. n : x = N(k)
      /\ \A k \in 0 .. n : next[N(k)] = N(k + 1)
  BY <1>1 DEF Placed, Chain
<1>3. item_value[l] = MaxDelay /\ \A x \in Nodes : item_value[x] \in 0 .. MaxDelay
  BY <1>1 DEF TypeOK
<1>4. \A k \in 0 .. n : k \in 0 .. n + 1 /\ k + 1 \in 0 .. n + 1
  BY SMT
<1>5. PICK p \in S : \A k \in S : p <= k
  <2>1. n \in 0 .. n /\ ~Above(n)
    BY <1>2, <1>3, SMT
  <2>2. S \subseteq Nat /\ S # {}
    BY <2>1, SMT
  <2> HIDE DEF S
  <2> QED BY <2>2, Least
<1>6. p \in 0 .. n /\ ~Above(p) /\ \A k \in 0 .. n : k < p => Above(k)
  <2>1. p \in 0 .. n /\ ~Above(p)
    BY <1>5
  <2>2. \A k \in 0 .. n : ~Above(k) => p <= k
    BY <1>5
  <2> HIDE DEF Above
  <2> QED BY <2>1, <2>2, SMT
<1> HIDE DEF S
<1>7. ASSUME NEW k \in 0 .. n, p <= k PROVE ~Above(k)
  <2>1. CASE k = n
    BY <1>2, <1>3, <2>1, SMT
  <2>2. CASE k = p
    BY <1>6, <2>2
  <2>3. CASE k # n /\ k # p
    <3>1. p + 1 \in 1 .. n /\ k + 1 \in 1 .. n /\ p + 1 < k + 1
      BY <1>6, <1>7, <2>3, SMT
    <3>2. item_value[s[p + 1]] <= item_value[s[k + 1]]
      BY <1>1, <3>1 DEF Chain
    <3>3. N(p + 1) = s[p + 1] /\ N(k + 1) = s[k + 1] /\ s[p + 1] \in Nodes /\ s[k + 1] \in Nodes
      BY <1>2, <1>4, <1>6, <3>1
    <3>4. ~(v > item_value[s[p + 1]])
      BY <1>6, <3>3
    <3>5. /\ v \in Nat /\ item_value[s[p + 1]] \in Nat /\ item_value[s[k + 1]] \in Nat
      BY <1>1, <1>3, <3>3, SMT
    <3>6. ~(v > item_value[s[k + 1]])
      BY <3>2, <3>4, <3>5, SMT
    <3> QED BY <3>3, <3>6
  <2> QED BY <2>1, <2>2, <2>3
<1>8. \A k \in 0 .. n : Above(k) <=> k < p
  <2> HIDE DEF Above
  <2>1. \A k \in 0 .. n : k < p \/ p <= k
    BY <1>6, SMT
  <2>2. \A k \in 0 .. n : p <= k => ~Above(k)
    BY <1>7
  <2> QED BY <1>6, <2>1, <2>2
<1>9. ASSUME NEW k \in 0 .. n PROVE StopsAt(N(k), l, v) <=> k = p
  <2>1. StopsAt(N(k), l, v) <=> ~Above(k) /\ (N(k) # l => v > item_value[N(k)])
    BY <1>2, <1>4 DEF StopsAt
  <2>2. CASE k = 0
    <3>1. ~Above(k) <=> k = p
      <4>1. k < p <=> k # p
        BY <1>6, <2>2, SMT
      <4> HIDE DEF Above
      <4> QED BY <1>8, <4>1
    <3> QED BY <1>2, <2>1, <2>2, <3>1
  <2>3. CASE k # 0
    <3>1. k \in 1 .. n /\ k - 1 \in 0 .. n /\ (k - 1) + 1 = k
      BY <2>3, SMT
    <3>2. N(k) # l
      BY <1>2, <3>1, ListParams
    <3>3. v > item_value[N(k)] <=> k - 1 < p
      BY <1>8, <3>1
    <3>4. k = p <=> ~(k < p) /\ k - 1 < p
      BY <1>6, SMT
    <3>5. Above(k) <=> k < p
      BY <1>8
    <3> HIDE DEF Above, N
    <3> QED BY <2>1, <3>2, <3>3, <3>4, <3>5
  <2> QED BY <2>2, <2>3
<1>10. \A x \in Nodes : StopsAt(x, l, v) <=> x = N(p)
  <2>1. \A x \in Nodes : StopsAt(x, l, v) => \E k \in 0 .. n : x = N(k)
    BY <1>2 DEF StopsAt
  <2> HIDE DEF N
  <2> QED BY <1>6, <1>9, <2>1
<1> QED BY <1>6, <1>8, <1>10 DEF Divides

(* The recursive function of Scan: from a node below the place it goes on   *)
(* to the place, from a node behind it nowhere.                             *)
LEMMA ScanStops ==
  ASSUME ListInv, NEW l \in Lists, NEW v \in 0 .. MaxDelay, v # MaxDelay,
         NEW n \in Nat, n = number_of_items[l], NEW s \in [1 .. n -> Items], Chain(l, s)
  PROVE  \A x \in Nodes : StopsAt(x, l, v) <=> x = Scan(l, v)
<1> DEFINE N(k) == NodeAt(l, s, k)
           Ring == {x \in Nodes : Home(x) = l}
           Steps(f) == [x \in Ring |-> IF v > item_value[next[x]] THEN f[next[x]] ELSE x]
           From == CHOOSE f : f = Steps(f)
<1>1. Scan(l, v) = From[l]
  BY DEF Scan
<1>2. PICK p \in 0 .. n :
         /\ \A k \in 0 .. n : v > item_value[N(k + 1)] <=> k < p
         /\ \A x \in Nodes : StopsAt(x, l, v) <=> x = N(p)
  <2>1. \E p \in 0 .. n : Divides(l, n, s, v, p)
    BY ScanPlace
  <2> QED BY <2>1 DEF Divides
<1>3. /\ N(0) = l
      /\ \A k \in 0 .. n : N(k) \in Ring /\ next[N(k)] = N(k + 1)
      /\ \A x \in Ring : \E k \in 0 .. n : x = N(k)
  <2>1. Placed(l, s, n)
    BY RingNodes DEF ListInv
  <2>2. \A k \in 0 .. n : k \in 0 .. n + 1
    BY SMT
  <2> QED BY <2>1, <2>2 DEF Placed, Chain
<1> DEFINE F == [x \in Ring |-> IF v > item_value[next[x]] THEN N(p) ELSE x]
<1>4. F = Steps(F)
  <2>1. \A k \in 0 .. n : k < p => k + 1 \in 0 .. n /\ (k + 1 < p \/ k + 1 = p)
    BY <1>2, SMT
  <2>2. ~(p < p)
    BY <1>2, SMT
  <2>3. \A k \in 0 .. n : k < p => F[N(k + 1)] = N(p)
    BY <1>2, <1>3, <2>1, <2>2
  <2>4. \A x \in Ring : v > item_value[next[x]] => F[next[x]] = N(p)
    BY <1>2, <1>3, <2>3
  <2> QED BY <2>4
<1>5. From = Steps(From)
  <2> HIDE DEF F
  <2> QED BY <1>4, Zenon
<1> HIDE DEF From, F
<1> DEFINE Wrong == {d \in 0 .. p : From[N(p - d)] # N(p)}
<1>6. ASSUME Wrong # {} PROVE FALSE
  <2>1. PICK d \in Wrong : \A e \in Wrong : d <= e
    <3>1. Wrong \subseteq Nat
      BY <1>2, SMT
    <3> HIDE DEF Wrong
    <3> QED BY <1>6, <3>1, Least
  <2>2. d \in 0 .. p /\ From[N(p - d)] # N(p) /\ p - d \in 0 .. n
    BY <1>2, <2>1, SMT
  <2>3. d # 0
    <3>1. p - 0 = p /\ ~(p < p)
      BY <1>2, SMT
    <3>2. From[N(p)] = N(p)
      BY <1>2, <1>3, <1>5, <3>1
    <3> QED BY <2>2, <3>1, <3>2
  <2>4. d - 1 \in 0 .. p /\ ~(d <= d - 1) /\ p - (d - 1) = (p - d) + 1 /\ p - d < p
    BY <1>2, <2>2, <2>3, SMT
  <2>5. From[N(p - (d - 1))] = N(p)
    BY <2>1, <2>4
  <2>6. From[N(p - d)] = From[N((p - d) + 1)]
    <3>1. \A k \in 0 .. n : k < p => From[N(k)] = From[N(k + 1)]
      BY <1>2, <1>3, <1>5
    <3> HIDE DEF N
    <3> QED BY <2>2, <2>4, <3>1
  <2> QED BY <2>2, <2>4, <2>5, <2>6
<1>7. From[l] = N(p)
  <2>1. p \in 0 .. p /\ p - p = 0
    BY <1>2, SMT
  <2> QED BY <1>3, <1>6, <2>1
<1> QED BY <1>1, <1>2, <1>7

LEMMA ScanRight == ListInv /\ Threaded => ScanEnds
<1> SUFFICES ASSUME ListInv, Threaded, NEW l \in Lists, NEW v \in 0 .. MaxDelay
             PROVE  \A x \in Nodes : StopsAt(x, l, v) <=> x = Scan(l, v)
  BY DEF ScanEnds
<1>1. CASE v = MaxDelay
  <2>1. Scan(l, v) = previous[l]
    BY <1>1 DEF Scan
  <2>2. Home(previous[l]) = l
    BY ListParams DEF ListInv, Linked, Home, Nodes
  <2> QED BY <1>1, <2>1, <2>2 DEF StopsAt
<1>2. CASE v # MaxDelay
  <2>1. PICK n \in Nat : n = number_of_items[l]
    BY DEF ListInv, TypeOK
  <2>2. PICK s \in [1 .. n -> Items] : Chain(l, s)
    BY <2>1 DEF Threaded
  <2> QED BY <1>2, <2>1, <2>2, ScanStops
<1> QED BY <1>1, <1>2

-----------------------------------------------------------------------------
(* The pointers implement SortedLists                                      *)

(* A list whose chain is known has its items as its contents.              *)
LEMMA ContentsAre ==
  ASSUME TypeOK, NEW l \in Lists, NEW n \in Nat, n = number_of_items[l],
         NEW s \in [1 .. n -> Items], Chain(l, s)
  PROVE  Contents[l] = s /\ Len(Contents[l]) = n /\ DOMAIN Contents[l] = 1 .. n
<1>1. Contents[l] = s
  BY Walks DEF Contents
<1>2. s \in Seq(Items)
  BY SeqDef
<1>3. Len(s) \in Nat /\ DOMAIN s = 1 .. Len(s) /\ DOMAIN s = 1 .. n
  BY <1>2, LenProperties
<1>4. Len(s) = n
  BY <1>3, SMT
<1> QED BY <1>1, <1>3, <1>4

LEMMA ChainOf ==
  ASSUME TypeOK, Threaded, NEW l \in Lists
  PROVE  \E n \in Nat : n = number_of_items[l] /\ \E s \in [1 .. n -> Items] : Chain(l, s)
  BY DEF TypeOK, Threaded

\* After a step that leaves the chain of m alone or makes t of it.
LEMMA ContentsNext ==
  ASSUME TypeOK', NEW m \in Lists, NEW n \in Nat, n = number_of_items'[m],
         NEW t \in [1 .. n -> Items], Chain(m, t)'
  PROVE  Contents'[m] = t
<1>1. (TypeOK => \A l \in Lists : \A s \in [1 .. number_of_items[l] -> Items] : Chain(l, s) => Walk(l) = s)'
  BY Walks, PTL
<1>2. Walk(m)' = t
  BY <1>1
<1> QED BY <1>2 DEF Contents

LEMMA InsertMaps ==
  ASSUME ListInv, ListInv', Threaded,
         NEW l \in Lists, NEW i \in Items, NEW v \in 0 .. MaxDelay, InsertItem(l, i, v)
  PROVE  Abstract!Insert(l, i)
<1>1. TypeOK /\ TypeOK' /\ container[i] = NULL
  BY DEF ListInv, InsertItem
<1>2. PICK n \in Nat : n = number_of_items[l] /\ \E s \in [1 .. n -> Items] : Chain(l, s)
  BY <1>1, ChainOf
<1>3. PICK s \in [1 .. n -> Items] : Chain(l, s)
  BY <1>2
<1>4. PICK t \in [1 .. n + 1 -> Items] : Chain(l, t)' /\ \E k \in 0 .. n : t = Put(s, k, i)
  <2>1. Lengthened(l, n, s, i)
    BY <1>2, <1>3, InsertChain
  <2> QED BY <2>1 DEF Lengthened
<1>5. PICK k \in 0 .. n : t = Put(s, k, i)
  BY <1>4
<1>6. Contents[l] = s /\ Len(Contents[l]) = n
  BY <1>1, <1>2, <1>3, ContentsAre
<1>7. number_of_items'[l] = n + 1 /\ n + 1 \in Nat /\ DOMAIN t = 1 .. n + 1
  BY <1>1, <1>2 DEF InsertItem, TypeOK
<1>8. Contents'[l] = t
  BY <1>1, <1>4, <1>7, ContentsNext
<1>9. ASSUME NEW m \in Lists, m # l PROVE Contents'[m] = Contents[m]
  <2>1. PICK r \in Nat : r = number_of_items[m] /\ \E u \in [1 .. r -> Items] : Chain(m, u)
    BY <1>1, ChainOf
  <2>2. PICK u \in [1 .. r -> Items] : Chain(m, u)
    BY <2>1
  <2>3. number_of_items'[m] = r /\ Chain(m, u)'
    BY <1>9, <2>1, <2>2, InsertOthers
  <2>4. Contents'[m] = u
    BY <1>1, <2>3, ContentsNext
  <2>5. Contents[m] = u
    BY <1>1, <2>1, <2>2, ContentsAre
  <2> QED BY <2>4, <2>5
<1>10. Contents' = [Contents EXCEPT ![l] = t]
  BY <1>8, <1>9 DEF Contents
<1>11. \A m \in Lists : ~Abstract!In(i, Contents[m])
  <2> TAKE m \in Lists
  <2>1. PICK r \in Nat : r = number_of_items[m] /\ \E u \in [1 .. r -> Items] : Chain(m, u)
    BY <1>1, ChainOf
  <2>2. PICK u \in [1 .. r -> Items] : Chain(m, u)
    BY <2>1
  <2>3. Contents[m] = u
    BY <1>1, <2>1, <2>2, ContentsAre
  <2>4. m # NULL
    BY ListParams
  <2> QED BY <1>1, <2>2, <2>3, <2>4 DEF Chain, Abstract!In
<1>12. Values' = [Values EXCEPT ![i] = v]
  BY <1>1 DEF Values, InsertItem, TypeOK, Nodes
<1>13. Abstract!Sorted(t, Values')
  <2>1. \A j, m \in 1 .. n + 1 : j < m => item_value'[t[j]] <= item_value'[t[m]]
    BY <1>4, <1>7 DEF Chain
  <2>2. \A j \in 1 .. n + 1 : Values'[t[j]] = item_value'[t[j]]
    BY DEF Values
  <2> QED BY <1>7, <2>1, <2>2 DEF Abstract!Sorted
<1>14. Abstract!Put(s, k, i) = t
  BY <1>5 DEF Abstract!Put, Put
<1> QED BY <1>6, <1>10, <1>11, <1>12, <1>13, <1>14 DEF Abstract!Insert

LEMMA RemoveMaps ==
  ASSUME ListInv, ListInv', Threaded, NEW i \in Items, RemoveItem(i),
         NEW l \in Lists, l = container[i]
  PROVE  Abstract!Remove(l, i)
<1>1. TypeOK /\ TypeOK'
  BY DEF ListInv
<1>2. PICK n \in Nat : n = number_of_items[l] /\ \E s \in [1 .. n -> Items] : Chain(l, s)
  BY <1>1, ChainOf
<1>3. PICK s \in [1 .. n -> Items] : Chain(l, s)
  BY <1>2
<1>4. PICK t \in [1 .. n - 1 -> Items] : Chain(l, t)' /\ \E k \in 1 .. n : s[k] = i /\ t = Cut(s, k)
  <2>1. Shortened(l, n, s, i)
    BY <1>2, <1>3, RemoveChain
  <2> QED BY <2>1 DEF Shortened
<1>5. PICK k \in 1 .. n : s[k] = i /\ t = Cut(s, k)
  BY <1>4
<1>6. Contents[l] = s /\ DOMAIN Contents[l] = 1 .. n
  BY <1>1, <1>2, <1>3, ContentsAre
<1>7. number_of_items'[l] = n - 1 /\ n - 1 \in Nat
  BY <1>1, <1>2, SMT DEF RemoveItem, TypeOK
<1>8. Contents'[l] = t
  BY <1>1, <1>4, <1>7, ContentsNext
<1>9. ASSUME NEW m \in Lists, m # l PROVE Contents'[m] = Contents[m]
  <2>1. PICK r \in Nat : r = number_of_items[m] /\ \E u \in [1 .. r -> Items] : Chain(m, u)
    BY <1>1, ChainOf
  <2>2. PICK u \in [1 .. r -> Items] : Chain(m, u)
    BY <2>1
  <2>3. number_of_items'[m] = r /\ Chain(m, u)'
    BY <1>9, <2>1, <2>2, RemoveOthers
  <2>4. Contents'[m] = u
    BY <1>1, <2>3, ContentsNext
  <2>5. Contents[m] = u
    BY <1>1, <2>1, <2>2, ContentsAre
  <2> QED BY <2>4, <2>5
<1>10. Contents' = [Contents EXCEPT ![l] = t]
  BY <1>8, <1>9 DEF Contents
<1>11. Values' = Values
  BY DEF Values, RemoveItem
<1>12. Abstract!Cut(s, k) = t
  BY <1>5 DEF Abstract!Cut, Cut
<1> QED BY <1>5, <1>6, <1>10, <1>11, <1>12 DEF Abstract!Remove

LEMMA InitMaps == Init => Abstract!Init
<1> SUFFICES ASSUME Init PROVE Abstract!Init
  OBVIOUS
<1>1. TypeOK /\ Threaded
  BY InitInv, InitThreaded DEF ListInv
<1>2. ASSUME NEW l \in Lists PROVE Contents[l] = <<>>
  <2>1. 0 = number_of_items[l] /\ 0 \in Nat
    BY DEF Init
  <2>2. PICK s \in [1 .. 0 -> Items] : Chain(l, s)
    BY <1>1, <2>1 DEF Threaded
  <2>3. Contents[l] = s /\ Len(Contents[l]) = 0
    BY <1>1, <2>1, <2>2, ContentsAre
  <2>4. s \in Seq(Items)
    BY <2>1, SeqDef
  <2> QED BY <2>3, <2>4, EmptySeq, SMT
<1>3. Contents = [l \in Lists |-> <<>>]
  BY <1>2 DEF Contents
<1>4. Values \in [Items -> 0 .. MaxDelay]
  BY <1>1 DEF Values, TypeOK, Nodes
<1> QED BY <1>3, <1>4 DEF Abstract!Init

LEMMA StepMaps ==
  ASSUME ListInv, ListInv', Threaded, [Next]_vars
  PROVE  [Abstract!Next]_Abstract!vars
<1>1. CASE \E l \in Lists, i \in Items, v \in 0 .. MaxDelay : InsertItem(l, i, v)
  BY <1>1, InsertMaps DEF Abstract!Next
<1>2. CASE \E i \in Items : RemoveItem(i)
  <2>1. PICK i \in Items : RemoveItem(i)
    BY <1>2
  <2>2. container[i] \in Lists
    BY <2>1 DEF RemoveItem, ListInv, TypeOK
  <2> QED BY <2>1, <2>2, RemoveMaps DEF Abstract!Next
<1>3. CASE UNCHANGED vars
  <2>1. Contents' = Contents
    BY <1>3 DEF vars, Contents, Walk
  <2>2. Values' = Values
    BY <1>3 DEF vars, Values
  <2> QED BY <2>1, <2>2 DEF Abstract!vars
<1> QED BY <1>1, <1>2, <1>3 DEF Next

LEMMA ThreadedInvariance == Spec => [](ListInv /\ Threaded)
<1>1. ListInv /\ Threaded /\ [Next]_vars /\ ListInv' => Threaded'
  BY StepThreaded
<1>2. Spec => []ListInv
  BY Invariance
<1> QED BY InitThreaded, <1>1, <1>2, PTL DEF Spec

(* Every list is one ring through all its items in order: following next   *)
(* from list_end, InsertItem and the timer loop meet each item of the list *)
(* once and come back after number_of_items + 1 steps.                     *)
THEOREM ListsThreaded == Spec => []Threaded
  BY ThreadedInvariance, PTL

(* The loop of InsertItem ends, whatever the list holds, and at the node   *)
(* the action of the model takes.                                          *)
THEOREM ScanFindsPlace == Spec => []ScanEnds
  BY ThreadedInvariance, ScanRight, PTL

(* List.cpp keeps its promise: read through the pointers, an InsertItem    *)
(* puts one item into one sorted sequence, keeping it sorted, a RemoveItem *)
(* takes exactly that item out, and the other lists stay as they are.      *)
THEOREM ListsAreSorted == Spec => IsSortedLists
<1>1. ListInv /\ ListInv' /\ Threaded /\ [Next]_vars => [Abstract!Next]_Abstract!vars
  BY StepMaps
<1> QED BY InitMaps, <1>1, ThreadedInvariance, PTL DEF Spec, IsSortedLists, Abstract!Spec
=============================================================================
