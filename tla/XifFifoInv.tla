---------------------------- MODULE XifFifoInv ----------------------------
(***************************************************************************)
(* The inductive invariant of XifFifo for behaviours in which no cursor    *)
(* runs round its 32-bit word.  There the cursors are plain numbers, and   *)
(* each local copy of one is related to the cursors of this moment.        *)
(***************************************************************************)
EXTENDS XifFifo, FiniteSets

(* Fewer push calls than a cursor has values, by more than a ring-full.    *)
NoWrap == MaxPush + Capacity < Word

\* The producers whose push may still move WritePos.
Pending ==
    {p \in Producers :
        pc[p] \in {"w_load", "w_cmp", "w_cmp_head", "w_cmp_cursor", "w_cas"}
                  \cup (IF MultiIn THEN {} ELSE {"w_copy", "w_release"})}

Ring ==
    /\ head <= ReadPos
    /\ ReadPos <= tail
    /\ tail <= WritePos
    /\ WritePos <= head + Capacity

\* No position without a push call of its own, which is what bounds the cursors.
Counted ==
    /\ IsFiniteSet(Pending)
    /\ WritePos + Cardinality(Pending) <= pushes

OneIn == MultiIn \/ \A p, q \in Producers : pc[p] # "idle" /\ pc[q] # "idle" => p = q
OneOut == MultiOut \/ \A c, d \in Consumers : pc[c] # "idle" /\ pc[d] # "idle" => c = d

\* A producer's view of the ring, at each point of xif_fifo_push.
PushView(p) ==
    /\ pc[p] \in {"w_cmp", "w_cmp_head", "w_cmp_cursor", "w_cas"} =>
           /\ cursor[p] <= WritePos
           /\ MultiIn \/ cursor[p] = tail
    /\ pc[p] = "w_cmp_head" => cursor[p] <= seen[p] /\ seen[p] <= WritePos
    /\ pc[p] = "w_cmp_cursor" => seen[p] <= head /\ cursor[p] <= seen[p] + Capacity
    /\ pc[p] = "w_cas" =>
           MultiIn /\ (cursor[p] = write_cursor => cursor[p] < head + Capacity)
    /\ pc[p] \in {"w_copy", "w_release"} =>
           /\ tail <= cursor[p]
           /\ cursor[p] < head + Capacity
           /\ IF MultiIn THEN cursor[p] < write_cursor ELSE cursor[p] = tail

\* A consumer's view of the ring, at each point of xif_fifo_pop.
PopView(c) ==
    /\ pc[c] \in {"r_cmp", "r_cmp_tail", "r_cmp_cursor", "r_cas"} =>
           /\ cursor[c] <= ReadPos
           /\ MultiOut \/ cursor[c] = head
    /\ pc[c] = "r_cmp_tail" => cursor[c] <= seen[c] /\ seen[c] <= ReadPos
    /\ pc[c] = "r_cmp_cursor" => cursor[c] <= seen[c] /\ seen[c] <= tail
    /\ pc[c] = "r_cas" =>
           MultiOut /\ (cursor[c] = read_cursor => cursor[c] < tail)
    /\ pc[c] \in {"r_copy", "r_release"} =>
           /\ head <= cursor[c]
           /\ cursor[c] < tail
           /\ IF MultiOut THEN cursor[c] < read_cursor ELSE cursor[c] = head

OwnPositions ==
    /\ \A p, q \in Writing : p # q => cursor[p] # cursor[q]
    /\ \A c, d \in Reading : c # d => cursor[c] # cursor[d]

(* The cursors never leave their order, every position was claimed by one  *)
(* push, and what a thread loaded before it was interrupted still bounds   *)
(* the ring when it goes on.                                               *)
Inv ==
    /\ TypeOK
    /\ Ring
    /\ Counted
    /\ OneIn
    /\ OneOut
    /\ \A p \in Producers : PushView(p)
    /\ \A c \in Consumers : PopView(c)
    /\ OwnPositions

-----------------------------------------------------------------------------
(* What the copies leave behind, which the cursors say nothing about.  A   *)
(* producer has a datum from its call to its return, and when it comes to  *)
(* hand its position over the slot holds that datum, whoever else has      *)
(* copied in between.                                                      *)
Filled ==
    \A p \in Producers :
        /\ pc[p] = "idle" => datum[p] = NoDatum
        /\ pc[p] # "idle" => datum[p] \in Datums
        /\ pc[p] = "w_release" => data[Slot(cursor[p])] = datum[p]
=============================================================================
