---------------------------- MODULE XifRwbufInv ----------------------------
(***************************************************************************)
(* The inductive invariant of XifRwbuf: what a call knows of the ring at   *)
(* each of its stations, whatever the other calls have done since it       *)
(* loaded its cursor.                                                      *)
(***************************************************************************)
EXTENDS XifRwbuf, FiniteSets

SameSide(t, u) == (t \in Writers) = (u \in Writers)

\* The published cursor of t's side, and where a piece of t must end at the latest.
Base(t) == IF t \in Writers THEN tail ELSE head
Limit(t) == IF t \in Writers THEN head + Capacity ELSE tail

Ring ==
    /\ head <= ReadPos
    /\ ReadPos <= tail
    /\ tail <= WritePos
    /\ WritePos <= head + Capacity

\* The writers whose bytes have no position yet, ...
Unclaimed ==
    {w \in Writers :
        pc[w] \in {"load", "test", "cas"} \cup (IF MultiIn THEN {} ELSE {"copy", "release"})}

\* ... and the bytes they have been given.
First(w) == ub[w][1]
Own(w) == First(w) .. First(w) + size[w] - 1

OwnBytes ==
    /\ \A w \in Writers : pc[w] # "idle" => First(w) + size[w] - 1 <= given
    /\ \A v, w \in Unclaimed : v # w => Own(v) \cap Own(w) = {}

\* Every position has a byte of its own, which is what bounds the cursors.
Counted ==
    \E C \in SUBSET (1 .. given) :
        /\ Cardinality(C) = WritePos
        /\ \A w \in Unclaimed : C \cap Own(w) = {}

OneUser ==
    \A t, u \in Threads :
        pc[t] # "idle" /\ pc[u] # "idle" /\ SameSide(t, u) /\ ~Multi(t) => t = u

\* A call's view of the ring, at each of its stations.
View(t) ==
    /\ pc[t] \in {"test", "cas"} =>
           /\ cursor[t] <= Pos(t)
           /\ Multi(t) \/ cursor[t] = Base(t)
    /\ pc[t] = "cas" =>
           /\ Multi(t)
           /\ cursor[t] = Pos(t) => cursor[t] + size[t] <= Limit(t)
    /\ pc[t] \in {"copy", "release"} =>
           /\ Base(t) <= cursor[t]
           /\ cursor[t] + size[t] <= Limit(t)
           /\ IF Multi(t) THEN cursor[t] + size[t] <= Pos(t) ELSE cursor[t] = Base(t)

\* Pieces that have been claimed do not overlap.
Apart ==
    \A t, u \in Copying :
        t # u /\ SameSide(t, u) =>
            cursor[t] + size[t] <= cursor[u] \/ cursor[u] + size[u] <= cursor[t]

\* A byte that was written stays where it is until its position is free again.
Stored ==
    \A k \in 0 .. MaxBytes - 1 :
        written[k] # NoByte =>
            /\ k < head + Capacity
            /\ head <= k => data[Slot(k)] = written[k]

(* The cursors never leave their order, claimed pieces lie inside the ring *)
(* and apart, what a thread loaded before it was interrupted still bounds  *)
(* the ring when it goes on, and the bytes between the cursors are those   *)
(* that were written.                                                      *)
Inv ==
    /\ TypeOK
    /\ Ring
    /\ OwnBytes
    /\ Counted
    /\ OneUser
    /\ \A t \in Threads : View(t)
    /\ Apart
    /\ Stored
=============================================================================
