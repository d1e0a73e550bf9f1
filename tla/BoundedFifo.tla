---------------------------- MODULE BoundedFifo ----------------------------
(***************************************************************************)
(* What xif_fifo_push and xif_fifo_pop promise their callers: a queue of   *)
(* at most Capacity datums, to which a push call adds the datum it was     *)
(* given once or not at all, and from which a pop call takes the oldest.   *)
(* A push that is refused (xif_fifo_push returns false) leaves the queue   *)
(* alone; a pop that is refused is a stuttering step.                      *)
(***************************************************************************)
EXTENDS Naturals, Sequences

CONSTANTS
    Producers,  \* threads that push
    Consumers,  \* threads that pop
    Capacity,   \* the most datums the queue holds
    Data,       \* the datums a push may be given
    NoDatum     \* not a datum

VARIABLES
    queue,      \* the datums pushed and not yet popped, oldest first
    offered,    \* offered[p]: the datum of p's push in progress, or NoDatum
    got         \* got[c]: the datum c popped last, or NoDatum

vars == <<queue, offered, got>>

Init ==
    /\ queue = <<>>
    /\ offered = [p \in Producers |-> NoDatum]
    /\ got = [c \in Consumers |-> NoDatum]

Offer(p) ==
    /\ offered[p] = NoDatum
    /\ \E d \in Data : offered' = [offered EXCEPT ![p] = d]
    /\ UNCHANGED <<queue, got>>

Enqueue(p) ==
    /\ offered[p] # NoDatum
    /\ Len(queue) < Capacity
    /\ queue' = Append(queue, offered[p])
    /\ offered' = [offered EXCEPT ![p] = NoDatum]
    /\ UNCHANGED got

Refuse(p) ==
    /\ offered[p] # NoDatum
    /\ offered' = [offered EXCEPT ![p] = NoDatum]
    /\ UNCHANGED <<queue, got>>

Dequeue(c) ==
    /\ queue # <<>>
    /\ got' = [got EXCEPT ![c] = Head(queue)]
    /\ queue' = Tail(queue)
    /\ UNCHANGED offered

Clear ==
    /\ queue' = <<>>
    /\ UNCHANGED <<offered, got>>

Next ==
    \/ \E p \in Producers : Offer(p) \/ Enqueue(p) \/ Refuse(p)
    \/ \E c \in Consumers : Dequeue(c)
    \/ Clear

Spec == Init /\ [][Next]_vars
=============================================================================
