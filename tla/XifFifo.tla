------------------------------ MODULE XifFifo ------------------------------
(***************************************************************************)
(* The lock-free ring FIFO of utils/fifo/xif_safe_fifo.c, shared by any    *)
(* number of pushing and popping threads.                                  *)
(*                                                                         *)
(* Four 32-bit cursors delimit the ring.  In the order they advance:       *)
(*                                                                         *)
(*    head .. read_cursor    being copied out by a pop                     *)
(*    read_cursor .. tail    pushed, ready to be popped                    *)
(*    tail .. write_cursor   being copied in by a push                     *)
(*                                                                         *)
(* A "multi" side claims a position by a compare-and-swap on its cursor,   *)
(* copies the datum, and hands the position over, in cursor order, by a    *)
(* second compare-and-swap on tail (push) or head (pop).  A "single" side  *)
(* uses tail or head alone.  Every load of a shared field, every           *)
(* compare-and-swap and every memcpy is a step of its own; the two         *)
(* operands of a comparison are loaded in either order, which C leaves     *)
(* open.  Memory is sequentially consistent.                               *)
(***************************************************************************)
EXTENDS Integers, Sequences

CONSTANTS
    Producers,  \* threads that call xif_fifo_push
    Consumers,  \* threads that call xif_fifo_pop
    Capacity,   \* attr.capacity
    Word,       \* number of values of a uint32_t cursor
    MaxPush,    \* bound: push calls in a behaviour
    NoDatum     \* content of a slot or of a buffer before its first datum

ASSUME Params ==
    /\ Capacity \in Nat \ {0}
    /\ Word \in Nat
    /\ Capacity < Word
    /\ MaxPush \in Nat
    /\ NoDatum \notin 1 .. MaxPush
    /\ Producers \cap Consumers = {}

VARIABLES
    policy,         \* the operations in use, and the access mode bits
    head, tail, write_cursor, read_cursor,
    data,           \* the ring's slots
    pc,             \* where each thread is in its push or pop
    cursor,         \* local: the position a thread works on
    seen,           \* local: the operand of a comparison loaded first
    datum,          \* the datum a producer pushes / a consumer popped last
    pushes          \* number of push calls made, names their datums

fifo == <<policy, head, tail, write_cursor, read_cursor, data>>
cursors == <<head, tail, write_cursor, read_cursor>>
vars == <<fifo, pc, cursor, seen, datum, pushes>>

-----------------------------------------------------------------------------
Threads == Producers \cup Consumers
Datums == 1 .. MaxPush

\* Many or one, in and out.
Policies == {"mimo", "miso", "simo", "siso"}
MultiIn == policy \in {"mimo", "miso"}
MultiOut == policy \in {"mimo", "simo"}

PushPC == {"w_load", "w_cmp", "w_cmp_head", "w_cmp_cursor", "w_cas", "w_copy", "w_release"}
PopPC == {"r_load", "r_cmp", "r_cmp_tail", "r_cmp_cursor", "r_cas", "r_copy", "r_release"}

\* (Definitions named Faulty... are what a plausible mistake would make of the
\* definition that follows them.  No specification uses them: they show that
\* the properties notice the mistake.)

\* uint32_t arithmetic
Next32(c) == (c + 1) % Word
Minus32(a, b) == (a - b) % Word

\* xif_fifo_get_datum, without FIFO_POW_ALIGN
Slot(c) == c % Capacity

\* The producers between acquiring and releasing a write cursor, and the
\* consumers between acquiring and releasing a read cursor.
Writing == {p \in Producers : pc[p] \in {"w_copy", "w_release"}}
Reading == {c \in Consumers : pc[c] \in {"r_copy", "r_release"}}

Goto(t, label) == pc' = [pc EXCEPT ![t] = label]

\* A thread's call returns: its locals are dead.
Return(t) ==
    /\ Goto(t, "idle")
    /\ cursor' = [cursor EXCEPT ![t] = 0]
    /\ seen' = [seen EXCEPT ![t] = 0]

ReturnPush(p) == Return(p) /\ datum' = [datum EXCEPT ![p] = NoDatum]

-----------------------------------------------------------------------------
(* xif_fifo_init leaves a mimo fifo with its cursors at zero.              *)

Init ==
    /\ policy = "mimo"
    /\ head = 0 /\ tail = 0 /\ write_cursor = 0 /\ read_cursor = 0
    /\ data = [s \in 0 .. Capacity - 1 |-> NoDatum]
    /\ pc = [t \in Threads |-> "idle"]
    /\ cursor = [t \in Threads |-> 0]
    /\ seen = [t \in Threads |-> 0]
    /\ datum = [t \in Threads |-> NoDatum]
    /\ pushes = 0

(* xif_fifo_reset.  It takes no lock: its caller sees to it that no call   *)
(* is in progress.                                                         *)
Reset ==
    /\ \A t \in Threads : pc[t] = "idle"
    /\ head' = 0 /\ tail' = 0 /\ write_cursor' = 0 /\ read_cursor' = 0
    /\ UNCHANGED <<policy, data, pc, cursor, seen, datum, pushes>>

(* xif_fifo_setmode, called as InitEventManager calls it: on a fifo that   *)
(* has carried nothing since it was initialised or reset.                  *)
SetMode(mode) ==
    /\ \A t \in Threads : pc[t] = "idle"
    /\ head = 0 /\ tail = 0 /\ write_cursor = 0 /\ read_cursor = 0
    /\ policy' = mode
    /\ UNCHANGED <<cursors, data, pc, cursor, seen, datum, pushes>>

-----------------------------------------------------------------------------
(* xif_fifo_push                                                           *)

\* A push call starts.  "Single-in" is a promise of the callers: one push at a time.
PushCall(p) ==
    /\ pc[p] = "idle"
    /\ pushes < MaxPush
    /\ MultiIn \/ \A q \in Producers : pc[q] = "idle"
    /\ Goto(p, "w_load")
    /\ pushes' = pushes + 1
    /\ datum' = [datum EXCEPT ![p] = pushes + 1]
    /\ UNCHANGED <<fifo, cursor, seen>>

LoadWriteCursor(p) ==
    /\ pc[p] = "w_load"
    /\ Goto(p, "w_cmp")
    /\ cursor' = [cursor EXCEPT ![p] = IF MultiIn THEN write_cursor ELSE tail]
    /\ UNCHANGED <<fifo, seen, datum, pushes>>

\* Is it full?  One of the operands of (write_cursor - head), in single
\* mode (tail - head), is loaded first.
FullLoad(p) ==
    /\ pc[p] = "w_cmp"
    /\ \/ /\ seen' = [seen EXCEPT ![p] = IF MultiIn THEN write_cursor ELSE tail]
          /\ Goto(p, "w_cmp_head")
       \/ /\ seen' = [seen EXCEPT ![p] = head]
          /\ Goto(p, "w_cmp_cursor")
    /\ UNCHANGED <<fifo, cursor, datum, pushes>>

\* Faulty: one slot too many.
FaultyFullSeenLate(p) ==
    \/ /\ pc[p] = "w_cmp_head"
       /\ Minus32(seen[p], head) = Capacity + 1
    \/ /\ pc[p] = "w_cmp_cursor"
       /\ Minus32(IF MultiIn THEN write_cursor ELSE tail, seen[p]) = Capacity + 1

\* Faulty: one slot is given away.
FaultyFullSeenEarly(p) ==
    \/ /\ pc[p] = "w_cmp_head"
       /\ Minus32(seen[p], head) = Capacity - 1
    \/ /\ pc[p] = "w_cmp_cursor"
       /\ Minus32(IF MultiIn THEN write_cursor ELSE tail, seen[p]) = Capacity - 1

\* What the comparison of p finds once its second operand is loaded.
FullSeen(p) ==
    \/ /\ pc[p] = "w_cmp_head"
       /\ Minus32(seen[p], head) = Capacity
    \/ /\ pc[p] = "w_cmp_cursor"
       /\ Minus32(IF MultiIn THEN write_cursor ELSE tail, seen[p]) = Capacity

PushFull(p) ==
    /\ FullSeen(p)
    /\ ReturnPush(p)
    /\ UNCHANGED <<fifo, pushes>>

PushNotFull(p) ==
    /\ pc[p] \in {"w_cmp_head", "w_cmp_cursor"}
    /\ ~FullSeen(p)
    /\ Goto(p, IF MultiIn THEN "w_cas" ELSE "w_copy")
    /\ seen' = [seen EXCEPT ![p] = 0]
    /\ UNCHANGED <<fifo, cursor, datum, pushes>>

\* Faulty: a store where the code has a compare-and-swap.
FaultyClaimWrite(p) ==
    /\ pc[p] = "w_cas"
    /\ write_cursor' = Next32(cursor[p])
    /\ Goto(p, "w_copy")
    /\ UNCHANGED <<policy, head, tail, read_cursor, data, cursor, seen, datum, pushes>>

\* CAS(&fifo->write_cursor, cursor, cursor + 1)
ClaimWrite(p) ==
    /\ pc[p] = "w_cas"
    /\ write_cursor = cursor[p]
    /\ write_cursor' = Next32(cursor[p])
    /\ Goto(p, "w_copy")
    /\ UNCHANGED <<policy, head, tail, read_cursor, data, cursor, seen, datum, pushes>>

RetryWrite(p) ==
    /\ pc[p] = "w_cas"
    /\ write_cursor # cursor[p]
    /\ Goto(p, "w_load")
    /\ UNCHANGED <<fifo, cursor, seen, datum, pushes>>

CopyIn(p) ==
    /\ pc[p] = "w_copy"
    /\ data' = [data EXCEPT ![Slot(cursor[p])] = datum[p]]
    /\ Goto(p, "w_release")
    /\ UNCHANGED <<policy, cursors, cursor, seen, datum, pushes>>

\* Faulty: pushes release in any order.
FaultyReleaseWriteAnyOrder(p) ==
    /\ pc[p] = "w_release"
    /\ tail' = Next32(tail)
    /\ ReturnPush(p)
    /\ UNCHANGED <<policy, head, write_cursor, read_cursor, data, pushes>>

\* Faulty: waits until tail has passed its own position.
FaultyReleaseWriteTooLate(p) ==
    /\ pc[p] = "w_release"
    /\ MultiIn => tail = Next32(cursor[p])
    /\ tail' = Next32(tail)
    /\ ReturnPush(p)
    /\ UNCHANGED <<policy, head, write_cursor, read_cursor, data, pushes>>

\* Hand the position over.  The multi policy spins on CAS(&fifo->tail, cursor,
\* cursor + 1); a failing round changes nothing.
ReleaseWrite(p) ==
    /\ pc[p] = "w_release"
    /\ MultiIn => tail = cursor[p]
    /\ tail' = Next32(tail)
    /\ ReturnPush(p)
    /\ UNCHANGED <<policy, head, write_cursor, read_cursor, data, pushes>>

-----------------------------------------------------------------------------
(* xif_fifo_pop                                                            *)

PopCall(c) ==
    /\ pc[c] = "idle"
    /\ MultiOut \/ \A d \in Consumers : pc[d] = "idle"
    /\ Goto(c, "r_load")
    /\ UNCHANGED <<fifo, cursor, seen, datum, pushes>>

LoadReadCursor(c) ==
    /\ pc[c] = "r_load"
    /\ Goto(c, "r_cmp")
    /\ cursor' = [cursor EXCEPT ![c] = IF MultiOut THEN read_cursor ELSE head]
    /\ UNCHANGED <<fifo, seen, datum, pushes>>

\* Is it empty?  The operands of (read_cursor == tail), in single mode
\* (head == tail), one after the other.
EmptyLoad(c) ==
    /\ pc[c] = "r_cmp"
    /\ \/ /\ seen' = [seen EXCEPT ![c] = IF MultiOut THEN read_cursor ELSE head]
          /\ Goto(c, "r_cmp_tail")
       \/ /\ seen' = [seen EXCEPT ![c] = tail]
          /\ Goto(c, "r_cmp_cursor")
    /\ UNCHANGED <<fifo, cursor, datum, pushes>>

\* Faulty: a single datum counts as empty.
FaultyEmptySeen(c) ==
    \/ pc[c] = "r_cmp_tail" /\ Minus32(tail, seen[c]) <= 1
    \/ pc[c] = "r_cmp_cursor" /\ Minus32(seen[c], IF MultiOut THEN read_cursor ELSE head) <= 1

\* Faulty: empty when the next position to claim is the last written.
FaultyEmptySeenHead(c) ==
    \/ pc[c] = "r_cmp_tail" /\ Next32(seen[c]) = tail
    \/ pc[c] = "r_cmp_cursor" /\ Next32(IF MultiOut THEN read_cursor ELSE head) = seen[c]

EmptySeen(c) ==
    \/ pc[c] = "r_cmp_tail" /\ seen[c] = tail
    \/ pc[c] = "r_cmp_cursor" /\ (IF MultiOut THEN read_cursor ELSE head) = seen[c]

PopEmpty(c) ==
    /\ EmptySeen(c)
    /\ Return(c)
    /\ UNCHANGED <<fifo, datum, pushes>>

PopNotEmpty(c) ==
    /\ pc[c] \in {"r_cmp_tail", "r_cmp_cursor"}
    /\ ~EmptySeen(c)
    /\ Goto(c, IF MultiOut THEN "r_cas" ELSE "r_copy")
    /\ seen' = [seen EXCEPT ![c] = 0]
    /\ UNCHANGED <<fifo, cursor, datum, pushes>>

\* Faulty: a store where the code has a compare-and-swap.
FaultyClaimRead(c) ==
    /\ pc[c] = "r_cas"
    /\ read_cursor' = Next32(cursor[c])
    /\ Goto(c, "r_copy")
    /\ UNCHANGED <<policy, head, tail, write_cursor, data, cursor, seen, datum, pushes>>

\* CAS(&fifo->read_cursor, cursor, cursor + 1)
ClaimRead(c) ==
    /\ pc[c] = "r_cas"
    /\ read_cursor = cursor[c]
    /\ read_cursor' = Next32(cursor[c])
    /\ Goto(c, "r_copy")
    /\ UNCHANGED <<policy, head, tail, write_cursor, data, cursor, seen, datum, pushes>>

RetryRead(c) ==
    /\ pc[c] = "r_cas"
    /\ read_cursor # cursor[c]
    /\ Goto(c, "r_load")
    /\ UNCHANGED <<fifo, cursor, seen, datum, pushes>>

CopyOut(c) ==
    /\ pc[c] = "r_copy"
    /\ datum' = [datum EXCEPT ![c] = data[Slot(cursor[c])]]
    /\ Goto(c, "r_release")
    /\ UNCHANGED <<fifo, cursor, seen, pushes>>

\* Faulty: waits until head has passed its own position.
FaultyReleaseRead(c) ==
    /\ pc[c] = "r_release"
    /\ MultiOut => head = Next32(cursor[c])
    /\ head' = Next32(head)
    /\ Return(c)
    /\ UNCHANGED <<policy, tail, write_cursor, read_cursor, data, datum, pushes>>

\* CAS(&fifo->head, cursor, cursor + 1), or head++ in single mode.
ReleaseRead(c) ==
    /\ pc[c] = "r_release"
    /\ MultiOut => head = cursor[c]
    /\ head' = Next32(head)
    /\ Return(c)
    /\ UNCHANGED <<policy, tail, write_cursor, read_cursor, data, datum, pushes>>

-----------------------------------------------------------------------------
PushStep(p) ==
    \/ LoadWriteCursor(p) \/ FullLoad(p) \/ PushFull(p) \/ PushNotFull(p)
    \/ ClaimWrite(p) \/ RetryWrite(p) \/ CopyIn(p) \/ ReleaseWrite(p)

PopStep(c) ==
    \/ LoadReadCursor(c) \/ EmptyLoad(c) \/ PopEmpty(c) \/ PopNotEmpty(c)
    \/ ClaimRead(c) \/ RetryRead(c) \/ CopyOut(c) \/ ReleaseRead(c)

Next ==
    \/ \E p \in Producers : PushCall(p) \/ PushStep(p)
    \/ \E c \in Consumers : PopCall(c) \/ PopStep(c)
    \/ Reset
    \/ \E mode \in Policies : SetMode(mode)

Spec == Init /\ [][Next]_vars

(***************************************************************************)
(* A running thread gets processor time; the consumer loops over           *)
(* xif_fifo_pop for ever (loop_ManageEvent).  Nobody has to push.          *)
(***************************************************************************)
Fairness ==
    /\ \A p \in Producers : WF_vars(PushStep(p))
    /\ \A c \in Consumers : WF_vars(PopCall(c) \/ PopStep(c))

FairSpec == Spec /\ Fairness
-----------------------------------------------------------------------------
(* Properties                                                              *)

\* Where the next pop takes its datum, and the end of what pushes have claimed.
ReadPos == IF MultiOut THEN read_cursor ELSE head
WritePos == IF MultiIn THEN write_cursor ELSE tail

PcOK ==
    /\ pc \in [Threads -> PushPC \cup PopPC \cup {"idle"}]
    /\ \A p \in Producers : pc[p] \in PushPC \cup {"idle"}
    /\ \A c \in Consumers : pc[c] \in PopPC \cup {"idle"}

(* Every cursor is a 32-bit word, every slot holds a datum or nothing, and *)
(* each thread is inside the function it is meant to call.                 *)
TypeOK ==
    /\ policy \in Policies
    /\ head \in 0 .. Word - 1 /\ tail \in 0 .. Word - 1
    /\ write_cursor \in 0 .. Word - 1 /\ read_cursor \in 0 .. Word - 1
    /\ data \in [0 .. Capacity - 1 -> Datums \cup {NoDatum}]
    /\ PcOK
    /\ cursor \in [Threads -> 0 .. Word - 1]
    /\ seen \in [Threads -> 0 .. Word - 1]
    /\ datum \in [Threads -> Datums \cup {NoDatum}]
    /\ pushes \in 0 .. MaxPush

(* The cursors keep their order round the ring, and pushes never claim     *)
(* more than Capacity positions beyond head, however the calls of all      *)
(* threads interleave between reading a cursor and moving it.              *)
CursorOrder ==
    /\ Minus32(ReadPos, head) <= Minus32(tail, head)
    /\ Minus32(tail, head) <= Minus32(WritePos, head)
    /\ Minus32(WritePos, head) <= Capacity

(* Two calls that are copying a datum in or out never use the same slot:   *)
(* no memcpy of xif_fifo_push or xif_fifo_pop races with another, and no   *)
(* datum is delivered to two pops or written by two pushes.                *)
ExclusiveSlots ==
    \A s, t \in Writing \cup Reading : s # t => Slot(cursor[s]) # Slot(cursor[t])

(* "reading finished, the data is free-used": until a pop has released its *)
(* position, no push overwrites the slot.                                  *)
NoOverwrite ==
    [][\A k \in 0 .. Minus32(tail, head) - 1 :
          LET s == Slot((head + k) % Word) IN data'[s] = data[s]]_vars

(* When the left operand was loaded first, a pop that returns false did so *)
(* while nothing was ready to be popped.  (Loaded in the other order the   *)
(* comparison can find equal values of two different moments.)             *)
EmptyIsGenuine ==
    [][\A c \in Consumers :
          pc[c] = "r_cmp_tail" /\ pc'[c] = "idle" => ReadPos = tail]_vars

(* When the left operand was loaded first, a push that returns false did   *)
(* so while every slot was claimed.                                        *)
FullIsGenuine ==
    [][\A p \in Producers :
          pc[p] = "w_cmp_head" /\ pc'[p] = "idle" =>
              Minus32(WritePos, head) = Capacity]_vars

-----------------------------------------------------------------------------
(* The abstract queue.  A push takes effect when it moves tail.  A pop of  *)
(* the multi policy takes effect when it claims its position, one of the   *)
(* single policy when it has copied the datum.                             *)

TakenPos ==
    IF ~MultiOut /\ \E c \in Consumers : pc[c] = "r_release" THEN Next32(head) ELSE ReadPos

Queue ==
    [i \in 1 .. Minus32(tail, TakenPos) |-> data[Slot((TakenPos + i - 1) % Word)]]

Abstract == INSTANCE BoundedFifo WITH
    Data <- Datums,
    queue <- Queue,
    offered <- [p \in Producers |-> datum[p]],
    got <- [c \in Consumers |->
               IF MultiOut /\ pc[c] = "r_copy" THEN data[Slot(cursor[c])] ELSE datum[c]]

(* The ring is a FIFO queue: every datum whose push returns true is popped *)
(* at most once, in the order in which pushes became visible.              *)
IsFifo == Abstract!Spec

(* A push that claimed a position hands it over, even though it has to     *)
(* wait for every push that claimed one before it.                         *)
PushHandsOver == \A p \in Producers : pc[p] = "w_copy" ~> pc[p] = "idle"

(* A pop that claimed a position frees it, though it waits for every pop   *)
(* that claimed one before it.                                             *)
PopHandsOver == \A c \in Consumers : pc[c] = "r_copy" ~> pc[c] = "idle"

(* No datum stays in the ring for ever while a consumer loops.             *)
Drained ==
    \A d \in Datums :
        (\E i \in DOMAIN Queue : Queue[i] = d) ~> (\A i \in DOMAIN Queue : Queue[i] # d)
=============================================================================
