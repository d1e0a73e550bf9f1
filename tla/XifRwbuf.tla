------------------------------ MODULE XifRwbuf ------------------------------
(***************************************************************************)
(* The lock-free byte ring of utils/fifo/xif_safe_rwbuf.c: writes and      *)
(* reads of pieces of any size, by any number of threads.                  *)
(*                                                                         *)
(* The four cursors are those of the FIFO (XifFifo), but count bytes.      *)
(* xif_rwbuf_write and xif_rwbuf_read go through the same stations - load  *)
(* the cursor, test whether the piece fits, claim, copy, hand over - so    *)
(* one action describes a station for both sides.  The test makes one      *)
(* load of a field the other side moves; the cursor it uses is the local   *)
(* copy.  Each load, compare-and-swap and memcpy is a step; memory is      *)
(* sequentially consistent.                                                *)
(*                                                                         *)
(* The memcpys are not split at the end of the buffer.  The model follows  *)
(* only bytes inside it: of a piece that runs past the end, a write loses  *)
(* the rest, and a read gets NoByte for it.                                *)
(***************************************************************************)
EXTENDS Integers, Sequences

CONSTANTS
    Writers,    \* threads that call xif_rwbuf_write
    Readers,    \* threads that call xif_rwbuf_read
    Capacity,   \* rwbuf->capacity, in bytes
    Word,       \* number of values of a uint32_t cursor
    Sizes,      \* the lengths the calls may have
    MaxBytes,   \* bound: bytes given to write calls in a behaviour
    NoByte      \* not a byte that was written

(* A call with length 0 is left out: after a longer write has claimed the  *)
(* same position and moved on, it would wait for ever in                   *)
(* xif_mi_release_write_cursor.                                            *)
ASSUME Params ==
    /\ Capacity \in Nat \ {0}
    /\ Word \in Nat
    /\ Sizes \subseteq Nat \ {0}
    /\ \A n \in Sizes : n < Word
    /\ Capacity < Word
    /\ MaxBytes \in Nat
    /\ MaxBytes + Capacity < Word
    /\ NoByte \notin 1 .. MaxBytes
    /\ Writers \cap Readers = {}

VARIABLES
    policy,     \* the operations in use and the access mode
    head, tail, write_cursor, read_cursor,
    data,       \* the bytes of the buffer
    pc,         \* where each thread is in its write or read
    cursor,     \* local: the position a thread works on
    size,       \* argument len
    ub,         \* argument ub: the bytes to write, or read
    given,      \* number of bytes given to write calls, names the bytes
    written     \* history: written[k] is the byte that reached the buffer for
                \* position k, NoByte when it went past the end or nowhere

cursors == <<head, tail, write_cursor, read_cursor>>
rwbuf == <<policy, cursors, data>>
vars == <<rwbuf, pc, cursor, size, ub, given, written>>

-----------------------------------------------------------------------------
Threads == Writers \cup Readers
Bytes == 1 .. MaxBytes

Policies == {"mimo", "miso", "simo", "siso"}
MultiIn == policy \in {"mimo", "miso"}
MultiOut == policy \in {"mimo", "simo"}
Multi(t) == IF t \in Writers THEN MultiIn ELSE MultiOut

\* Where the next write or read begins.
WritePos == IF MultiIn THEN write_cursor ELSE tail
ReadPos == IF MultiOut THEN read_cursor ELSE head
Pos(t) == IF t \in Writers THEN WritePos ELSE ReadPos

\* (Definitions named Faulty... are what a plausible mistake would make of the
\* definition that follows them; no specification uses them.)

\* uint32_t arithmetic
Plus32(a, n) == (a + n) % Word
Minus32(a, b) == (a - b) % Word

\* xif_rwbuf_get_datum, without FIFO_POW_ALIGN
Slot(c) == c % Capacity

\* The i-th byte of a piece at position c lies in the buffer.
Inside(c, i) == Slot(c) + i <= Capacity

Goto(t, label) == pc' = [pc EXCEPT ![t] = label]

Return(t) ==
    /\ Goto(t, "idle")
    /\ cursor' = [cursor EXCEPT ![t] = 0]
    /\ size' = [size EXCEPT ![t] = 0]
    /\ ub' = [ub EXCEPT ![t] = <<>>]

-----------------------------------------------------------------------------
(* xif_rwbuf_init leaves no policy: xif_rwbuf_setmode has to be called     *)
(* before the first write or read.                                         *)

Init ==
    /\ policy = "none"
    /\ head = 0 /\ tail = 0 /\ write_cursor = 0 /\ read_cursor = 0
    /\ data = [s \in 0 .. Capacity - 1 |-> NoByte]
    /\ pc = [t \in Threads |-> "idle"]
    /\ cursor = [t \in Threads |-> 0]
    /\ size = [t \in Threads |-> 0]
    /\ ub = [t \in Threads |-> <<>>]
    /\ given = 0
    /\ written = [k \in 0 .. MaxBytes - 1 |-> NoByte]

(* xif_rwbuf_reset, while no call is in progress.                          *)
Reset ==
    /\ \A t \in Threads : pc[t] = "idle"
    /\ head' = 0 /\ tail' = 0 /\ write_cursor' = 0 /\ read_cursor' = 0
    /\ written' = [k \in 0 .. MaxBytes - 1 |-> NoByte]
    /\ UNCHANGED <<policy, data, pc, cursor, size, ub, given>>

(* xif_rwbuf_setmode, on a buffer that has carried nothing.                *)
SetMode(mode) ==
    /\ \A t \in Threads : pc[t] = "idle"
    /\ head = 0 /\ tail = 0 /\ write_cursor = 0 /\ read_cursor = 0
    /\ policy' = mode
    /\ UNCHANGED <<cursors, data, pc, cursor, size, ub, given, written>>

-----------------------------------------------------------------------------
(* xif_rwbuf_write and xif_rwbuf_read                                      *)

\* A single side is used by one thread at a time.
Admitted(t) ==
    /\ policy # "none"
    /\ pc[t] = "idle"
    /\ Multi(t) \/ \A u \in Threads : pc[u] # "idle" => (u \in Writers) # (t \in Writers)

WriteCall(w, n) ==
    /\ Admitted(w)
    /\ given + n <= MaxBytes
    /\ given' = given + n
    /\ size' = [size EXCEPT ![w] = n]
    /\ ub' = [ub EXCEPT ![w] = [i \in 1 .. n |-> given + i]]
    /\ Goto(w, "load")
    /\ UNCHANGED <<rwbuf, cursor, written>>

ReadCall(r, n) ==
    /\ Admitted(r)
    /\ size' = [size EXCEPT ![r] = n]
    /\ Goto(r, "load")
    /\ UNCHANGED <<rwbuf, cursor, ub, given, written>>

LoadCursor(t) ==
    /\ pc[t] = "load"
    /\ cursor' = [cursor EXCEPT ![t] = Pos(t)]
    /\ Goto(t, "test")
    /\ UNCHANGED <<rwbuf, size, ub, given, written>>

\* Faulty: the bytes being read count as free.
FaultyRoom(t, c) ==
    IF t \in Writers THEN Minus32(Capacity, Minus32(c, ReadPos)) ELSE Minus32(tail, c)

\* remains, for a write; len, for a read.
Room(t, c) ==
    IF t \in Writers THEN Minus32(Capacity, Minus32(c, head)) ELSE Minus32(tail, c)

\* Faulty: a piece that would just fit is refused.
FaultyTooLong(t) == size[t] >= Room(t, cursor[t])

TooLong(t) == size[t] > Room(t, cursor[t])

Refused(t) ==
    /\ pc[t] = "test"
    /\ TooLong(t)
    /\ Return(t)
    /\ UNCHANGED <<rwbuf, given, written>>

Fits(t) ==
    /\ pc[t] = "test"
    /\ ~TooLong(t)
    /\ Goto(t, IF Multi(t) THEN "cas" ELSE "copy")
    /\ UNCHANGED <<rwbuf, cursor, size, ub, given, written>>

\* Faulty: a store where the code has a compare-and-swap.
FaultyClaim(t) ==
    /\ pc[t] = "cas"
    /\ IF t \in Writers
       THEN /\ write_cursor' = Plus32(cursor[t], size[t])
            /\ UNCHANGED read_cursor
       ELSE /\ read_cursor' = Plus32(cursor[t], size[t])
            /\ UNCHANGED write_cursor
    /\ Goto(t, "copy")
    /\ UNCHANGED <<policy, head, tail, data, cursor, size, ub, given, written>>

\* CAS(&write_cursor, cursor, cursor + size), and the same on read_cursor.
Claim(t) ==
    /\ pc[t] = "cas"
    /\ Pos(t) = cursor[t]
    /\ IF t \in Writers
       THEN /\ write_cursor' = Plus32(cursor[t], size[t])
            /\ UNCHANGED read_cursor
       ELSE /\ read_cursor' = Plus32(cursor[t], size[t])
            /\ UNCHANGED write_cursor
    /\ Goto(t, "copy")
    /\ UNCHANGED <<policy, head, tail, data, cursor, size, ub, given, written>>

\* Faulty: the new cursor is claimed without a new test.
FaultyRetry(t) ==
    /\ pc[t] = "cas"
    /\ Pos(t) # cursor[t]
    /\ cursor' = [cursor EXCEPT ![t] = Pos(t)]
    /\ UNCHANGED <<rwbuf, pc, size, ub, given, written>>

Retry(t) ==
    /\ pc[t] = "cas"
    /\ Pos(t) # cursor[t]
    /\ Goto(t, "load")
    /\ UNCHANGED <<rwbuf, cursor, size, ub, given, written>>

CopyIn(w) ==
    /\ w \in Writers
    /\ pc[w] = "copy"
    /\ LET At(k) == k - cursor[w] + 1   \* which byte of the piece goes to position k
           Piece == cursor[w] .. cursor[w] + size[w] - 1
       IN /\ data' = [s \in DOMAIN data |->
                         LET i == s - Slot(cursor[w]) + 1
                         IN IF i \in 1 .. size[w] THEN ub[w][i] ELSE data[s]]
          /\ written' = [k \in DOMAIN written |->
                            IF k \in Piece
                            THEN IF Inside(cursor[w], At(k)) THEN ub[w][At(k)] ELSE NoByte
                            ELSE written[k]]
    /\ Goto(w, "release")
    /\ UNCHANGED <<policy, cursors, cursor, size, ub, given>>

CopyOut(r) ==
    /\ r \in Readers
    /\ pc[r] = "copy"
    /\ ub' = [ub EXCEPT ![r] =
                 [i \in 1 .. size[r] |->
                     IF Inside(cursor[r], i) THEN data[Slot(cursor[r]) + i - 1] ELSE NoByte]]
    /\ Goto(r, "release")
    /\ UNCHANGED <<rwbuf, cursor, size, given, written>>

\* Faulty: pieces are handed over in the order in which the copies end.
FaultyRelease(t) ==
    /\ pc[t] = "release"
    /\ IF t \in Writers
       THEN tail' = Plus32(tail, size[t]) /\ UNCHANGED head
       ELSE head' = Plus32(head, size[t]) /\ UNCHANGED tail
    /\ Return(t)
    /\ UNCHANGED <<policy, write_cursor, read_cursor, data, given, written>>

\* Faulty: a write waits for the position after its own.
FaultyReleaseLate(t) ==
    /\ pc[t] = "release"
    /\ Multi(t) => IF t \in Writers THEN tail = Plus32(cursor[t], size[t]) ELSE head = cursor[t]
    /\ IF t \in Writers
       THEN tail' = Plus32(tail, size[t]) /\ UNCHANGED head
       ELSE head' = Plus32(head, size[t]) /\ UNCHANGED tail
    /\ Return(t)
    /\ UNCHANGED <<policy, write_cursor, read_cursor, data, given, written>>

\* The multi policy spins on CAS(&tail, cursor, cursor + size), or on head;
\* a failing round changes nothing.
Release(t) ==
    /\ pc[t] = "release"
    /\ Multi(t) => (IF t \in Writers THEN tail ELSE head) = cursor[t]
    /\ IF t \in Writers
       THEN tail' = Plus32(tail, size[t]) /\ UNCHANGED head
       ELSE head' = Plus32(head, size[t]) /\ UNCHANGED tail
    /\ Return(t)
    /\ UNCHANGED <<policy, write_cursor, read_cursor, data, given, written>>

-----------------------------------------------------------------------------
Step(t) ==
    \/ LoadCursor(t) \/ Refused(t) \/ Fits(t) \/ Claim(t) \/ Retry(t)
    \/ CopyIn(t) \/ CopyOut(t) \/ Release(t)

Next ==
    \/ \E w \in Writers, n \in Sizes : WriteCall(w, n)
    \/ \E r \in Readers, n \in Sizes : ReadCall(r, n)
    \/ \E t \in Threads : Step(t)
    \/ Reset
    \/ \E mode \in Policies : SetMode(mode)

Spec == Init /\ [][Next]_vars

(* A thread inside a call gets processor time.  Nobody has to call.        *)
FairSpec == Spec /\ \A t \in Threads : WF_vars(Step(t))

-----------------------------------------------------------------------------
(* Properties                                                              *)

Copying == {t \in Threads : pc[t] \in {"copy", "release"}}

\* The addresses in the buffer that the memcpy of t uses.
Span(t) == {s \in 0 .. Capacity - 1 : s - Slot(cursor[t]) \in 0 .. size[t] - 1}

(* Cursors are words; a piece is as long as its call asked for.            *)
TypeOK ==
    /\ policy \in Policies \cup {"none"}
    /\ \A c \in {head, tail, write_cursor, read_cursor} : c \in 0 .. Word - 1
    /\ data \in [0 .. Capacity - 1 -> Bytes \cup {NoByte}]
    /\ pc \in [Threads -> {"idle", "load", "test", "cas", "copy", "release"}]
    /\ cursor \in [Threads -> 0 .. Word - 1]
    /\ size \in [Threads -> Sizes \cup {0}]
    /\ \A t \in Threads : pc[t] # "idle" => size[t] \in Sizes
    /\ DOMAIN ub = Threads
    /\ \A w \in Writers : ub[w] \in [1 .. size[w] -> Bytes]
    /\ \A r \in Readers : pc[r] = "release" => ub[r] \in [1 .. size[r] -> Bytes \cup {NoByte}]
    /\ given \in 0 .. MaxBytes
    /\ written \in [0 .. MaxBytes - 1 -> Bytes \cup {NoByte}]

(* Claims of different sizes, interrupted anywhere between the load of a   *)
(* cursor and its compare-and-swap, never take more than the buffer holds  *)
(* or read more than was handed over.                                      *)
CursorOrder ==
    /\ Minus32(ReadPos, head) <= Minus32(tail, head)
    /\ Minus32(tail, head) <= Minus32(WritePos, head)
    /\ Minus32(WritePos, head) <= Capacity

(* No two memcpys in progress touch the same byte of the buffer, whatever  *)
(* the sizes and even when one of them runs past the end.                  *)
ExclusiveBytes ==
    \A t, u \in Copying : t # u => Span(t) \cap Span(u) = {}

(* What a read hands to its caller is what was written at those positions  *)
(* of the stream: of a piece that was published while the writes before it *)
(* were still copying, or whose bytes were overwritten under the reader's  *)
(* memcpy, this would fail.  Only bytes past the end of the buffer differ. *)
ReadsBack ==
    \A r \in Readers : pc[r] = "release" =>
        \A i \in 1 .. size[r] :
            LET k == cursor[r] + i - 1
            IN Inside(cursor[r], i) /\ written[k] # NoByte => ub[r][i] = written[k]

(* A write or a read that returns 0 did not fit at the moment of its test, *)
(* although its cursor may be an old one by then.                          *)
RefusedGenuinely ==
    [][\A t \in Threads :
          pc[t] = "test" /\ pc'[t] = "idle" => size[t] > Room(t, Pos(t))]_vars

(* A call that has claimed its bytes hands them over: the spinning release *)
(* ends although it waits for every earlier claim.                         *)
HandsOver == \A t \in Threads : pc[t] = "copy" ~> pc[t] = "idle"
=============================================================================
