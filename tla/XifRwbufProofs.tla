-------------------------- MODULE XifRwbufProofs --------------------------
(* Proofs about XifRwbuf, for any threads, sizes and capacity.             *)
EXTENDS XifRwbufInv, Lemmas

-----------------------------------------------------------------------------
(* Arithmetic of the ring                                                  *)

LEMMA ParamFacts ==
    /\ Capacity \in Nat /\ Capacity > 0
    /\ Word \in Nat /\ MaxBytes \in Nat /\ MaxBytes + Capacity < Word
    /\ \A n \in Sizes : n \in Nat /\ n > 0 /\ n < Word
    /\ NoByte \notin Bytes
  BY Params, SMT DEF Params, Bytes

LEMMA SlotRange ==
    ASSUME NEW c \in Nat
    PROVE  Slot(c) \in 0 .. Capacity - 1
  BY ParamFacts, SMT DEF Slot

(* Positions less than a ring-full apart have different addresses.         *)
LEMMA SlotsDiffer ==
    ASSUME NEW a \in Nat, NEW b \in Nat, a < b, b < a + Capacity
    PROVE  Slot(a) # Slot(b)
  BY ParamFacts, ResiduesDiffer DEF Slot

(* As long as a piece is inside the buffer, its bytes have the addresses   *)
(* that one memcpy gives them.                                             *)
LEMMA SlotOfByte ==
    ASSUME NEW c \in Nat, NEW i \in Nat, Slot(c) + i < Capacity
    PROVE  Slot(c + i) = Slot(c) + i
  BY ParamFacts, ResidueStep DEF Slot

LEMMA Plus32Range ==
    ASSUME NEW a \in Nat, NEW n \in Nat
    PROVE  Plus32(a, n) \in 0 .. Word - 1
  BY ParamFacts, SMT DEF Plus32

LEMMA PlainPlus ==
    ASSUME NEW a \in Nat, NEW n \in Nat, a + n <= MaxBytes
    PROVE  Plus32(a, n) = a + n
<1>1. a + n \in Nat /\ a + n < Word /\ Word \in Nat
  BY ParamFacts, SMT
<1> QED BY <1>1, SmallMod DEF Plus32

LEMMA PlainMinus ==
    ASSUME NEW a \in Nat, NEW b \in Nat, b <= a, a < Word
    PROVE  Minus32(a, b) = a - b
<1>1. a - b \in Nat /\ a - b < Word /\ Word \in Nat
  BY ParamFacts, SMT
<1> QED BY <1>1, SmallMod DEF Minus32

LEMMA WrappedMinus ==
    ASSUME NEW a \in Nat, NEW b \in Nat, a < b, b < Word
    PROVE  Minus32(a, b) = a - b + Word
<1>1. a - b \in Int /\ 0 - Word < a - b /\ a - b < 0 /\ Word \in Nat
  BY ParamFacts, SMT
<1> QED BY <1>1, NegativeMod DEF Minus32

-----------------------------------------------------------------------------
(* Type correctness                                                        *)

Stations == {"idle", "load", "test", "cas", "copy", "release"}

LEMMA TypeInit == Init => TypeOK
<1> SUFFICES ASSUME Init PROVE TypeOK
  OBVIOUS
<1>1. \A w \in Writers : w \in Threads /\ ub[w] = <<>> /\ size[w] = 0
  BY DEF Init, Threads
<1>0. <<>> \in [1 .. 0 -> Bytes]
  BY SMT
<1>2. \A w \in Writers : ub[w] \in [1 .. size[w] -> Bytes]
  BY <1>0, <1>1
<1> QED BY <1>2, ParamFacts, SMT DEF Init, TypeOK, Policies, Threads

\* A writer's bytes and a reader's bytes, as typed by TypeOK.
UbOK ==
    /\ DOMAIN ub = Threads
    /\ \A w \in Writers : ub[w] \in [1 .. size[w] -> Bytes]
    /\ \A r \in Readers : pc[r] = "release" => ub[r] \in [1 .. size[r] -> Bytes \cup {NoByte}]

\* The labels, locals and lengths, as typed by TypeOK.
ThreadOK ==
    /\ pc \in [Threads -> Stations]
    /\ cursor \in [Threads -> 0 .. Word - 1]
    /\ size \in [Threads -> Sizes \cup {0}]
    /\ \A t \in Threads : pc[t] # "idle" => size[t] \in Sizes

\* The shared fields and the history, as typed by TypeOK.
SharedOK ==
    /\ policy \in Policies \cup {"none"}
    /\ head \in 0 .. Word - 1 /\ tail \in 0 .. Word - 1
    /\ write_cursor \in 0 .. Word - 1 /\ read_cursor \in 0 .. Word - 1
    /\ data \in [0 .. Capacity - 1 -> Bytes \cup {NoByte}]
    /\ given \in 0 .. MaxBytes
    /\ written \in [0 .. MaxBytes - 1 -> Bytes \cup {NoByte}]

LEMMA TypeParts == TypeOK <=> UbOK /\ ThreadOK /\ SharedOK
  BY DEF TypeOK, UbOK, ThreadOK, SharedOK, Stations

LEMMA TypePrimed == UbOK' /\ ThreadOK' /\ SharedOK' => TypeOK'
  BY DEF TypeOK, UbOK, ThreadOK, SharedOK, Stations

LEMMA ReturnTypes ==
    ASSUME TypeOK, NEW t \in Threads, Return(t)
    PROVE  ThreadOK' /\ UbOK'
<1> USE TypeParts
<1>1. ThreadOK'
  BY ParamFacts, SMT DEF ThreadOK, Return, Goto, Stations
<1>2. /\ ub'[t] = <<>> /\ size'[t] = 0 /\ pc'[t] = "idle"
      /\ \A u \in Threads \ {t} : ub'[u] = ub[u] /\ size'[u] = size[u] /\ pc'[u] = pc[u]
      /\ DOMAIN ub' = Threads
  BY DEF Return, Goto, UbOK, ThreadOK
<1>3. <<>> \in [1 .. 0 -> Bytes]
  BY SMT
<1>4. UbOK'
  BY <1>2, <1>3 DEF UbOK, Threads
<1> QED BY <1>1, <1>4

LEMMA TypeStepOf ==
    ASSUME TypeOK, NEW t \in Threads, Step(t)
    PROVE  TypeOK'
<1> USE TypeParts, TypePrimed, ParamFacts
<1>1. CASE LoadCursor(t)
  <2>1. Pos(t) \in 0 .. Word - 1
    BY SMT DEF Pos, WritePos, ReadPos, SharedOK
  <2> QED BY <1>1, <2>1, SMT DEF LoadCursor, Goto, rwbuf, cursors, UbOK, ThreadOK, SharedOK, Stations, Threads
<1>2. CASE Refused(t)
  <2>1. SharedOK'
    BY <1>2, SMT DEF Refused, rwbuf, cursors, SharedOK
  <2>2. ThreadOK' /\ UbOK'
    BY <1>2, ReturnTypes DEF Refused
  <2> QED BY <2>1, <2>2
<1>3. CASE Fits(t)
  BY <1>3, SMT DEF Fits, Goto, rwbuf, cursors, UbOK, ThreadOK, SharedOK, Stations, Threads
<1>4. CASE Claim(t)
  <2>1. Plus32(cursor[t], size[t]) \in 0 .. Word - 1
    BY SMT DEF Plus32, ThreadOK
  <2> QED BY <1>4, <2>1, SMT DEF Claim, Goto, rwbuf, cursors, UbOK, ThreadOK, SharedOK, Stations, Threads
<1>5. CASE Retry(t)
  BY <1>5, SMT DEF Retry, Goto, rwbuf, cursors, UbOK, ThreadOK, SharedOK, Stations, Threads
<1>6. CASE CopyIn(t)
  <2>1. t \in Writers /\ pc[t] = "copy"
    BY <1>6 DEF CopyIn
  <2>2. size[t] \in Nat /\ ub[t] \in [1 .. size[t] -> Bytes] /\ cursor[t] \in Nat
    BY <2>1, SMT DEF UbOK, ThreadOK
  <2>3. data' \in [0 .. Capacity - 1 -> Bytes \cup {NoByte}]
    BY <1>6, <2>2, SMT DEF CopyIn, SharedOK
  <2>4. written' \in [0 .. MaxBytes - 1 -> Bytes \cup {NoByte}]
    <3>1. ASSUME NEW k \in 0 .. MaxBytes - 1 PROVE written'[k] \in Bytes \cup {NoByte}
      <4>1. CASE k \in cursor[t] .. cursor[t] + size[t] - 1
        <5>1. k - cursor[t] + 1 \in 1 .. size[t]
          BY <2>2, <4>1, SMT
        <5>2. ub[t][k - cursor[t] + 1] \in Bytes
          BY <2>2, <5>1
        <5> QED BY <1>6, <4>1, <5>2, Zenon DEF CopyIn, SharedOK
      <4>2. CASE k \notin cursor[t] .. cursor[t] + size[t] - 1
        BY <1>6, <4>2, SMT DEF CopyIn, SharedOK
      <4> QED BY <4>1, <4>2
    <3>2. /\ DOMAIN written = 0 .. MaxBytes - 1
          /\ written' = [k \in DOMAIN written |-> written'[k]]
      BY <1>6, Zenon DEF CopyIn, SharedOK
    <3> QED BY <3>1, <3>2
  <2>5. ThreadOK' /\ UbOK'
    BY <1>6, <2>1, SMT DEF CopyIn, Goto, UbOK, ThreadOK, Stations, Threads, Params, cursors
  <2> QED BY <1>6, <2>3, <2>4, <2>5 DEF CopyIn, SharedOK, cursors
<1>7. CASE CopyOut(t)
  <2>1. t \in Readers /\ pc[t] = "copy" /\ t \notin Writers
    BY <1>7, Params DEF CopyOut, Params
  <2>2. size[t] \in Nat /\ cursor[t] \in Nat
    BY <2>1, SMT DEF ThreadOK
  <2>3. ASSUME NEW i \in 1 .. size[t]
        PROVE  (IF Inside(cursor[t], i) THEN data[Slot(cursor[t]) + i - 1] ELSE NoByte)
                   \in Bytes \cup {NoByte}
    <3>1. CASE Inside(cursor[t], i)
      <4>1. Slot(cursor[t]) + i - 1 \in 0 .. Capacity - 1
        BY <2>2, <3>1, SlotRange, SMT DEF Inside
      <4>2. data[Slot(cursor[t]) + i - 1] \in Bytes \cup {NoByte}
        BY <4>1 DEF SharedOK
      <4> QED BY <3>1, <4>2, Zenon
    <3> QED BY <3>1, Zenon
  <2>4. ub'[t] = [i \in 1 .. size[t] |->
                     IF Inside(cursor[t], i) THEN data[Slot(cursor[t]) + i - 1] ELSE NoByte]
    BY <1>7, Zenon DEF CopyOut, UbOK
  <2>5. ub'[t] \in [1 .. size[t] -> Bytes \cup {NoByte}]
    BY <2>3, <2>4, Zenon
  <2>6. /\ DOMAIN ub' = Threads
        /\ \A u \in Threads \ {t} : ub'[u] = ub[u] /\ pc'[u] = pc[u]
        /\ size' = size
    BY <1>7, Zenon DEF CopyOut, Goto, UbOK, ThreadOK
  <2>7. UbOK'
    BY <2>1, <2>5, <2>6, Zenon DEF UbOK, Threads
  <2>8. ThreadOK' /\ SharedOK'
    BY <1>7, SMT DEF CopyOut, Goto, ThreadOK, SharedOK, Stations, rwbuf, cursors
  <2> QED BY <2>7, <2>8
<1>8. CASE Release(t)
  <2>0. tail \in Nat /\ head \in Nat /\ size[t] \in Nat
    BY SMT DEF ThreadOK, SharedOK
  <2>1. Plus32(tail, size[t]) \in 0 .. Word - 1 /\ Plus32(head, size[t]) \in 0 .. Word - 1
    BY <2>0, Plus32Range
  <2>2. SharedOK'
    BY <1>8, <2>1, SMT DEF Release, SharedOK
  <2>3. ThreadOK' /\ UbOK'
    BY <1>8, ReturnTypes DEF Release
  <2> QED BY <2>2, <2>3
<1> QED
  BY <1>1, <1>2, <1>3, <1>4, <1>5, <1>6, <1>7, <1>8 DEF Step
LEMMA TypeStepCall ==
    ASSUME TypeOK, NEW t \in Threads, NEW n \in Sizes,
           (t \in Writers /\ WriteCall(t, n)) \/ (t \in Readers /\ ReadCall(t, n))
    PROVE  TypeOK'
<1> USE TypeParts, TypePrimed, ParamFacts
<1>1. CASE t \in Writers /\ WriteCall(t, n)
  <2>1. \A i \in 1 .. n : given + i \in Bytes
    <3>1. given + n <= MaxBytes
      BY <1>1 DEF WriteCall
    <3>2. given \in Nat /\ n \in Nat /\ MaxBytes \in Nat
      BY SMT DEF SharedOK
    <3> QED BY <3>1, <3>2, SMT DEF Bytes
  <2>2. [i \in 1 .. n |-> given + i] \in [1 .. n -> Bytes]
    BY <2>1
  <2>3. /\ DOMAIN ub' = Threads /\ ub'[t] = [i \in 1 .. n |-> given + i]
        /\ size'[t] = n
        /\ \A u \in Threads \ {t} : ub'[u] = ub[u] /\ pc'[u] = pc[u] /\ size'[u] = size[u]
    BY <1>1, Zenon DEF WriteCall, Goto, UbOK, ThreadOK
  <2>4. UbOK'
    BY <1>1, <2>2, <2>3, Params, Zenon DEF UbOK, Threads, Params
  <2>5. ThreadOK' /\ SharedOK'
    BY <1>1, SMT DEF WriteCall, Goto, ThreadOK, SharedOK, Stations, rwbuf, cursors
  <2> QED BY <2>4, <2>5
<1>2. CASE t \in Readers /\ ReadCall(t, n)
  <2>1. UbOK'
    BY <1>2, Params, SMT DEF ReadCall, Goto, UbOK, ThreadOK, Threads, Params
  <2>2. ThreadOK' /\ SharedOK'
    BY <1>2, SMT DEF ReadCall, Goto, ThreadOK, SharedOK, Stations, rwbuf, cursors
  <2> QED BY <2>1, <2>2
<1> QED BY <1>1, <1>2

LEMMA TypeStep == TypeOK /\ [Next]_vars => TypeOK'
<1> SUFFICES ASSUME TypeOK, [Next]_vars PROVE TypeOK'
  OBVIOUS
<1> USE TypeParts, TypePrimed, ParamFacts
<1>1. ASSUME NEW w \in Writers, NEW n \in Sizes, WriteCall(w, n) PROVE TypeOK'
  BY <1>1, TypeStepCall DEF Threads
<1>2. ASSUME NEW r \in Readers, NEW n \in Sizes, ReadCall(r, n) PROVE TypeOK'
  BY <1>2, TypeStepCall DEF Threads
<1>3. ASSUME NEW t \in Threads, Step(t) PROVE TypeOK'
  BY <1>3, TypeStepOf
<1>4. CASE Reset
  BY <1>4, SMT DEF Reset, UbOK, ThreadOK, SharedOK
<1>5. ASSUME NEW mode \in Policies, SetMode(mode) PROVE TypeOK'
  BY <1>5, SMT DEF SetMode, UbOK, ThreadOK, SharedOK, cursors
<1>6. CASE UNCHANGED vars
  BY <1>6 DEF vars, rwbuf, cursors, UbOK, ThreadOK, SharedOK
<1> QED BY <1>1, <1>2, <1>3, <1>4, <1>5, <1>6 DEF Next

(* Whatever the threads do, cursors stay 32-bit words and every piece has  *)
(* the length its call asked for.                                          *)
THEOREM TypeCorrect == Spec => []TypeOK
  BY TypeInit, TypeStep, PTL DEF Spec
-----------------------------------------------------------------------------
(* What the invariant says                                                 *)

LEMMA ThreadTypes ==
    ASSUME TypeOK, NEW t \in Threads
    PROVE  /\ cursor[t] \in Nat /\ size[t] \in Nat
           /\ head \in Nat /\ tail \in Nat /\ write_cursor \in Nat /\ read_cursor \in Nat
           /\ WritePos \in Nat /\ ReadPos \in Nat /\ Pos(t) \in Nat
           /\ Base(t) \in Nat /\ Limit(t) \in Nat
           /\ given \in Nat /\ given <= MaxBytes
           /\ pc[t] # "idle" => size[t] > 0
<1>1. /\ cursor[t] \in Nat /\ size[t] \in Nat
      /\ head \in Nat /\ tail \in Nat /\ write_cursor \in Nat /\ read_cursor \in Nat
      /\ given \in Nat /\ given <= MaxBytes
      /\ pc[t] # "idle" => size[t] > 0
  BY ParamFacts, SMT DEF TypeOK
<1> QED BY <1>1, ParamFacts, SMT DEF WritePos, ReadPos, Pos, Base, Limit

\* The bytes of an unfinished write are as many as its size says.
LEMMA OwnSize ==
    ASSUME TypeOK, OwnBytes, NEW w \in Writers, pc[w] # "idle"
    PROVE  /\ First(w) \in Nat /\ First(w) > 0
           /\ Own(w) \subseteq 1 .. given
           /\ IsFiniteSet(Own(w)) /\ Cardinality(Own(w)) = size[w]
<1>1. w \in Threads
  BY DEF Threads
<1>2. size[w] \in Nat /\ size[w] > 0 /\ given \in Nat
  BY <1>1, ThreadTypes
<1>3. ub[w] \in [1 .. size[w] -> Bytes]
  BY DEF TypeOK
<1>4. First(w) \in Bytes
  BY <1>2, <1>3, SMT DEF First
<1>5. First(w) \in Nat /\ First(w) > 0
  BY <1>4, ParamFacts, SMT DEF Bytes
<1>6. First(w) + size[w] - 1 <= given
  BY DEF OwnBytes
<1> DEFINE a == First(w)
           b == First(w) + size[w] - 1
<1>7. a \in Int /\ b \in Int /\ a <= b /\ b - a + 1 = size[w]
  BY <1>2, <1>5, SMT
<1> HIDE DEF a, b
<1>8. IsFiniteSet(a .. b) /\ Cardinality(a .. b) = b - a + 1
  BY <1>7, FS_Interval, SMT
<1>9. Own(w) = a .. b
  BY DEF Own, a, b
<1>10. Own(w) \subseteq 1 .. given
  BY <1>2, <1>5, <1>6, SMT DEF Own
<1> QED BY <1>5, <1>7, <1>8, <1>9, <1>10

\* The bytes that have a position, and the room there is for w's.
LEMMA Claimed ==
    ASSUME TypeOK, OwnBytes, Counted
    PROVE  /\ WritePos <= given
           /\ \A w \in Unclaimed : WritePos + size[w] <= given
<1>1. PICK C \in SUBSET (1 .. given) :
          Cardinality(C) = WritePos /\ \A w \in Unclaimed : C \cap Own(w) = {}
  BY DEF Counted
<1>2. given \in Nat
  BY ParamFacts, SMT DEF TypeOK
<1>3. IsFiniteSet(1 .. given) /\ Cardinality(1 .. given) = given
  BY <1>2, FS_Interval, SMT
<1>4. IsFiniteSet(C) /\ Cardinality(C) <= Cardinality(1 .. given)
  BY <1>3, FS_Subset
<1>5. WritePos <= given
  BY <1>1, <1>3, <1>4
<1>6. ASSUME NEW w \in Unclaimed PROVE WritePos + size[w] <= given
  <2>1. w \in Writers /\ pc[w] # "idle"
    BY DEF Unclaimed
  <2>2. /\ Own(w) \subseteq 1 .. given
        /\ IsFiniteSet(Own(w)) /\ Cardinality(Own(w)) = size[w]
    BY <2>1, OwnSize
  <2>3. Cardinality(C \cup Own(w)) = Cardinality(C) + Cardinality(Own(w)) - Cardinality(C \cap Own(w))
    BY <1>4, <2>2, FS_Union
  <2>4. Cardinality(C \cap Own(w)) = 0
    BY <1>1, FS_EmptySet
  <2>5. C \cup Own(w) \subseteq 1 .. given
    BY <1>1, <2>2
  <2>6. Cardinality(C \cup Own(w)) <= given
    <3>1. Cardinality(C \cup Own(w)) <= Cardinality(1 .. given)
      BY <1>3, <2>5, FS_Subset
    <3> QED BY <1>3, <3>1
  <2>7. WritePos \in Nat /\ size[w] \in Nat
    BY <2>1, ThreadTypes DEF Threads
  <2> QED BY <1>1, <1>2, <2>2, <2>3, <2>4, <2>6, <2>7, SMT
<1> QED BY <1>5, <1>6

\* The cursors of a state that satisfies the invariant are plain numbers.
LEMMA Plain ==
    ASSUME Inv
    PROVE  /\ head \in 0 .. MaxBytes /\ tail \in 0 .. MaxBytes
           /\ ReadPos \in 0 .. MaxBytes /\ WritePos \in 0 .. MaxBytes
<1>1. WritePos <= given
  BY Claimed DEF Inv
<1>2. /\ head \in Nat /\ tail \in Nat /\ ReadPos \in Nat /\ WritePos \in Nat
      /\ given \in Nat /\ given <= MaxBytes
  BY ParamFacts, SMT DEF Inv, TypeOK, ReadPos, WritePos
<1> QED BY <1>1, <1>2, ParamFacts, SMT DEF Inv, Ring

\* Where the copies in progress are.
LEMMA CopyAt ==
    ASSUME Inv, NEW t \in Copying
    PROVE  /\ t \in Threads
           /\ cursor[t] \in Nat /\ size[t] \in Nat /\ size[t] > 0
           /\ Base(t) \in Nat /\ Limit(t) \in Nat /\ Pos(t) \in Nat
           /\ Base(t) <= cursor[t] /\ cursor[t] + size[t] <= Limit(t)
           /\ IF Multi(t) THEN cursor[t] + size[t] <= Pos(t) ELSE cursor[t] = Base(t)
           /\ cursor[t] + size[t] <= MaxBytes
<1>1. t \in Threads /\ pc[t] \in {"copy", "release"}
  BY DEF Copying
<1>2. View(t) /\ TypeOK
  BY <1>1 DEF Inv
<1>3. /\ cursor[t] \in Nat /\ size[t] \in Nat /\ size[t] > 0
      /\ Base(t) \in Nat /\ Limit(t) \in Nat /\ Pos(t) \in Nat
  BY <1>1, <1>2, ThreadTypes
<1>4. /\ Base(t) <= cursor[t] /\ cursor[t] + size[t] <= Limit(t)
      /\ IF Multi(t) THEN cursor[t] + size[t] <= Pos(t) ELSE cursor[t] = Base(t)
  BY <1>1, <1>2 DEF View
<1>5. cursor[t] + size[t] <= MaxBytes
  <2>1. CASE t \notin Writers
    BY <1>3, <1>4, <2>1, Plain, ParamFacts, SMT DEF Limit
  <2>2. CASE t \in Writers /\ Multi(t)
    BY <1>3, <1>4, <2>2, Plain, ParamFacts, SMT DEF Pos
  <2>3. CASE t \in Writers /\ ~Multi(t)
    <3>1. t \in Unclaimed
      BY <1>1, <2>3 DEF Unclaimed, Multi
    <3>2. WritePos + size[t] <= given
      BY <3>1, Claimed DEF Inv
    <3>3. WritePos = cursor[t]
      BY <1>4, <2>3 DEF Multi, Base, WritePos
    <3> QED BY <1>2, <1>3, <3>2, <3>3, ThreadTypes, <1>1, ParamFacts, SMT
  <2> QED BY <2>1, <2>2, <2>3
<1> QED BY <1>1, <1>3, <1>4, <1>5

\* The unsigned differences are the distance to the limit, also for a cursor
\* that other threads have left behind.
LEMMA RoomIs ==
    ASSUME Inv, NEW t \in Threads, NEW c \in Nat, c <= Pos(t)
    PROVE  Room(t, c) = Limit(t) - c
<1>1. CASE t \in Writers
  <2>1. c <= WritePos /\ head <= WritePos /\ WritePos <= head + Capacity
    BY <1>1, ParamFacts, Plain, SMT DEF Pos, Inv, Ring
  <2>2. CASE head <= c
    <3>1. Minus32(c, head) = c - head
      BY <2>1, <2>2, Plain, PlainMinus, ParamFacts, SMT
    <3>2. c - head \in Nat /\ c - head <= Capacity /\ Capacity < Word /\ Capacity \in Nat
      BY <2>1, <2>2, Plain, ParamFacts, SMT
    <3>3. Minus32(Capacity, c - head) = Capacity - (c - head)
      BY <3>2, PlainMinus
    <3> QED BY <1>1, <3>1, <3>3, Plain, ParamFacts, SMT DEF Room, Limit
  <2>3. CASE c < head
    <3>1. Minus32(c, head) = c - head + Word
      BY <2>3, Plain, WrappedMinus, ParamFacts, SMT
    <3>2. /\ c - head + Word \in Nat /\ c - head + Word < Word
          /\ Capacity \in Nat /\ Capacity < c - head + Word
      BY <2>3, Plain, ParamFacts, SMT
    <3>3. Minus32(Capacity, c - head + Word) = Capacity - (c - head + Word) + Word
      BY <3>2, WrappedMinus
    <3> QED BY <1>1, <3>1, <3>3, Plain, ParamFacts, SMT DEF Room, Limit
  <2> QED BY <2>2, <2>3, Plain, SMT
<1>2. CASE t \notin Writers
  <2>1. c <= tail
    BY <1>2, Plain, SMT DEF Pos, Inv, Ring
  <2>2. Minus32(tail, c) = tail - c
    BY <2>1, Plain, PlainMinus, ParamFacts, SMT
  <2> QED BY <1>2, <2>2 DEF Room, Limit
<1> QED BY <1>1, <1>2

\* A piece that passed the test fits, if its cursor is still the current one.
LEMMA FitsMeans ==
    ASSUME Inv, NEW t \in Threads, ~TooLong(t), cursor[t] = Pos(t)
    PROVE  cursor[t] + size[t] <= Limit(t)
<1>1. /\ size[t] \in Nat /\ cursor[t] \in Nat /\ Limit(t) \in Nat /\ Pos(t) \in Nat
  BY ThreadTypes DEF Inv
<1>2. Room(t, cursor[t]) = Limit(t) - cursor[t]
  BY <1>1, RoomIs, SMT
<1> QED BY <1>1, <1>2, SMT DEF TooLong
-----------------------------------------------------------------------------
(* What a step leaves as it is                                             *)

Still(u) == pc'[u] = pc[u] /\ cursor'[u] = cursor[u] /\ size'[u] = size[u]

SameOwn(v) == v \in Unclaimed /\ ub'[v] = ub[v] /\ size'[v] = size[v]

LEMMA StillView ==
    ASSUME TypeOK, TypeOK', NEW u \in Threads, View(u), Still(u), policy' = policy,
           Limit(u) <= Limit(u)', Pos(u) <= Pos(u)',
           pc[u] # "idle" => Multi(u) \/ Base(u)' = Base(u),
           pc[u] \in {"copy", "release"} => Base(u)' <= cursor[u]
    PROVE  View(u)'
<1>1. /\ cursor[u] \in Nat /\ size[u] \in Nat
      /\ Limit(u) \in Nat /\ Pos(u) \in Nat /\ Base(u) \in Nat
  BY ThreadTypes
<1>2. Limit(u)' \in Nat /\ Pos(u)' \in Nat /\ Base(u)' \in Nat
  <2>1. /\ head' \in Nat /\ tail' \in Nat
        /\ write_cursor' \in Nat /\ read_cursor' \in Nat
    BY ParamFacts, SMT DEF TypeOK
  <2> QED BY <2>1, ParamFacts, SMT DEF Limit, Pos, Base, WritePos, ReadPos
<1>3. Multi(u)' <=> Multi(u)
  BY DEF Multi, MultiIn, MultiOut
<1> DEFINE b == Base(u)
           bb == Base(u)'
           l == Limit(u)
           ll == Limit(u)'
           p == Pos(u)
           pp == Pos(u)'
           m == Multi(u)
<1>4. /\ pc'[u] \in {"test", "cas"} => cursor'[u] <= p /\ (m \/ cursor'[u] = b)
      /\ pc'[u] = "cas" => m /\ (cursor'[u] = p => cursor'[u] + size'[u] <= l)
      /\ pc'[u] \in {"copy", "release"} =>
             /\ b <= cursor'[u] /\ cursor'[u] + size'[u] <= l
             /\ IF m THEN cursor'[u] + size'[u] <= p ELSE cursor'[u] = b
  BY DEF View, Still
<1>5. /\ l <= ll /\ p <= pp
      /\ pc'[u] # "idle" => m \/ bb = b
      /\ pc'[u] \in {"copy", "release"} => bb <= cursor'[u]
      /\ cursor'[u] \in Nat /\ size'[u] \in Nat
      /\ l \in Nat /\ ll \in Nat /\ p \in Nat /\ pp \in Nat /\ b \in Nat /\ bb \in Nat
  BY <1>1, <1>2 DEF Still
<1> HIDE DEF b, bb, l, ll, p, pp, m
<1>6. /\ pc'[u] \in {"test", "cas"} => cursor'[u] <= pp /\ (m \/ cursor'[u] = bb)
      /\ pc'[u] = "cas" => m /\ (cursor'[u] = pp => cursor'[u] + size'[u] <= ll)
      /\ pc'[u] \in {"copy", "release"} =>
             /\ bb <= cursor'[u] /\ cursor'[u] + size'[u] <= ll
             /\ IF m THEN cursor'[u] + size'[u] <= pp ELSE cursor'[u] = bb
  BY <1>4, <1>5, SMT
<1> QED BY <1>3, <1>6 DEF View, bb, ll, pp, m

LEMMA OneUserStep ==
    ASSUME OneUser, policy' = policy, NEW t \in Threads,
           \A u \in Threads \ {t} : pc'[u] = pc[u],
           pc[t] # "idle" \/ Admitted(t)
    PROVE  OneUser'
<1>1. \A u \in Threads : Multi(u)' <=> Multi(u)
  BY DEF Multi, MultiIn, MultiOut
<1> SUFFICES ASSUME NEW v \in Threads, NEW u \in Threads, pc'[v] # "idle", pc'[u] # "idle",
                    SameSide(v, u), ~Multi(v), v # u
             PROVE  FALSE
  BY <1>1, Zenon DEF OneUser, SameSide
<1>2. Multi(u) <=> Multi(v)
  BY DEF SameSide, Multi
<1>3. CASE v # t /\ u # t
  BY <1>3 DEF OneUser
<1>4. CASE v = t
  <2>1. CASE pc[t] # "idle"
    BY <1>4, <2>1 DEF OneUser
  <2>2. CASE Admitted(t)
    BY <1>4, <2>2, Zenon DEF Admitted, SameSide
  <2> QED BY <2>1, <2>2
<1>5. CASE u = t
  <2>1. CASE pc[t] # "idle"
    BY <1>5, <2>1 DEF OneUser
  <2>2. CASE Admitted(t)
    BY <1>2, <1>5, <2>2, Zenon DEF Admitted, SameSide
  <2> QED BY <2>1, <2>2
<1> QED BY <1>3, <1>4, <1>5

\* A step that brings no new copy keeps the pieces apart.
LEMMA ApartStep ==
    ASSUME Apart, \A u \in Threads : u \in Copying' => u \in Copying /\ cursor'[u] = cursor[u] /\ size'[u] = size[u]
    PROVE  Apart'
  BY Zenon DEF Apart, SameSide, Copying

LEMMA CountedKeeps ==
    ASSUME Counted, OwnBytes, given \in Nat, given' \in Nat, given <= given', WritePos' = WritePos,
           \A v \in Unclaimed' : SameOwn(v)
    PROVE  /\ Counted'
           /\ \A v, w \in Unclaimed' : v # w => Own(v)' \cap Own(w)' = {}
<1>1. \A v \in Unclaimed' : v \in Unclaimed /\ Own(v)' = Own(v)
  BY DEF SameOwn, Own, First
<1>2. PICK C \in SUBSET (1 .. given) :
          Cardinality(C) = WritePos /\ \A w \in Unclaimed : C \cap Own(w) = {}
  BY DEF Counted
<1>3. 1 .. given \subseteq 1 .. given'
  BY SMT
<1>4. C \in SUBSET (1 .. given')
  BY <1>2, <1>3
<1>5. Cardinality(C) = WritePos' /\ \A w \in Unclaimed' : C \cap Own(w)' = {}
  BY <1>1, <1>2
<1>6. Counted'
  BY <1>4, <1>5 DEF Counted
<1> QED BY <1>1, <1>6 DEF OwnBytes

\* The bytes of w get positions of their own.
LEMMA CountedTakes ==
    ASSUME TypeOK, Counted, OwnBytes, NEW w \in Unclaimed, given' = given,
           WritePos' = WritePos + size[w],
           \A v \in Unclaimed' : v # w /\ SameOwn(v)
    PROVE  /\ Counted'
           /\ \A v, x \in Unclaimed' : v # x => Own(v)' \cap Own(x)' = {}
<1>1. \A v \in Unclaimed' : v # w /\ v \in Unclaimed /\ Own(v)' = Own(v)
  BY DEF SameOwn, Own, First
<1>2. PICK C \in SUBSET (1 .. given) :
          Cardinality(C) = WritePos /\ \A v \in Unclaimed : C \cap Own(v) = {}
  BY DEF Counted
<1>3. w \in Writers /\ pc[w] # "idle"
  BY DEF Unclaimed
<1>4. /\ Own(w) \subseteq 1 .. given
      /\ IsFiniteSet(Own(w)) /\ Cardinality(Own(w)) = size[w]
  BY <1>3, OwnSize
<1>5. given \in Nat /\ size[w] \in Nat /\ WritePos \in Nat
  BY <1>3, ThreadTypes DEF Threads
<1>6. IsFiniteSet(1 .. given)
  BY <1>5, FS_Interval, SMT
<1>7. IsFiniteSet(C)
  BY <1>6, FS_Subset
<1>8. Cardinality(C \cup Own(w)) = Cardinality(C) + Cardinality(Own(w)) - Cardinality(C \cap Own(w))
  BY <1>4, <1>7, FS_Union
<1>9. Cardinality(C \cap Own(w)) = 0
  BY <1>2, FS_EmptySet
<1>10. Cardinality(C \cup Own(w)) = WritePos'
  BY <1>2, <1>4, <1>5, <1>8, <1>9, SMT
<1>11. C \cup Own(w) \in SUBSET (1 .. given')
  BY <1>2, <1>4
<1>12. \A v \in Unclaimed' : (C \cup Own(w)) \cap Own(v)' = {}
  BY <1>1, <1>2 DEF OwnBytes
<1>13. Counted'
  BY <1>10, <1>11, <1>12 DEF Counted
<1> QED BY <1>1, <1>13 DEF OwnBytes
\* The bytes of the writes stay with them.
LEMMA BytesKeep ==
    ASSUME Inv, TypeOK', given' = given, WritePos' = WritePos,
           \A v \in Writers : pc'[v] # "idle" => pc[v] # "idle" /\ ub'[v] = ub[v] /\ size'[v] = size[v],
           Unclaimed' \subseteq Unclaimed
    PROVE  OwnBytes' /\ Counted'
<1>1. \A v \in Unclaimed' : SameOwn(v)
  BY DEF Unclaimed, SameOwn
<1>2. given \in Nat
  BY ParamFacts, SMT DEF Inv, TypeOK
<1>3. /\ Counted'
      /\ \A v, w \in Unclaimed' : v # w => Own(v)' \cap Own(w)' = {}
  BY <1>1, <1>2, CountedKeeps, SMT DEF Inv
<1>4. \A v \in Writers : pc'[v] # "idle" => First(v)' + size'[v] - 1 <= given'
  BY DEF Inv, OwnBytes, First
<1> QED BY <1>3, <1>4 DEF OwnBytes

LEMMA BytesTake ==
    ASSUME Inv, TypeOK', given' = given, NEW w \in Unclaimed, WritePos' = WritePos + size[w],
           \A v \in Writers : pc'[v] # "idle" => pc[v] # "idle" /\ ub'[v] = ub[v] /\ size'[v] = size[v],
           Unclaimed' \subseteq Unclaimed \ {w}
    PROVE  OwnBytes' /\ Counted'
<1>1. \A v \in Unclaimed' : v # w /\ SameOwn(v)
  BY DEF Unclaimed, SameOwn
<1>3. /\ Counted'
      /\ \A v, x \in Unclaimed' : v # x => Own(v)' \cap Own(x)' = {}
  BY <1>1, CountedTakes DEF Inv
<1>4. \A v \in Writers : pc'[v] # "idle" => First(v)' + size'[v] - 1 <= given'
  BY DEF Inv, OwnBytes, First
<1> QED BY <1>3, <1>4 DEF OwnBytes

\* A step of t that moves no cursor.
LEMMA FixedCursors ==
    ASSUME Inv, TypeOK', NEW t \in Threads, policy' = policy, UNCHANGED cursors,
           \A u \in Threads \ {t} : Still(u),
           pc[t] # "idle" \/ Admitted(t),
           View(t)'
    PROVE  Ring' /\ OneUser' /\ (\A u \in Threads : View(u)')
<1>1. /\ head' = head /\ tail' = tail
      /\ write_cursor' = write_cursor /\ read_cursor' = read_cursor
  BY DEF cursors
<1>2. \A u \in Threads : Limit(u)' = Limit(u) /\ Pos(u)' = Pos(u) /\ Base(u)' = Base(u)
  BY <1>1, Zenon DEF Limit, Pos, Base, WritePos, ReadPos, MultiIn, MultiOut
<1>3. Ring'
  BY <1>1, Zenon DEF Inv, Ring, WritePos, ReadPos, MultiIn, MultiOut
<1>4. OneUser'
  BY <1>1, OneUserStep DEF Inv, Still
<1>5. ASSUME NEW u \in Threads \ {t} PROVE View(u)'
  <2>1. Limit(u) \in Nat /\ Pos(u) \in Nat
    BY ThreadTypes DEF Inv
  <2>2. Limit(u) <= Limit(u)' /\ Pos(u) <= Pos(u)'
    BY <1>2, <2>1, SMT
  <2>3. pc[u] \in {"copy", "release"} => Base(u)' <= cursor[u]
    BY <1>2 DEF Inv, View
  <2> QED BY <1>1, <1>2, <2>2, <2>3, StillView DEF Inv
<1> QED BY <1>3, <1>4, <1>5

\* A step of t that moves no cursor, writes no byte and starts no copy.
LEMMA QuietStep ==
    ASSUME Inv, TypeOK', NEW t \in Threads, UNCHANGED rwbuf, written' = written,
           \A u \in Threads \ {t} : Still(u),
           pc[t] # "idle" \/ Admitted(t),
           View(t)',
           t \in Copying' => t \in Copying /\ cursor'[t] = cursor[t] /\ size'[t] = size[t]
    PROVE  Ring' /\ OneUser' /\ (\A u \in Threads : View(u)') /\ Apart' /\ Stored'
<1>1. policy' = policy /\ UNCHANGED cursors /\ data' = data /\ head' = head
  BY DEF rwbuf, cursors
<1>2. Ring' /\ OneUser' /\ (\A u \in Threads : View(u)')
  BY <1>1, FixedCursors
<1>3. Apart'
  <2>1. \A u \in Threads : u \in Copying' => u \in Copying /\ cursor'[u] = cursor[u] /\ size'[u] = size[u]
    BY DEF Still, Copying
  <2> QED BY <2>1, ApartStep DEF Inv
<1>4. Stored'
  BY <1>1 DEF Inv, Stored
<1> QED BY <1>2, <1>3, <1>4

-----------------------------------------------------------------------------
(* The steps                                                               *)

LEMMA WriteCallStep ==
    ASSUME Inv, TypeOK', NEW w \in Writers, NEW n \in Sizes, WriteCall(w, n)
    PROVE  Inv'
<1>1. w \in Threads /\ n \in Nat /\ n > 0 /\ TypeOK
  BY ParamFacts DEF Threads, Inv
<1>2. /\ UNCHANGED rwbuf /\ cursor' = cursor /\ written' = written
      /\ given' = given + n /\ Admitted(w) /\ pc[w] = "idle"
      /\ pc'[w] = "load" /\ size'[w] = n /\ ub'[w] = [i \in 1 .. n |-> given + i]
      /\ \A u \in Threads \ {w} : Still(u) /\ ub'[u] = ub[u]
  BY <1>1, Zenon DEF WriteCall, Goto, Still, Admitted, TypeOK
<1>3. Ring' /\ OneUser' /\ (\A u \in Threads : View(u)') /\ Apart' /\ Stored'
  <2>1. View(w)'
    BY <1>2 DEF View
  <2>2. w \notin Copying'
    BY <1>2 DEF Copying
  <2> QED BY <1>1, <1>2, <2>1, <2>2, QuietStep
<1>4. given \in Nat /\ given' \in Nat /\ given <= given'
  BY <1>1, <1>2, ThreadTypes, SMT
<1>5. First(w)' = given + 1 /\ Own(w)' = given + 1 .. given + n
  <2>1. First(w)' = given + 1
    BY <1>1, <1>2, SMT DEF First
  <2> QED BY <1>1, <1>2, <1>4, <2>1, SMT DEF Own
<1>6. \A v \in Writers \ {w} :
          pc'[v] = pc[v] /\ ub'[v] = ub[v] /\ size'[v] = size[v] /\ Own(v)' = Own(v)
  BY <1>2 DEF Still, Own, First, Threads
<1>7. MultiIn' = MultiIn /\ WritePos' = WritePos
  BY <1>2 DEF rwbuf, cursors, MultiIn, WritePos
<1>8. \A v \in Unclaimed' : v # w => v \in Unclaimed
  BY <1>6, <1>7, Zenon DEF Unclaimed
<1>9. \A v \in Unclaimed : Own(v) \subseteq 1 .. given
  BY <1>1, OwnSize DEF Unclaimed, Inv
<1>10. Counted'
  <2>1. PICK C \in SUBSET (1 .. given) :
            Cardinality(C) = WritePos /\ \A v \in Unclaimed : C \cap Own(v) = {}
    BY DEF Counted, Inv
  <2>2. C \in SUBSET (1 .. given')
    BY <1>4, <2>1, SMT
  <2>3. C \cap Own(w)' = {}
    BY <1>4, <1>5, <2>1, SMT
  <2>4. Cardinality(C) = WritePos' /\ \A v \in Unclaimed' : C \cap Own(v)' = {}
    BY <1>6, <1>7, <1>8, <2>1, <2>3 DEF Unclaimed
  <2> QED BY <2>2, <2>4 DEF Counted
<1>11. OwnBytes'
  <2>1. First(w)' + size'[w] - 1 <= given'
    BY <1>1, <1>2, <1>4, <1>5, SMT
  <2>2. ASSUME NEW v \in Writers \ {w}, pc'[v] # "idle"
        PROVE  First(v)' + size'[v] - 1 <= given'
    <3>1. v \in Writers /\ pc[v] # "idle" /\ v \in Threads
      BY <1>6, <2>2 DEF Threads
    <3>2. First(v) + size[v] - 1 <= given /\ First(v) \in Nat /\ size[v] \in Nat
      BY <1>1, <3>1, OwnSize, ThreadTypes DEF Inv, OwnBytes
    <3>3. First(v)' = First(v) /\ size'[v] = size[v]
      BY <1>6 DEF First
    <3> QED BY <1>4, <3>2, <3>3, SMT
  <2>3. ASSUME NEW v \in Unclaimed', v # w PROVE Own(v)' \cap Own(w)' = {}
    <3>1. v \in Unclaimed /\ Own(v)' = Own(v) /\ Own(v) \subseteq 1 .. given
      BY <1>6, <1>8, <1>9, <2>3 DEF Unclaimed
    <3> QED BY <1>4, <1>5, <3>1, SMT
  <2>4. ASSUME NEW v \in Unclaimed', NEW x \in Unclaimed', v # x, v # w, x # w
        PROVE  Own(v)' \cap Own(x)' = {}
    <3>1. v \in Unclaimed /\ Own(v)' = Own(v) /\ x \in Unclaimed /\ Own(x)' = Own(x)
      BY <1>6, <1>8, <2>4 DEF Unclaimed
    <3> QED BY <2>4, <3>1 DEF Inv, OwnBytes
  <2>5. \A v, x \in Unclaimed' : v # x => Own(v)' \cap Own(x)' = {}
    BY <2>3, <2>4
  <2> QED BY <2>1, <2>2, <2>5 DEF OwnBytes
<1> QED BY <1>3, <1>10, <1>11 DEF Inv

LEMMA ReadCallStep ==
    ASSUME Inv, TypeOK', NEW r \in Readers, NEW n \in Sizes, ReadCall(r, n)
    PROVE  Inv'
<1>1. r \in Threads /\ r \notin Writers /\ TypeOK
  BY Params DEF Threads, Inv, Params
<1>2. /\ UNCHANGED rwbuf /\ cursor' = cursor /\ written' = written /\ ub' = ub
      /\ given' = given /\ Admitted(r) /\ pc'[r] = "load"
      /\ \A u \in Threads \ {r} : Still(u)
  BY <1>1, Zenon DEF ReadCall, Goto, Still, Admitted, TypeOK
<1>3. Ring' /\ OneUser' /\ (\A u \in Threads : View(u)') /\ Apart' /\ Stored'
  <2>1. View(r)'
    BY <1>2 DEF View
  <2>2. r \notin Copying'
    BY <1>2 DEF Copying
  <2> QED BY <1>1, <1>2, <2>1, <2>2, QuietStep
<1>4. OwnBytes' /\ Counted'
  <2>1. \A v \in Writers : pc'[v] = pc[v] /\ ub'[v] = ub[v] /\ size'[v] = size[v]
    BY <1>1, <1>2 DEF Still, Threads
  <2>2. WritePos' = WritePos /\ Unclaimed' = Unclaimed
    BY <1>2, <2>1 DEF rwbuf, cursors, MultiIn, WritePos, Unclaimed
  <2> QED BY <1>2, <2>1, <2>2, BytesKeep
<1> QED BY <1>3, <1>4 DEF Inv

\* The steps of a call that move no cursor and publish no byte.
LEMMA QuietCallStep ==
    ASSUME Inv, TypeOK', NEW t \in Threads,
           LoadCursor(t) \/ Refused(t) \/ Retry(t) \/ CopyOut(t) \/ (Fits(t) /\ Multi(t))
    PROVE  Inv'
<1>0. TypeOK /\ View(t)
  BY DEF Inv
<1>1. /\ UNCHANGED rwbuf /\ written' = written /\ given' = given
      /\ \A u \in Threads \ {t} : Still(u) /\ ub'[u] = ub[u]
      /\ pc[t] # "idle"
  BY <1>0, Zenon DEF LoadCursor, Refused, Retry, CopyOut, Fits, Return, Goto, Still, TypeOK
<1>2. /\ policy' = policy /\ MultiIn' = MultiIn /\ WritePos' = WritePos
      /\ Multi(t)' = Multi(t) /\ Pos(t)' = Pos(t) /\ Base(t)' = Base(t) /\ Limit(t)' = Limit(t)
  BY <1>1, Zenon DEF rwbuf, cursors, MultiIn, MultiOut, WritePos, ReadPos, Multi, Pos, Base, Limit
<1>3. /\ cursor[t] \in Nat /\ size[t] \in Nat /\ Pos(t) \in Nat
  BY <1>0, ThreadTypes
<1>4. View(t)'
  <2>1. CASE LoadCursor(t)
    <3>1. pc'[t] = "test" /\ cursor'[t] = Pos(t)
      BY <1>0, <2>1 DEF LoadCursor, Goto, TypeOK
    <3>2. Multi(t) \/ Pos(t) = Base(t)
      BY DEF Multi, Pos, Base, WritePos, ReadPos
    <3> QED BY <1>2, <1>3, <3>1, <3>2, SMT DEF View
  <2>2. CASE Refused(t)
    <3>1. pc'[t] = "idle"
      BY <1>0, <2>2 DEF Refused, Return, Goto, TypeOK
    <3> QED BY <3>1 DEF View
  <2>3. CASE Retry(t)
    <3>1. pc'[t] = "load"
      BY <1>0, <2>3 DEF Retry, Goto, TypeOK
    <3> QED BY <3>1 DEF View
  <2>4. CASE CopyOut(t)
    <3>1. pc[t] = "copy" /\ pc'[t] = "release" /\ cursor'[t] = cursor[t] /\ size'[t] = size[t]
      BY <1>0, <2>4 DEF CopyOut, Goto, TypeOK
    <3> QED BY <1>0, <1>2, <3>1 DEF View
  <2>5. CASE Fits(t) /\ Multi(t)
    <3>1. /\ pc[t] = "test" /\ ~TooLong(t) /\ pc'[t] = "cas"
          /\ cursor'[t] = cursor[t] /\ size'[t] = size[t]
      BY <1>0, <2>5 DEF Fits, Goto, TypeOK
    <3>2. cursor[t] = Pos(t) => cursor[t] + size[t] <= Limit(t)
      BY <3>1, FitsMeans
    <3> QED BY <1>0, <1>2, <2>5, <3>1, <3>2 DEF View
  <2> QED BY <2>1, <2>2, <2>3, <2>4, <2>5
<1>5. t \in Copying' => t \in Copying /\ cursor'[t] = cursor[t] /\ size'[t] = size[t]
  BY <1>0, Zenon DEF Copying, LoadCursor, Refused, Retry, CopyOut, Fits, Return, Goto, TypeOK
<1>6. Ring' /\ OneUser' /\ (\A u \in Threads : View(u)') /\ Apart' /\ Stored'
  BY <1>1, <1>4, <1>5, QuietStep
<1>7. OwnBytes' /\ Counted'
  <2>1. t \in Writers /\ pc'[t] # "idle" => ub'[t] = ub[t] /\ size'[t] = size[t]
    <3>1. CASE LoadCursor(t)
      BY <1>0, <3>1, Zenon DEF LoadCursor, Goto
    <3>2. CASE Refused(t)
      BY <1>0, <3>2, Zenon DEF Refused, Return, Goto, TypeOK
    <3>3. CASE Retry(t)
      BY <1>0, <3>3, Zenon DEF Retry, Goto
    <3>4. CASE CopyOut(t)
      BY <1>0, <3>4, Params, Zenon DEF Params, CopyOut
    <3>5. CASE Fits(t)
      BY <1>0, <3>5, Zenon DEF Fits, Goto
    <3> QED BY <1>0, <3>1, <3>2, <3>3, <3>4, <3>5
  <2>2. t \in Writers => /\ pc[t] \in {"load", "test", "cas"}
                         /\ pc'[t] \in {"load", "test", "cas", "idle"}
    BY <1>0, Params, Zenon DEF Params, LoadCursor, Refused, Retry, CopyOut, Fits, Return, Goto, TypeOK
  <2>3. Unclaimed' \subseteq Unclaimed
    BY <1>1, <1>2, <2>2, Zenon DEF Unclaimed, Still, Threads
  <2>4. \A v \in Writers : pc'[v] # "idle" => pc[v] # "idle" /\ ub'[v] = ub[v] /\ size'[v] = size[v]
    BY <1>1, <2>1, Zenon DEF Still, Threads
  <2> QED BY <1>1, <1>2, <2>3, <2>4, BytesKeep
<1> QED BY <1>6, <1>7 DEF Inv

\* A single writer or reader starts its copy when the piece fits.
LEMMA FitsSingleStep ==
    ASSUME Inv, TypeOK', NEW t \in Threads, Fits(t), ~Multi(t)
    PROVE  Inv'
<1>0. TypeOK /\ View(t)
  BY DEF Inv
<1>1. /\ UNCHANGED rwbuf /\ written' = written /\ given' = given
      /\ ub' = ub /\ size' = size /\ cursor' = cursor
      /\ \A u \in Threads \ {t} : Still(u)
      /\ pc[t] = "test" /\ pc'[t] = "copy" /\ ~TooLong(t)
  BY <1>0, Zenon DEF Fits, Goto, Still, TypeOK
<1>2. /\ policy' = policy /\ UNCHANGED cursors /\ head' = head /\ data' = data
      /\ MultiIn' = MultiIn /\ WritePos' = WritePos
      /\ Multi(t)' = Multi(t) /\ Pos(t)' = Pos(t) /\ Base(t)' = Base(t) /\ Limit(t)' = Limit(t)
  BY <1>1, Zenon DEF rwbuf, cursors, MultiIn, MultiOut, WritePos, ReadPos, Multi, Pos, Base, Limit
<1>3. cursor[t] \in Nat /\ Base(t) = Pos(t) /\ cursor[t] = Base(t)
  BY <1>0, <1>1, ThreadTypes DEF View, Multi, Pos, Base, WritePos, ReadPos
<1>4. cursor[t] + size[t] <= Limit(t)
  BY <1>1, <1>3, FitsMeans
<1>5. View(t)'
  BY <1>1, <1>2, <1>3, <1>4, SMT DEF View
<1>6. Ring' /\ OneUser' /\ (\A u \in Threads : View(u)')
  BY <1>1, <1>2, <1>5, FixedCursors
<1>7. Apart'
  <2>1. \A u \in Copying' : u # t => u \in Copying /\ ~SameSide(t, u) /\ ~SameSide(u, t)
    <3>1. \A u \in Copying' : u \in Threads /\ (u # t => u \in Copying /\ pc[u] # "idle")
      BY <1>1, Zenon DEF Copying, Still
    <3> QED BY <1>1, <3>1, Zenon DEF Inv, OneUser, SameSide, Multi
  <2> QED BY <1>1, <2>1, Zenon DEF Inv, Apart, SameSide
<1>8. Stored'
  BY <1>1, <1>2 DEF Inv, Stored
<1>9. OwnBytes' /\ Counted'
  <2>1. t \in Writers => ~MultiIn
    BY DEF Multi
  <2>2. Unclaimed' \subseteq Unclaimed
    BY <1>1, <1>2, <2>1, Zenon DEF Unclaimed, Still, Threads
  <2>3. \A v \in Writers : pc'[v] # "idle" => pc[v] # "idle" /\ ub'[v] = ub[v] /\ size'[v] = size[v]
    BY <1>1, Zenon DEF Still, Threads
  <2> QED BY <1>1, <1>2, <2>2, <2>3, BytesKeep
<1> QED BY <1>6, <1>7, <1>8, <1>9 DEF Inv

LEMMA ClaimStep ==
    ASSUME Inv, TypeOK', NEW t \in Threads, Claim(t)
    PROVE  Inv'
<1>0. TypeOK /\ View(t)
  BY DEF Inv
<1>1. /\ policy' = policy /\ head' = head /\ tail' = tail /\ data' = data
      /\ written' = written /\ given' = given
      /\ ub' = ub /\ size' = size /\ cursor' = cursor
      /\ \A u \in Threads \ {t} : Still(u)
      /\ pc[t] = "cas" /\ pc'[t] = "copy" /\ Pos(t) = cursor[t]
  BY <1>0, Zenon DEF Claim, Goto, Still, TypeOK
<1>2. /\ Multi(t) /\ cursor[t] + size[t] <= Limit(t)
      /\ cursor[t] \in Nat /\ size[t] \in Nat /\ size[t] > 0
      /\ Base(t) \in Nat /\ Limit(t) \in Nat
  BY <1>0, <1>1, ThreadTypes DEF View
<1>3. cursor[t] + size[t] <= MaxBytes
  <2>1. CASE t \in Writers
    <3>1. t \in Unclaimed
      BY <1>1, <2>1 DEF Unclaimed
    <3>2. WritePos + size[t] <= given /\ given \in Nat /\ given <= MaxBytes
      BY <3>1, <1>0, Claimed, ThreadTypes DEF Inv
    <3> QED BY <1>1, <1>2, <2>1, <3>2, ParamFacts, SMT DEF Pos
  <2>2. CASE t \notin Writers
    BY <1>2, <2>2, Plain, ParamFacts, SMT DEF Limit
  <2> QED BY <2>1, <2>2
<1>4. Plus32(cursor[t], size[t]) = cursor[t] + size[t]
  BY <1>2, <1>3, PlainPlus
<1>5. /\ \A u \in Threads : Multi(u)' = Multi(u)
      /\ \A u \in Threads : Base(u)' = Base(u) /\ Limit(u)' = Limit(u)
      /\ MultiIn' = MultiIn /\ MultiOut' = MultiOut
  BY <1>1, Zenon DEF Multi, MultiIn, MultiOut, Base, Limit
<1>6. /\ Ring'
      /\ \A u \in Threads : Pos(u) <= Pos(u)'
      /\ Pos(t)' = cursor[t] + size[t]
      /\ t \in Writers => WritePos' = WritePos + size[t] /\ MultiIn
      /\ t \notin Writers => WritePos' = WritePos
  <2>1. CASE t \in Writers
    <3>1. /\ MultiIn /\ cursor[t] = WritePos
          /\ WritePos' = cursor[t] + size[t] /\ ReadPos' = ReadPos
      BY <1>1, <1>2, <1>4, <1>5, <2>1, Zenon DEF Multi, Pos, Claim, WritePos, ReadPos
    <3>2. Ring'
      BY <1>1, <1>2, <2>1, <3>1, Plain, ParamFacts, SMT DEF Inv, Ring, Limit
    <3>3. (\A u \in Threads : Pos(u) <= Pos(u)') /\ Pos(t)' = cursor[t] + size[t]
      BY <1>2, <2>1, <3>1, Plain, SMT DEF Pos
    <3> QED BY <2>1, <3>1, <3>2, <3>3
  <2>2. CASE t \notin Writers
    <3>1. /\ MultiOut /\ cursor[t] = ReadPos
          /\ ReadPos' = cursor[t] + size[t] /\ WritePos' = WritePos
      BY <1>1, <1>2, <1>4, <1>5, <2>2, Zenon DEF Multi, Pos, Claim, WritePos, ReadPos
    <3>2. Ring'
      BY <1>1, <1>2, <2>2, <3>1, Plain, ParamFacts, SMT DEF Inv, Ring, Limit
    <3>3. (\A u \in Threads : Pos(u) <= Pos(u)') /\ Pos(t)' = cursor[t] + size[t]
      BY <1>2, <2>2, <3>1, Plain, SMT DEF Pos
    <3> QED BY <2>2, <3>1, <3>2, <3>3
  <2> QED BY <2>1, <2>2
<1>7. ASSUME NEW u \in Threads PROVE View(u)'
  <2>1. CASE u = t
    <3>1. Base(t) <= cursor[t]
      BY <1>1, <1>2, Plain, SMT DEF Inv, Ring, Base, Pos
    <3> QED BY <1>1, <1>2, <1>5, <1>6, <2>1, <3>1, SMT DEF View
  <2>2. CASE u # t
    <3>1. Limit(u) \in Nat
      BY <1>0, ThreadTypes
    <3>2. Limit(u) <= Limit(u)' /\ Base(u)' = Base(u) /\ Pos(u) <= Pos(u)'
      BY <1>5, <1>6, <3>1, SMT
    <3>3. View(u) /\ Still(u)
      BY <1>1, <2>2 DEF Inv
    <3>4. pc[u] \in {"copy", "release"} => Base(u)' <= cursor[u]
      BY <3>2, <3>3 DEF View
    <3> QED BY <1>0, <1>1, <3>2, <3>3, <3>4, StillView
  <2> QED BY <2>1, <2>2
<1>8. OneUser'
  BY <1>1, OneUserStep DEF Inv, Still
<1>9. Apart'
  <2>1. \A u \in Copying' : u \in Threads /\ (u # t => u \in Copying)
    BY <1>1, Zenon DEF Copying, Still
  <2>2. ASSUME NEW u \in Copying, u # t, SameSide(t, u)
        PROVE  cursor[u] + size[u] <= cursor[t]
    <3>1. Multi(u) /\ Pos(u) = Pos(t)
      BY <1>2, <2>2 DEF SameSide, Multi, Pos
    <3> QED BY <1>1, <2>2, <3>1, CopyAt
  <2>3. \A u, v : SameSide(u, v) => SameSide(v, u)
    BY DEF SameSide
  <2>4. \A u, v : SameSide(u, v)' => SameSide(u, v)
    BY DEF SameSide
  <2> QED BY <1>1, <2>1, <2>2, <2>3, <2>4, Zenon DEF Inv, Apart
<1>10. Stored'
  BY <1>1 DEF Inv, Stored
<1>11. OwnBytes' /\ Counted'
  <2>1. \A v \in Writers : pc'[v] # "idle" => pc[v] # "idle" /\ ub'[v] = ub[v] /\ size'[v] = size[v]
    BY <1>1, Zenon DEF Still, Threads
  <2>2. CASE t \in Writers
    <3>1. t \in Unclaimed
      BY <1>1, <2>2 DEF Unclaimed
    <3>2. Unclaimed' \subseteq Unclaimed \ {t}
      BY <1>1, <1>5, <1>6, <2>2, Zenon DEF Unclaimed, Still, Threads
    <3> QED BY <1>1, <1>6, <2>1, <2>2, <3>1, <3>2, BytesTake
  <2>3. CASE t \notin Writers
    <3>1. Unclaimed' \subseteq Unclaimed
      BY <1>1, <1>5, <2>3, Zenon DEF Unclaimed, Still, Threads
    <3> QED BY <1>1, <1>6, <2>1, <2>3, <3>1, BytesKeep
  <2> QED BY <2>2, <2>3
<1> QED BY <1>6, <1>7, <1>8, <1>9, <1>10, <1>11 DEF Inv

\* The addresses that the memcpy of t uses are those of the positions of its
\* piece that lie inside the buffer.
LEMMA SpanIs ==
    ASSUME Inv, NEW t \in Copying, NEW s \in 0 .. Capacity - 1,
           s - Slot(cursor[t]) \in 0 .. size[t] - 1
    PROVE  LET k == cursor[t] + (s - Slot(cursor[t]))
           IN  /\ k \in Nat /\ Slot(k) = s
               /\ cursor[t] <= k /\ k < cursor[t] + size[t]
<1> DEFINE c == cursor[t]
           j == s - Slot(c)
<1>1. c \in Nat /\ size[t] \in Nat /\ Slot(c) \in Nat
  BY CopyAt, SlotRange, ParamFacts, SMT
<1>2. j \in Nat /\ j < size[t] /\ Slot(c) + j = s /\ s < Capacity
  BY <1>1, ParamFacts, SMT
<1>3. Slot(c + j) = s
  BY <1>1, <1>2, SlotOfByte, SMT
<1> HIDE DEF j
<1>4. c + j \in Nat /\ c <= c + j /\ c + j < c + size[t]
  BY <1>1, <1>2, SMT
<1> QED BY <1>3, <1>4 DEF j

LEMMA CopyInStep ==
    ASSUME Inv, TypeOK', NEW w \in Threads, CopyIn(w)
    PROVE  Inv'
<1>0. TypeOK /\ View(w) /\ w \in Writers
  BY DEF Inv, CopyIn
<1>1. /\ policy' = policy /\ UNCHANGED cursors /\ given' = given
      /\ ub' = ub /\ size' = size /\ cursor' = cursor
      /\ \A u \in Threads \ {w} : Still(u)
      /\ pc[w] = "copy" /\ pc'[w] = "release"
  BY <1>0, Zenon DEF CopyIn, Goto, Still, TypeOK
<1>2. /\ head' = head /\ MultiIn' = MultiIn /\ WritePos' = WritePos
      /\ Multi(w)' = Multi(w) /\ Pos(w)' = Pos(w) /\ Base(w)' = Base(w) /\ Limit(w)' = Limit(w)
  BY <1>1, Zenon DEF cursors, MultiIn, MultiOut, WritePos, ReadPos, Multi, Pos, Base, Limit
<1>3. View(w)'
  BY <1>0, <1>1, <1>2 DEF View
<1>4. Ring' /\ OneUser' /\ (\A u \in Threads : View(u)')
  BY <1>1, <1>3, FixedCursors
<1>5. Apart'
  <2>1. \A u \in Threads : u \in Copying' => u \in Copying /\ cursor'[u] = cursor[u] /\ size'[u] = size[u]
    BY <1>1, Zenon DEF Still, Copying
  <2> QED BY <2>1, ApartStep DEF Inv
<1>6. OwnBytes' /\ Counted'
  <2>1. Unclaimed' \subseteq Unclaimed
    BY <1>1, <1>2, Zenon DEF Unclaimed, Still, Threads
  <2>2. \A v \in Writers : pc'[v] # "idle" => pc[v] # "idle" /\ ub'[v] = ub[v] /\ size'[v] = size[v]
    BY <1>1, Zenon DEF Still, Threads
  <2> QED BY <1>1, <1>2, <2>1, <2>2, BytesKeep
<1>7. Stored'
  <2> DEFINE c == cursor[w]
             n == size[w]
  <2>1. w \in Copying /\ c \in Nat /\ n \in Nat /\ n > 0 /\ head \in Nat /\ Slot(c) \in Nat
    BY <1>0, <1>1, CopyAt, Plain, SlotRange, ParamFacts, SMT DEF Copying
  <2>2. head <= c /\ c + n <= head + Capacity
    BY <1>0, <2>1, CopyAt, Plain, ParamFacts, SMT DEF Base, Limit, Inv, Ring
  <2>3. /\ DOMAIN data = 0 .. Capacity - 1
        /\ DOMAIN written = 0 .. MaxBytes - 1
    BY <1>0 DEF TypeOK
  <2> SUFFICES ASSUME NEW k \in 0 .. MaxBytes - 1, written'[k] # NoByte
               PROVE  k < head + Capacity /\ (head <= k => data'[Slot(k)] = written'[k])
    BY <1>2 DEF Stored
  <2>4. k \in Nat /\ Slot(k) \in 0 .. Capacity - 1
    BY ParamFacts, SlotRange, SMT
  <2>5. data'[Slot(k)] = IF Slot(k) - Slot(c) + 1 \in 1 .. n
                         THEN ub[w][Slot(k) - Slot(c) + 1] ELSE data[Slot(k)]
    BY <2>3, <2>4, Zenon DEF CopyIn
  <2>6. written'[k] = IF k \in c .. c + n - 1
                      THEN IF Inside(c, k - c + 1) THEN ub[w][k - c + 1] ELSE NoByte
                      ELSE written[k]
    BY <2>3, Zenon DEF CopyIn
  <2>7. CASE k \in c .. c + n - 1
    <3>1. Inside(c, k - c + 1) /\ written'[k] = ub[w][k - c + 1]
      BY <2>6, <2>7, Zenon
    <3>2. k - c \in Nat /\ Slot(c) + (k - c) < Capacity /\ c + (k - c) = k
      BY <2>1, <2>4, <2>7, <3>1, ParamFacts, SMT DEF Inside
    <3>3. Slot(k) = Slot(c) + (k - c)
      BY <2>1, <3>2, SlotOfByte
    <3>4. Slot(k) - Slot(c) + 1 = k - c + 1 /\ k - c + 1 \in 1 .. n
      BY <2>1, <2>4, <2>7, <3>3, SMT
    <3>5. data'[Slot(k)] = written'[k]
      BY <2>5, <3>1, <3>4
    <3> QED BY <2>1, <2>2, <2>4, <2>7, <3>5, ParamFacts, SMT
  <2>8. CASE k \notin c .. c + n - 1
    <3>1. written'[k] = written[k]
      BY <2>6, <2>8, Zenon
    <3>2. k < head + Capacity /\ (head <= k => data[Slot(k)] = written[k])
      BY <3>1 DEF Inv, Stored
    <3>3. ASSUME head <= k PROVE Slot(k) - Slot(c) + 1 \notin 1 .. n
      <4> SUFFICES ASSUME Slot(k) - Slot(c) + 1 \in 1 .. n PROVE FALSE
        OBVIOUS
      <4> DEFINE q == c + (Slot(k) - Slot(c))
      <4>1. Slot(k) - Slot(c) \in 0 .. size[w] - 1
        BY <2>1, <2>4, ParamFacts, SMT
      <4>2. q \in Nat /\ Slot(q) = Slot(k) /\ c <= q /\ q < c + n
        BY <2>1, <2>4, <4>1, SpanIs
      <4> HIDE DEF q
      <4>3. q # k
        BY <2>1, <2>4, <2>8, <4>2, SMT
      <4>4. (q < k => k < q + Capacity) /\ (k < q => q < k + Capacity)
        BY <2>1, <2>2, <2>4, <3>2, <3>3, <4>2, ParamFacts, SMT
      <4>5. CASE q < k
        BY <2>4, <4>2, <4>4, <4>5, SlotsDiffer
      <4>6. CASE k < q
        BY <2>4, <4>2, <4>4, <4>6, SlotsDiffer
      <4> QED BY <2>4, <4>2, <4>3, <4>5, <4>6, SMT
    <3> QED BY <2>5, <3>1, <3>2, <3>3, Zenon
  <2> QED BY <2>7, <2>8
<1> QED BY <1>4, <1>5, <1>6, <1>7 DEF Inv

\* A piece is handed over when everything before it has been.
LEMMA ReleaseFacts ==
    ASSUME Inv, NEW t \in Threads, Release(t)
    PROVE  /\ t \in Copying /\ Base(t) = cursor[t]
           /\ Plus32(Base(t), size[t]) = Base(t) + size[t]
<1>1. t \in Copying
  BY DEF Release, Copying
<1>2. Base(t) = cursor[t]
  BY <1>1, CopyAt DEF Release, Base
<1> QED BY <1>1, <1>2, CopyAt, PlainPlus

LEMMA ReleaseStep ==
    ASSUME Inv, TypeOK', NEW t \in Threads, Release(t)
    PROVE  Inv'
<1>0. TypeOK
  BY DEF Inv
<1>1. /\ policy' = policy /\ data' = data /\ written' = written /\ given' = given
      /\ write_cursor' = write_cursor /\ read_cursor' = read_cursor
      /\ \A u \in Threads \ {t} : Still(u) /\ ub'[u] = ub[u]
      /\ pc[t] = "release" /\ pc'[t] = "idle"
  BY <1>0, Zenon DEF Release, Return, Goto, Still, TypeOK
<1>2. /\ t \in Copying /\ Base(t) = cursor[t]
      /\ Plus32(Base(t), size[t]) = Base(t) + size[t]
  BY ReleaseFacts
<1>3. /\ cursor[t] \in Nat /\ size[t] \in Nat /\ size[t] > 0
      /\ cursor[t] + size[t] <= Limit(t)
      /\ IF Multi(t) THEN cursor[t] + size[t] <= Pos(t) ELSE cursor[t] = Base(t)
  BY <1>2, CopyAt
<1>4. /\ \A u \in Threads : Multi(u)' = Multi(u)
      /\ MultiIn' = MultiIn /\ MultiOut' = MultiOut
  BY <1>1, Zenon DEF Multi, MultiIn, MultiOut
<1>5. /\ t \in Writers => tail' = cursor[t] + size[t] /\ tail = cursor[t] /\ head' = head
      /\ t \notin Writers => head' = cursor[t] + size[t] /\ head = cursor[t] /\ tail' = tail
  BY <1>2, Zenon DEF Release, Base
<1>6. Ring'
  <2>1. CASE t \in Writers /\ MultiIn
    <3>1. WritePos' = WritePos /\ (MultiOut => ReadPos' = ReadPos) /\ cursor[t] + size[t] <= WritePos
      BY <1>1, <1>3, <1>4, <2>1, Zenon DEF WritePos, ReadPos, Multi, Pos
    <3>2. ReadPos' = ReadPos
      BY <1>1, <1>4, <1>5, <2>1, Zenon DEF ReadPos
    <3> QED BY <1>3, <1>5, <2>1, <3>1, <3>2, Plain, ParamFacts, SMT DEF Inv, Ring
  <2>2. CASE t \in Writers /\ ~MultiIn
    <3>1. WritePos' = tail' /\ ReadPos' = ReadPos
      BY <1>1, <1>4, <1>5, <2>2, Zenon DEF WritePos, ReadPos
    <3> QED BY <1>3, <1>5, <2>2, <3>1, Plain, ParamFacts, SMT DEF Inv, Ring, Limit
  <2>3. CASE t \notin Writers /\ MultiOut
    <3>1. WritePos' = WritePos /\ ReadPos' = ReadPos /\ cursor[t] + size[t] <= ReadPos
      BY <1>1, <1>3, <1>4, <1>5, <2>3, Zenon DEF WritePos, ReadPos, Multi, Pos
    <3> QED BY <1>3, <1>5, <2>3, <3>1, Plain, ParamFacts, SMT DEF Inv, Ring
  <2>4. CASE t \notin Writers /\ ~MultiOut
    <3>1. WritePos' = WritePos /\ ReadPos' = head'
      BY <1>1, <1>4, <1>5, <2>4, Zenon DEF WritePos, ReadPos
    <3> QED BY <1>3, <1>5, <2>4, <3>1, Plain, ParamFacts, SMT DEF Inv, Ring, Limit
  <2> QED BY <2>1, <2>2, <2>3, <2>4
<1>7. ASSUME NEW u \in Threads, u # t PROVE View(u)'
  <2>1. View(u) /\ Still(u)
    BY <1>1, <1>7 DEF Inv
  <2>2. /\ cursor[u] \in Nat /\ size[u] \in Nat
        /\ head \in Nat /\ tail \in Nat /\ Capacity \in Nat
        /\ write_cursor \in Nat /\ read_cursor \in Nat
    BY <1>0, ThreadTypes, ParamFacts
  <2>3. Limit(u) <= Limit(u)' /\ Pos(u) <= Pos(u)'
    BY <1>1, <1>3, <1>4, <1>5, <2>2, SMT DEF Limit, Pos, WritePos, ReadPos
  <2>4. CASE SameSide(t, u)
    <3>1. pc[u] # "idle" => Multi(u)
      BY <1>1, <1>7, <2>4, Zenon DEF Inv, OneUser, SameSide, Multi
    <3>2. pc[u] \in {"copy", "release"} => Base(u)' <= cursor[u]
      <4> SUFFICES ASSUME pc[u] \in {"copy", "release"} PROVE Base(u)' <= cursor[u]
        OBVIOUS
      <4>1. u \in Copying
        BY DEF Copying
      <4>2. cursor[t] + size[t] <= cursor[u] \/ cursor[u] + size[u] <= cursor[t]
        BY <1>2, <1>7, <2>4, <4>1 DEF Inv, Apart
      <4>3. Base(u) <= cursor[u] /\ size[u] > 0 /\ Base(u) = cursor[t]
        BY <1>2, <2>4, <4>1, CopyAt DEF SameSide, Base
      <4>4. cursor[t] + size[t] <= cursor[u]
        BY <1>3, <2>2, <4>2, <4>3, SMT
      <4> QED BY <1>5, <2>4, <4>4 DEF SameSide, Base
    <3> QED BY <1>0, <1>1, <2>1, <2>3, <3>1, <3>2, StillView
  <2>5. CASE ~SameSide(t, u)
    <3>1. Base(u)' = Base(u)
      BY <1>5, <2>5 DEF SameSide, Base
    <3>2. pc[u] \in {"copy", "release"} => Base(u)' <= cursor[u]
      BY <2>1, <3>1 DEF View
    <3> QED BY <1>0, <1>1, <2>1, <2>3, <3>1, <3>2, StillView
  <2> QED BY <2>4, <2>5
<1>8. \A u \in Threads : View(u)'
  BY <1>1, <1>7 DEF View
<1>9. OneUser'
  BY <1>1, OneUserStep DEF Inv, Still
<1>10. Apart'
  <2>1. \A u \in Threads : u \in Copying' => u \in Copying /\ cursor'[u] = cursor[u] /\ size'[u] = size[u]
    BY <1>1, Zenon DEF Still, Copying
  <2> QED BY <2>1, ApartStep DEF Inv
<1>11. Stored'
  <2> SUFFICES ASSUME NEW k \in 0 .. MaxBytes - 1, written[k] # NoByte
               PROVE  k < head' + Capacity /\ (head' <= k => data[Slot(k)] = written[k])
    BY <1>1 DEF Stored
  <2>1. k < head + Capacity /\ (head <= k => data[Slot(k)] = written[k])
    BY DEF Inv, Stored
  <2>2. head \in Nat /\ head' \in Nat /\ head <= head'
    BY <1>3, <1>5, Plain, SMT
  <2> QED BY <2>1, <2>2, ParamFacts, SMT
<1>12. OwnBytes' /\ Counted'
  <2>1. \A v \in Writers : pc'[v] # "idle" => pc[v] # "idle" /\ ub'[v] = ub[v] /\ size'[v] = size[v]
    BY <1>1, Zenon DEF Still, Threads
  <2>2. Unclaimed' \subseteq Unclaimed \ {t}
    BY <1>1, <1>4, Zenon DEF Unclaimed, Still, Threads
  <2>3. CASE t \in Writers /\ ~MultiIn
    <3>1. t \in Unclaimed
      BY <1>1, <2>3 DEF Unclaimed
    <3>2. WritePos' = WritePos + size[t]
      BY <1>4, <1>5, <2>3, Zenon DEF WritePos
    <3> QED BY <1>1, <2>1, <2>2, <3>1, <3>2, BytesTake
  <2>4. CASE ~(t \in Writers /\ ~MultiIn)
    <3>1. WritePos' = WritePos
      BY <1>1, <1>4, <1>5, <2>4, Zenon DEF WritePos
    <3> QED BY <1>1, <2>1, <2>2, <3>1, BytesKeep
  <2> QED BY <2>3, <2>4
<1> QED BY <1>6, <1>8, <1>9, <1>10, <1>11, <1>12 DEF Inv

\* A buffer nobody uses, with all cursors at 0.
AtRest ==
    /\ \A t \in Threads : pc[t] = "idle"
    /\ head = 0 /\ tail = 0 /\ write_cursor = 0 /\ read_cursor = 0

LEMMA RestInv == TypeOK /\ AtRest /\ Stored => Inv
<1> SUFFICES ASSUME TypeOK, AtRest, Stored PROVE Inv
  OBVIOUS
<1>1. WritePos = 0 /\ ReadPos = 0
  BY DEF AtRest, WritePos, ReadPos
<1>2. Ring
  BY <1>1, ParamFacts, SMT DEF Ring, AtRest
<1>3. Unclaimed = {} /\ \A w \in Writers : pc[w] = "idle"
  BY DEF Unclaimed, AtRest, Threads
<1>4. Counted
  BY <1>1, <1>3, FS_EmptySet DEF Counted
<1> QED
  BY <1>2, <1>3, <1>4 DEF Inv, OwnBytes, OneUser, View, Apart, Copying, AtRest

LEMMA InvInit == Init => Inv
<1> SUFFICES ASSUME Init PROVE Inv
  OBVIOUS
<1>1. AtRest
  BY DEF Init, AtRest
<1>2. Stored
  BY DEF Init, Stored
<1> QED BY <1>1, <1>2, TypeInit, RestInv

LEMMA InvStep == Inv /\ [Next]_vars => Inv'
<1> SUFFICES ASSUME Inv, [Next]_vars PROVE Inv'
  OBVIOUS
<1>1. TypeOK'
  BY TypeStep DEF Inv
<1>2. ASSUME NEW w \in Writers, NEW n \in Sizes, WriteCall(w, n) PROVE Inv'
  BY <1>1, <1>2, WriteCallStep
<1>3. ASSUME NEW r \in Readers, NEW n \in Sizes, ReadCall(r, n) PROVE Inv'
  BY <1>1, <1>3, ReadCallStep
<1>4. ASSUME NEW t \in Threads, Step(t) PROVE Inv'
  <2>1. CASE Fits(t)
    BY <1>1, <2>1, QuietCallStep, FitsSingleStep
  <2>2. CASE LoadCursor(t) \/ Refused(t) \/ Retry(t) \/ CopyOut(t)
    BY <1>1, <2>2, QuietCallStep
  <2> QED BY <1>1, <1>4, <2>1, <2>2, ClaimStep, CopyInStep, ReleaseStep DEF Step
<1>5. CASE Reset
  <2>1. AtRest'
    BY <1>5 DEF Reset, AtRest
  <2>2. Stored'
    BY <1>5 DEF Reset, Stored
  <2> QED BY <1>1, <2>1, <2>2, RestInv, PTL
<1>6. ASSUME NEW mode \in Policies, SetMode(mode) PROVE Inv'
  <2>1. AtRest'
    BY <1>6 DEF SetMode, AtRest, cursors
  <2>2. Stored'
    BY <1>6 DEF SetMode, Inv, Stored, cursors
  <2> QED BY <1>1, <2>1, <2>2, RestInv, PTL
<1>7. CASE UNCHANGED vars
  <2>1. /\ \A t : Multi(t)' = Multi(t) /\ Pos(t)' = Pos(t) /\ Base(t)' = Base(t) /\ Limit(t)' = Limit(t)
        /\ WritePos' = WritePos /\ ReadPos' = ReadPos /\ Unclaimed' = Unclaimed /\ Copying' = Copying
        /\ \A t : Own(t)' = Own(t) /\ First(t)' = First(t)
    BY <1>7 DEF vars, rwbuf, cursors, MultiIn, MultiOut, WritePos, ReadPos, Multi, Pos, Base, Limit,
                Unclaimed, Copying, Own, First
  <2>2. /\ head' = head /\ tail' = tail /\ data' = data /\ written' = written /\ given' = given
        /\ pc' = pc /\ cursor' = cursor /\ size' = size
    BY <1>7 DEF vars, rwbuf, cursors
  <2>3. Ring' /\ OwnBytes' /\ Counted' /\ OneUser'
    BY <2>1, <2>2 DEF Inv, Ring, OwnBytes, Counted, OneUser, SameSide
  <2>4. (\A t \in Threads : View(t)') /\ Apart' /\ Stored'
    BY <2>1, <2>2 DEF Inv, View, Apart, Stored, SameSide
  <2> QED BY <1>1, <2>3, <2>4 DEF Inv
<1> QED BY <1>2, <1>3, <1>4, <1>5, <1>6, <1>7 DEF Next

(* At every station of a call, whatever the other threads have done since, *)
(* the ring is in order, the claimed pieces are inside it and apart, and   *)
(* the bytes between the cursors are those that were written.              *)
THEOREM RingInvariant == Spec => []Inv
  BY InvInit, InvStep, PTL DEF Spec

-----------------------------------------------------------------------------
(* What follows from the invariant                                         *)

LEMMA InvOrder == Inv => CursorOrder
<1> SUFFICES ASSUME Inv PROVE CursorOrder
  OBVIOUS
<1>1. /\ head \in Nat /\ tail \in Nat /\ ReadPos \in Nat /\ WritePos \in Nat
      /\ tail < Word /\ ReadPos < Word /\ WritePos < Word
      /\ head <= ReadPos /\ ReadPos <= tail /\ tail <= WritePos /\ WritePos <= head + Capacity
  BY Plain, ParamFacts, SMT DEF Inv, Ring
<1>2. head <= ReadPos /\ head <= tail /\ head <= WritePos
  BY <1>1, SMT
<1>3. /\ Minus32(ReadPos, head) = ReadPos - head
      /\ Minus32(tail, head) = tail - head
      /\ Minus32(WritePos, head) = WritePos - head
  BY <1>1, <1>2, PlainMinus
<1> QED BY <1>1, <1>3, ParamFacts, SMT DEF CursorOrder

(* For any number of threads, sizes and any capacity: interrupted claims   *)
(* never take more bytes than are free nor read more than was handed over. *)
THEOREM Order == Spec => []CursorOrder
  BY RingInvariant, InvOrder, PTL

LEMMA InvExclusive == Inv => ExclusiveBytes
<1> SUFFICES ASSUME Inv, NEW t \in Copying, NEW u \in Copying, t # u,
                    NEW s \in Span(t), s \in Span(u)
             PROVE  FALSE
  BY DEF ExclusiveBytes
<1>1. /\ s \in 0 .. Capacity - 1
      /\ s - Slot(cursor[t]) \in 0 .. size[t] - 1
      /\ s - Slot(cursor[u]) \in 0 .. size[u] - 1
  BY DEF Span
<1> DEFINE a == cursor[t] + (s - Slot(cursor[t]))
           b == cursor[u] + (s - Slot(cursor[u]))
<1>2. a \in Nat /\ Slot(a) = s /\ cursor[t] <= a /\ a < cursor[t] + size[t]
  BY <1>1, SpanIs
<1>3. b \in Nat /\ Slot(b) = s /\ cursor[u] <= b /\ b < cursor[u] + size[u]
  BY <1>1, SpanIs
<1> HIDE DEF a, b
<1>4. /\ cursor[t] \in Nat /\ size[t] \in Nat /\ cursor[u] \in Nat /\ size[u] \in Nat
      /\ Base(t) <= cursor[t] /\ cursor[t] + size[t] <= Limit(t)
      /\ Base(u) <= cursor[u] /\ cursor[u] + size[u] <= Limit(u)
  BY CopyAt
<1>5. /\ head \in Nat /\ tail \in Nat /\ Capacity \in Nat
      /\ head <= tail /\ tail <= head + Capacity
  BY Plain, ParamFacts, SMT DEF Inv, Ring
<1>6. (a < b => b < a + Capacity) /\ (b < a => a < b + Capacity)
  BY <1>2, <1>3, <1>4, <1>5, SMT DEF Base, Limit
<1>7. a # b
  <2>1. CASE SameSide(t, u)
    <3>1. cursor[t] + size[t] <= cursor[u] \/ cursor[u] + size[u] <= cursor[t]
      BY <2>1 DEF Inv, Apart
    <3> QED BY <1>2, <1>3, <1>4, <3>1, SMT
  <2>2. CASE ~SameSide(t, u)
    BY <1>2, <1>3, <1>4, <1>5, <2>2, SMT DEF SameSide, Base, Limit
  <2> QED BY <2>1, <2>2
<1>8. CASE a < b
  BY <1>2, <1>3, <1>6, <1>8, SlotsDiffer
<1>9. CASE b < a
  BY <1>2, <1>3, <1>6, <1>9, SlotsDiffer
<1> QED BY <1>2, <1>3, <1>7, <1>8, <1>9, SMT

(* No two memcpys in progress ever touch the same byte of the buffer.      *)
THEOREM Exclusive == Spec => []ExclusiveBytes
  BY RingInvariant, InvExclusive, PTL

LEMMA ReadsBackOfCopy ==
    ASSUME Inv, NEW r \in Readers, CopyOut(r), NEW i \in 1 .. size[r],
           Inside(cursor[r], i), written[cursor[r] + i - 1] # NoByte
    PROVE  ub'[r][i] = written[cursor[r] + i - 1]
<1> DEFINE c == cursor[r]
           k == cursor[r] + i - 1
<1>1. r \in Copying /\ r \notin Writers
  BY Params DEF CopyOut, Copying, Threads, Params
<1>2. /\ c \in Nat /\ size[r] \in Nat /\ Slot(c) \in Nat
      /\ head <= c /\ c + size[r] <= MaxBytes
  BY <1>1, CopyAt, SlotRange, ParamFacts, SMT DEF Base
<1>3. i - 1 \in Nat /\ Slot(c) + (i - 1) < Capacity /\ c + (i - 1) = k
  BY <1>2, ParamFacts, SMT DEF Inside
<1>4. Slot(k) = Slot(c) + (i - 1)
  BY <1>2, <1>3, SlotOfByte
<1>5. k \in 0 .. MaxBytes - 1 /\ head <= k
  BY <1>2, Plain, ParamFacts, SMT
<1>6. data[Slot(k)] = written[k]
  BY <1>5 DEF Inv, Stored
<1>7. ub'[r] = [j \in 1 .. size[r] |->
                   IF Inside(cursor[r], j) THEN data[Slot(cursor[r]) + j - 1] ELSE NoByte]
  <2>1. r \in DOMAIN ub
    BY <1>1, CopyAt DEF Inv, TypeOK
  <2> QED BY <2>1, Zenon DEF CopyOut
<1>8. ub'[r][i] = data[Slot(c) + i - 1]
  BY <1>7, Zenon
<1>9. Slot(c) + i - 1 = Slot(k)
  BY <1>2, <1>4, SMT
<1> QED BY <1>6, <1>8, <1>9

LEMMA ReadsBackStep == Inv /\ ReadsBack /\ [Next]_vars => ReadsBack'
<1> SUFFICES ASSUME Inv, ReadsBack, [Next]_vars,
                    NEW r \in Readers, pc'[r] = "release", NEW i \in 1 .. size'[r],
                    Inside(cursor[r], i)', (written[cursor[r] + i - 1])' # NoByte
             PROVE  ub'[r][i] = (written[cursor[r] + i - 1])'
  BY DEF ReadsBack
<1>0. TypeOK /\ r \in Threads /\ r \notin Writers
  BY Params DEF Inv, Threads, Params
<1>1. CASE CopyOut(r)
  <2>1. cursor' = cursor /\ size' = size /\ written' = written
    BY <1>1 DEF CopyOut
  <2>2. i \in 1 .. size[r] /\ Inside(cursor[r], i) /\ written[cursor[r] + i - 1] # NoByte
    BY <2>1 DEF Inside, Slot
  <2> QED BY <1>1, <2>1, <2>2, ReadsBackOfCopy
<1>2. CASE /\ pc[r] = "release" /\ ub'[r] = ub[r]
           /\ cursor'[r] = cursor[r] /\ size'[r] = size[r]
           /\ written'[cursor[r] + i - 1] = written[cursor[r] + i - 1]
  BY <1>2 DEF ReadsBack, Inside, Slot
<1>3. ASSUME NEW t \in Threads, CopyIn(t) PROVE ub'[r][i] = (written[cursor[r] + i - 1])'
  <2>1. /\ t \in Writers /\ t \in Copying
        /\ pc[r] = "release" /\ ub' = ub /\ cursor' = cursor /\ size' = size
    BY <1>0, <1>3, Zenon DEF CopyIn, Goto, TypeOK, Copying
  <2>2. r \in Copying
    BY <1>0, <2>1 DEF Copying
  <2>3. /\ cursor[r] \in Nat /\ size[r] \in Nat
        /\ cursor[r] + size[r] <= tail /\ cursor[r] + size[r] <= MaxBytes
    BY <1>0, <2>2, CopyAt DEF Limit
  <2>4. cursor[t] \in Nat /\ tail <= cursor[t] /\ tail \in Nat
    BY <2>1, CopyAt, ThreadTypes, <1>0 DEF Base
  <2> DEFINE k == cursor[r] + i - 1
  <2>5. k \in 0 .. MaxBytes - 1 /\ k < cursor[t]
    BY <2>1, <2>3, <2>4, ParamFacts, SMT
  <2> HIDE DEF k
  <2>6. size[t] \in Nat
    BY <1>0, ThreadTypes
  <2>7. k \notin cursor[t] .. cursor[t] + size[t] - 1
    BY <2>4, <2>5, <2>6, ParamFacts, SMT
  <2>8. k \in DOMAIN written
    BY <1>0, <2>5 DEF TypeOK
  <2>9. written'[k] = written[k]
    BY <1>3, <2>7, <2>8, Zenon DEF CopyIn
  <2> QED BY <1>2, <2>1, <2>9 DEF k
<1>4. ASSUME NEW t \in Threads, Step(t) PROVE ub'[r][i] = (written[cursor[r] + i - 1])'
  <2>1. CASE t = r /\ ~CopyIn(t) /\ ~CopyOut(t)
    BY <1>0, <1>4, <2>1, Zenon
       DEF Step, LoadCursor, Refused, Fits, Claim, Retry, Release, Return, Goto, TypeOK
  <2>2. CASE t # r /\ ~CopyIn(t)
    <3>1. /\ pc'[r] = pc[r] /\ ub'[r] = ub[r] /\ cursor'[r] = cursor[r] /\ size'[r] = size[r]
          /\ written' = written
      BY <1>0, <1>4, <2>2, Zenon
         DEF Step, LoadCursor, Refused, Fits, Claim, Retry, CopyOut, Release, Return, Goto, TypeOK
    <3> QED BY <1>2, <3>1
  <2> QED BY <1>1, <1>3, <1>4, <2>1, <2>2
<1>5. ASSUME NEW t \in Threads, NEW n \in Sizes, WriteCall(t, n) \/ ReadCall(t, n)
      PROVE  ub'[r][i] = (written[cursor[r] + i - 1])'
  <2>1. pc'[t] = "load" /\ t # r
    BY <1>0, <1>5, Zenon DEF WriteCall, ReadCall, Goto, TypeOK
  <2>2. /\ pc'[r] = pc[r] /\ ub'[r] = ub[r] /\ cursor'[r] = cursor[r] /\ size'[r] = size[r]
        /\ written' = written
    BY <1>0, <1>5, <2>1, Zenon DEF WriteCall, ReadCall, Goto, TypeOK
  <2> QED BY <1>2, <2>2
<1>6. CASE Reset \/ \E mode \in Policies : SetMode(mode)
  BY <1>0, <1>6 DEF Reset, SetMode
<1>7. CASE UNCHANGED vars
  BY <1>2, <1>7 DEF vars
<1> QED BY <1>4, <1>5, <1>6, <1>7 DEF Next, Threads

(* A read never returns bytes of another write, of an unfinished write, or *)
(* bytes overwritten under its memcpy: inside the buffer it returns what   *)
(* was written at those positions of the stream.                           *)
THEOREM ReadsWhatWasWritten == Spec => []ReadsBack
<1>1. Init => ReadsBack
  BY DEF Init, ReadsBack, Threads
<1>2. Inv /\ ReadsBack /\ [Next]_vars => ReadsBack'
  BY ReadsBackStep
<1> QED BY <1>1, <1>2, RingInvariant, PTL DEF Spec

LEMMA RefusalStep ==
    ASSUME Inv, [Next]_vars, NEW t \in Threads, pc[t] = "test", pc'[t] = "idle"
    PROVE  size[t] > Room(t, Pos(t))
<1>0. TypeOK /\ View(t)
  BY DEF Inv
<1>1. Refused(t)
  <2>1. ASSUME NEW u \in Threads, Step(u) PROVE Refused(t)
    BY <1>0, <2>1, Zenon
       DEF Step, LoadCursor, Refused, Fits, Claim, Retry, CopyIn, CopyOut, Release, Return, Goto, TypeOK
  <2>2. ASSUME NEW u \in Threads, NEW n \in Sizes, WriteCall(u, n) \/ ReadCall(u, n) PROVE FALSE
    BY <1>0, <2>2, Zenon DEF WriteCall, ReadCall, Admitted, Goto, TypeOK
  <2>3. ~Reset /\ ~(\E mode \in Policies : SetMode(mode)) /\ ~UNCHANGED vars
    BY DEF Reset, SetMode, vars
  <2> QED BY <2>1, <2>2, <2>3 DEF Next, Threads
<1>2. /\ cursor[t] \in Nat /\ size[t] \in Nat /\ Pos(t) \in Nat /\ Limit(t) \in Nat
      /\ cursor[t] <= Pos(t)
  BY <1>0, ThreadTypes DEF View
<1>3. Room(t, cursor[t]) = Limit(t) - cursor[t] /\ Room(t, Pos(t)) = Limit(t) - Pos(t)
  BY <1>2, RoomIs, SMT
<1>4. size[t] > Room(t, cursor[t])
  BY <1>1 DEF Refused, TooLong
<1> QED BY <1>2, <1>3, <1>4, SMT

(* A call returns 0 only when its piece did not fit at that moment: that   *)
(* its cursor may be an old one by then never refuses a piece that fits.   *)
THEOREM Refusals == Spec => RefusedGenuinely
<1>1. Inv /\ [Next]_vars =>
          [\A t \in Threads : pc[t] = "test" /\ pc'[t] = "idle" => size[t] > Room(t, Pos(t))]_vars
  BY RefusalStep
<1> QED BY <1>1, RingInvariant, PTL DEF Spec, RefusedGenuinely
=============================================================================
