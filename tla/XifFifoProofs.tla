--------------------------- MODULE XifFifoProofs ---------------------------
(* Proofs about XifFifo.                                                   *)
EXTENDS XifFifoInv, Lemmas

(* Positions less than a ring-full apart have different slots: the reason  *)
(* why xif_fifo_get_datum may reduce a cursor modulo the capacity.         *)
LEMMA SlotsDiffer ==
    ASSUME NEW a \in Nat, NEW b \in Nat, a < b, b < a + Capacity
    PROVE  Slot(a) # Slot(b)
<1>1. Capacity \in Nat /\ Capacity > 0
  BY Params, SMT DEF Params
<1> QED BY <1>1, ResiduesDiffer DEF Slot

LEMMA SlotRange ==
    ASSUME NEW a \in Nat
    PROVE  Slot(a) \in 0 .. Capacity - 1
  BY Params, SMT DEF Params, Slot

LEMMA Next32Range ==
    ASSUME NEW a \in 0 .. Word - 1
    PROVE  Next32(a) \in 0 .. Word - 1
  BY Params, SMT DEF Params, Next32

-----------------------------------------------------------------------------
(* Type correctness needs no bound on the pushes: cursors wrap.            *)

LEMMA TypeInit == Init => TypeOK
  BY Params, SMT DEF Init, TypeOK, PcOK, Params, Threads, Datums, Policies

\* What a thread's step does to the labels.
LEMMA GotoPush ==
    ASSUME PcOK, NEW p \in Producers, NEW l \in PushPC \cup {"idle"}, Goto(p, l)
    PROVE  PcOK'
  BY Params, SMT DEF Params, PcOK, Goto, Threads

LEMMA GotoPop ==
    ASSUME PcOK, NEW c \in Consumers, NEW l \in PopPC \cup {"idle"}, Goto(c, l)
    PROVE  PcOK'
  BY Params, SMT DEF Params, PcOK, Goto, Threads

LEMMA PushGoes ==
    ASSUME NEW p \in Producers, PushCall(p) \/ PushStep(p)
    PROVE  \E l \in PushPC \cup {"idle"} : Goto(p, l)
<1> USE DEF PushPC
<1>1. CASE PushCall(p)
  BY <1>1 DEF PushCall
<1>2. CASE LoadWriteCursor(p)
  BY <1>2 DEF LoadWriteCursor
<1>3. CASE FullLoad(p)
  BY <1>3 DEF FullLoad
<1>4. CASE PushFull(p)
  BY <1>4 DEF PushFull, Return, ReturnPush
<1>5. CASE PushNotFull(p)
  BY <1>5 DEF PushNotFull
<1>6. CASE ClaimWrite(p)
  BY <1>6 DEF ClaimWrite
<1>7. CASE RetryWrite(p)
  BY <1>7 DEF RetryWrite
<1>8. CASE CopyIn(p)
  BY <1>8 DEF CopyIn
<1>9. CASE ReleaseWrite(p)
  BY <1>9 DEF ReleaseWrite, Return, ReturnPush
<1> QED BY <1>1, <1>2, <1>3, <1>4, <1>5, <1>6, <1>7, <1>8, <1>9 DEF PushStep

LEMMA PopGoes ==
    ASSUME NEW c \in Consumers, PopCall(c) \/ PopStep(c)
    PROVE  \E l \in PopPC \cup {"idle"} : Goto(c, l)
<1> USE DEF PopPC
<1>1. CASE PopCall(c)
  BY <1>1 DEF PopCall
<1>2. CASE LoadReadCursor(c)
  BY <1>2 DEF LoadReadCursor
<1>3. CASE EmptyLoad(c)
  BY <1>3 DEF EmptyLoad
<1>4. CASE PopEmpty(c)
  BY <1>4 DEF PopEmpty, Return
<1>5. CASE PopNotEmpty(c)
  BY <1>5 DEF PopNotEmpty
<1>6. CASE ClaimRead(c)
  BY <1>6 DEF ClaimRead
<1>7. CASE RetryRead(c)
  BY <1>7 DEF RetryRead
<1>8. CASE CopyOut(c)
  BY <1>8 DEF CopyOut
<1>9. CASE ReleaseRead(c)
  BY <1>9 DEF ReleaseRead, Return
<1> QED BY <1>1, <1>2, <1>3, <1>4, <1>5, <1>6, <1>7, <1>8, <1>9 DEF PopStep

LEMMA PcStep ==
    ASSUME PcOK, [Next]_vars
    PROVE  PcOK'
<1>1. ASSUME NEW p \in Producers, PushCall(p) \/ PushStep(p)
      PROVE  PcOK'
  BY <1>1, PushGoes, GotoPush
<1>2. ASSUME NEW c \in Consumers, PopCall(c) \/ PopStep(c)
      PROVE  PcOK'
  BY <1>2, PopGoes, GotoPop
<1>3. CASE Reset
  BY <1>3 DEF Reset, PcOK
<1>4. ASSUME NEW mode \in Policies, SetMode(mode) PROVE PcOK'
  BY <1>4 DEF SetMode, PcOK
<1>5. CASE UNCHANGED vars
  BY <1>5 DEF vars, PcOK
<1> QED
  BY <1>1, <1>2, <1>3, <1>4, <1>5 DEF Next

LEMMA TypeStep == TypeOK /\ [Next]_vars => TypeOK'
<1> SUFFICES ASSUME TypeOK, [Next]_vars PROVE TypeOK'
  OBVIOUS
<1> USE Params DEF Params, Threads, Datums
<1>0. PcOK'
  BY PcStep DEF TypeOK
<1>1. ASSUME NEW p \in Producers, PushCall(p) PROVE TypeOK'
  BY <1>0, <1>1, SMT DEF TypeOK, PushCall, fifo
<1>2. ASSUME NEW p \in Producers, PushStep(p) PROVE TypeOK'
  <2> USE <1>0 DEF TypeOK, Return, ReturnPush, fifo, cursors
  <2>1. CASE LoadWriteCursor(p)
    BY <2>1, SMT DEF LoadWriteCursor, MultiIn
  <2>2. CASE FullLoad(p)
    BY <2>2, SMT DEF FullLoad, MultiIn
  <2>3. CASE PushFull(p)
    BY <2>3, SMT DEF PushFull
  <2>4. CASE PushNotFull(p)
    BY <2>4, SMT DEF PushNotFull
  <2>5. CASE ClaimWrite(p)
    <3>1. Next32(cursor[p]) \in 0 .. Word - 1
      BY Next32Range, Zenon DEF TypeOK
    <3> QED BY <2>5, <3>1, SMT DEF ClaimWrite
  <2>6. CASE RetryWrite(p)
    BY <2>6, SMT DEF RetryWrite
  <2>7. CASE CopyIn(p)
    <3>1. Slot(cursor[p]) \in 0 .. Capacity - 1
      BY SlotRange DEF TypeOK
    <3> QED BY <2>7, <3>1, SMT DEF CopyIn
  <2>8. CASE ReleaseWrite(p)
    <3>1. Next32(tail) \in 0 .. Word - 1
      BY Next32Range, Zenon DEF TypeOK
    <3> QED BY <2>8, <3>1, SMT DEF ReleaseWrite, MultiIn
  <2> QED
    BY <1>2, <2>1, <2>2, <2>3, <2>4, <2>5, <2>6, <2>7, <2>8 DEF PushStep
<1>3. ASSUME NEW c \in Consumers, PopCall(c) PROVE TypeOK'
  BY <1>0, <1>3, SMT DEF TypeOK, PopCall, fifo
<1>4. ASSUME NEW c \in Consumers, PopStep(c) PROVE TypeOK'
  <2> USE <1>0 DEF TypeOK, Return, fifo, cursors
  <2>1. CASE LoadReadCursor(c)
    BY <2>1, SMT DEF LoadReadCursor, MultiOut
  <2>2. CASE EmptyLoad(c)
    BY <2>2, SMT DEF EmptyLoad, MultiOut
  <2>3. CASE PopEmpty(c)
    BY <2>3, SMT DEF PopEmpty
  <2>4. CASE PopNotEmpty(c)
    BY <2>4, SMT DEF PopNotEmpty
  <2>5. CASE ClaimRead(c)
    <3>1. Next32(cursor[c]) \in 0 .. Word - 1
      BY Next32Range, Zenon DEF TypeOK
    <3> QED BY <2>5, <3>1, SMT DEF ClaimRead
  <2>6. CASE RetryRead(c)
    BY <2>6, SMT DEF RetryRead
  <2>7. CASE CopyOut(c)
    <3>1. Slot(cursor[c]) \in 0 .. Capacity - 1
      BY SlotRange DEF TypeOK
    <3> QED BY <2>7, <3>1, SMT DEF CopyOut
  <2>8. CASE ReleaseRead(c)
    <3>1. Next32(head) \in 0 .. Word - 1
      BY Next32Range, Zenon DEF TypeOK
    <3> QED BY <2>8, <3>1, SMT DEF ReleaseRead, MultiOut
  <2> QED
    BY <1>4, <2>1, <2>2, <2>3, <2>4, <2>5, <2>6, <2>7, <2>8 DEF PopStep
<1>5. CASE Reset
  BY <1>0, <1>5, SMT DEF TypeOK, Reset
<1>6. ASSUME NEW mode \in Policies, SetMode(mode) PROVE TypeOK'
  BY <1>0, <1>6, SMT DEF TypeOK, SetMode, cursors
<1>7. CASE UNCHANGED vars
  BY <1>0, <1>7, SMT DEF TypeOK, vars, fifo
<1> QED
  BY <1>1, <1>2, <1>3, <1>4, <1>5, <1>6, <1>7 DEF Next

(* Whatever the threads do, cursors stay 32-bit words, and slots and       *)
(* buffers hold datums: no call leaves the function it is in.              *)
THEOREM TypeCorrect == Spec => []TypeOK
  BY TypeInit, TypeStep, PTL DEF Spec

-----------------------------------------------------------------------------
(* While no cursor wraps, uint32_t arithmetic is arithmetic.               *)

LEMMA PlainNext ==
    ASSUME NoWrap, NEW a \in 0 .. MaxPush
    PROVE  Next32(a) = a + 1
<1>1. a + 1 \in Nat /\ a + 1 < Word /\ Word \in Nat
  BY Params, SMT DEF Params, NoWrap
<1> QED BY <1>1, SmallMod DEF Next32

LEMMA PlainMinus ==
    ASSUME NoWrap, NEW a \in 0 .. MaxPush, NEW b \in 0 .. MaxPush, b <= a
    PROVE  Minus32(a, b) = a - b
<1>1. a - b \in Nat /\ a - b < Word /\ Word \in Nat
  BY Params, SMT DEF Params, NoWrap
<1> QED BY <1>1, SmallMod DEF Minus32

\* A head that has overtaken the other operand is not mistaken for a full ring.
LEMMA FullMeans ==
    ASSUME NoWrap, NEW a \in 0 .. MaxPush, NEW b \in 0 .. MaxPush
    PROVE  Minus32(a, b) = Capacity <=> a = b + Capacity
<1>1. CASE b <= a
  BY <1>1, PlainMinus, Params, SMT DEF Params
<1>2. CASE a < b
  <2>1. Minus32(a, b) = a - b + Word
    BY <1>2, NegativeMod, Params, SMT DEF Params, NoWrap, Minus32
  <2> QED BY <1>2, <2>1, Params, SMT DEF Params, NoWrap
<1> QED BY <1>1, <1>2, SMT

\* The cursors of a state that satisfies the invariant are plain numbers.
LEMMA Plain ==
    ASSUME NoWrap, TypeOK, Ring, Counted
    PROVE  /\ head \in 0 .. MaxPush /\ tail \in 0 .. MaxPush
           /\ ReadPos \in 0 .. MaxPush /\ WritePos \in 0 .. MaxPush
           /\ MaxPush \in Nat /\ Capacity \in Nat /\ Capacity > 0
           /\ MaxPush < Word - 1
<1>1. Cardinality(Pending) \in Nat
  BY FS_CardinalityType DEF Counted
<1>2. /\ ReadPos \in 0 .. Word - 1 /\ WritePos \in 0 .. Word - 1
      /\ head \in 0 .. Word - 1 /\ tail \in 0 .. Word - 1 /\ pushes \in 0 .. MaxPush
  BY DEF TypeOK, ReadPos, WritePos
<1> QED
  BY <1>1, <1>2, Params, SMT DEF Ring, Counted, Params, NoWrap

\* Where the copies in progress are.
LEMMA WriterAt ==
    ASSUME Inv, NEW q \in Producers, pc[q] \in {"w_copy", "w_release"}
    PROVE  /\ cursor[q] \in Nat /\ tail <= cursor[q] /\ cursor[q] < head + Capacity
           /\ IF MultiIn THEN cursor[q] < write_cursor ELSE cursor[q] = tail
<1>1. cursor[q] \in 0 .. Word - 1
  BY DEF Inv, TypeOK, Threads
<1>2. PushView(q)
  BY DEF Inv
<1> QED BY <1>1, <1>2, SMT DEF PushView

LEMMA ReaderAt ==
    ASSUME Inv, NEW d \in Consumers, pc[d] \in {"r_copy", "r_release"}
    PROVE  /\ cursor[d] \in Nat /\ head <= cursor[d] /\ cursor[d] < tail
           /\ IF MultiOut THEN cursor[d] < read_cursor ELSE cursor[d] = head
<1>1. cursor[d] \in 0 .. Word - 1
  BY DEF Inv, TypeOK, Threads
<1>2. PopView(d)
  BY DEF Inv
<1> QED BY <1>1, <1>2, SMT DEF PopView

-----------------------------------------------------------------------------
(* The views of the threads that do not move.                              *)

\* t's label and locals stay.
Still(t) == pc'[t] = pc[t] /\ cursor'[t] = cursor[t] /\ seen'[t] = seen[t]

LEMMA StillPush ==
    ASSUME TypeOK, TypeOK', NEW q \in Producers, PushView(q), Still(q),
           policy' = policy, head <= head', WritePos <= WritePos',
           pc[q] # "idle" => MultiIn \/ tail' = tail,
           pc[q] \in {"w_copy", "w_release"} => tail' <= cursor[q]
    PROVE  PushView(q)'
<1>1. /\ cursor[q] \in Nat /\ seen[q] \in Nat
      /\ head \in Nat /\ head' \in Nat /\ tail \in Nat /\ tail' \in Nat
      /\ write_cursor \in Nat /\ write_cursor' \in Nat
  BY SMT DEF TypeOK, Threads
<1>2. Capacity \in Nat /\ (MultiIn' <=> MultiIn)
  BY Params DEF Params, MultiIn
<1> USE <1>1, <1>2 DEF Still, PushView, WritePos
<1>3. CASE MultiIn
  BY <1>3, SMT
<1>4. CASE ~MultiIn
  BY <1>4, SMT
<1> QED BY <1>3, <1>4

LEMMA StillPop ==
    ASSUME TypeOK, TypeOK', NEW d \in Consumers, PopView(d), Still(d),
           policy' = policy, tail <= tail', ReadPos <= ReadPos',
           pc[d] # "idle" => MultiOut \/ head' = head,
           pc[d] \in {"r_copy", "r_release"} => head' <= cursor[d]
    PROVE  PopView(d)'
<1>1. /\ cursor[d] \in Nat /\ seen[d] \in Nat
      /\ head \in Nat /\ head' \in Nat /\ tail \in Nat /\ tail' \in Nat
      /\ read_cursor \in Nat /\ read_cursor' \in Nat
  BY SMT DEF TypeOK, Threads
<1>2. MultiOut' <=> MultiOut
  BY DEF MultiOut
<1> USE <1>1, <1>2 DEF Still, PopView, ReadPos
<1>3. CASE MultiOut
  BY <1>3, SMT
<1>4. CASE ~MultiOut
  BY <1>4, SMT
<1> QED BY <1>3, <1>4

-----------------------------------------------------------------------------
(* Steps that move no cursor.                                              *)

LEMMA LocalPush ==
    ASSUME NoWrap, Inv, TypeOK', NEW p \in Producers,
           UNCHANGED <<policy, cursors, pushes>>,
           pc[p] # "idle",
           \A t \in Threads \ {p} : Still(t),
           p \in Pending' => p \in Pending,
           PushView(p)',
           MultiIn /\ p \in Writing' => p \in Writing /\ cursor'[p] = cursor[p]
    PROVE  Inv'
<1>1. /\ policy' = policy /\ head' = head /\ tail' = tail
      /\ write_cursor' = write_cursor /\ read_cursor' = read_cursor /\ pushes' = pushes
      /\ ReadPos' = ReadPos /\ WritePos' = WritePos
      /\ (MultiIn' <=> MultiIn) /\ (MultiOut' <=> MultiOut)
  BY DEF cursors, ReadPos, WritePos, MultiIn, MultiOut
<1>2. /\ \A q \in Producers \ {p} : Still(q)
      /\ \A c \in Consumers : Still(c)
  BY Params, SMT DEF Params, Threads
<1>3. Ring'
  BY <1>1 DEF Inv, Ring
<1>4. Counted'
  <2>1. Pending' \subseteq Pending
    BY <1>1, <1>2 DEF Pending, Still
  <2>2. /\ IsFiniteSet(Pending') /\ Cardinality(Pending') <= Cardinality(Pending)
        /\ Cardinality(Pending') \in Nat /\ Cardinality(Pending) \in Nat
    BY <2>1, FS_Subset, FS_CardinalityType DEF Inv, Counted
  <2>3. WritePos \in Nat /\ pushes \in Nat
    BY Plain, Params, SMT DEF Inv, TypeOK, Params
  <2> QED BY <1>1, <2>2, <2>3, SMT DEF Inv, Counted
<1>5. OneIn'
  BY <1>1, <1>2 DEF Inv, OneIn, Still
<1>6. OneOut'
  BY <1>1, <1>2 DEF Inv, OneOut, Still
<1>7. ASSUME NEW q \in Producers PROVE PushView(q)'
  <2>1. CASE q = p
    BY <2>1
  <2>2. CASE q # p
    <3>1. pc[q] \in {"w_copy", "w_release"} => tail' <= cursor[q]
      BY <1>1 DEF Inv, PushView
    <3>2. head <= head' /\ WritePos <= WritePos'
      BY <1>1, Plain, SMT DEF Inv
    <3> QED BY <1>1, <1>2, <2>2, <3>1, <3>2, StillPush DEF Inv
  <2> QED BY <2>1, <2>2
<1>8. ASSUME NEW c \in Consumers PROVE PopView(c)'
  <2>1. pc[c] \in {"r_copy", "r_release"} => head' <= cursor[c]
    BY <1>1 DEF Inv, PopView
  <2>2. tail <= tail' /\ ReadPos <= ReadPos'
    BY <1>1, Plain, SMT DEF Inv
  <2> QED BY <1>1, <1>2, <2>1, <2>2, StillPop DEF Inv
<1>9. OwnPositions'
  <2>1. \A c, d \in Reading' : c # d => cursor'[c] # cursor'[d]
    BY <1>2 DEF Inv, OwnPositions, Reading, Still
  <2>2. \A q, r \in Writing' : q # r => cursor'[q] # cursor'[r]
    <3>1. CASE MultiIn
      BY <1>2, <3>1 DEF Inv, OwnPositions, Writing, Still
    <3>2. CASE ~MultiIn
      BY <1>1, <1>5, <3>2 DEF OneIn, Writing
    <3> QED BY <3>1, <3>2
  <2> QED BY <2>1, <2>2 DEF OwnPositions
<1> QED
  BY <1>3, <1>4, <1>5, <1>6, <1>7, <1>8, <1>9 DEF Inv

LEMMA LocalPop ==
    ASSUME NoWrap, Inv, TypeOK', NEW c \in Consumers,
           UNCHANGED <<policy, cursors, pushes>>,
           pc[c] # "idle" \/ MultiOut \/ (\A d \in Consumers : pc[d] = "idle"),
           \A t \in Threads \ {c} : Still(t),
           PopView(c)',
           MultiOut /\ c \in Reading' => c \in Reading /\ cursor'[c] = cursor[c]
    PROVE  Inv'
<1>1. /\ policy' = policy /\ head' = head /\ tail' = tail
      /\ write_cursor' = write_cursor /\ read_cursor' = read_cursor /\ pushes' = pushes
      /\ ReadPos' = ReadPos /\ WritePos' = WritePos
      /\ (MultiIn' <=> MultiIn) /\ (MultiOut' <=> MultiOut)
  BY DEF cursors, ReadPos, WritePos, MultiIn, MultiOut
<1>2. /\ \A d \in Consumers \ {c} : Still(d)
      /\ \A p \in Producers : Still(p)
  BY Params, SMT DEF Params, Threads
<1>3. Ring'
  BY <1>1 DEF Inv, Ring
<1>4. Counted'
  <2>1. Pending' = Pending
    BY <1>1, <1>2 DEF Pending, Still
  <2> QED BY <1>1, <2>1 DEF Inv, Counted
<1>5. OneIn'
  BY <1>1, <1>2 DEF Inv, OneIn, Still
<1>6. OneOut'
  BY <1>1, <1>2 DEF Inv, OneOut, Still
<1>7. ASSUME NEW p \in Producers PROVE PushView(p)'
  <2>1. pc[p] \in {"w_copy", "w_release"} => tail' <= cursor[p]
    BY <1>1 DEF Inv, PushView
  <2>2. head <= head' /\ WritePos <= WritePos'
    BY <1>1, Plain, SMT DEF Inv
  <2> QED BY <1>1, <1>2, <2>1, <2>2, StillPush DEF Inv
<1>8. ASSUME NEW d \in Consumers PROVE PopView(d)'
  <2>1. CASE d = c
    BY <2>1
  <2>2. CASE d # c
    <3>1. pc[d] \in {"r_copy", "r_release"} => head' <= cursor[d]
      BY <1>1 DEF Inv, PopView
    <3>2. tail <= tail' /\ ReadPos <= ReadPos'
      BY <1>1, Plain, SMT DEF Inv
    <3> QED BY <1>1, <1>2, <2>2, <3>1, <3>2, StillPop DEF Inv
  <2> QED BY <2>1, <2>2
<1>9. OwnPositions'
  <2>1. \A p, q \in Writing' : p # q => cursor'[p] # cursor'[q]
    BY <1>2 DEF Inv, OwnPositions, Writing, Still
  <2>2. \A d, e \in Reading' : d # e => cursor'[d] # cursor'[e]
    <3>1. CASE MultiOut
      BY <1>2, <3>1 DEF Inv, OwnPositions, Reading, Still
    <3>2. CASE ~MultiOut
      BY <1>1, <1>6, <3>2 DEF OneOut, Reading
    <3> QED BY <3>1, <3>2
  <2> QED BY <2>1, <2>2 DEF OwnPositions
<1> QED
  BY <1>3, <1>4, <1>5, <1>6, <1>7, <1>8, <1>9 DEF Inv

-----------------------------------------------------------------------------
(* The steps of xif_fifo_push.                                             *)

LEMMA PushCallInv ==
    ASSUME NoWrap, Inv, TypeOK', NEW p \in Producers, PushCall(p)
    PROVE  Inv'
<1>1. /\ policy' = policy /\ head' = head /\ tail' = tail
      /\ write_cursor' = write_cursor /\ read_cursor' = read_cursor
      /\ pushes' = pushes + 1
      /\ ReadPos' = ReadPos /\ WritePos' = WritePos
      /\ (MultiIn' <=> MultiIn) /\ (MultiOut' <=> MultiOut)
  BY DEF PushCall, fifo, ReadPos, WritePos, MultiIn, MultiOut
<1>2. /\ pc[p] = "idle" /\ pc'[p] = "w_load"
      /\ \A t \in Threads \ {p} : Still(t)
      /\ cursor' = cursor
  BY SMT DEF PushCall, Goto, Still, Inv, TypeOK, PcOK, Threads
<1>3. /\ \A q \in Producers \ {p} : Still(q)
      /\ \A c \in Consumers : Still(c)
  BY <1>2, Params, SMT DEF Params, Threads
<1>4. Ring'
  BY <1>1 DEF Inv, Ring
<1>5. Counted'
  <2>1. Pending' = Pending \cup {p} /\ p \notin Pending
    BY <1>1, <1>2, <1>3 DEF Pending, Still
  <2>2. /\ IsFiniteSet(Pending') /\ Cardinality(Pending') = Cardinality(Pending) + 1
        /\ Cardinality(Pending) \in Nat
    BY <2>1, FS_AddElement, FS_CardinalityType DEF Inv, Counted
  <2>3. WritePos \in Nat /\ pushes \in Nat
    BY Plain, Params, SMT DEF Inv, TypeOK, Params
  <2> QED BY <1>1, <2>2, <2>3, SMT DEF Inv, Counted
<1>6. OneIn'
  BY <1>1, <1>2, <1>3 DEF PushCall, OneIn, Still
<1>7. OneOut'
  BY <1>1, <1>3 DEF Inv, OneOut, Still
<1>8. ASSUME NEW q \in Producers PROVE PushView(q)'
  <2>1. CASE q = p
    BY <1>2, <2>1 DEF PushView
  <2>2. CASE q # p
    <3>1. pc[q] \in {"w_copy", "w_release"} => tail' <= cursor[q]
      BY <1>1 DEF Inv, PushView
    <3>2. head <= head' /\ WritePos <= WritePos'
      BY <1>1, Plain, SMT DEF Inv
    <3> QED BY <1>1, <1>3, <2>2, <3>1, <3>2, StillPush DEF Inv
  <2> QED BY <2>1, <2>2
<1>9. ASSUME NEW c \in Consumers PROVE PopView(c)'
  <2>1. pc[c] \in {"r_copy", "r_release"} => head' <= cursor[c]
    BY <1>1 DEF Inv, PopView
  <2>2. tail <= tail' /\ ReadPos <= ReadPos'
    BY <1>1, Plain, SMT DEF Inv
  <2> QED BY <1>1, <1>3, <2>1, <2>2, StillPop DEF Inv
<1>10. OwnPositions'
  BY <1>2, <1>3 DEF Inv, OwnPositions, Writing, Reading, Still
<1> QED
  BY <1>4, <1>5, <1>6, <1>7, <1>8, <1>9, <1>10 DEF Inv

LEMMA PushLocalInv ==
    ASSUME NoWrap, Inv, TypeOK', NEW p \in Producers,
           \/ LoadWriteCursor(p) \/ FullLoad(p) \/ PushFull(p) \/ PushNotFull(p)
           \/ RetryWrite(p) \/ CopyIn(p)
    PROVE  Inv'
<1> USE DEF Inv
<1>0. /\ p \in Threads /\ pc \in [Threads -> PushPC \cup PopPC \cup {"idle"}]
      /\ cursor \in [Threads -> 0 .. Word - 1] /\ seen \in [Threads -> 0 .. Word - 1]
      /\ cursor' \in [Threads -> 0 .. Word - 1] /\ seen' \in [Threads -> 0 .. Word - 1]
  BY DEF Threads, TypeOK, PcOK
<1>1. /\ head \in 0 .. MaxPush /\ WritePos \in 0 .. MaxPush /\ tail \in 0 .. MaxPush
      /\ Capacity \in Nat /\ MaxPush < Word - 1 /\ MaxPush \in Nat /\ Word \in Nat
  BY Plain, Params DEF Params
<1>2. PushView(p) /\ Ring
  OBVIOUS
<1>3. CASE LoadWriteCursor(p)
  <2>1. /\ UNCHANGED <<policy, cursors, pushes>>
        /\ pc[p] = "w_load" /\ pc'[p] = "w_cmp" /\ cursor'[p] = WritePos
        /\ \A t \in Threads \ {p} : Still(t)
    BY <1>0, <1>3, SMT DEF LoadWriteCursor, Goto, Still, WritePos, fifo, cursors
  <2>2. PushView(p)'
    BY <1>1, <2>1, SMT DEF PushView, WritePos, MultiIn, cursors
  <2>3. p \in Pending /\ p \notin Writing'
    BY <2>1 DEF Pending, Writing
  <2> QED BY <2>1, <2>2, <2>3, LocalPush
<1>4. CASE FullLoad(p)
  <2>1. /\ UNCHANGED <<policy, cursors, pushes>>
        /\ pc[p] = "w_cmp" /\ cursor'[p] = cursor[p]
        /\ \/ pc'[p] = "w_cmp_head" /\ seen'[p] = WritePos
           \/ pc'[p] = "w_cmp_cursor" /\ seen'[p] = head
        /\ \A t \in Threads \ {p} : Still(t)
    BY <1>0, <1>4, SMT DEF FullLoad, Goto, Still, WritePos, fifo, cursors
  <2>2. PushView(p)'
    BY <1>0, <1>1, <1>2, <2>1, SMT DEF PushView, Ring, WritePos, MultiIn, cursors
  <2>3. p \in Pending /\ p \notin Writing'
    BY <2>1 DEF Pending, Writing
  <2> QED BY <2>1, <2>2, <2>3, LocalPush
<1>5. CASE PushFull(p)
  <2>1. /\ UNCHANGED <<policy, cursors, pushes>>
        /\ pc[p] \in {"w_cmp_head", "w_cmp_cursor"} /\ pc'[p] = "idle"
        /\ \A t \in Threads \ {p} : Still(t)
    BY <1>0, <1>5, SMT DEF PushFull, FullSeen, ReturnPush, Return, Goto, Still, fifo, cursors
  <2>2. PushView(p)'
    BY <2>1 DEF PushView
  <2>3. p \notin Pending' /\ p \notin Writing'
    BY <2>1 DEF Pending, Writing
  <2> QED BY <2>1, <2>2, <2>3, LocalPush
<1>6. CASE PushNotFull(p)
  <2>1. /\ UNCHANGED <<policy, cursors, pushes>>
        /\ pc[p] \in {"w_cmp_head", "w_cmp_cursor"} /\ cursor'[p] = cursor[p]
        /\ pc'[p] = IF MultiIn THEN "w_cas" ELSE "w_copy"
        /\ \A t \in Threads \ {p} : Still(t)
    BY <1>0, <1>6, SMT DEF PushNotFull, Goto, Still, fifo, cursors
  <2>2. ~FullSeen(p)
    BY <1>6 DEF PushNotFull
  <2>3. cursor[p] = WritePos => cursor[p] < head + Capacity
    <3>1. CASE pc[p] = "w_cmp_head"
      <4>1. seen[p] \in 0 .. MaxPush /\ cursor[p] <= seen[p] /\ seen[p] <= WritePos
        BY <1>0, <1>1, <1>2, <3>1, SMT DEF PushView
      <4>2. seen[p] # head + Capacity
        BY <1>1, <2>2, <3>1, <4>1, FullMeans DEF FullSeen
      <4> QED BY <1>0, <1>1, <1>2, <4>1, <4>2, SMT DEF Ring
    <3>2. CASE pc[p] = "w_cmp_cursor"
      <4>1. seen[p] \in 0 .. MaxPush /\ seen[p] <= head /\ cursor[p] <= seen[p] + Capacity
        BY <1>0, <1>1, <1>2, <3>2, SMT DEF PushView
      <4>2. WritePos # seen[p] + Capacity
        BY <1>1, <2>2, <3>2, <4>1, FullMeans DEF FullSeen, WritePos
      <4> QED BY <1>0, <1>1, <4>1, <4>2, SMT
    <3> QED BY <2>1, <3>1, <3>2
  <2>4. cursor[p] <= WritePos /\ (MultiIn \/ cursor[p] = tail)
    BY <1>2, <2>1 DEF PushView
  <2>5. PushView(p)'
    <3>1. CASE MultiIn
      BY <2>1, <2>3, <2>4, <3>1 DEF PushView, WritePos, MultiIn, cursors
    <3>2. CASE ~MultiIn
      BY <1>1, <2>1, <2>3, <2>4, <3>2, SMT DEF PushView, WritePos, MultiIn, cursors
    <3> QED BY <3>1, <3>2
  <2>6. p \in Pending /\ (MultiIn => p \notin Writing')
    BY <2>1 DEF Pending, Writing
  <2> QED BY <2>1, <2>5, <2>6, LocalPush
<1>7. CASE RetryWrite(p)
  <2>1. /\ UNCHANGED <<policy, cursors, pushes>>
        /\ pc[p] = "w_cas" /\ pc'[p] = "w_load"
        /\ \A t \in Threads \ {p} : Still(t)
    BY <1>0, <1>7, SMT DEF RetryWrite, Goto, Still, fifo, cursors
  <2>2. PushView(p)'
    BY <2>1 DEF PushView
  <2>3. p \in Pending /\ p \notin Writing'
    BY <2>1 DEF Pending, Writing
  <2> QED BY <2>1, <2>2, <2>3, LocalPush
<1>8. CASE CopyIn(p)
  <2>1. /\ UNCHANGED <<policy, cursors, pushes>>
        /\ pc[p] = "w_copy" /\ pc'[p] = "w_release" /\ cursor'[p] = cursor[p]
        /\ \A t \in Threads \ {p} : Still(t)
    BY <1>0, <1>8, SMT DEF CopyIn, Goto, Still, cursors
  <2>2. PushView(p)'
    BY <1>2, <2>1 DEF PushView, WritePos, MultiIn, cursors
  <2>3. (p \in Pending' => p \in Pending) /\ p \in Writing
    BY <2>1 DEF Pending, Writing, MultiIn
  <2> QED BY <2>1, <2>2, <2>3, LocalPush
<1> QED
  BY <1>3, <1>4, <1>5, <1>6, <1>7, <1>8

\* Claiming position write_cursor: it is free, and nobody has claimed it.
LEMMA ClaimWriteInv ==
    ASSUME NoWrap, Inv, TypeOK', NEW p \in Producers, ClaimWrite(p)
    PROVE  Inv'
<1>0. /\ head \in 0 .. MaxPush /\ WritePos \in 0 .. MaxPush /\ tail \in 0 .. MaxPush
      /\ Capacity \in Nat /\ MaxPush \in Nat
      /\ PushView(p) /\ Ring
  BY Plain DEF Inv
<1>1. /\ pc[p] = "w_cas" /\ pc'[p] = "w_copy" /\ cursor' = cursor
      /\ \A t \in Threads \ {p} : Still(t)
  BY SMT DEF ClaimWrite, Goto, Still, Inv, TypeOK, PcOK, Threads
<1>2. /\ policy' = policy /\ head' = head /\ tail' = tail
      /\ read_cursor' = read_cursor /\ pushes' = pushes /\ ReadPos' = ReadPos
      /\ (MultiIn' <=> MultiIn) /\ (MultiOut' <=> MultiOut)
  BY DEF ClaimWrite, ReadPos, MultiIn, MultiOut
<1>3. /\ MultiIn /\ WritePos = write_cursor /\ WritePos' = write_cursor'
      /\ cursor[p] = write_cursor /\ cursor[p] < head + Capacity
  BY <1>0, <1>1, <1>2 DEF ClaimWrite, PushView, WritePos
<1>4. write_cursor' = write_cursor + 1
  BY <1>0, <1>3, PlainNext DEF ClaimWrite
<1>5. /\ \A q \in Producers \ {p} : Still(q)
      /\ \A c \in Consumers : Still(c)
  BY <1>1, Params, SMT DEF Params, Threads
<1>6. Ring'
  BY <1>0, <1>2, <1>3, <1>4, SMT DEF Ring
<1>7. Counted'
  <2>1. Pending' = Pending \ {p} /\ p \in Pending
    BY <1>1, <1>2, <1>3, <1>5 DEF Pending, Still
  <2>2. /\ IsFiniteSet(Pending') /\ Cardinality(Pending') = Cardinality(Pending) - 1
        /\ Cardinality(Pending) \in Nat
    BY <2>1, FS_RemoveElement, FS_CardinalityType DEF Inv, Counted
  <2>3. pushes \in Nat
    BY <1>0, SMT DEF Inv, TypeOK
  <2> QED BY <1>0, <1>2, <1>3, <1>4, <2>2, <2>3, SMT DEF Inv, Counted
<1>8. OneIn' /\ OneOut'
  BY <1>1, <1>2, <1>3, <1>5 DEF Inv, OneIn, OneOut, Still
<1>9. ASSUME NEW q \in Producers PROVE PushView(q)'
  <2>1. CASE q = p
    BY <1>0, <1>1, <1>2, <1>3, <1>4, <2>1, SMT DEF PushView, Ring
  <2>2. CASE q # p
    <3>1. pc[q] \in {"w_copy", "w_release"} => tail' <= cursor[q]
      BY <1>2 DEF Inv, PushView
    <3>2. head <= head' /\ WritePos <= WritePos'
      BY <1>0, <1>2, <1>3, <1>4, SMT
    <3> QED BY <1>2, <1>5, <2>2, <3>1, <3>2, StillPush DEF Inv
  <2> QED BY <2>1, <2>2
<1>10. ASSUME NEW c \in Consumers PROVE PopView(c)'
  <2>1. pc[c] \in {"r_copy", "r_release"} => head' <= cursor[c]
    BY <1>2 DEF Inv, PopView
  <2>2. tail <= tail' /\ ReadPos <= ReadPos'
    BY <1>2, Plain, SMT DEF Inv
  <2> QED BY <1>2, <1>5, <2>1, <2>2, StillPop DEF Inv
<1>11. OwnPositions'
  <2>1. ASSUME NEW q \in Writing
        PROVE  cursor[q] < write_cursor /\ cursor[q] \in Nat
    <3>1. q \in Producers /\ pc[q] \in {"w_copy", "w_release"}
      BY DEF Writing
    <3> QED BY <1>3, <3>1, WriterAt
  <2>2. \A q \in Writing' : q = p \/ q \in Writing
    BY <1>5 DEF Writing, Still
  <2>3. write_cursor \in Nat
    BY <1>0, <1>3, SMT
  <2>4. \A q, r \in Writing' : q # r => cursor'[q] # cursor'[r]
    BY <1>1, <1>3, <2>1, <2>2, <2>3, SMT DEF Inv, OwnPositions
  <2>5. \A c, d \in Reading' : c # d => cursor'[c] # cursor'[d]
    BY <1>1, <1>5 DEF Inv, OwnPositions, Reading, Still
  <2> QED BY <2>4, <2>5 DEF OwnPositions
<1> QED
  BY <1>6, <1>7, <1>8, <1>9, <1>10, <1>11 DEF Inv

\* Moving tail past a position that was its own: other pushes are behind it.
LEMMA ReleaseWriteInv ==
    ASSUME NoWrap, Inv, TypeOK', NEW p \in Producers, ReleaseWrite(p)
    PROVE  Inv'
<1>0. /\ head \in 0 .. MaxPush /\ WritePos \in 0 .. MaxPush /\ tail \in 0 .. MaxPush
      /\ Capacity \in Nat /\ MaxPush \in Nat /\ ReadPos \in 0 .. MaxPush
      /\ PushView(p) /\ Ring
  BY Plain DEF Inv
<1>1. /\ pc[p] = "w_release" /\ pc'[p] = "idle"
      /\ \A t \in Threads \ {p} : Still(t)
  BY SMT DEF ReleaseWrite, ReturnPush, Return, Goto, Still, Inv, TypeOK, PcOK, Threads
<1>2. /\ policy' = policy /\ head' = head /\ write_cursor' = write_cursor
      /\ read_cursor' = read_cursor /\ pushes' = pushes /\ ReadPos' = ReadPos
      /\ (MultiIn' <=> MultiIn) /\ (MultiOut' <=> MultiOut)
  BY DEF ReleaseWrite, ReadPos, MultiIn, MultiOut
<1>3. /\ tail' = tail + 1 /\ cursor[p] = tail /\ tail < head + Capacity
      /\ IF MultiIn THEN tail < WritePos /\ WritePos' = WritePos
                    ELSE WritePos = tail /\ WritePos' = tail'
  BY <1>0, <1>1, <1>2, PlainNext DEF ReleaseWrite, PushView, WritePos
<1>4. /\ \A q \in Producers \ {p} : Still(q)
      /\ \A c \in Consumers : Still(c)
  BY <1>1, Params, SMT DEF Params, Threads
<1>5. Ring'
  BY <1>0, <1>2, <1>3, SMT DEF Ring
<1>6. Counted'
  <2> USE DEF Inv, Counted
  <2>1. Cardinality(Pending) \in Nat /\ pushes \in Nat
    BY <1>0, FS_CardinalityType, SMT DEF TypeOK
  <2>2. CASE MultiIn
    <3>1. Pending' = Pending
      BY <1>1, <1>2, <1>4, <2>2 DEF Pending, Still
    <3> QED BY <1>2, <1>3, <2>2, <3>1
  <2>3. CASE ~MultiIn
    <3>1. Pending' = Pending \ {p} /\ p \in Pending
      BY <1>1, <1>2, <1>4, <2>3 DEF Pending, Still
    <3>2. IsFiniteSet(Pending') /\ Cardinality(Pending') = Cardinality(Pending) - 1
      BY <3>1, FS_RemoveElement
    <3> QED BY <1>0, <1>2, <1>3, <2>1, <2>3, <3>2, SMT
  <2> QED BY <2>2, <2>3
<1>7. OneIn' /\ OneOut'
  BY <1>1, <1>2, <1>4 DEF Inv, OneIn, OneOut, Still
<1>8. ASSUME NEW q \in Producers PROVE PushView(q)'
  <2>1. CASE q = p
    BY <1>1, <2>1 DEF PushView
  <2>2. CASE q # p
    <3>1. pc[q] \in {"w_copy", "w_release"} => tail' <= cursor[q]
      <4> SUFFICES ASSUME pc[q] \in {"w_copy", "w_release"} PROVE tail' <= cursor[q]
        OBVIOUS
      <4>1. tail <= cursor[q] /\ cursor[q] \in Nat
        BY WriterAt
      <4>2. cursor[q] # cursor[p]
        BY <1>1, <2>2 DEF Inv, OwnPositions, Writing
      <4> QED BY <1>0, <1>3, <4>1, <4>2, SMT
    <3>2. pc[q] # "idle" => MultiIn
      BY <1>1, <2>2 DEF Inv, OneIn
    <3>3. head <= head' /\ WritePos <= WritePos'
      BY <1>0, <1>2, <1>3, SMT
    <3> QED BY <1>2, <1>4, <2>2, <3>1, <3>2, <3>3, StillPush DEF Inv
  <2> QED BY <2>1, <2>2
<1>9. ASSUME NEW c \in Consumers PROVE PopView(c)'
  <2>1. pc[c] \in {"r_copy", "r_release"} => head' <= cursor[c]
    BY <1>2 DEF Inv, PopView
  <2>2. tail <= tail' /\ ReadPos <= ReadPos'
    BY <1>0, <1>2, <1>3, SMT
  <2> QED BY <1>2, <1>4, <2>1, <2>2, StillPop DEF Inv
<1>10. OwnPositions'
  BY <1>1, <1>4 DEF Inv, OwnPositions, Writing, Reading, Still
<1> QED
  BY <1>5, <1>6, <1>7, <1>8, <1>9, <1>10 DEF Inv

-----------------------------------------------------------------------------
(* The steps of xif_fifo_pop.                                              *)

LEMMA PopLocalInv ==
    ASSUME NoWrap, Inv, TypeOK', NEW c \in Consumers,
           \/ PopCall(c) \/ LoadReadCursor(c) \/ EmptyLoad(c) \/ PopEmpty(c)
           \/ PopNotEmpty(c) \/ RetryRead(c) \/ CopyOut(c)
    PROVE  Inv'
<1> USE DEF Inv
<1>0. /\ c \in Threads /\ pc \in [Threads -> PushPC \cup PopPC \cup {"idle"}]
      /\ cursor \in [Threads -> 0 .. Word - 1] /\ seen \in [Threads -> 0 .. Word - 1]
      /\ cursor' \in [Threads -> 0 .. Word - 1] /\ seen' \in [Threads -> 0 .. Word - 1]
  BY DEF Threads, TypeOK, PcOK
<1>1. /\ head \in 0 .. MaxPush /\ ReadPos \in 0 .. MaxPush /\ tail \in 0 .. MaxPush
      /\ MaxPush \in Nat /\ Word \in Nat
  BY Plain, Params DEF Params
<1>2. PopView(c) /\ Ring
  OBVIOUS
<1>3. CASE PopCall(c)
  <2>1. /\ UNCHANGED <<policy, cursors, pushes>>
        /\ pc[c] = "idle" /\ pc'[c] = "r_load"
        /\ MultiOut \/ \A d \in Consumers : pc[d] = "idle"
        /\ \A t \in Threads \ {c} : Still(t)
    BY <1>0, <1>3, SMT DEF PopCall, Goto, Still, fifo, cursors
  <2>2. PopView(c)'
    BY <2>1 DEF PopView
  <2>3. c \notin Reading'
    BY <2>1 DEF Reading
  <2> QED BY <2>1, <2>2, <2>3, LocalPop
<1>4. CASE LoadReadCursor(c)
  <2>1. /\ UNCHANGED <<policy, cursors, pushes>>
        /\ pc[c] = "r_load" /\ pc'[c] = "r_cmp" /\ cursor'[c] = ReadPos
        /\ \A t \in Threads \ {c} : Still(t)
    BY <1>0, <1>4, SMT DEF LoadReadCursor, Goto, Still, ReadPos, fifo, cursors
  <2>2. PopView(c)'
    BY <1>1, <2>1, SMT DEF PopView, ReadPos, MultiOut, cursors
  <2>3. c \notin Reading'
    BY <2>1 DEF Reading
  <2> QED BY <2>1, <2>2, <2>3, LocalPop
<1>5. CASE EmptyLoad(c)
  <2>1. /\ UNCHANGED <<policy, cursors, pushes>>
        /\ pc[c] = "r_cmp" /\ cursor'[c] = cursor[c]
        /\ \/ pc'[c] = "r_cmp_tail" /\ seen'[c] = ReadPos
           \/ pc'[c] = "r_cmp_cursor" /\ seen'[c] = tail
        /\ \A t \in Threads \ {c} : Still(t)
    BY <1>0, <1>5, SMT DEF EmptyLoad, Goto, Still, ReadPos, fifo, cursors
  <2>2. PopView(c)'
    BY <1>0, <1>1, <1>2, <2>1, SMT DEF PopView, Ring, ReadPos, MultiOut, cursors
  <2>3. c \notin Reading'
    BY <2>1 DEF Reading
  <2> QED BY <2>1, <2>2, <2>3, LocalPop
<1>6. CASE PopEmpty(c)
  <2>1. /\ UNCHANGED <<policy, cursors, pushes>>
        /\ pc[c] \in {"r_cmp_tail", "r_cmp_cursor"} /\ pc'[c] = "idle"
        /\ \A t \in Threads \ {c} : Still(t)
    BY <1>0, <1>6, SMT DEF PopEmpty, EmptySeen, Return, Goto, Still, fifo, cursors
  <2>2. PopView(c)'
    BY <2>1 DEF PopView
  <2>3. c \notin Reading'
    BY <2>1 DEF Reading
  <2> QED BY <2>1, <2>2, <2>3, LocalPop
<1>7. CASE PopNotEmpty(c)
  <2>1. /\ UNCHANGED <<policy, cursors, pushes>>
        /\ pc[c] \in {"r_cmp_tail", "r_cmp_cursor"} /\ cursor'[c] = cursor[c]
        /\ pc'[c] = IF MultiOut THEN "r_cas" ELSE "r_copy"
        /\ \A t \in Threads \ {c} : Still(t)
    BY <1>0, <1>7, SMT DEF PopNotEmpty, Goto, Still, fifo, cursors
  <2>2. ~EmptySeen(c)
    BY <1>7 DEF PopNotEmpty
  <2>3. cursor[c] = ReadPos => cursor[c] < tail
    <3>1. CASE pc[c] = "r_cmp_tail"
      BY <1>0, <1>1, <1>2, <2>2, <3>1, SMT DEF EmptySeen, PopView, Ring
    <3>2. CASE pc[c] = "r_cmp_cursor"
      <4>1. seen[c] \in 0 .. MaxPush /\ cursor[c] <= seen[c] /\ seen[c] <= tail
        BY <1>0, <1>1, <1>2, <3>2, SMT DEF PopView
      <4>2. ReadPos # seen[c]
        BY <2>2, <3>2 DEF EmptySeen, ReadPos
      <4> QED BY <1>0, <1>1, <4>1, <4>2, SMT
    <3> QED BY <2>1, <3>1, <3>2
  <2>4. cursor[c] <= ReadPos /\ (MultiOut \/ cursor[c] = head)
    BY <1>2, <2>1 DEF PopView
  <2>5. PopView(c)'
    <3>1. CASE MultiOut
      BY <2>1, <2>3, <2>4, <3>1 DEF PopView, ReadPos, MultiOut, cursors
    <3>2. CASE ~MultiOut
      BY <1>1, <2>1, <2>3, <2>4, <3>2, SMT DEF PopView, ReadPos, MultiOut, cursors
    <3> QED BY <3>1, <3>2
  <2>6. MultiOut => c \notin Reading'
    BY <2>1 DEF Reading
  <2> QED BY <2>1, <2>5, <2>6, LocalPop
<1>8. CASE RetryRead(c)
  <2>1. /\ UNCHANGED <<policy, cursors, pushes>>
        /\ pc[c] = "r_cas" /\ pc'[c] = "r_load"
        /\ \A t \in Threads \ {c} : Still(t)
    BY <1>0, <1>8, SMT DEF RetryRead, Goto, Still, fifo, cursors
  <2>2. PopView(c)'
    BY <2>1 DEF PopView
  <2>3. c \notin Reading'
    BY <2>1 DEF Reading
  <2> QED BY <2>1, <2>2, <2>3, LocalPop
<1>9. CASE CopyOut(c)
  <2>1. /\ UNCHANGED <<policy, cursors, pushes>>
        /\ pc[c] = "r_copy" /\ pc'[c] = "r_release" /\ cursor'[c] = cursor[c]
        /\ \A t \in Threads \ {c} : Still(t)
    BY <1>0, <1>9, SMT DEF CopyOut, Goto, Still, fifo, cursors
  <2>2. PopView(c)'
    BY <1>2, <2>1 DEF PopView, ReadPos, MultiOut, cursors
  <2>3. c \in Reading
    BY <2>1 DEF Reading
  <2> QED BY <2>1, <2>2, <2>3, LocalPop
<1> QED
  BY <1>3, <1>4, <1>5, <1>6, <1>7, <1>8, <1>9

\* Claiming position read_cursor: it holds a datum, and nobody has claimed it.
LEMMA ClaimReadInv ==
    ASSUME NoWrap, Inv, TypeOK', NEW c \in Consumers, ClaimRead(c)
    PROVE  Inv'
<1>0. /\ head \in 0 .. MaxPush /\ ReadPos \in 0 .. MaxPush /\ tail \in 0 .. MaxPush
      /\ MaxPush \in Nat /\ WritePos \in 0 .. MaxPush
      /\ PopView(c) /\ Ring
  BY Plain DEF Inv
<1>1. /\ pc[c] = "r_cas" /\ pc'[c] = "r_copy" /\ cursor' = cursor
      /\ \A t \in Threads \ {c} : Still(t)
  BY SMT DEF ClaimRead, Goto, Still, Inv, TypeOK, PcOK, Threads
<1>2. /\ policy' = policy /\ head' = head /\ tail' = tail
      /\ write_cursor' = write_cursor /\ pushes' = pushes /\ WritePos' = WritePos
      /\ (MultiIn' <=> MultiIn) /\ (MultiOut' <=> MultiOut)
  BY DEF ClaimRead, WritePos, MultiIn, MultiOut
<1>3. /\ MultiOut /\ ReadPos = read_cursor /\ ReadPos' = read_cursor'
      /\ cursor[c] = read_cursor /\ cursor[c] < tail
  BY <1>0, <1>1, <1>2 DEF ClaimRead, PopView, ReadPos
<1>4. read_cursor' = read_cursor + 1
  BY <1>0, <1>3, PlainNext DEF ClaimRead
<1>5. /\ \A d \in Consumers \ {c} : Still(d)
      /\ \A p \in Producers : Still(p)
  BY <1>1, Params, SMT DEF Params, Threads
<1>6. Ring'
  BY <1>0, <1>2, <1>3, <1>4, SMT DEF Ring
<1>7. Counted'
  <2>1. Pending' = Pending
    BY <1>2, <1>5 DEF Pending, Still
  <2> QED BY <1>2, <2>1 DEF Inv, Counted
<1>8. OneIn' /\ OneOut'
  BY <1>1, <1>2, <1>3, <1>5 DEF Inv, OneIn, OneOut, Still
<1>9. ASSUME NEW p \in Producers PROVE PushView(p)'
  <2>1. pc[p] \in {"w_copy", "w_release"} => tail' <= cursor[p]
    BY <1>2 DEF Inv, PushView
  <2>2. head <= head' /\ WritePos <= WritePos'
    BY <1>0, <1>2, SMT
  <2> QED BY <1>2, <1>5, <2>1, <2>2, StillPush DEF Inv
<1>10. ASSUME NEW d \in Consumers PROVE PopView(d)'
  <2>1. CASE d = c
    BY <1>0, <1>1, <1>2, <1>3, <1>4, <2>1, SMT DEF PopView, Ring
  <2>2. CASE d # c
    <3>1. pc[d] \in {"r_copy", "r_release"} => head' <= cursor[d]
      BY <1>2 DEF Inv, PopView
    <3>2. tail <= tail' /\ ReadPos <= ReadPos'
      BY <1>0, <1>2, <1>3, <1>4, SMT
    <3> QED BY <1>2, <1>5, <2>2, <3>1, <3>2, StillPop DEF Inv
  <2> QED BY <2>1, <2>2
<1>11. OwnPositions'
  <2>1. ASSUME NEW d \in Reading
        PROVE  cursor[d] < read_cursor /\ cursor[d] \in Nat
    <3>1. d \in Consumers /\ pc[d] \in {"r_copy", "r_release"}
      BY DEF Reading
    <3> QED BY <1>3, <3>1, ReaderAt
  <2>2. \A d \in Reading' : d = c \/ d \in Reading
    BY <1>5 DEF Reading, Still
  <2>3. read_cursor \in Nat
    BY <1>0, <1>3, SMT
  <2>4. \A d, e \in Reading' : d # e => cursor'[d] # cursor'[e]
    BY <1>1, <1>3, <2>1, <2>2, <2>3, SMT DEF Inv, OwnPositions
  <2>5. \A p, q \in Writing' : p # q => cursor'[p] # cursor'[q]
    BY <1>1, <1>5 DEF Inv, OwnPositions, Writing, Still
  <2> QED BY <2>4, <2>5 DEF OwnPositions
<1> QED
  BY <1>6, <1>7, <1>8, <1>9, <1>10, <1>11 DEF Inv

\* Moving head past a position that was its own: other pops are behind it.
LEMMA ReleaseReadInv ==
    ASSUME NoWrap, Inv, TypeOK', NEW c \in Consumers, ReleaseRead(c)
    PROVE  Inv'
<1>0. /\ head \in 0 .. MaxPush /\ WritePos \in 0 .. MaxPush /\ tail \in 0 .. MaxPush
      /\ Capacity \in Nat /\ MaxPush \in Nat /\ ReadPos \in 0 .. MaxPush
      /\ PopView(c) /\ Ring
  BY Plain DEF Inv
<1>1. /\ pc[c] = "r_release" /\ pc'[c] = "idle"
      /\ \A t \in Threads \ {c} : Still(t)
  BY SMT DEF ReleaseRead, Return, Goto, Still, Inv, TypeOK, PcOK, Threads
<1>2. /\ policy' = policy /\ tail' = tail /\ write_cursor' = write_cursor
      /\ read_cursor' = read_cursor /\ pushes' = pushes /\ WritePos' = WritePos
      /\ (MultiIn' <=> MultiIn) /\ (MultiOut' <=> MultiOut)
  BY DEF ReleaseRead, WritePos, MultiIn, MultiOut
<1>3. /\ head' = head + 1 /\ cursor[c] = head /\ head < tail
      /\ IF MultiOut THEN head < ReadPos /\ ReadPos' = ReadPos
                     ELSE ReadPos = head /\ ReadPos' = head'
  BY <1>0, <1>1, <1>2, PlainNext DEF ReleaseRead, PopView, ReadPos
<1>4. /\ \A d \in Consumers \ {c} : Still(d)
      /\ \A p \in Producers : Still(p)
  BY <1>1, Params, SMT DEF Params, Threads
<1>5. Ring'
  BY <1>0, <1>2, <1>3, SMT DEF Ring
<1>6. Counted'
  <2>1. Pending' = Pending
    BY <1>2, <1>4 DEF Pending, Still
  <2> QED BY <1>2, <2>1 DEF Inv, Counted
<1>7. OneIn' /\ OneOut'
  BY <1>1, <1>2, <1>4 DEF Inv, OneIn, OneOut, Still
<1>8. ASSUME NEW p \in Producers PROVE PushView(p)'
  <2>1. pc[p] \in {"w_copy", "w_release"} => tail' <= cursor[p]
    BY <1>2 DEF Inv, PushView
  <2>2. head <= head' /\ WritePos <= WritePos'
    BY <1>0, <1>2, <1>3, SMT
  <2> QED BY <1>2, <1>4, <2>1, <2>2, StillPush DEF Inv
<1>9. ASSUME NEW d \in Consumers PROVE PopView(d)'
  <2>1. CASE d = c
    BY <1>1, <2>1 DEF PopView
  <2>2. CASE d # c
    <3>1. pc[d] \in {"r_copy", "r_release"} => head' <= cursor[d]
      <4> SUFFICES ASSUME pc[d] \in {"r_copy", "r_release"} PROVE head' <= cursor[d]
        OBVIOUS
      <4>1. head <= cursor[d] /\ cursor[d] \in Nat
        BY ReaderAt
      <4>2. cursor[d] # cursor[c]
        BY <1>1, <2>2 DEF Inv, OwnPositions, Reading
      <4> QED BY <1>0, <1>3, <4>1, <4>2, SMT
    <3>2. pc[d] # "idle" => MultiOut
      BY <1>1, <2>2 DEF Inv, OneOut
    <3>3. tail <= tail' /\ ReadPos <= ReadPos'
      BY <1>0, <1>2, <1>3, SMT
    <3> QED BY <1>2, <1>4, <2>2, <3>1, <3>2, <3>3, StillPop DEF Inv
  <2> QED BY <2>1, <2>2
<1>10. OwnPositions'
  BY <1>1, <1>4 DEF Inv, OwnPositions, Writing, Reading, Still
<1> QED
  BY <1>5, <1>6, <1>7, <1>8, <1>9, <1>10 DEF Inv

-----------------------------------------------------------------------------
(* The steps taken while no call is in progress.                           *)

\* With all threads idle and the cursors at zero nothing is left to relate.
LEMMA IdleInv ==
    ASSUME TypeOK', UNCHANGED <<pc, pushes>>,
           \A t \in Threads : pc[t] = "idle",
           head' = 0, tail' = 0, write_cursor' = 0, read_cursor' = 0
    PROVE  Inv'
<1>1. /\ \A p \in Producers : pc'[p] = "idle"
      /\ \A c \in Consumers : pc'[c] = "idle"
  BY DEF Threads
<1>2. ReadPos' = 0 /\ WritePos' = 0
  BY DEF ReadPos, WritePos
<1>3. Ring'
  BY <1>2, Params, SMT DEF Ring, Params
<1>4. Counted'
  <2>1. Pending' = {}
    BY <1>1 DEF Pending
  <2>2. IsFiniteSet(Pending') /\ Cardinality(Pending') = 0
    BY <2>1, FS_EmptySet
  <2> QED BY <1>2, <2>2, SMT DEF Counted, TypeOK
<1>5. OneIn' /\ OneOut'
  BY <1>1 DEF OneIn, OneOut
<1>6. /\ \A p \in Producers : PushView(p)'
      /\ \A c \in Consumers : PopView(c)'
  BY <1>1 DEF PushView, PopView
<1>7. OwnPositions'
  BY <1>1 DEF OwnPositions, Writing, Reading
<1> QED
  BY <1>3, <1>4, <1>5, <1>6, <1>7 DEF Inv

LEMMA InvInit == Init => Inv
<1> SUFFICES ASSUME Init PROVE Inv
  OBVIOUS
<1>1. /\ \A p \in Producers : pc[p] = "idle"
      /\ \A c \in Consumers : pc[c] = "idle"
      /\ ReadPos = 0 /\ WritePos = 0
  BY DEF Init, Threads, ReadPos, WritePos
<1>2. Ring
  BY <1>1, Params, SMT DEF Init, Ring, Params
<1>3. Counted
  <2>1. Pending = {}
    BY <1>1 DEF Pending
  <2> QED BY <1>1, <2>1, FS_EmptySet, SMT DEF Counted, Init
<1>4. OneIn /\ OneOut /\ OwnPositions
  BY <1>1 DEF OneIn, OneOut, OwnPositions, Writing, Reading
<1>5. /\ \A p \in Producers : PushView(p)
      /\ \A c \in Consumers : PopView(c)
  BY <1>1 DEF PushView, PopView
<1> QED
  BY <1>2, <1>3, <1>4, <1>5, TypeInit DEF Inv

LEMMA InvStep ==
    ASSUME NoWrap, Inv, [Next]_vars
    PROVE  Inv'
<1>0. TypeOK'
  BY TypeStep DEF Inv
<1>1. ASSUME NEW p \in Producers, PushCall(p) \/ PushStep(p)
      PROVE  Inv'
  BY <1>0, <1>1, PushCallInv, PushLocalInv, ClaimWriteInv, ReleaseWriteInv DEF PushStep
<1>2. ASSUME NEW c \in Consumers, PopCall(c) \/ PopStep(c)
      PROVE  Inv'
  BY <1>0, <1>2, PopLocalInv, ClaimReadInv, ReleaseReadInv DEF PopStep
<1>3. CASE Reset
  BY <1>0, <1>3, IdleInv DEF Reset
<1>4. ASSUME NEW mode \in Policies, SetMode(mode)
      PROVE  Inv'
  BY <1>0, <1>4, IdleInv DEF SetMode, cursors
<1>5. CASE UNCHANGED vars
  BY <1>5 DEF vars, fifo, Inv, TypeOK, PcOK, Ring, ReadPos, WritePos, MultiIn, MultiOut,
              Counted, Pending, OneIn, OneOut, PushView, PopView, OwnPositions,
              Writing, Reading
<1> QED
  BY <1>1, <1>2, <1>3, <1>4, <1>5 DEF Next

(* Before a cursor wraps, the ring keeps its order and every thread's view *)
(* of it, for any number of threads, any capacity and all four policies.   *)
THEOREM RingInvariant == NoWrap => (Spec => []Inv)
<1> SUFFICES ASSUME NoWrap PROVE Spec => []Inv
  OBVIOUS
<1>1. Inv /\ [Next]_vars => Inv'
  BY InvStep
<1> QED BY InvInit, <1>1, PTL DEF Spec

-----------------------------------------------------------------------------
(* What the invariant gives.                                               *)

LEMMA InvOrder == NoWrap /\ Inv => CursorOrder
<1> SUFFICES ASSUME NoWrap, Inv PROVE CursorOrder
  OBVIOUS
<1>1. /\ head \in 0 .. MaxPush /\ tail \in 0 .. MaxPush
      /\ ReadPos \in 0 .. MaxPush /\ WritePos \in 0 .. MaxPush
      /\ MaxPush \in Nat /\ Capacity \in Nat /\ Ring
  BY Plain DEF Inv
<1>2. head <= ReadPos /\ head <= tail /\ head <= WritePos
  BY <1>1, SMT DEF Ring
<1>3. /\ Minus32(ReadPos, head) = ReadPos - head
      /\ Minus32(tail, head) = tail - head
      /\ Minus32(WritePos, head) = WritePos - head
  BY <1>1, <1>2, PlainMinus
<1> QED BY <1>1, <1>3, SMT DEF CursorOrder, Ring

\* Two copies in progress are less than a ring-full apart.
LEMMA InvExclusive == NoWrap /\ Inv => ExclusiveSlots
<1> SUFFICES ASSUME NoWrap, Inv,
                    NEW s \in Writing \cup Reading, NEW t \in Writing \cup Reading, s # t
             PROVE  Slot(cursor[s]) # Slot(cursor[t])
  BY DEF ExclusiveSlots
<1>1. /\ head \in 0 .. MaxPush /\ tail \in 0 .. MaxPush /\ Ring
      /\ MaxPush \in Nat /\ Capacity \in Nat
      /\ WritePos \in 0 .. MaxPush /\ ReadPos \in 0 .. MaxPush
  BY Plain DEF Inv
<1>2. ASSUME NEW u \in Writing
      PROVE  cursor[u] \in Nat /\ tail <= cursor[u] /\ cursor[u] < head + Capacity
  BY WriterAt DEF Writing
<1>3. ASSUME NEW u \in Reading
      PROVE  cursor[u] \in Nat /\ head <= cursor[u] /\ cursor[u] < tail
  BY ReaderAt DEF Reading
<1>4. cursor[s] # cursor[t]
  <2>1. CASE s \in Writing /\ t \in Writing
    BY <2>1 DEF Inv, OwnPositions
  <2>2. CASE s \in Reading /\ t \in Reading
    BY <2>2 DEF Inv, OwnPositions
  <2>3. CASE s \in Writing /\ t \in Reading
    BY <1>1, <1>2, <1>3, <2>3, SMT
  <2>4. CASE s \in Reading /\ t \in Writing
    BY <1>1, <1>2, <1>3, <2>4, SMT
  <2> QED BY <2>1, <2>2, <2>3, <2>4
<1>5. /\ cursor[s] \in Nat /\ head <= cursor[s] /\ cursor[s] < head + Capacity
      /\ cursor[t] \in Nat /\ head <= cursor[t] /\ cursor[t] < head + Capacity
  BY <1>1, <1>2, <1>3, SMT DEF Ring
<1>6. CASE cursor[s] < cursor[t]
  <2>1. cursor[t] < cursor[s] + Capacity
    BY <1>1, <1>5, SMT
  <2> QED BY <1>5, <1>6, <2>1, SlotsDiffer
<1>7. CASE cursor[t] < cursor[s]
  <2>1. cursor[s] < cursor[t] + Capacity
    BY <1>1, <1>5, SMT
  <2> QED BY <1>5, <1>7, <2>1, SlotsDiffer
<1> QED BY <1>4, <1>5, <1>6, <1>7, SMT

(* Before a cursor wraps, pushes never claim more than Capacity positions, *)
(* pops never a position that has not been pushed.                         *)
THEOREM Order == NoWrap => (Spec => []CursorOrder)
<1> SUFFICES ASSUME NoWrap PROVE Spec => []CursorOrder
  OBVIOUS
<1>1. Inv => CursorOrder
  BY InvOrder
<1> QED BY <1>1, RingInvariant, PTL

(* Before a cursor wraps, no two memcpys of xif_fifo_push and xif_fifo_pop *)
(* that are in progress touch the same slot.                               *)
THEOREM Exclusive == NoWrap => (Spec => []ExclusiveSlots)
<1> SUFFICES ASSUME NoWrap PROVE Spec => []ExclusiveSlots
  OBVIOUS
<1>1. Inv => ExclusiveSlots
  BY InvExclusive
<1> QED BY <1>1, RingInvariant, PTL

-----------------------------------------------------------------------------
(* What a step may do.                                                     *)

\* Only a memcpy into the ring changes a slot.
LEMMA DataStep ==
    ASSUME [Next]_vars
    PROVE  UNCHANGED data \/ \E p \in Producers : CopyIn(p)
<1>1. ASSUME NEW p \in Producers, PushCall(p) \/ PushStep(p)
      PROVE  UNCHANGED data \/ CopyIn(p)
  BY <1>1 DEF PushStep, PushCall, LoadWriteCursor, FullLoad, PushFull, PushNotFull,
              ClaimWrite, RetryWrite, ReleaseWrite, fifo
<1>2. ASSUME NEW c \in Consumers, PopCall(c) \/ PopStep(c)
      PROVE  UNCHANGED data
  BY <1>2 DEF PopStep, PopCall, LoadReadCursor, EmptyLoad, PopEmpty, PopNotEmpty,
              ClaimRead, RetryRead, CopyOut, ReleaseRead, fifo
<1>3. CASE Reset
  BY <1>3 DEF Reset
<1>4. ASSUME NEW mode \in Policies, SetMode(mode)
      PROVE  UNCHANGED data
  BY <1>4 DEF SetMode
<1>5. CASE UNCHANGED vars
  BY <1>5 DEF vars, fifo
<1> QED
  BY <1>1, <1>2, <1>3, <1>4, <1>5 DEF Next

LEMMA CopyInKeeps ==
    ASSUME NoWrap, Inv, NEW p \in Producers, CopyIn(p),
           NEW k \in 0 .. Minus32(tail, head) - 1
    PROVE  LET s == Slot((head + k) % Word) IN data'[s] = data[s]
<1>1. /\ head \in 0 .. MaxPush /\ tail \in 0 .. MaxPush /\ Ring
      /\ MaxPush \in Nat /\ Capacity \in Nat /\ MaxPush < Word - 1 /\ Word \in Nat
      /\ WritePos \in 0 .. MaxPush /\ ReadPos \in 0 .. MaxPush
  BY Plain, Params DEF Inv, Params
<1>2. head <= tail
  BY <1>1, SMT DEF Ring
<1>3. Minus32(tail, head) = tail - head
  BY <1>1, <1>2, PlainMinus
<1>4. head + k \in Nat /\ head + k < tail /\ head + k < Word
  BY <1>1, <1>3, SMT
<1>5. (head + k) % Word = head + k
  BY <1>1, <1>4, SmallMod
<1>6. cursor[p] \in Nat /\ tail <= cursor[p] /\ cursor[p] < head + Capacity
  <2>1. pc[p] = "w_copy"
    BY DEF CopyIn
  <2> QED BY <2>1, WriterAt
<1>7. Slot(head + k) # Slot(cursor[p])
  <2>1. head + k < cursor[p] /\ cursor[p] < head + k + Capacity
    BY <1>1, <1>4, <1>6, SMT
  <2> QED BY <1>4, <1>6, <2>1, SlotsDiffer
<1>8. Slot(head + k) \in 0 .. Capacity - 1
  BY <1>4, SlotRange
<1>9. data'[Slot(head + k)] = data[Slot(head + k)]
  BY <1>7, <1>8, SMT DEF CopyIn, Inv, TypeOK
<1> QED BY <1>5, <1>9

(* Before a cursor wraps, "reading finished, the data is free-used" holds: *)
(* no push overwrites a slot before the pop of its datum has released it.  *)
THEOREM Kept == NoWrap => (Spec => NoOverwrite)
<1> SUFFICES ASSUME NoWrap PROVE Spec => NoOverwrite
  OBVIOUS
<1> DEFINE Keeps == \A k \in 0 .. Minus32(tail, head) - 1 :
                       LET s == Slot((head + k) % Word) IN data'[s] = data[s]
<1>1. Inv /\ [Next]_vars => [Keeps]_vars
  BY DataStep, CopyInKeeps
<1>2. Spec => [][Keeps]_vars
  BY <1>1, RingInvariant, PTL DEF Spec
<1> QED BY <1>2 DEF NoOverwrite

\* A thread that leaves the comparison with "idle" has found the ring empty or full.
LEMMA LeavesPop ==
    ASSUME TypeOK, [Next]_vars, NEW c \in Consumers, pc[c] = "r_cmp_tail", pc'[c] = "idle"
    PROVE  PopEmpty(c)
<1>0. c \in Threads /\ pc \in [Threads -> PushPC \cup PopPC \cup {"idle"}]
  BY DEF Threads, TypeOK, PcOK
<1>1. ASSUME NEW p \in Producers, PushCall(p) \/ PushStep(p)
      PROVE  FALSE
  <2>1. \E l \in PushPC \cup {"idle"} : Goto(p, l)
    BY <1>1, PushGoes
  <2>2. pc'[c] = pc[c]
    BY <1>0, <2>1, Params, SMT DEF Goto, Params
  <2> QED BY <2>2
<1>2. ASSUME NEW d \in Consumers, PopCall(d) \/ PopStep(d)
      PROVE  PopEmpty(c)
  <2>1. \E l \in PopPC \cup {"idle"} : Goto(d, l)
    BY <1>2, PopGoes
  <2>2. d = c
    BY <1>0, <2>1, SMT DEF Goto
  <2>3. ~PopCall(c) /\ ~LoadReadCursor(c) /\ ~EmptyLoad(c) /\ ~ClaimRead(c)
        /\ ~RetryRead(c) /\ ~CopyOut(c) /\ ~ReleaseRead(c)
    BY DEF PopCall, LoadReadCursor, EmptyLoad, ClaimRead, RetryRead, CopyOut, ReleaseRead
  <2>4. ~PopNotEmpty(c)
    BY <1>0, SMT DEF PopNotEmpty, Goto
  <2> QED BY <1>2, <2>2, <2>3, <2>4 DEF PopStep
<1>3. CASE Reset
  BY <1>3 DEF Reset
<1>4. ASSUME NEW mode \in Policies, SetMode(mode) PROVE FALSE
  BY <1>4 DEF SetMode
<1>5. CASE UNCHANGED vars
  BY <1>5 DEF vars
<1> QED
  BY <1>1, <1>2, <1>3, <1>4, <1>5 DEF Next

LEMMA LeavesPush ==
    ASSUME TypeOK, [Next]_vars, NEW p \in Producers, pc[p] = "w_cmp_head", pc'[p] = "idle"
    PROVE  PushFull(p)
<1>0. p \in Threads /\ pc \in [Threads -> PushPC \cup PopPC \cup {"idle"}]
  BY DEF Threads, TypeOK, PcOK
<1>1. ASSUME NEW q \in Producers, PushCall(q) \/ PushStep(q)
      PROVE  PushFull(p)
  <2>1. \E l \in PushPC \cup {"idle"} : Goto(q, l)
    BY <1>1, PushGoes
  <2>2. q = p
    BY <1>0, <2>1, SMT DEF Goto
  <2>3. ~PushCall(p) /\ ~LoadWriteCursor(p) /\ ~FullLoad(p) /\ ~ClaimWrite(p)
        /\ ~RetryWrite(p) /\ ~CopyIn(p) /\ ~ReleaseWrite(p)
    BY DEF PushCall, LoadWriteCursor, FullLoad, ClaimWrite, RetryWrite, CopyIn, ReleaseWrite
  <2>4. ~PushNotFull(p)
    BY <1>0, SMT DEF PushNotFull, Goto
  <2> QED BY <1>1, <2>2, <2>3, <2>4 DEF PushStep
<1>2. ASSUME NEW c \in Consumers, PopCall(c) \/ PopStep(c)
      PROVE  FALSE
  <2>1. \E l \in PopPC \cup {"idle"} : Goto(c, l)
    BY <1>2, PopGoes
  <2>2. pc'[p] = pc[p]
    BY <1>0, <2>1, Params, SMT DEF Goto, Params
  <2> QED BY <2>2
<1>3. CASE Reset
  BY <1>3 DEF Reset
<1>4. ASSUME NEW mode \in Policies, SetMode(mode) PROVE FALSE
  BY <1>4 DEF SetMode
<1>5. CASE UNCHANGED vars
  BY <1>5 DEF vars
<1> QED
  BY <1>1, <1>2, <1>3, <1>4, <1>5 DEF Next

(* Before a cursor wraps, a pop that loads its own cursor first and        *)
(* returns false did find the ring empty, whatever ran in between.         *)
THEOREM GenuinelyEmpty == NoWrap => (Spec => EmptyIsGenuine)
<1> SUFFICES ASSUME NoWrap PROVE Spec => EmptyIsGenuine
  OBVIOUS
<1> DEFINE Genuine == \A c \in Consumers :
                         pc[c] = "r_cmp_tail" /\ pc'[c] = "idle" => ReadPos = tail
<1>1. ASSUME Inv, [Next]_vars, NEW c \in Consumers, pc[c] = "r_cmp_tail", pc'[c] = "idle"
      PROVE  ReadPos = tail
  <2>1. PopEmpty(c)
    BY <1>1, LeavesPop DEF Inv
  <2>2. seen[c] = tail
    BY <1>1, <2>1 DEF PopEmpty, EmptySeen
  <2>3. seen[c] <= ReadPos /\ ReadPos <= tail
    BY <1>1 DEF Inv, PopView, Ring
  <2> QED BY <1>1, <2>2, <2>3, Plain, SMT DEF Inv
<1>2. Inv /\ [Next]_vars => [Genuine]_vars
  BY <1>1
<1>3. Spec => [][Genuine]_vars
  BY <1>2, RingInvariant, PTL DEF Spec
<1> QED BY <1>3 DEF EmptyIsGenuine

(* Before a cursor wraps, a push that loads its own cursor first and       *)
(* returns false did find every slot claimed.                              *)
THEOREM GenuinelyFull == NoWrap => (Spec => FullIsGenuine)
<1> SUFFICES ASSUME NoWrap PROVE Spec => FullIsGenuine
  OBVIOUS
<1> DEFINE Genuine == \A p \in Producers :
                         pc[p] = "w_cmp_head" /\ pc'[p] = "idle" =>
                             Minus32(WritePos, head) = Capacity
<1>1. ASSUME Inv, [Next]_vars, NEW p \in Producers, pc[p] = "w_cmp_head", pc'[p] = "idle"
      PROVE  Minus32(WritePos, head) = Capacity
  <2>1. PushFull(p)
    BY <1>1, LeavesPush DEF Inv
  <2>2. Minus32(seen[p], head) = Capacity
    BY <1>1, <2>1 DEF PushFull, FullSeen
  <2>3. /\ head \in 0 .. MaxPush /\ WritePos \in 0 .. MaxPush /\ MaxPush \in Nat
        /\ Capacity \in Nat /\ Ring /\ tail \in 0 .. MaxPush /\ ReadPos \in 0 .. MaxPush
    BY <1>1, Plain DEF Inv
  <2>4. seen[p] \in 0 .. MaxPush /\ seen[p] <= WritePos
    BY <1>1, <2>3, SMT DEF Inv, PushView, TypeOK, Threads
  <2>5. seen[p] = head + Capacity
    BY <2>2, <2>3, <2>4, FullMeans
  <2>6. WritePos = head + Capacity
    BY <2>3, <2>4, <2>5, SMT DEF Ring
  <2> QED BY <2>3, <2>6, FullMeans
<1>2. Inv /\ [Next]_vars => [Genuine]_vars
  BY <1>1
<1>3. Spec => [][Genuine]_vars
  BY <1>2, RingInvariant, PTL DEF Spec
<1> QED BY <1>3 DEF FullIsGenuine
=============================================================================
