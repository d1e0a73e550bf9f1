-------------------------- MODULE XifFifoRefines --------------------------
(***************************************************************************)
(* The ring implements BoundedFifo as long as no cursor runs round its     *)
(* 32-bit word, for any number of threads and any capacity.                *)
(***************************************************************************)
EXTENDS XifFifoProofs

(* The datums from position a up to position b.                            *)
Span(d, a, b) == [i \in 1 .. b - a |-> d[Slot(a + i - 1)]]

Offered == [p \in Producers |-> datum[p]]

Got == [c \in Consumers |->
           IF MultiOut /\ pc[c] = "r_copy" THEN data[Slot(cursor[c])] ELSE datum[c]]

-----------------------------------------------------------------------------
(* Spans as queues                                                         *)

Contents == Datums \cup {NoDatum}

LEMMA SpanIsSeq ==
    ASSUME NEW d \in [0 .. Capacity - 1 -> Contents], NEW a \in Nat, NEW b \in Nat, a <= b
    PROVE  /\ Span(d, a, b) \in Seq(Contents)
           /\ Len(Span(d, a, b)) = b - a
           /\ \A i \in 1 .. b - a : Span(d, a, b)[i] = d[Slot(a + i - 1)]
<1>1. \A i \in 1 .. b - a : d[Slot(a + i - 1)] \in Contents
  <2> SUFFICES ASSUME NEW i \in 1 .. b - a PROVE d[Slot(a + i - 1)] \in Contents
    OBVIOUS
  <2>1. a + i - 1 \in Nat
    BY SMT
  <2>2. Slot(a + i - 1) \in 0 .. Capacity - 1
    BY <2>1, SlotRange
  <2> QED BY <2>2
<1>2. b - a \in Nat
  BY SMT
<1>3. Span(d, a, b) \in [1 .. b - a -> Contents]
  BY <1>1 DEF Span
<1> HIDE DEF Contents
<1>4. Span(d, a, b) \in Seq(Contents)
  BY <1>2, <1>3, SeqDef
<1>5. Len(Span(d, a, b)) = b - a
  <2> DEFINE s == Span(d, a, b)
  <2>1. s \in Seq(Contents) /\ DOMAIN s = 1 .. b - a
    BY <1>3, <1>4
  <2>2. Len(s) \in Nat /\ DOMAIN s = 1 .. Len(s)
    BY <2>1, LenProperties
  <2> HIDE DEF s
  <2>3. Len(s) = b - a
    BY <1>2, <2>1, <2>2, SMT
  <2> QED BY <2>3 DEF s
<1> QED BY <1>4, <1>5 DEF Span

LEMMA SpanSame ==
    ASSUME NEW d, NEW e, NEW a \in Nat, NEW b \in Nat,
           \A k \in a .. b - 1 : e[Slot(k)] = d[Slot(k)]
    PROVE  Span(e, a, b) = Span(d, a, b)
<1>1. \A i \in 1 .. b - a : a + i - 1 \in a .. b - 1
  BY SMT
<1>2. \A i \in 1 .. b - a : e[Slot(a + i - 1)] = d[Slot(a + i - 1)]
  BY <1>1
<1> QED BY <1>2 DEF Span

LEMMA SpanNone ==
    ASSUME NEW d \in [0 .. Capacity - 1 -> Contents], NEW a \in Nat
    PROVE  Span(d, a, a) = <<>>
<1> DEFINE s == Span(d, a, a)
<1>1. s \in Seq(Contents) /\ Len(s) = a - a
  <2>1. a <= a
    BY SMT
  <2> QED BY <2>1, SpanIsSeq
<1> HIDE DEF s, Contents
<1>2. s = <<>>
  BY <1>1, EmptySeq, SMT
<1> QED BY <1>2 DEF s

LEMMA SpanAppend ==
    ASSUME NEW d \in [0 .. Capacity - 1 -> Contents], NEW a \in Nat, NEW b \in Nat, a <= b
    PROVE  Span(d, a, b + 1) = Append(Span(d, a, b), d[Slot(b)])
<1> DEFINE s == Span(d, a, b)
           t == Span(d, a, b + 1)
<1>1. /\ s \in Seq(Contents) /\ Len(s) = b - a
      /\ \A i \in 1 .. b - a : s[i] = d[Slot(a + i - 1)]
  BY SpanIsSeq
<1>2. b + 1 \in Nat /\ a <= b + 1
  BY SMT
<1>3. /\ t \in Seq(Contents) /\ Len(t) = b + 1 - a
      /\ \A i \in 1 .. b + 1 - a : t[i] = d[Slot(a + i - 1)]
  <2> DEFINE e == b + 1
             u == Span(d, a, e)
  <2>1. e \in Nat /\ a <= e
    BY <1>2
  <2> HIDE DEF e
  <2>2. /\ u \in Seq(Contents) /\ Len(u) = e - a
        /\ \A i \in 1 .. e - a : u[i] = d[Slot(a + i - 1)]
    BY <2>1, SpanIsSeq
  <2> QED BY <2>2 DEF e
<1>4. d[Slot(b)] \in Contents
  BY SlotRange
<1> HIDE DEF s, t, Contents
<1>5. /\ Append(s, d[Slot(b)]) \in Seq(Contents)
      /\ Len(Append(s, d[Slot(b)])) = b - a + 1
      /\ Append(s, d[Slot(b)])[b - a + 1] = d[Slot(b)]
      /\ \A i \in 1 .. b - a : Append(s, d[Slot(b)])[i] = s[i]
  BY <1>1, <1>4, AppendProperties, SMT
<1>6. Len(t) = b - a + 1
  BY <1>3, SMT
<1>7. ASSUME NEW i \in 1 .. b - a + 1
      PROVE  t[i] = Append(s, d[Slot(b)])[i]
  <2>1. CASE i = b - a + 1
    <3>1. a + i - 1 = b /\ i \in 1 .. b + 1 - a
      BY <2>1, SMT
    <3> QED BY <1>3, <1>5, <2>1, <3>1
  <2>2. CASE i # b - a + 1
    <3>1. i \in 1 .. b - a /\ i \in 1 .. b + 1 - a
      BY <2>2, SMT
    <3> QED BY <1>1, <1>3, <1>5, <3>1
  <2> QED BY <2>1, <2>2
<1>8. t = Append(s, d[Slot(b)])
  BY <1>3, <1>5, <1>6, <1>7, SeqEqual
<1> QED BY <1>8 DEF s, t

LEMMA SpanTail ==
    ASSUME NEW d \in [0 .. Capacity - 1 -> Contents], NEW a \in Nat, NEW b \in Nat, a < b
    PROVE  /\ Span(d, a, b) # <<>>
           /\ Head(Span(d, a, b)) = d[Slot(a)]
           /\ Tail(Span(d, a, b)) = Span(d, a + 1, b)
<1> DEFINE s == Span(d, a, b)
           t == Span(d, a + 1, b)
<1>1. a <= b /\ a + 1 \in Nat /\ a + 1 <= b
  BY SMT
<1>2. /\ s \in Seq(Contents) /\ Len(s) = b - a
      /\ \A i \in 1 .. b - a : s[i] = d[Slot(a + i - 1)]
  BY <1>1, SpanIsSeq
<1>3. /\ t \in Seq(Contents) /\ Len(t) = b - (a + 1)
      /\ \A i \in 1 .. b - (a + 1) : t[i] = d[Slot((a + 1) + i - 1)]
  BY <1>1, SpanIsSeq
<1> HIDE DEF s, t, Contents
<1>4. s # <<>>
  BY <1>2, EmptySeq, SMT
<1>5. Head(s) = d[Slot(a)]
  <2>1. 1 \in 1 .. b - a /\ a + 1 - 1 = a
    BY SMT
  <2>2. Head(s) = s[1]
    BY <1>2, <1>4
  <2> QED BY <1>2, <2>1, <2>2
<1>6. /\ Tail(s) \in Seq(Contents) /\ Len(Tail(s)) = b - a - 1
      /\ \A i \in 1 .. b - a - 1 : Tail(s)[i] = s[i + 1]
  BY <1>2, <1>4, HeadTailProperties
<1>7. b - (a + 1) = b - a - 1
  BY SMT
<1>8. ASSUME NEW i \in 1 .. b - a - 1 PROVE Tail(s)[i] = t[i]
  <2>1. i + 1 \in 1 .. b - a /\ a + (i + 1) - 1 = (a + 1) + i - 1
    BY SMT
  <2> QED BY <1>2, <1>3, <1>6, <1>7, <2>1
<1>9. Tail(s) = t
  BY <1>3, <1>6, <1>7, <1>8, SeqEqual
<1> QED BY <1>4, <1>5, <1>9 DEF s, t

-----------------------------------------------------------------------------
(* The queue is the span from the next datum to take up to tail.           *)

LEMMA TakenBounds ==
    ASSUME NoWrap, Inv
    PROVE  /\ TakenPos \in 0 .. MaxPush /\ MaxPush \in Nat
           /\ head <= TakenPos /\ TakenPos <= tail
           /\ tail \in 0 .. MaxPush /\ head \in 0 .. MaxPush
<1>1. /\ head \in 0 .. MaxPush /\ tail \in 0 .. MaxPush /\ MaxPush \in Nat
      /\ ReadPos \in 0 .. MaxPush /\ Ring
  BY Plain DEF Inv
<1>2. CASE ~MultiOut /\ \E c \in Consumers : pc[c] = "r_release"
  <2>1. PICK c \in Consumers : pc[c] = "r_release"
    BY <1>2
  <2>2. head < tail
    <3>1. cursor[c] \in Nat /\ cursor[c] < tail /\ cursor[c] = head
      BY <1>2, <2>1, ReaderAt
    <3> QED BY <3>1
  <2>3. TakenPos = head + 1
    <3>1. Next32(head) = head + 1
      BY <1>1, PlainNext
    <3> QED BY <1>2, <3>1 DEF TakenPos
  <2> QED BY <1>1, <2>2, <2>3, SMT
<1>3. CASE ~(~MultiOut /\ \E c \in Consumers : pc[c] = "r_release")
  <2>1. TakenPos = ReadPos
    BY <1>3 DEF TakenPos
  <2> QED BY <1>1, <2>1, SMT DEF Ring
<1> QED BY <1>2, <1>3

LEMMA QueueIs ==
    ASSUME NoWrap, Inv
    PROVE  Queue = Span(data, TakenPos, tail)
<1> DEFINE a == TakenPos
           n == Minus32(tail, TakenPos)
<1>1. /\ a \in 0 .. MaxPush /\ MaxPush \in Nat /\ a <= tail /\ tail \in 0 .. MaxPush
      /\ MaxPush < Word - 1 /\ Word \in Nat
  BY TakenBounds, Plain, Params DEF Inv, Params
<1>2. n = tail - a
  BY <1>1, PlainMinus
<1> HIDE DEF a, n
<1>3. ASSUME NEW i \in 1 .. tail - a PROVE (a + i - 1) % Word = a + i - 1
  <2>1. a + i - 1 \in Nat /\ a + i - 1 < Word
    BY <1>1, SMT
  <2> QED BY <1>1, <2>1, SmallMod
<1>4. [i \in 1 .. n |-> data[Slot((a + i - 1) % Word)]]
        = [i \in 1 .. tail - a |-> data[Slot(a + i - 1)]]
  BY <1>2, <1>3
<1> QED BY <1>4 DEF Queue, Span, a, n

-----------------------------------------------------------------------------
(* What a producer carries                                                 *)

LEMMA FilledInit == Init => Filled
  BY DEF Init, Filled, Threads

\* A step of another thread, or one between two places of a push.
LEMMA FilledOther ==
    ASSUME Filled, NEW p \in Producers,
           pc'[p] = pc[p] \/ (pc[p] # "idle" /\ pc'[p] \notin {"idle", "w_release"}),
           datum'[p] = datum[p], cursor'[p] = cursor[p] \/ pc'[p] # "w_release",
           pc[p] = "w_release" => data'[Slot(cursor[p])] = data[Slot(cursor[p])]
    PROVE  /\ pc'[p] = "idle" => datum'[p] = NoDatum
           /\ pc'[p] # "idle" => datum'[p] \in Datums
           /\ pc'[p] = "w_release" => data'[Slot(cursor'[p])] = datum'[p]
  BY DEF Filled

LEMMA FilledPush ==
    ASSUME NoWrap, Inv, Filled, NEW p \in Producers, PushCall(p) \/ PushStep(p)
    PROVE  Filled'
<1>0. p \in Threads /\ TypeOK /\ p \in Producers
  BY DEF Threads, Inv
<1>1. /\ pc \in [Threads -> PushPC \cup PopPC \cup {"idle"}]
      /\ cursor \in [Threads -> 0 .. Word - 1]
      /\ datum \in [Threads -> Datums \cup {NoDatum}]
      /\ data \in [0 .. Capacity - 1 -> Datums \cup {NoDatum}]
  BY <1>0 DEF TypeOK, PcOK
<1> DEFINE D(q) == /\ pc'[q] = "idle" => datum'[q] = NoDatum
                   /\ pc'[q] # "idle" => datum'[q] \in Datums
                   /\ pc'[q] = "w_release" => data'[Slot(cursor'[q])] = datum'[q]
<1>2. \A q \in Producers \ {p} : D(q)
  <2> SUFFICES ASSUME NEW q \in Producers, q # p PROVE D(q)
    OBVIOUS
  <2>1. q \in Threads
    BY DEF Threads
  <2>2. pc'[q] = pc[q] /\ datum'[q] = datum[q] /\ cursor'[q] = cursor[q]
    BY <1>1, <2>1, Zenon DEF PushCall, PushStep, LoadWriteCursor, FullLoad, PushFull, PushNotFull,
              ClaimWrite, RetryWrite, CopyIn, ReleaseWrite, ReturnPush, Return, Goto
  <2>3. pc[q] = "w_release" => data'[Slot(cursor[q])] = data[Slot(cursor[q])]
    <3> SUFFICES ASSUME pc[q] = "w_release" PROVE data'[Slot(cursor[q])] = data[Slot(cursor[q])]
      OBVIOUS
    <3>1. CASE CopyIn(p)
      <4>1. p \in Writing /\ q \in Writing
        BY <3>1 DEF CopyIn, Writing
      <4>2. Slot(cursor[p]) # Slot(cursor[q])
        BY <4>1, InvExclusive DEF ExclusiveSlots
      <4>3. Slot(cursor[q]) \in 0 .. Capacity - 1
        <5>1. cursor[q] \in Nat
          BY <1>1, <2>1
        <5> QED BY <5>1, SlotRange
      <4> QED BY <1>1, <3>1, <4>2, <4>3 DEF CopyIn
    <3>2. CASE ~CopyIn(p)
      BY <3>2, Zenon DEF PushCall, PushStep, LoadWriteCursor, FullLoad, PushFull, PushNotFull,
              ClaimWrite, RetryWrite, ReleaseWrite, fifo
    <3> QED BY <3>1, <3>2
  <2> QED BY <2>2, <2>3, FilledOther
<1>3. D(p)
  <2>1. CASE PushCall(p)
    <3>1. pc'[p] = "w_load" /\ datum'[p] = pushes + 1
      BY <1>0, <1>1, <2>1 DEF PushCall, Goto
    <3>2. pushes + 1 \in Datums
      BY <1>0, <2>1, Params, SMT DEF PushCall, TypeOK, Datums, Params
    <3> QED BY <3>1, <3>2
  <2>2. CASE LoadWriteCursor(p) \/ FullLoad(p) \/ PushNotFull(p) \/ ClaimWrite(p) \/ RetryWrite(p)
    <3>1. pc[p] # "idle" /\ pc'[p] \notin {"idle", "w_release"} /\ datum'[p] = datum[p]
      BY <1>0, <1>1, <2>2 DEF LoadWriteCursor, FullLoad, PushNotFull, ClaimWrite, RetryWrite, Goto
    <3> QED BY <3>1 DEF Filled
  <2>3. CASE PushFull(p) \/ ReleaseWrite(p)
    <3>1. pc'[p] = "idle" /\ datum'[p] = NoDatum
      BY <1>0, <1>1, <2>3 DEF PushFull, ReleaseWrite, ReturnPush, Return, Goto
    <3> QED BY <3>1
  <2>4. CASE CopyIn(p)
    <3>1. pc[p] = "w_copy" /\ pc'[p] = "w_release" /\ datum' = datum /\ cursor' = cursor
      BY <1>0, <1>1, <2>4 DEF CopyIn, Goto
    <3>2. Slot(cursor[p]) \in 0 .. Capacity - 1
      <4>1. cursor[p] \in Nat
        BY <1>0, <1>1
      <4> QED BY <4>1, SlotRange
    <3>3. data'[Slot(cursor[p])] = datum[p]
      BY <1>1, <2>4, <3>2 DEF CopyIn
    <3> QED BY <3>1, <3>3 DEF Filled
  <2> QED BY <2>1, <2>2, <2>3, <2>4 DEF PushStep
<1> HIDE DEF D
<1>4. \A q \in Producers : D(q)
  BY <1>2, <1>3
<1> QED BY <1>4 DEF Filled, D

LEMMA FilledPop ==
    ASSUME TypeOK, Filled, NEW c \in Consumers, PopCall(c) \/ PopStep(c)
    PROVE  Filled'
<1>1. ASSUME NEW p \in Producers
      PROVE  /\ pc'[p] = pc[p] /\ datum'[p] = datum[p] /\ cursor'[p] = cursor[p]
             /\ data' = data
  <2>1. p # c /\ p \in Threads /\ c \in Threads
    BY Params DEF Params, Threads
  <2> QED BY <2>1, Zenon DEF TypeOK, PcOK, PopCall, PopStep, LoadReadCursor, EmptyLoad, PopEmpty,
            PopNotEmpty, ClaimRead, RetryRead, CopyOut, ReleaseRead, Return, Goto, fifo
<1> QED BY <1>1, Zenon DEF Filled

LEMMA FilledStep ==
    ASSUME NoWrap, Inv, Filled, [Next]_vars
    PROVE  Filled'
<1>1. CASE Reset
  BY <1>1 DEF Reset, Filled
<1>2. ASSUME NEW mode \in Policies, SetMode(mode) PROVE Filled'
  BY <1>2 DEF SetMode, Filled
<1>3. CASE UNCHANGED vars
  BY <1>3 DEF vars, fifo, Filled
<1> QED BY <1>1, <1>2, <1>3, FilledPush, FilledPop DEF Next, Inv

(* Until a cursor wraps, a push that comes to move tail has its own datum  *)
(* in the slot it hands over (xif_fifo_push, :255-258).                    *)
THEOREM SlotsFilled == NoWrap => (Spec => []Filled)
<1> SUFFICES ASSUME NoWrap PROVE Spec => []Filled
  OBVIOUS
<1>1. Inv /\ Filled /\ [Next]_vars => Filled'
  BY FilledStep
<1> QED BY FilledInit, RingInvariant, <1>1, PTL DEF Spec

-----------------------------------------------------------------------------
(* Steps of xif_fifo_push                                                  *)

\* A push moves neither end of what can be taken but tail.
LEMMA PushFrame ==
    ASSUME NoWrap, Inv, NEW p \in Producers, PushCall(p) \/ PushStep(p)
    PROVE  TakenPos' = TakenPos /\ Got' = Got
<1>1. policy' = policy /\ head' = head /\ read_cursor' = read_cursor
  BY Zenon DEF PushCall, PushStep, LoadWriteCursor, FullLoad, PushFull, PushNotFull,
              ClaimWrite, RetryWrite, CopyIn, ReleaseWrite, fifo, cursors
<1>2. \A c \in Consumers : pc'[c] = pc[c] /\ cursor'[c] = cursor[c] /\ datum'[c] = datum[c]
  <2> SUFFICES ASSUME NEW c \in Consumers
               PROVE  pc'[c] = pc[c] /\ cursor'[c] = cursor[c] /\ datum'[c] = datum[c]
    OBVIOUS
  <2>1. c # p /\ p \in Threads /\ c \in Threads
    BY Params DEF Params, Threads
  <2> QED BY <2>1, Zenon DEF Inv, TypeOK, PcOK, PushCall, PushStep, LoadWriteCursor, FullLoad,
            PushFull, PushNotFull, ClaimWrite, RetryWrite, CopyIn, ReleaseWrite, ReturnPush, Return, Goto
<1>3. TakenPos' = TakenPos
  BY <1>1, <1>2, Zenon DEF TakenPos, ReadPos, MultiOut
<1>4. \A c \in Consumers : pc[c] = "r_copy" => data'[Slot(cursor[c])] = data[Slot(cursor[c])]
  <2> SUFFICES ASSUME NEW c \in Consumers, pc[c] = "r_copy"
               PROVE  data'[Slot(cursor[c])] = data[Slot(cursor[c])]
    OBVIOUS
  <2>1. CASE CopyIn(p)
    <3>1. p \in Writing /\ c \in Reading /\ p # c
      BY <2>1, Params DEF CopyIn, Writing, Reading, Params
    <3>2. Slot(cursor[p]) # Slot(cursor[c])
      BY <3>1, InvExclusive DEF ExclusiveSlots
    <3>3. Slot(cursor[c]) \in 0 .. Capacity - 1
      <4>1. cursor[c] \in Nat
        BY DEF Inv, TypeOK, Threads
      <4> QED BY <4>1, SlotRange
    <3> QED BY <2>1, <3>2, <3>3 DEF CopyIn, Inv, TypeOK
  <2>2. CASE ~CopyIn(p)
    BY <2>2, Zenon DEF PushCall, PushStep, LoadWriteCursor, FullLoad, PushFull, PushNotFull,
              ClaimWrite, RetryWrite, ReleaseWrite, fifo
  <2> QED BY <2>1, <2>2
<1>5. Got' = Got
  BY <1>1, <1>2, <1>4 DEF Got, MultiOut
<1> QED BY <1>3, <1>5

\* As long as tail stays too, the queue does.
LEMMA PushKeepsQueue ==
    ASSUME NoWrap, Inv, Inv', NEW p \in Producers, PushCall(p) \/ PushStep(p), tail' = tail
    PROVE  Queue' = Queue
<1>1. TakenPos' = TakenPos
  BY PushFrame
<1>2. CASE CopyIn(p)
  <2>1. /\ TakenPos \in Nat /\ head <= TakenPos /\ TakenPos <= tail
        /\ tail \in 0 .. MaxPush /\ head \in 0 .. MaxPush /\ MaxPush \in Nat
    BY TakenBounds, SMT
  <2>2. ASSUME NEW k \in TakenPos .. tail - 1
        PROVE  data'[Slot(k)] = data[Slot(k)]
    <3>1. /\ k - head \in 0 .. (tail - head) - 1 /\ head + (k - head) = k
          /\ k \in Nat /\ k < Word /\ Word \in Nat /\ head <= tail
      BY <2>1, Plain, Params, SMT DEF Inv, Params
    <3>2. Minus32(tail, head) = tail - head
      BY <2>1, <3>1, PlainMinus
    <3>3. k % Word = k
      BY <3>1, SmallMod
    <3>4. data'[Slot((head + (k - head)) % Word)] = data[Slot((head + (k - head)) % Word)]
      BY <1>2, <3>1, <3>2, CopyInKeeps
    <3> QED BY <3>1, <3>3, <3>4
  <2>3. Span(data', TakenPos, tail) = Span(data, TakenPos, tail)
    BY <2>1, <2>2, SpanSame
  <2>4. Queue = Span(data, TakenPos, tail)
    BY QueueIs
  <2>5. (NoWrap /\ Inv => Queue = Span(data, TakenPos, tail))'
    BY QueueIs, PTL
  <2>6. NoWrap'
    BY DEF NoWrap
  <2>7. Queue' = Span(data', TakenPos', tail')
    BY <2>5, <2>6 DEF Span
  <2> QED BY <1>1, <2>3, <2>4, <2>7
<1>3. CASE ~CopyIn(p)
  <2>1. data' = data
    BY <1>3, Zenon DEF PushCall, PushStep, LoadWriteCursor, FullLoad, PushFull, PushNotFull,
              ClaimWrite, RetryWrite, ReleaseWrite, fifo
  <2> QED BY <1>1, <2>1 DEF Queue
<1> QED BY <1>2, <1>3

LEMMA PushMaps ==
    ASSUME NoWrap, Inv, Inv', Filled, NEW p \in Producers, PushCall(p) \/ PushStep(p)
    PROVE  Abstract!Next \/ UNCHANGED <<Queue, Offered, Got>>
<1>0. p \in Threads /\ TypeOK
  BY DEF Threads, Inv
<1>1. /\ pc \in [Threads -> PushPC \cup PopPC \cup {"idle"}]
      /\ datum \in [Threads -> Datums \cup {NoDatum}]
      /\ data \in [0 .. Capacity - 1 -> Contents]
  BY <1>0 DEF TypeOK, PcOK, Contents
<1>2. TakenPos' = TakenPos /\ Got' = Got
  BY PushFrame
<1>3. NoDatum \notin Datums
  BY Params DEF Params, Datums
<1>4. CASE PushCall(p)
  <2>1. /\ pc[p] = "idle" /\ pushes < MaxPush /\ tail' = tail
        /\ datum' = [datum EXCEPT ![p] = pushes + 1]
    BY <1>4 DEF PushCall, fifo
  <2>2. pushes + 1 \in Datums
    BY <1>0, <2>1, Params, SMT DEF TypeOK, Datums, Params
  <2>3. Offered[p] = NoDatum
    BY <2>1 DEF Filled, Offered
  <2>4. Offered' = [Offered EXCEPT ![p] = pushes + 1]
    BY <1>0, <1>1, <2>1 DEF Offered, Threads
  <2>5. Queue' = Queue
    BY <2>1, PushKeepsQueue
  <2>6. Abstract!Offer(p)
    BY <1>2, <2>2, <2>3, <2>4, <2>5, Zenon DEF Abstract!Offer, Offered, Got
  <2> QED BY <2>6 DEF Abstract!Next
<1>5. CASE PushFull(p)
  <2>1. /\ pc[p] \in {"w_cmp_head", "w_cmp_cursor"} /\ tail' = tail
        /\ datum' = [datum EXCEPT ![p] = NoDatum]
    BY <1>5 DEF PushFull, FullSeen, ReturnPush, fifo
  <2>2. Offered[p] # NoDatum
    BY <1>3, <2>1 DEF Filled, Offered
  <2>3. Offered' = [Offered EXCEPT ![p] = NoDatum]
    BY <1>0, <1>1, <2>1 DEF Offered, Threads
  <2>4. Queue' = Queue
    BY <1>5, <2>1, PushKeepsQueue DEF PushStep
  <2>5. Abstract!Refuse(p)
    BY <1>2, <2>2, <2>3, <2>4, Zenon DEF Abstract!Refuse, Offered, Got
  <2> QED BY <2>5 DEF Abstract!Next
<1>6. CASE ReleaseWrite(p)
  <2>1. /\ pc[p] = "w_release" /\ tail' = Next32(tail) /\ data' = data
        /\ datum' = [datum EXCEPT ![p] = NoDatum] /\ (MultiIn => tail = cursor[p])
    BY <1>6 DEF ReleaseWrite, ReturnPush
  <2>2. cursor[p] = tail /\ cursor[p] < head + Capacity
    BY <2>1, WriterAt
  <2>3. /\ TakenPos \in Nat /\ head <= TakenPos /\ TakenPos <= tail
        /\ tail \in 0 .. MaxPush /\ head \in 0 .. MaxPush /\ tail \in Nat
    BY TakenBounds, SMT
  <2>4. tail' = tail + 1
    BY <2>1, <2>3, PlainNext
  <2>5. Queue = Span(data, TakenPos, tail)
    BY QueueIs
  <2>6. Queue' = Span(data, TakenPos, tail + 1)
    <3>1. (NoWrap /\ Inv => Queue = Span(data, TakenPos, tail))'
      BY QueueIs, PTL
    <3>2. NoWrap'
      BY DEF NoWrap
    <3>3. Queue' = Span(data', TakenPos', tail')
      BY <3>1, <3>2 DEF Span
    <3> QED BY <1>2, <2>1, <2>4, <3>3
  <2>7. Queue' = Append(Queue, Offered[p])
    <3>1. data[Slot(tail)] = datum[p]
      BY <2>1, <2>2 DEF Filled
    <3>2. Offered[p] = datum[p]
      BY DEF Offered
    <3> QED BY <1>1, <2>3, <2>5, <2>6, <3>1, <3>2, SpanAppend
  <2>8. Len(Queue) < Capacity
    <3>1. Len(Queue) = tail - TakenPos
      BY <1>1, <2>3, <2>5, SpanIsSeq
    <3> QED BY <2>2, <2>3, <3>1, Params, SMT DEF Params
  <2>9. Offered[p] # NoDatum
    BY <1>3, <2>1 DEF Filled, Offered
  <2>10. Offered' = [Offered EXCEPT ![p] = NoDatum]
    BY <1>0, <1>1, <2>1 DEF Offered, Threads
  <2>11. Abstract!Enqueue(p)
    BY <1>2, <2>7, <2>8, <2>9, <2>10, Zenon DEF Abstract!Enqueue, Offered, Got
  <2> QED BY <2>11 DEF Abstract!Next
<1>7. CASE \/ LoadWriteCursor(p) \/ FullLoad(p) \/ PushNotFull(p)
           \/ ClaimWrite(p) \/ RetryWrite(p) \/ CopyIn(p)
  <2>1. datum' = datum /\ tail' = tail
    BY <1>7 DEF LoadWriteCursor, FullLoad, PushNotFull, ClaimWrite, RetryWrite, CopyIn, fifo, cursors
  <2>2. Queue' = Queue
    BY <2>1, PushKeepsQueue
  <2> QED BY <1>2, <2>1, <2>2 DEF Offered
<1> QED BY <1>4, <1>5, <1>6, <1>7 DEF PushStep

-----------------------------------------------------------------------------
(* Steps of xif_fifo_pop                                                   *)

LEMMA PopFrame ==
    ASSUME Inv, NEW c \in Consumers, PopCall(c) \/ PopStep(c)
    PROVE  /\ policy' = policy /\ tail' = tail /\ data' = data
           /\ Offered' = Offered
           /\ \A d \in Consumers \ {c} :
                 pc'[d] = pc[d] /\ cursor'[d] = cursor[d] /\ datum'[d] = datum[d]
<1>1. policy' = policy /\ tail' = tail /\ data' = data
  BY Zenon DEF PopCall, PopStep, LoadReadCursor, EmptyLoad, PopEmpty, PopNotEmpty,
              ClaimRead, RetryRead, CopyOut, ReleaseRead, fifo
<1>2. \A t \in Threads \ {c} : pc'[t] = pc[t] /\ cursor'[t] = cursor[t] /\ datum'[t] = datum[t]
  BY Zenon DEF Inv, TypeOK, PcOK, PopCall, PopStep, LoadReadCursor, EmptyLoad, PopEmpty,
            PopNotEmpty, ClaimRead, RetryRead, CopyOut, ReleaseRead, Return, Goto
<1>3. \A p \in Producers : p \in Threads \ {c}
  BY Params DEF Params, Threads
<1>4. Offered' = Offered
  BY <1>2, <1>3 DEF Offered
<1> QED BY <1>1, <1>2, <1>4 DEF Threads

\* One datum is taken from the front.
LEMMA Takes ==
    ASSUME NoWrap, Inv, Inv', NEW c \in Consumers,
           tail' = tail, data' = data, Offered' = Offered,
           TakenPos < tail, TakenPos' = TakenPos + 1,
           Got' = [Got EXCEPT ![c] = data[Slot(TakenPos)]]
    PROVE  Abstract!Next
<1>1. TakenPos \in Nat /\ tail \in Nat
  BY TakenBounds, SMT
<1>2. data \in [0 .. Capacity - 1 -> Contents]
  BY DEF Inv, TypeOK, Contents
<1>3. Queue = Span(data, TakenPos, tail)
  BY QueueIs
<1>4. Queue' = Span(data, TakenPos + 1, tail)
  <2>1. (NoWrap /\ Inv => Queue = Span(data, TakenPos, tail))'
    BY QueueIs, PTL
  <2>2. NoWrap'
    BY DEF NoWrap
  <2>3. Queue' = Span(data', TakenPos', tail')
    BY <2>1, <2>2 DEF Span
  <2> QED BY <2>3
<1>5. Queue # <<>> /\ Head(Queue) = data[Slot(TakenPos)] /\ Queue' = Tail(Queue)
  BY <1>1, <1>2, <1>3, <1>4, SpanTail
<1>6. Abstract!Dequeue(c)
  BY <1>5, Zenon DEF Abstract!Dequeue, Offered, Got
<1> QED BY <1>6 DEF Abstract!Next

LEMMA PopMaps ==
    ASSUME NoWrap, Inv, Inv', NEW c \in Consumers, PopCall(c) \/ PopStep(c)
    PROVE  Abstract!Next \/ UNCHANGED <<Queue, Offered, Got>>
<1>0. c \in Threads /\ TypeOK
  BY DEF Threads, Inv
<1>1. /\ pc \in [Threads -> PushPC \cup PopPC \cup {"idle"}]
      /\ cursor \in [Threads -> 0 .. Word - 1]
      /\ datum \in [Threads -> Datums \cup {NoDatum}]
  BY <1>0 DEF TypeOK, PcOK
<1>2. /\ policy' = policy /\ tail' = tail /\ data' = data
      /\ Offered' = Offered
      /\ \A d \in Consumers \ {c} :
            pc'[d] = pc[d] /\ cursor'[d] = cursor[d] /\ datum'[d] = datum[d]
  BY PopFrame
<1>3. MultiOut' = MultiOut
  BY <1>2 DEF MultiOut
<1>4. ASSUME TakenPos' = TakenPos, Got' = Got
      PROVE  UNCHANGED <<Queue, Offered, Got>>
  BY <1>2, <1>4 DEF Queue
<1>5. CASE \/ PopCall(c) \/ LoadReadCursor(c) \/ EmptyLoad(c) \/ PopEmpty(c)
           \/ PopNotEmpty(c) \/ RetryRead(c)
  <2>1. /\ head' = head /\ read_cursor' = read_cursor /\ datum' = datum
        /\ pc[c] \notin {"r_copy", "r_release"} /\ pc'[c] # "r_release"
        /\ pc'[c] = "r_copy" => ~MultiOut
    BY <1>0, <1>1, <1>5 DEF PopCall, LoadReadCursor, EmptyLoad, PopEmpty, EmptySeen, PopNotEmpty,
       RetryRead, Return, Goto, fifo
  <2>2. TakenPos' = TakenPos
    BY <1>2, <1>3, <2>1, Zenon DEF TakenPos, ReadPos
  <2>3. Got' = Got
    BY <1>2, <1>3, <2>1 DEF Got
  <2> QED BY <1>4, <2>2, <2>3
<1>6. CASE ClaimRead(c)
  <2>1. /\ pc[c] = "r_cas" /\ pc'[c] = "r_copy" /\ read_cursor = cursor[c]
        /\ read_cursor' = Next32(cursor[c]) /\ cursor'[c] = cursor[c] /\ datum'[c] = datum[c]
    BY <1>0, <1>1, <1>6 DEF ClaimRead, Goto
  <2>2. MultiOut /\ read_cursor < tail
    BY <2>1 DEF Inv, PopView
  <2>3. TakenPos = read_cursor /\ TakenPos' = read_cursor'
    BY <1>3, <2>2 DEF TakenPos, ReadPos
  <2>4. TakenPos' = TakenPos + 1
    <3>1. TakenPos \in 0 .. MaxPush
      BY TakenBounds
    <3> QED BY <2>1, <2>3, <3>1, PlainNext
  <2>5. Got' = [Got EXCEPT ![c] = data[Slot(TakenPos)]]
    BY <1>2, <1>3, <2>1, <2>2, <2>3 DEF Got
  <2> QED BY <1>2, <2>2, <2>3, <2>4, <2>5, Takes
<1>7. CASE CopyOut(c)
  <2>1. /\ pc[c] = "r_copy" /\ pc'[c] = "r_release" /\ head' = head /\ read_cursor' = read_cursor
        /\ datum'[c] = data[Slot(cursor[c])] /\ cursor'[c] = cursor[c]
    BY <1>0, <1>1, <1>7 DEF CopyOut, Goto, fifo
  <2>2. CASE MultiOut
    <3>1. TakenPos' = TakenPos
      BY <1>3, <2>1, <2>2 DEF TakenPos, ReadPos
    <3>2. Got' = Got
      BY <1>2, <1>3, <2>1, <2>2 DEF Got
    <3> QED BY <1>4, <3>1, <3>2
  <2>3. CASE ~MultiOut
    <3>1. \A d \in Consumers \ {c} : pc[d] = "idle"
      BY <2>1, <2>3 DEF Inv, OneOut
    <3>2. cursor[c] = head /\ head < tail
      <4>1. cursor[c] < tail /\ cursor[c] = head
        BY <2>1, <2>3, ReaderAt
      <4> QED BY <4>1
    <3>3. TakenPos = head
      BY <2>1, <2>3, <3>1 DEF TakenPos, ReadPos
    <3>4. TakenPos' = Next32(head)
      BY <1>3, <2>1, <2>3 DEF TakenPos, ReadPos
    <3>5. TakenPos' = TakenPos + 1
      <4>1. head \in 0 .. MaxPush
        BY TakenBounds
      <4> QED BY <3>3, <3>4, <4>1, PlainNext
    <3>6. Got' = [Got EXCEPT ![c] = data[Slot(TakenPos)]]
      BY <1>2, <1>3, <2>1, <2>3, <3>2, <3>3 DEF Got
    <3> QED BY <1>2, <3>2, <3>3, <3>5, <3>6, Takes
  <2> QED BY <2>2, <2>3
<1>8. CASE ReleaseRead(c)
  <2>1. /\ pc[c] = "r_release" /\ pc'[c] = "idle" /\ head' = Next32(head)
        /\ read_cursor' = read_cursor /\ datum' = datum
    BY <1>0, <1>1, <1>8 DEF ReleaseRead, Return, Goto
  <2>2. Got' = Got
    BY <1>2, <1>3, <2>1 DEF Got
  <2>3. CASE MultiOut
    <3>1. TakenPos' = TakenPos
      BY <1>3, <2>1, <2>3 DEF TakenPos, ReadPos
    <3> QED BY <1>4, <2>2, <3>1
  <2>4. CASE ~MultiOut
    <3>1. \A d \in Consumers \ {c} : pc[d] = "idle"
      BY <2>1, <2>4 DEF Inv, OneOut
    <3>2. TakenPos = Next32(head)
      BY <2>1, <2>4 DEF TakenPos
    <3>3. \A d \in Consumers : pc'[d] = "idle"
      BY <1>2, <2>1, <3>1
    <3>4. TakenPos' = head'
      BY <1>3, <2>4, <3>3 DEF TakenPos, ReadPos
    <3> QED BY <1>4, <2>1, <2>2, <3>2, <3>4
  <2> QED BY <2>3, <2>4
<1> QED BY <1>5, <1>6, <1>7, <1>8 DEF PopStep

-----------------------------------------------------------------------------
(* With no call in progress                                                *)

Fresh ==
    /\ TypeOK
    /\ \A t \in Threads : pc[t] = "idle"
    /\ head = 0 /\ tail = 0 /\ read_cursor = 0

LEMMA IdleQueue == Fresh => Queue = <<>>
<1> SUFFICES ASSUME Fresh PROVE Queue = <<>>
  OBVIOUS
<1> USE DEF Fresh
<1>1. TakenPos = 0
  BY DEF TakenPos, ReadPos, Threads
<1>2. Minus32(tail, TakenPos) = 0
  <2>1. 0 - 0 = 0 /\ 0 < Word /\ Word \in Nat
    BY Params, SMT DEF Params
  <2> QED BY <1>1, <2>1, SmallMod DEF Minus32
<1> DEFINE s == [i \in 1 .. 0 |-> data[Slot((TakenPos + i - 1) % Word)]]
<1>3. Queue = s
  BY <1>2 DEF Queue
<1>4. s \in Seq({}) /\ Len(s) = 0
  <2>1. 1 .. 0 = {}
    BY SMT
  <2>2. s \in [1 .. 0 -> {}]
    BY <2>1
  <2>3. 0 \in Nat
    BY SMT
  <2> HIDE DEF s
  <2>4. s \in Seq({})
    BY <2>2, <2>3, SeqDef
  <2>5. Len(s) \in Nat /\ DOMAIN s = 1 .. Len(s) /\ DOMAIN s = 1 .. 0
    BY <2>2, <2>4, LenProperties
  <2>6. Len(s) = 0
    BY <2>5, SMT
  <2> QED BY <2>4, <2>6
<1> HIDE DEF s
<1>5. s = <<>>
  BY <1>4, EmptySeq, SMT
<1> QED BY <1>3, <1>5

LEMMA ResetMaps ==
    ASSUME TypeOK, TypeOK', Reset
    PROVE  Abstract!Next
<1>1. /\ policy' = policy /\ pc' = pc /\ datum' = datum /\ head' = 0 /\ tail' = 0 /\ read_cursor' = 0
      /\ \A t \in Threads : pc[t] = "idle"
  BY DEF Reset
<1>2. Queue' = <<>>
  <2>1. (Fresh => Queue = <<>>)'
    BY IdleQueue, PTL
  <2> QED BY <1>1, <2>1 DEF Threads, Fresh
<1>3. Offered' = Offered /\ Got' = Got
  BY <1>1 DEF Offered, Got, MultiOut, Threads
<1>4. Abstract!Clear
  BY <1>2, <1>3, Zenon DEF Abstract!Clear, Offered, Got
<1> QED BY <1>4 DEF Abstract!Next

LEMMA SetModeMaps ==
    ASSUME TypeOK, TypeOK', NEW mode \in Policies, SetMode(mode)
    PROVE  UNCHANGED <<Queue, Offered, Got>>
<1>1. /\ pc' = pc /\ datum' = datum /\ cursors' = cursors
      /\ head = 0 /\ tail = 0 /\ read_cursor = 0
      /\ \A t \in Threads : pc[t] = "idle"
  BY DEF SetMode
<1>2. head' = 0 /\ tail' = 0 /\ read_cursor' = 0
  BY <1>1 DEF cursors
<1>3. Queue' = <<>>
  <2>1. (Fresh => Queue = <<>>)'
    BY IdleQueue, PTL
  <2> QED BY <1>1, <1>2, <2>1 DEF Threads, Fresh
<1>4. Queue = <<>>
  BY <1>1, IdleQueue DEF Fresh
<1>5. Offered' = Offered /\ Got' = Got
  BY <1>1 DEF Offered, Got, Threads
<1> QED BY <1>3, <1>4, <1>5

-----------------------------------------------------------------------------
LEMMA InitMaps == Init => Abstract!Init
<1> SUFFICES ASSUME Init PROVE Abstract!Init
  OBVIOUS
<1>1. Queue = <<>>
  BY TypeInit, IdleQueue DEF Init, Fresh
<1>2. Offered = [p \in Producers |-> NoDatum]
  BY DEF Init, Offered, Threads
<1>3. Got = [c \in Consumers |-> NoDatum]
  BY DEF Init, Got, Threads
<1> QED BY <1>1, <1>2, <1>3 DEF Abstract!Init, Offered, Got

LEMMA StepMaps ==
    ASSUME NoWrap, Inv, Inv', Filled, [Next]_vars
    PROVE  [Abstract!Next]_Abstract!vars
<1> SUFFICES Abstract!Next \/ UNCHANGED <<Queue, Offered, Got>>
  BY DEF Abstract!vars, Offered, Got
<1>1. TypeOK /\ TypeOK'
  BY DEF Inv
<1>2. CASE UNCHANGED vars
  BY <1>2 DEF vars, fifo, Queue, Offered, Got, TakenPos, ReadPos, MultiOut
<1>3. CASE Next
  BY <1>1, <1>3, PushMaps, PopMaps, ResetMaps, SetModeMaps DEF Next
<1> QED BY <1>2, <1>3

(* Until a cursor wraps, the ring is a FIFO queue for any threads, access  *)
(* policy and interleaving: a push that returns true has added its datum,  *)
(* once, and pops take the datums in the order in which their pushes moved *)
(* tail.  Every step of xif_fifo_push, xif_fifo_pop, xif_fifo_reset and    *)
(* xif_fifo_setmode is one of BoundedFifo or changes nothing in it.        *)
THEOREM RingIsFifo == NoWrap => (Spec => IsFifo)
<1> SUFFICES ASSUME NoWrap PROVE Spec => IsFifo
  OBVIOUS
<1>1. Inv /\ Inv' /\ Filled /\ [Next]_vars => [Abstract!Next]_Abstract!vars
  BY StepMaps
<1>2. Spec => []Filled
  BY SlotsFilled
<1>3. Spec => []Inv
  BY RingInvariant
<1> QED BY InitMaps, <1>1, <1>2, <1>3, PTL DEF Spec, IsFifo, Abstract!Spec
=============================================================================
