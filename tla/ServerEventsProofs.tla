------------------------- MODULE ServerEventsProofs -------------------------
(* Proofs about ServerEvents, for any capacity, buffer and network.        *)
EXTENDS ServerEvents, TLAPS, SequenceTheorems, FiniteSetTheorems

-----------------------------------------------------------------------------
(* Sequences of events                                                     *)

\* Later elements of s are newer, none is newer than n, and the cells of each
\* are as old as its first or older.
Ascends(s, n) ==
    /\ \A i, j \in 1 .. Len(s) : i < j => s[i].buffer[1] < s[j].buffer[1]
    /\ \A i \in 1 .. Len(s), c \in 1 .. Cells : s[i].buffer[c] <= s[i].buffer[1]
    /\ \A i \in 1 .. Len(s) : s[i].buffer[1] <= n

Firsts(s) == {s[i].buffer[1] : i \in 1 .. Len(s)}

LEMMA ParamFacts ==
    /\ Cells \in Nat /\ 1 \in 1 .. Cells /\ ThreadLimit \in Nat
    /\ Word16 \in Nat /\ Word16 > 0
    /\ MaxSends \in Nat /\ MaxDups \in Nat /\ MaxLine \in Nat
    /\ Capacity \in Nat /\ Capacity > 0
  BY Params, SMT DEF Params

LEMMA BufferCells ==
    ASSUME NEW b \in Buffers, NEW c \in 1 .. Cells
    PROVE  b[c] \in Nat
  BY ParamFacts, SMT DEF Buffers, Receptions

LEMMA EventCells ==
    ASSUME NEW e \in Events, NEW c \in 1 .. Cells
    PROVE  e.buffer[c] \in Nat
  BY BufferCells DEF Events

LEMMA AppendParts ==
    ASSUME NEW s \in Seq(Events), NEW e \in Events
    PROVE  /\ s \o <<e>> \in Seq(Events)
           /\ Len(s) \in Nat /\ Len(s \o <<e>>) = Len(s) + 1
           /\ \A i \in 1 .. Len(s) : (s \o <<e>>)[i] = s[i]
           /\ (s \o <<e>>)[Len(s) + 1] = e
<1>1. <<e>> \in Seq(Events) /\ Len(<<e>>) = 1 /\ <<e>>[1] = e
  BY SMT
<1>2. /\ s \o <<e>> \in Seq(Events)
      /\ Len(s \o <<e>>) = Len(s) + Len(<<e>>)
      /\ \A i \in 1 .. Len(s) + Len(<<e>>) :
            (s \o <<e>>)[i] = IF i <= Len(s) THEN s[i] ELSE <<e>>[i - Len(s)]
  BY <1>1, ConcatProperties
<1>3. Len(s) \in Nat
  BY LenProperties
<1>4. \A i \in 1 .. Len(s) : (s \o <<e>>)[i] = s[i]
  BY <1>1, <1>2, <1>3, SMT
<1>5. (s \o <<e>>)[Len(s) + 1] = e
  <2> DEFINE k == Len(s) + 1
             t == s \o <<e>>
             one == <<e>>
  <2>1. k \in 1 .. Len(s) + Len(one) /\ ~(k <= Len(s)) /\ k - Len(s) = 1
    BY <1>1, <1>3, SMT
  <2>2. one[1] = e
    BY <1>1
  <2>3. \A i \in 1 .. Len(s) + Len(one) : t[i] = IF i <= Len(s) THEN s[i] ELSE one[i - Len(s)]
    BY <1>2
  <2> HIDE DEF k, t, one
  <2>4. t[k] = one[k - Len(s)]
    BY <2>1, <2>3
  <2>5. t[k] = e
    BY <2>1, <2>2, <2>4
  <2> QED BY <2>5 DEF k, t
<1> QED BY <1>1, <1>2, <1>3, <1>4, <1>5

\* A newer event at the end.
LEMMA AppendAscends ==
    ASSUME NEW s \in Seq(Events), NEW e \in Events, NEW n \in Int,
           Ascends(s, n), e.buffer[1] > n, \A c \in 1 .. Cells : e.buffer[c] <= e.buffer[1]
    PROVE  Ascends(s \o <<e>>, e.buffer[1]) /\ Firsts(s \o <<e>>) = Firsts(s) \cup {e.buffer[1]}
<1> DEFINE t == s \o <<e>>
           len == Len(s)
<1>1. /\ len \in Nat /\ Len(t) = len + 1
      /\ \A i \in 1 .. len : t[i] = s[i]
      /\ t[len + 1] = e
  BY AppendParts
<1>2. e.buffer[1] \in Nat /\ \A i \in 1 .. len : s[i] \in Events /\ s[i].buffer[1] \in Nat
  BY EventCells, ElementOfSeq, ParamFacts
<1> HIDE DEF t, len
<1>3. \A i \in 1 .. Len(t) : (i \in 1 .. len /\ t[i] = s[i]) \/ (i = len + 1 /\ t[i] = e)
  BY <1>1, SMT
<1>4. ASSUME NEW i \in 1 .. Len(t), NEW j \in 1 .. Len(t), i < j PROVE t[i].buffer[1] < t[j].buffer[1]
  <2>1. i \in 1 .. len /\ t[i] = s[i]
    BY <1>1, <1>3, <1>4, SMT
  <2>2. s[i].buffer[1] <= n /\ s[i].buffer[1] \in Nat
    BY <1>2, <2>1 DEF Ascends, len
  <2>3. CASE j = len + 1 /\ t[j] = e
    BY <1>2, <2>1, <2>2, <2>3, SMT
  <2>4. CASE j \in 1 .. len /\ t[j] = s[j]
    BY <1>4, <2>1, <2>4 DEF Ascends, len
  <2> QED BY <1>3, <2>3, <2>4
<1>5. \A i \in 1 .. Len(t), c \in 1 .. Cells : t[i].buffer[c] <= t[i].buffer[1]
  BY <1>3 DEF Ascends, len
<1>6. \A i \in 1 .. Len(t) : t[i].buffer[1] <= e.buffer[1]
  <2>1. \A i \in 1 .. len : s[i].buffer[1] <= n
    BY DEF Ascends, len
  <2> QED BY <1>2, <1>3, <2>1, SMT
<1>7. Firsts(t) = Firsts(s) \cup {e.buffer[1]}
  <2>1. len + 1 \in 1 .. Len(t) /\ \A i \in 1 .. len : i \in 1 .. Len(t)
    BY <1>1, SMT
  <2> QED BY <1>1, <1>3, <2>1 DEF Firsts, len
<1> QED BY <1>4, <1>5, <1>6, <1>7 DEF Ascends, t

\* Without the event at the end.
LEMMA FrontAscends ==
    ASSUME NEW s \in Seq(Events), NEW e \in Events, NEW n \in Int,
           Ascends(s \o <<e>>, n)
    PROVE  Ascends(s, n) /\ Firsts(s \o <<e>>) = Firsts(s) \cup {e.buffer[1]}
<1> DEFINE t == s \o <<e>>
           len == Len(s)
<1>1. /\ len \in Nat /\ Len(t) = len + 1
      /\ \A i \in 1 .. len : t[i] = s[i]
      /\ t[len + 1] = e
  BY AppendParts
<1> HIDE DEF t, len
<1>2. \A i \in 1 .. len : i \in 1 .. Len(t) /\ t[i] = s[i]
  BY <1>1, SMT
<1>3. \A i \in 1 .. Len(t) : (i \in 1 .. len /\ t[i] = s[i]) \/ (i = len + 1 /\ t[i] = e)
  BY <1>1, SMT
<1>4. len + 1 \in 1 .. Len(t)
  BY <1>1, SMT
<1>5. Firsts(t) = Firsts(s) \cup {e.buffer[1]}
  BY <1>1, <1>2, <1>3, <1>4 DEF Firsts, len
<1>6. Ascends(t, n)
  BY DEF t
<1>7. Ascends(s, n)
  <2>1. \A i, j \in 1 .. len : i < j => s[i].buffer[1] < s[j].buffer[1]
    BY <1>2, <1>6, Zenon DEF Ascends
  <2>2. \A i \in 1 .. len : s[i].buffer[1] <= n /\ \A c \in 1 .. Cells : s[i].buffer[c] <= s[i].buffer[1]
    BY <1>2, <1>6, Zenon DEF Ascends
  <2> QED BY <2>1, <2>2 DEF Ascends, len
<1> QED BY <1>5, <1>7 DEF t

LEMMA AscendsMore ==
    ASSUME NEW s \in Seq(Events), NEW n \in Int, NEW m \in Int, n <= m, Ascends(s, n)
    PROVE  Ascends(s, m)
<1>1. \A i \in 1 .. Len(s) : s[i].buffer[1] \in Nat
  BY EventCells, ElementOfSeq, ParamFacts
<1>2. \A i \in 1 .. Len(s) : s[i].buffer[1] <= m
  BY <1>1, SMT DEF Ascends
<1> QED BY <1>2 DEF Ascends

LEMMA HeadAndTail ==
    ASSUME NEW q \in Seq(Events), q # <<>>
    PROVE  /\ Head(q) \in Events /\ Tail(q) \in Seq(Events)
           /\ q = <<Head(q)>> \o Tail(q)
<1>1. Head(q) \in Events /\ Tail(q) \in Seq(Events)
  BY HeadTailProperties
<1>2. /\ Len(q) \in Nat /\ Len(q) > 0 /\ Len(Tail(q)) = Len(q) - 1
      /\ \A i \in 1 .. Len(Tail(q)) : Tail(q)[i] = q[i + 1]
  BY HeadTailProperties, EmptySeq, SMT
<1>3. <<Head(q)>> \in Seq(Events) /\ Len(<<Head(q)>>) = 1 /\ <<Head(q)>>[1] = q[1]
  BY <1>1, SMT
<1> DEFINE one == <<Head(q)>>
           t == Tail(q)
           r == one \o t
<1>4. /\ r \in Seq(Events) /\ Len(r) = Len(one) + Len(t)
      /\ \A i \in 1 .. Len(one) + Len(t) : r[i] = IF i <= Len(one) THEN one[i] ELSE t[i - Len(one)]
  BY <1>1, <1>3, ConcatProperties
<1> HIDE DEF one, t, r
<1>5. Len(r) = Len(q) /\ Len(one) = 1 /\ one[1] = q[1] /\ Len(t) = Len(q) - 1
  BY <1>2, <1>3, <1>4, SMT DEF one, t
<1>6. ASSUME NEW i \in 1 .. Len(q) PROVE q[i] = r[i]
  <2>1. CASE i = 1
    <3>1. i \in 1 .. Len(one) + Len(t) /\ i <= Len(one)
      BY <1>2, <1>5, <2>1, SMT
    <3> QED BY <1>4, <1>5, <2>1, <3>1
  <2>2. CASE i # 1
    <3>1. /\ i \in 1 .. Len(one) + Len(t) /\ ~(i <= Len(one))
          /\ i - Len(one) \in 1 .. Len(t) /\ (i - Len(one)) + 1 = i
      BY <1>2, <1>5, <2>2, SMT
    <3>2. r[i] = t[i - Len(one)]
      BY <1>4, <3>1
    <3>3. t[i - Len(one)] = q[(i - Len(one)) + 1]
      BY <1>2, <3>1 DEF t
    <3> QED BY <3>1, <3>2, <3>3
  <2> QED BY <2>1, <2>2
<1>7. q = r
  BY <1>4, <1>5, <1>6, SeqEqual
<1> QED BY <1>1, <1>7 DEF one, t, r

-----------------------------------------------------------------------------
(* The inductive invariant                                                 *)

\* A datagram is received as often as it was sent or duplicated, at most.
Bounded ==
    /\ IsFiniteSet(net)
    /\ received + Cardinality(net) <= sends + dups

Shapes ==
    /\ TypeOK
    /\ executed \in Seq(Events)
    /\ DOMAIN offered = {"rx"} /\ DOMAIN got = {"mgr"}
    /\ rx = "push" => offered["rx"] \in Events
    /\ mgr \in {"release", "execute"} => got["mgr"] \in Events
    /\ rx \in {"callback", "push"} => received > 0

\* How far the main thread has set the server up.
SetUp ==
    /\ main \in {"callback", "loop", "join", "stopped"} => ready /\ mgr # "none"
    /\ main = "manager" => ready
    /\ main \in {"socket", "bind", "spawn", "fifo", "manager"} => mgr = "none"
    /\ gStreamCallback => main \in {"loop", "join", "stopped"}
    /\ rx = "push" => gStreamCallback

\* What the pipeline holds, and what the receive thread has in its hands.
Flow ==
    /\ Ascends(Pipeline, received)
    /\ taken = refused \cup Firsts(Pipeline)
    /\ refused \cap Firsts(Pipeline) = {}
    /\ \A n \in refused : Cardinality({m \in taken \ refused : m < n}) >= Capacity
    /\ \A c \in 1 .. Cells : ReceiveBuf[c] <= received
    /\ rx = "callback" => /\ ReceiveBuf[1] = received /\ Ascends(Pipeline, received - 1)
                          /\ received \notin refused
    /\ rx = "push" => offered["rx"].buffer[1] = received

IInv == Shapes /\ Bounded /\ SetUp /\ Flow

\* The events the receive thread has handed over.
Passed == executed \o (IF mgr \in {"release", "execute"} THEN <<got["mgr"]>> ELSE <<>>) \o queue

LEMMA PassedSeq ==
    ASSUME Shapes
    PROVE  /\ Passed \in Seq(Events)
           /\ rx # "push" => Pipeline = Passed
           /\ rx = "push" => Pipeline = Passed \o <<offered["rx"]>> /\ offered["rx"] \in Events
           /\ Pipeline \in Seq(Events)
<1> DEFINE A == IF mgr \in {"release", "execute"} THEN <<got["mgr"]>> ELSE <<>>
<1>1. A \in Seq(Events)
  <2>1. CASE mgr \in {"release", "execute"}
    <3>1. got["mgr"] \in Events
      BY <2>1 DEF Shapes
    <3>2. <<got["mgr"]>> \in Seq(Events)
      BY <3>1, SMT
    <3> QED BY <2>1, <3>2
  <2>2. CASE mgr \notin {"release", "execute"}
    BY <2>2, EmptySeq
  <2> QED BY <2>1, <2>2
<1>2. executed \in Seq(Events) /\ queue \in Seq(Events)
  BY DEF Shapes, TypeOK
<1> HIDE DEF A
<1>3. executed \o A \in Seq(Events)
  BY <1>1, <1>2, ConcatProperties
<1>4. (executed \o A) \o queue \in Seq(Events)
  BY <1>2, <1>3, ConcatProperties
<1>5. Passed \in Seq(Events)
  BY <1>4 DEF A, Passed
<1>6. rx # "push" => Pipeline = Passed
  <2>1. rx # "push" => Pipeline = Passed \o <<>>
    BY DEF Pipeline, Passed
  <2> QED BY <1>5, <2>1, ConcatEmptySeq
<1>7. rx = "push" => Pipeline = Passed \o <<offered["rx"]>> /\ offered["rx"] \in Events
  BY DEF Pipeline, Passed, Shapes
<1>8. Pipeline \in Seq(Events)
  BY <1>5, <1>6, <1>7, AppendParts
<1> QED BY <1>5, <1>6, <1>7, <1>8

LEMMA InitInv == Init => IInv
<1> SUFFICES ASSUME Init PROVE IInv
  OBVIOUS
<1> USE ParamFacts
<1>1. /\ net = {} /\ sends = 0 /\ dups = 0 /\ main = "socket" /\ rx = "none" /\ mgr = "none"
      /\ ReceiveBuf = [c \in 1 .. Cells |-> 0] /\ gStreamCallback = FALSE
      /\ queue = <<>> /\ offered = [p \in {"rx"} |-> NoEvent] /\ got = [c \in {"mgr"} |-> NoEvent]
      /\ received = 0 /\ taken = {} /\ refused = {} /\ executed = <<>>
      /\ alive = TRUE
  BY DEF Init, Fifo!Init
<1>2. <<>> \in Seq(Events) /\ Len(queue) = 0
  BY <1>1, EmptySeq
<1>3. ReceiveBuf \in Buffers
  BY <1>1, SMT DEF Buffers
<1>4. Shapes
  BY <1>1, <1>2, <1>3, SMT DEF Shapes, TypeOK, Occupied
<1>5. Bounded
  BY <1>1, FS_EmptySet, SMT DEF Bounded
<1>6. Passed = <<>> /\ Pipeline = Passed
  <2>1. Passed = <<>> \o <<>> \o <<>>
    BY <1>1 DEF Passed
  <2>2. <<>> \o <<>> = <<>>
    BY <1>2, ConcatEmptySeq
  <2> QED BY <1>1, <1>4, <2>1, <2>2, PassedSeq
<1>7. 1 .. Len(<<>>) = {}
  BY SMT
<1>8. Flow
  BY <1>1, <1>6, <1>7, SMT DEF Flow, Ascends, Firsts
<1> QED BY <1>1, <1>4, <1>5, <1>8 DEF IInv, SetUp

\* What a step does to everything but alive.
MainSteps ==
    \/ CreateSocket \/ Bind \/ SpawnReceiveThread
    \/ InitFifo \/ SpawnManager \/ SetStreamCallback \/ Join

ReceiveSteps ==
    \/ \E d \in net : Receive(d) \/ ReceiveNothing(d)
    \/ ReceiveError \/ NoCallback \/ PushEvent \/ Pushed \/ PushRefused

ManagerSteps == Pop \/ Popped \/ Execute

LEMMA Steps ==
    ASSUME [Next]_vars
    PROVE  /\ \/ \E line \in 1 .. MaxLine : SendLine(line)
              \/ \E d \in net : Lose(d)
              \/ MainSteps \/ Close \/ ReceiveSteps \/ ManagerSteps \/ UNCHANGED most
           /\ alive \in BOOLEAN => alive' \in BOOLEAN
<1>1. CASE Tester
  BY <1>1 DEF Tester
<1>2. CASE Main \/ Running(Close)
  BY <1>2 DEF Main, Running, MainSteps
<1>3. CASE ReceiveThread
  BY <1>3 DEF ReceiveThread, Running, ReceiveSteps, UnmappedRead
<1>4. CASE Manager
  BY <1>4 DEF Manager, Running, ManagerSteps, ManagerDies
<1>5. CASE UNCHANGED vars
  BY <1>5 DEF vars
<1> QED BY <1>1, <1>2, <1>3, <1>4, <1>5 DEF Next

LEMMA BoundedStep == Shapes /\ Bounded /\ [Next]_vars => Bounded'
<1> SUFFICES ASSUME Shapes, Bounded, [Next]_vars PROVE Bounded'
  OBVIOUS
<1>0. /\ IsFiniteSet(net) /\ Cardinality(net) \in Nat
      /\ received \in Nat /\ sends \in Nat /\ dups \in Nat
      /\ received + Cardinality(net) <= sends + dups
  BY FS_CardinalityType, ParamFacts, SMT DEF Bounded, Shapes, TypeOK
<1>1. ASSUME NEW d \in net
      PROVE  IsFiniteSet(net \ {d}) /\ Cardinality(net \ {d}) = Cardinality(net) - 1
  BY <1>0, FS_RemoveElement
<1>2. CASE \E line \in 1 .. MaxLine : SendLine(line)
  <2>1. PICK d : net' = net \cup {d}
    BY <1>2 DEF SendLine, UDP_PIPE_Send
  <2>2. IsFiniteSet(net') /\ Cardinality(net') <= Cardinality(net) + 1
    BY <1>0, <2>1, FS_AddElement, SMT
  <2>3. sends' = sends + 1 /\ dups' = dups /\ received' = received
    BY <1>2 DEF SendLine, pipe
  <2>4. Cardinality(net') \in Nat
    BY <2>2, FS_CardinalityType
  <2> QED BY <1>0, <2>2, <2>3, <2>4, SMT DEF Bounded
<1>3. CASE \E d \in net : Lose(d) \/ ReceiveNothing(d)
  <2>1. PICK d \in net : net' = net \ {d}
    BY <1>3 DEF Lose, ReceiveNothing
  <2>2. sends' = sends /\ dups' = dups /\ received' = received
    BY <1>3 DEF Lose, ReceiveNothing, pipe
  <2> QED BY <1>0, <1>1, <2>1, <2>2, SMT DEF Bounded
<1>4. CASE \E d \in net : Receive(d)
  <2>1. PICK d \in net : Receive(d)
    BY <1>4
  <2>2. sends' = sends /\ received' = received + 1
    BY <2>1 DEF Receive
  <2>3. CASE net' = net \ {d} /\ dups' = dups
    <3>1. IsFiniteSet(net') /\ Cardinality(net') = Cardinality(net) - 1
      BY <1>1, <2>3
    <3> QED BY <1>0, <2>2, <2>3, <3>1, SMT DEF Bounded
  <2>4. CASE net' = net /\ dups' = dups + 1
    BY <1>0, <2>2, <2>4, SMT DEF Bounded
  <2> QED BY <2>1, <2>3, <2>4 DEF Receive
<1>5. CASE \/ MainSteps \/ Close \/ ManagerSteps \/ UNCHANGED most
           \/ ReceiveError \/ NoCallback \/ PushEvent \/ Pushed \/ PushRefused
  <2>1. UNCHANGED tester /\ received' = received
    <3>1. CASE MainSteps \/ Close
      BY <3>1 DEF MainSteps, CreateSocket, Bind, SpawnReceiveThread, InitFifo, SpawnManager,
                  SetStreamCallback, Join, Close, pipe
    <3>2. CASE ManagerSteps \/ UNCHANGED most
      BY <3>2 DEF ManagerSteps, Pop, Popped, Execute, most, pipe
    <3>3. CASE ReceiveError \/ NoCallback \/ PushEvent \/ Pushed \/ PushRefused
      BY <3>3 DEF ReceiveError, NoCallback, PushEvent, Pushed, PushRefused
    <3> QED BY <1>5, <3>1, <3>2, <3>3
  <2>2. net' = net /\ sends' = sends /\ dups' = dups
    BY <2>1 DEF tester
  <2> QED BY <1>0, <2>1, <2>2 DEF Bounded
<1> QED BY <1>2, <1>3, <1>4, <1>5, Steps DEF ReceiveSteps

LEMMA SetUpStep == Shapes /\ SetUp /\ [Next]_vars => SetUp'
<1> SUFFICES ASSUME Shapes, SetUp, [Next]_vars PROVE SetUp'
  OBVIOUS
<1>1. CASE MainSteps
  <2>1. CASE CreateSocket \/ Bind
    BY <2>1, SMT DEF SetUp, CreateSocket, Bind, At, manager
  <2>2. CASE SpawnReceiveThread \/ Join
    BY <2>2, SMT DEF SetUp, SpawnReceiveThread, Join, At, manager, pipe
  <2>3. CASE InitFifo \/ SpawnManager
    BY <2>3, SMT DEF SetUp, InitFifo, SpawnManager, At, manager, pipe
  <2>4. CASE SetStreamCallback
    BY <2>4, SMT DEF SetUp, SetStreamCallback, At, manager, pipe
  <2> QED BY <1>1, <2>1, <2>2, <2>3, <2>4 DEF MainSteps
<1>2. CASE Close
  BY <1>2, SMT DEF SetUp, Close, At, manager
<1>3. CASE ManagerSteps
  <2>1. UNCHANGED server /\ rx' = rx /\ mgr # "none" /\ mgr' # "none"
    BY <1>3, SMT DEF ManagerSteps, Pop, Popped, Execute, pipe
  <2> QED BY <2>1, SMT DEF SetUp, server
<1>4. CASE ReceiveSteps
  <2>1. CASE \E d \in net : Receive(d) \/ ReceiveNothing(d)
    BY <2>1, SMT DEF Receive, ReceiveNothing, SetUp, server, manager
  <2>2. CASE ReceiveError \/ NoCallback
    BY <2>2, SMT DEF ReceiveError, NoCallback, SetUp, server, manager
  <2>3. CASE PushEvent \/ Pushed \/ PushRefused
    <3>1. UNCHANGED server /\ UNCHANGED manager /\ (rx' = "push" => gStreamCallback)
      BY <2>3, SMT DEF PushEvent, Pushed, PushRefused
    <3> QED BY <3>1, SMT DEF SetUp, server, manager
  <2> QED BY <1>4, <2>1, <2>2, <2>3 DEF ReceiveSteps
<1>5. CASE \/ \E line \in 1 .. MaxLine : SendLine(line)
           \/ \E d \in net : Lose(d)
  BY <1>5 DEF SetUp, SendLine, Lose, server, manager, pipe
<1>6. CASE UNCHANGED most
  BY <1>6 DEF SetUp, most, server, manager, pipe
<1> QED BY <1>1, <1>2, <1>3, <1>4, <1>5, <1>6, Steps

LEMMA ShapesStep == Shapes /\ Bounded /\ [Next]_vars => Shapes'
<1> SUFFICES ASSUME Shapes, Bounded, [Next]_vars PROVE Shapes'
  OBVIOUS
<1>0. alive' \in BOOLEAN
  BY Steps DEF Shapes, TypeOK
<1> USE ParamFacts, <1>0
<1>a. Len(queue) \in Nat /\ Occupied <= Capacity
  BY LenProperties DEF Shapes, TypeOK
<1>b. queue' = queue /\ (mgr' = mgr \/ mgr' # "release") => Occupied' <= Capacity
  BY <1>a, SMT DEF Occupied
<1> USE <1>b
<1>1. ASSUME NEW line \in 1 .. MaxLine, SendLine(line) PROVE Shapes'
  <2>1. [number |-> sends + 1, length |-> line % Word16]
            \in [number : 1 .. MaxSends, length : 0 .. Word16 - 1]
    BY <1>1, SMT DEF SendLine, Shapes, TypeOK
  <2>2. net' \subseteq [number : 1 .. MaxSends, length : 0 .. Word16 - 1]
    BY <1>1, <2>1 DEF SendLine, UDP_PIPE_Send, Shapes, TypeOK
  <2>3. sends' \in 0 .. MaxSends
    BY <1>1, SMT DEF SendLine, Shapes, TypeOK
  <2> QED BY <1>1, <2>2, <2>3 DEF SendLine, Shapes, TypeOK, pipe, fifo, manager, server
<1>2. ASSUME NEW d \in net, Lose(d) PROVE Shapes'
  BY <1>2 DEF Lose, Shapes, TypeOK, pipe, fifo, manager, server
<1>3. CASE MainSteps \/ Close
  <2>1. /\ UNCHANGED <<tester, ReceiveBuf, received, taken, fifo, refused, executed>>
        /\ main' \in {"socket", "bind", "spawn", "fifo", "manager", "callback", "loop", "join", "stopped"}
        /\ rx' = rx \/ rx' = "recv"
        /\ mgr' = mgr \/ mgr' = "pop"
    <3>1. CASE CreateSocket \/ Bind \/ SpawnReceiveThread
      BY <3>1, SMT DEF CreateSocket, Bind, SpawnReceiveThread, At, manager
    <3>2. CASE InitFifo \/ SpawnManager \/ SetStreamCallback
      BY <3>2, SMT DEF InitFifo, SpawnManager, SetStreamCallback, At, manager, pipe
    <3>3. CASE Join \/ Close
      BY <3>3, SMT DEF Join, Close, At, manager, pipe
    <3> QED BY <1>3, <3>1, <3>2, <3>3 DEF MainSteps
  <2> QED BY <2>1 DEF Shapes, TypeOK, tester, fifo
<1>4. ASSUME NEW d \in net, Receive(d) PROVE Shapes'
  <2>1. /\ received \in Nat /\ received' = received + 1
        /\ sends \in 0 .. MaxSends /\ dups' \in 0 .. MaxDups
    BY <1>4, SMT DEF Receive, Shapes, TypeOK
  <2>2. received + 1 <= MaxSends + MaxDups
    <3>1. Cardinality(net) \in Nat /\ Cardinality(net) # 0
      BY FS_CardinalityType, FS_EmptySet DEF Bounded
    <3>2. dups \in 0 .. MaxDups
      BY DEF Shapes, TypeOK
    <3> QED BY <2>1, <3>1, <3>2, SMT DEF Bounded
  <2>3. received + 1 \in Receptions
    BY <2>1, <2>2, SMT DEF Receptions
  <2>4. ReceiveBuf' \in Buffers
    BY <1>4, <2>3 DEF Receive, Shapes, TypeOK, Buffers
  <2>5. net' \subseteq [number : 1 .. MaxSends, length : 0 .. Word16 - 1]
    BY <1>4 DEF Receive, Shapes, TypeOK
  <2>6. taken' \subseteq 1 .. received' /\ refused' \subseteq 1 .. received'
    <3>1. 1 .. received \subseteq 1 .. received'
      BY <2>1, SMT
    <3> QED BY <1>4, <3>1 DEF Receive, Shapes, TypeOK
  <2>7. received' \in Nat /\ received' > 0
    BY <2>1, SMT
  <2>8. rx' = "callback" /\ sends' = sends /\ UNCHANGED <<fifo, manager, server>>
    BY <1>4 DEF Receive
  <2> QED BY <2>1, <2>4, <2>5, <2>6, <2>7, <2>8 DEF Shapes, TypeOK, fifo, manager, server
<1>5. ASSUME NEW d \in net, ReceiveNothing(d) PROVE Shapes'
  BY <1>5 DEF ReceiveNothing, Shapes, TypeOK, fifo, manager, server
<1>6. CASE ReceiveError \/ NoCallback
  BY <1>6 DEF ReceiveError, NoCallback, Shapes, TypeOK, tester, fifo, manager, server
<1>7. CASE PushEvent
  <2>1. /\ queue' = queue /\ got' = got /\ offered'["rx"] \in Events
        /\ DOMAIN offered' = {"rx"}
    BY <1>7 DEF PushEvent, Fifo!Offer, Shapes
  <2>2. taken' \subseteq 1 .. received
    <3>1. /\ taken' = taken \cup {received} /\ taken \subseteq 1 .. received
          /\ received \in Nat /\ received > 0
      BY <1>7 DEF PushEvent, Shapes, TypeOK
    <3> QED BY <3>1, SMT
  <2>3. rx' = "push" /\ received > 0 /\ UNCHANGED <<tester, open, ReceiveBuf, received, manager, server, refused>>
    BY <1>7 DEF PushEvent, Shapes
  <2> QED BY <2>1, <2>2, <2>3 DEF Shapes, TypeOK, tester, manager, server
<1>8. CASE Pushed
  <2>1. /\ queue' = Append(queue, offered["rx"]) /\ Len(queue) < Capacity /\ got' = got
        /\ offered'["rx"] = NoEvent /\ DOMAIN offered' = {"rx"}
    BY <1>8 DEF Pushed, Fifo!Enqueue, Shapes
  <2>2. offered["rx"] \in Events /\ queue \in Seq(Events)
    BY <1>8 DEF Pushed, Shapes, TypeOK
  <2>4. rx' = "recv" /\ UNCHANGED <<tester, open, ReceiveBuf, received, taken, manager, server, refused>>
    BY <1>8 DEF Pushed
  <2>3. queue' \in Seq(Events) /\ Len(queue') = Len(queue) + 1
    BY <2>1, <2>2, SMT
  <2>5. Occupied' <= Capacity
    <3>1. Occupied < Capacity /\ mgr' = mgr
      BY <1>8, <2>4 DEF Pushed, manager
    <3> QED BY <1>a, <2>3, <3>1, SMT DEF Occupied
  <2> QED BY <2>1, <2>3, <2>4, <2>5 DEF Shapes, TypeOK, tester, manager, server
<1>9. CASE PushRefused
  <2>1. /\ queue' = queue /\ got' = got /\ offered'["rx"] = NoEvent /\ DOMAIN offered' = {"rx"}
    BY <1>9 DEF PushRefused, Fifo!Refuse, Shapes
  <2>2. refused' \subseteq 1 .. received
    BY <1>9, SMT DEF PushRefused, Shapes, TypeOK
  <2>3. rx' = "recv" /\ UNCHANGED <<tester, open, ReceiveBuf, received, taken, manager, server>>
    BY <1>9 DEF PushRefused
  <2> QED BY <2>1, <2>2, <2>3 DEF Shapes, TypeOK, tester, manager, server
<1>10. CASE Pop
  <2>1. /\ queue # <<>> /\ queue \in Seq(Events)
        /\ queue' = Tail(queue) /\ got'["mgr"] = Head(queue)
        /\ DOMAIN got' = {"mgr"} /\ offered' = offered
    BY <1>10 DEF Pop, Fifo!Dequeue, Shapes, TypeOK
  <2>2. /\ Head(queue) \in Events /\ Tail(queue) \in Seq(Events)
        /\ Len(Tail(queue)) = Len(queue) - 1 /\ Len(queue) \in Nat
    BY <2>1, HeadTailProperties, LenProperties
  <2>4. mgr = "pop" /\ mgr' = "release" /\ UNCHANGED <<tester, pipe, executed, server, refused>>
    BY <1>10 DEF Pop
  <2>3. Occupied' <= Capacity
    BY <1>a, <2>1, <2>2, <2>4, SMT DEF Occupied
  <2> QED BY <2>1, <2>2, <2>3, <2>4 DEF Shapes, TypeOK, tester, pipe, server
<1>11. CASE Execute
  <2>1. got["mgr"] \in Events /\ executed \in Seq(Events)
    BY <1>11 DEF Execute, Shapes
  <2>2. executed' \in Seq(Events)
    BY <1>11, <2>1, SMT DEF Execute
  <2>3. mgr' = "pop" /\ UNCHANGED <<tester, pipe, fifo, server, refused>>
    BY <1>11 DEF Execute
  <2> QED BY <2>2, <2>3 DEF Shapes, TypeOK, tester, pipe, fifo, server
<1>12. CASE Popped
  BY <1>12 DEF Popped, Shapes, TypeOK, tester, pipe, fifo, server
<1>13. CASE UNCHANGED most
  BY <1>13 DEF most, Shapes, TypeOK, tester, pipe, fifo, manager, server
<1> QED BY <1>1, <1>2, <1>3, <1>4, <1>5, <1>6, <1>7, <1>8, <1>9, <1>10, <1>11, <1>12, <1>13, Steps
        DEF ReceiveSteps, ManagerSteps

LEMMA FlowKeeps ==
    ASSUME Flow, UNCHANGED <<queue, offered, got, executed, ReceiveBuf, received, taken, refused>>,
           mgr' \in {"release", "execute"} <=> mgr \in {"release", "execute"}, rx' = "push" <=> rx = "push",
           rx' = "callback" => rx = "callback"
    PROVE  Flow'
<1>1. Pipeline' = Pipeline
  BY DEF Pipeline
<1> QED BY <1>1 DEF Flow, Ascends, Firsts

\* The manager takes the oldest event along, and adds it to those executed.
LEMMA ManagerKeeps == Shapes /\ Shapes' /\ Flow /\ ManagerSteps => Flow'
<1> SUFFICES ASSUME Shapes, Shapes', Flow, ManagerSteps PROVE Flow'
  OBVIOUS
<1>1. executed \in Seq(Events) /\ queue \in Seq(Events) /\ <<>> \in Seq(Events)
  BY EmptySeq DEF Shapes, TypeOK
<1>2. Passed' = Passed
  <2>1. CASE Pop
    <3>1. /\ mgr = "pop" /\ mgr' = "release" /\ executed' = executed /\ queue # <<>>
          /\ queue' = Tail(queue) /\ got'["mgr"] = Head(queue)
      BY <2>1 DEF Pop, Fifo!Dequeue, Shapes
    <3>2. Head(queue) \in Events /\ Tail(queue) \in Seq(Events) /\ queue = <<Head(queue)>> \o Tail(queue)
      BY <1>1, <3>1, HeadAndTail
    <3>3. <<Head(queue)>> \in Seq(Events)
      BY <3>2, SMT
    <3>4. Passed' = executed \o <<Head(queue)>> \o Tail(queue)
      BY <3>1 DEF Passed
    <3>5. Passed = (executed \o <<>>) \o queue
      BY <3>1 DEF Passed
    <3>6. Passed = executed \o queue
      BY <1>1, <3>5, ConcatEmptySeq
    <3>7. (executed \o <<Head(queue)>>) \o Tail(queue) = executed \o (<<Head(queue)>> \o Tail(queue))
      BY <1>1, <3>2, <3>3, ConcatAssociative
    <3> QED BY <3>2, <3>4, <3>6, <3>7
  <2>2. CASE Execute
    <3>1. /\ mgr = "execute" /\ mgr' = "pop" /\ queue' = queue
          /\ executed' = Append(executed, got["mgr"]) /\ got["mgr"] \in Events
      BY <2>2 DEF Execute, fifo, Shapes
    <3>2. executed' = executed \o <<got["mgr"]>>
      BY <1>1, <3>1, SMT
    <3>3. executed' \in Seq(Events)
      BY DEF Shapes
    <3>4. Passed' = (executed' \o <<>>) \o queue
      BY <3>1 DEF Passed
    <3>5. Passed' = executed' \o queue
      BY <3>3, <3>4, ConcatEmptySeq
    <3>6. Passed = (executed \o <<got["mgr"]>>) \o queue
      BY <3>1 DEF Passed
    <3> QED BY <3>2, <3>5, <3>6
  <2>3. CASE Popped
    BY <2>3 DEF Popped, fifo, Passed
  <2> QED BY <2>1, <2>2, <2>3 DEF ManagerSteps
<1>3. rx' = rx /\ offered' = offered /\ UNCHANGED <<ReceiveBuf, received, taken, refused>>
  BY DEF ManagerSteps, Pop, Popped, Execute, Fifo!Dequeue, pipe, fifo
<1>4. Pipeline' = Pipeline
  BY <1>2, <1>3 DEF Pipeline, Passed
<1> QED BY <1>3, <1>4 DEF Flow, Ascends, Firsts

\* As many events as the FIFO holds are ahead of one that is refused.
LEMMA RefusedLater ==
    ASSUME Shapes, Flow, PushRefused
    PROVE  /\ received \notin refused /\ received \notin Firsts(Passed)
           /\ \A n \in refused' : Cardinality({m \in taken' \ refused' : m < n}) >= Capacity
<1> DEFINE e == offered["rx"]
           len == Len(Passed)
           earlier == {m \in taken \ (refused \cup {received}) : m < received}
<1>1. /\ rx = "push" /\ e \in Events /\ e.buffer[1] = received /\ received \in Nat
      /\ taken' = taken /\ refused' = refused \cup {received}
      /\ Occupied = Capacity /\ refused \subseteq 1 .. received /\ taken \subseteq 1 .. received
  BY DEF PushRefused, Shapes, Flow, TypeOK
<1>2. Passed \in Seq(Events) /\ Pipeline = Passed \o <<e>>
  BY <1>1, PassedSeq
<1>3. /\ len \in Nat /\ Len(Pipeline) = len + 1
      /\ \A i \in 1 .. len : Pipeline[i] = Passed[i]
      /\ Pipeline[len + 1] = e
  BY <1>1, <1>2, AppendParts
<1>4. Capacity <= len
  <2> DEFINE A == IF mgr \in {"release", "execute"} THEN <<got["mgr"]>> ELSE <<>>
  <2>1. A \in Seq(Events) /\ Len(A) \in Nat /\ (mgr = "release" => Len(A) = 1)
    <3>1. CASE mgr \in {"release", "execute"}
      <4>1. got["mgr"] \in Events
        BY <3>1 DEF Shapes
      <4>2. <<got["mgr"]>> \in Seq(Events) /\ Len(<<got["mgr"]>>) = 1
        BY <4>1, SMT
      <4> QED BY <3>1, <4>2
    <3>2. CASE mgr \notin {"release", "execute"}
      <4>1. <<>> \in Seq(Events) /\ Len(<<>>) = 0
        BY EmptySeq
      <4> QED BY <3>2, <4>1
    <3> QED BY <3>1, <3>2
  <2>2. executed \in Seq(Events) /\ queue \in Seq(Events)
    BY DEF Shapes, TypeOK
  <2>3. Passed = (executed \o A) \o queue
    BY DEF Passed
  <2> HIDE DEF A
  <2>4. executed \o A \in Seq(Events) /\ Len(executed \o A) = Len(executed) + Len(A)
    BY <2>1, <2>2, ConcatProperties
  <2>5. len = Len(executed) + Len(A) + Len(queue)
    BY <2>2, <2>3, <2>4, ConcatProperties
  <2>6. Len(executed) \in Nat /\ Len(queue) \in Nat
    BY <2>2, LenProperties
  <2> QED BY <1>1, <2>1, <2>5, <2>6, SMT DEF Occupied
<1>5. /\ \A i, j \in 1 .. len : i < j => Passed[i].buffer[1] < Passed[j].buffer[1]
      /\ \A i \in 1 .. len : Passed[i].buffer[1] < received
  <2>1. Ascends(Pipeline, received)
    BY DEF Flow
  <2>2. /\ len + 1 \in 1 .. Len(Pipeline)
        /\ \A i \in 1 .. len : i \in 1 .. Len(Pipeline) /\ i < len + 1
    BY <1>3, SMT
  <2>3. \A i, j \in 1 .. Len(Pipeline) : i < j => Pipeline[i].buffer[1] < Pipeline[j].buffer[1]
    BY <2>1 DEF Ascends
  <2>4. \A i \in 1 .. len : Pipeline[i].buffer[1] < Pipeline[len + 1].buffer[1]
    BY <2>2, <2>3
  <2> HIDE DEF len, e
  <2>5. \A i, j \in 1 .. len : i < j => Passed[i].buffer[1] < Passed[j].buffer[1]
    BY <1>3, <2>2, <2>3
  <2> QED BY <1>1, <1>3, <2>4, <2>5 DEF e
<1>6. \A i \in 1 .. len : Passed[i].buffer[1] \in Nat
  BY <1>2, EventCells, ElementOfSeq, ParamFacts
<1>7. received \in Firsts(Pipeline) /\ Firsts(Pipeline) = Firsts(Passed) \cup {received}
  BY <1>1, <1>2, FrontAscends DEF Flow
<1>8. received \notin refused
  BY <1>7 DEF Flow
<1>9. received \notin Firsts(Passed)
  BY <1>1, <1>5, <1>6, SMT DEF Firsts
<1>10. IsFiniteSet(earlier) /\ Capacity <= Cardinality(earlier)
  <2> DEFINE f == [i \in 1 .. len |-> Passed[i].buffer[1]]
  <2>1. \A i \in 1 .. len : Passed[i].buffer[1] \in earlier
    <3> SUFFICES ASSUME NEW i \in 1 .. len PROVE Passed[i].buffer[1] \in earlier
      OBVIOUS
    <3>1. Passed[i].buffer[1] \in Firsts(Pipeline)
      BY <1>7 DEF Firsts
    <3>2. Passed[i].buffer[1] \in taken /\ Passed[i].buffer[1] \notin refused
      BY <3>1 DEF Flow
    <3>3. Passed[i].buffer[1] # received /\ Passed[i].buffer[1] < received
      BY <1>1, <1>5, <1>6, SMT
    <3> QED BY <3>2, <3>3
  <2>2. \A i, j \in 1 .. len : f[i] = f[j] => i = j
    <3> SUFFICES ASSUME NEW i \in 1 .. len, NEW j \in 1 .. len, i # j PROVE f[i] # f[j]
      OBVIOUS
    <3>1. i < j \/ j < i
      BY <1>3, SMT
    <3>2. f[i] < f[j] \/ f[j] < f[i]
      BY <1>5, <3>1
    <3> QED BY <1>6, <3>2, SMT
  <2>3. f \in Injection(1 .. len, earlier)
    BY <2>1, <2>2 DEF Injection, IsInjective
  <2>4. IsFiniteSet(earlier)
    <3>1. IsFiniteSet(1 .. received)
      BY <1>1, FS_Interval
    <3>2. earlier \in SUBSET (1 .. received)
      BY <1>1
    <3> QED BY <3>1, <3>2, FS_Subset
  <2> HIDE DEF f, earlier
  <2>5. Cardinality(1 .. len) <= Cardinality(earlier)
    BY <2>3, <2>4, FS_Injection
  <2>6. Cardinality(1 .. len) = len
    <3>1. len \in Int /\ 1 \in Int /\ (1 > len => len = 0) /\ (~(1 > len) => len - 1 + 1 = len)
      BY <1>3, SMT
    <3>2. Cardinality(1 .. len) = IF 1 > len THEN 0 ELSE len - 1 + 1
      BY <3>1, FS_Interval
    <3> QED BY <3>1, <3>2
  <2>7. Cardinality(earlier) \in Nat
    BY <2>4, FS_CardinalityType
  <2> QED BY <1>3, <1>4, <2>4, <2>5, <2>6, <2>7, ParamFacts, SMT
<1>11. ASSUME NEW n \in refused' PROVE Cardinality({m \in taken' \ refused' : m < n}) >= Capacity
  <2>1. CASE n = received
    <3>1. {m \in taken' \ refused' : m < n} = earlier
      BY <1>1, <2>1
    <3>2. Cardinality(earlier) \in Nat
      BY <1>10, FS_CardinalityType
    <3> HIDE DEF earlier
    <3> QED BY <1>10, <3>1, <3>2, ParamFacts, SMT
  <2>2. CASE n # received
    <3>1. n \in refused
      BY <1>1, <2>2
    <3>3. n \in 1 .. received
      BY <1>1, <3>1
    <3>4. \A k \in 1 .. received : ~(received < k)
      BY <1>1, SMT
    <3>2. {m \in taken' \ refused' : m < n} = {m \in taken \ refused : m < n}
      BY <1>1, <3>3, <3>4
    <3> QED BY <3>1, <3>2 DEF Flow
  <2> QED BY <2>1, <2>2
<1> QED BY <1>8, <1>9, <1>11

LEMMA FlowStep == IInv /\ Shapes' /\ [Next]_vars => Flow'
<1> SUFFICES ASSUME IInv, Shapes', [Next]_vars PROVE Flow'
  OBVIOUS
<1>0. Shapes /\ SetUp /\ Flow /\ received \in Nat /\ Passed \in Seq(Events)
  BY PassedSeq, ParamFacts DEF IInv, Shapes, TypeOK
<1>1. CASE \/ \E line \in 1 .. MaxLine : SendLine(line)
           \/ \E d \in net : Lose(d) \/ ReceiveNothing(d)
           \/ ReceiveError \/ NoCallback \/ UNCHANGED most
  <2>1. /\ UNCHANGED <<queue, offered, got, executed, ReceiveBuf, received, taken, refused, mgr>>
        /\ rx # "push" => rx' # "push"
        /\ rx = "push" => rx' = "push"
        /\ rx' = "callback" => rx = "callback"
    BY <1>1 DEF SendLine, Lose, ReceiveNothing, ReceiveError, NoCallback, most, pipe, fifo, manager
  <2> QED BY <1>0, <2>1, FlowKeeps
<1>2. CASE MainSteps \/ Close
  <2>1. UNCHANGED <<queue, offered, got, executed, ReceiveBuf, received, taken, refused>>
    BY <1>2 DEF MainSteps, Close, CreateSocket, Bind, SpawnReceiveThread, InitFifo, SpawnManager,
                SetStreamCallback, Join, pipe, fifo, manager
  <2>2. rx' = rx \/ (rx # "push" /\ rx' = "recv")
    BY <1>0, <1>2, SMT DEF SetUp, MainSteps, Close, CreateSocket, Bind, SpawnReceiveThread, InitFifo,
                SpawnManager, SetStreamCallback, Join, pipe, At
  <2>3. mgr' = mgr \/ (mgr = "none" /\ mgr' = "pop")
    BY <1>0, <1>2, SMT DEF SetUp, MainSteps, Close, CreateSocket, Bind, SpawnReceiveThread, InitFifo,
                SpawnManager, SetStreamCallback, Join, manager, At
  <2> QED BY <1>0, <2>1, <2>2, <2>3, FlowKeeps
<1>3. ASSUME NEW d \in net, Receive(d) PROVE Flow'
  <2>1. /\ UNCHANGED <<queue, offered, got, executed, mgr, taken, refused>>
        /\ received' = received + 1 /\ rx = "recv" /\ rx' = "callback"
        /\ ReceiveBuf' = [c \in 1 .. Cells |->
                             IF c <= Written(d.length) THEN received + 1 ELSE ReceiveBuf[c]]
        /\ Written(d.length) > 0
    BY <1>3 DEF Receive, fifo, manager
  <2>2. Pipeline' = Pipeline /\ Pipeline \in Seq(Events)
    BY <1>0, <2>1, PassedSeq DEF Pipeline
  <2>3. Ascends(Pipeline, received + 1)
    BY <1>0, <2>2, AscendsMore, SMT DEF Flow
  <2>4. \A c \in 1 .. Cells : ReceiveBuf'[c] <= received + 1
    <3>1. \A c \in 1 .. Cells : ReceiveBuf[c] \in Nat /\ ReceiveBuf[c] <= received
      BY <1>0, BufferCells DEF Shapes, TypeOK, Flow
    <3> QED BY <1>0, <2>1, <3>1, SMT
  <2>5. ReceiveBuf'[1] = received + 1
    <3>1. 1 <= Written(d.length)
      <4>1. d.length \in Nat
        BY <1>0, ParamFacts, SMT DEF Shapes, TypeOK
      <4> QED BY <2>1, <4>1, ParamFacts, SMT DEF Written
    <3> QED BY <2>1, <3>1, ParamFacts
  <2>6. received + 1 - 1 = received
    BY <1>0, SMT
  <2>7. Ascends(Pipeline', received') /\ Ascends(Pipeline', received' - 1)
    BY <1>0, <2>1, <2>2, <2>3, <2>6 DEF Flow
  <2>8. /\ taken' = refused' \cup Firsts(Pipeline')
        /\ refused' \cap Firsts(Pipeline') = {}
        /\ \A n \in refused' : Cardinality({m \in taken' \ refused' : m < n}) >= Capacity
    BY <1>0, <2>1, <2>2 DEF Flow
  <2>9. received' \notin refused'
    <3>1. received + 1 \notin 1 .. received
      BY <1>0, SMT
    <3> QED BY <1>0, <2>1, <3>1 DEF Shapes, TypeOK
  <2> QED BY <2>1, <2>4, <2>5, <2>7, <2>8, <2>9 DEF Flow, Ascends, Firsts
<1>4. CASE PushEvent
  <2>1. /\ UNCHANGED <<queue, got, executed, mgr, ReceiveBuf, received, refused>>
        /\ rx = "callback" /\ rx' = "push" /\ taken' = taken \cup {received}
        /\ received > 0
    BY <1>0, <1>4 DEF PushEvent, Fifo!Offer, manager, Shapes
  <2>2. PICK e : e = offered'["rx"]
    OBVIOUS
  <2>3. e \in Events /\ e.buffer = ReceiveBuf
    BY <1>4, <2>1, <2>2 DEF PushEvent, Shapes
  <2>4. Pipeline = Passed /\ Passed' = Passed /\ Pipeline' = Passed \o <<e>>
    BY <1>0, <2>1, <2>2, PassedSeq DEF Passed, Pipeline
  <2>5. /\ Ascends(Passed, received - 1) /\ e.buffer[1] = received
        /\ \A c \in 1 .. Cells : e.buffer[c] <= e.buffer[1]
    BY <1>0, <2>1, <2>3, <2>4 DEF Flow, Shapes, TypeOK
  <2>6. received - 1 \in Int /\ e.buffer[1] > received - 1
    BY <1>0, <2>5, SMT
  <2>7. Ascends(Pipeline', received) /\ Firsts(Pipeline') = Firsts(Passed) \cup {received}
    BY <1>0, <2>3, <2>4, <2>5, <2>6, AppendAscends
  <2>8. /\ taken' = refused' \cup Firsts(Pipeline')
        /\ refused' \cap Firsts(Pipeline') = {}
    BY <1>0, <2>1, <2>4, <2>7 DEF Flow
  <2>9. \A n \in refused' : Cardinality({m \in taken' \ refused' : m < n}) >= Capacity
    <3> SUFFICES ASSUME NEW n \in refused
                 PROVE  Cardinality({m \in taken' \ refused' : m < n}) >= Capacity
      BY <2>1
    <3>3. n \in 1 .. received
      BY <1>0 DEF Shapes, TypeOK
    <3>1. ~(received < n)
      BY <1>0, <3>3, SMT
    <3>2. {m \in taken' \ refused' : m < n} = {m \in taken \ refused : m < n}
      BY <2>1, <3>1
    <3> QED BY <1>0, <3>2 DEF Flow
  <2> QED BY <1>0, <2>1, <2>2, <2>5, <2>7, <2>8, <2>9 DEF Flow, Ascends, Firsts
<1>5. CASE Pushed
  <2>1. /\ UNCHANGED <<got, executed, mgr, ReceiveBuf, received, taken, refused>>
        /\ rx = "push" /\ rx' = "recv" /\ queue' = Append(queue, offered["rx"])
    BY <1>5 DEF Pushed, Fifo!Enqueue, manager
  <2> DEFINE A == IF mgr \in {"release", "execute"} THEN <<got["mgr"]>> ELSE <<>>
             o == <<offered["rx"]>>
  <2>2. offered["rx"] \in Events /\ executed \in Seq(Events) /\ queue \in Seq(Events)
    BY <1>0, <2>1 DEF Shapes, TypeOK
  <2>3. o \in Seq(Events)
    BY <2>2, SMT
  <2>4. A \in Seq(Events)
    <3>1. CASE mgr \in {"release", "execute"}
      <4>1. got["mgr"] \in Events
        BY <1>0, <3>1 DEF Shapes
      <4>2. <<got["mgr"]>> \in Seq(Events)
        BY <4>1, SMT
      <4> QED BY <3>1, <4>2
    <3>2. CASE mgr \notin {"release", "execute"}
      BY <3>2, EmptySeq
    <3> QED BY <3>1, <3>2
  <2>5. queue' = queue \o o
    <3>1. Append(queue, offered["rx"]) = queue \o <<offered["rx"]>>
      BY <2>2, AppendIsConcat
    <3> QED BY <2>1, <3>1
  <2>6. Passed' = (executed \o A) \o (queue \o o)
    BY <2>1, <2>5 DEF Passed
  <2>7. Pipeline' = Passed'
    <3>1. (Shapes => (rx # "push" => Pipeline = Passed))'
      BY PassedSeq, PTL
    <3> QED BY <2>1, <3>1
  <2>8. Pipeline = ((executed \o A) \o queue) \o o
    BY <2>1 DEF Pipeline
  <2> HIDE DEF A, o
  <2>9. executed \o A \in Seq(Events)
    BY <2>2, <2>4, ConcatProperties
  <2>10. ((executed \o A) \o queue) \o o = (executed \o A) \o (queue \o o)
    <3>1. \A s, t, u \in Seq(Events) : (s \o t) \o u = s \o (t \o u)
      BY ConcatAssociative
    <3> QED BY <2>2, <2>3, <2>9, <3>1, Zenon
  <2>11. Pipeline' = Pipeline
    BY <2>6, <2>7, <2>8, <2>10
  <2> QED BY <1>0, <2>1, <2>11 DEF Flow, Ascends, Firsts
<1>6. CASE PushRefused
  <2>1. /\ UNCHANGED <<queue, got, executed, mgr, ReceiveBuf, received, taken>>
        /\ rx = "push" /\ rx' = "recv" /\ refused' = refused \cup {received}
    BY <1>6 DEF PushRefused, Fifo!Refuse, manager
  <2>2. Passed' = Passed /\ Pipeline = Passed \o <<offered["rx"]>> /\ offered["rx"] \in Events
    BY <1>0, <2>1, PassedSeq DEF Passed
  <2>3. Pipeline' = Passed'
    <3>1. (Shapes => (rx # "push" => Pipeline = Passed))'
      BY PassedSeq, PTL
    <3> QED BY <2>1, <3>1
  <2>4. Ascends(Passed, received) /\ Firsts(Pipeline) = Firsts(Passed) \cup {received}
    BY <1>0, <2>1, <2>2, FrontAscends DEF Flow
  <2>5. received \notin refused /\ received \notin Firsts(Passed)
    BY <1>0, <1>6, RefusedLater
  <2>6. /\ taken' = refused' \cup Firsts(Pipeline')
        /\ refused' \cap Firsts(Pipeline') = {}
    BY <1>0, <2>1, <2>2, <2>3, <2>4, <2>5 DEF Flow
  <2>7. \A n \in refused' : Cardinality({m \in taken' \ refused' : m < n}) >= Capacity
    BY <1>0, <1>6, RefusedLater
  <2> QED BY <1>0, <2>1, <2>2, <2>3, <2>4, <2>6, <2>7 DEF Flow, Ascends, Firsts
<1>7. CASE ManagerSteps
  BY <1>0, <1>7, ManagerKeeps
<1> QED BY <1>1, <1>2, <1>3, <1>4, <1>5, <1>6, <1>7, Steps DEF ReceiveSteps

-----------------------------------------------------------------------------
(* Main theorems                                                           *)

LEMMA Invariance == Spec => []IInv
<1>1. IInv /\ [Next]_vars => IInv'
  BY ShapesStep, BoundedStep, SetUpStep, FlowStep DEF IInv
<1> QED BY <1>1, InitInv, PTL DEF Spec

(* The buffers hold events of their size, the FIFO never more than its     *)
(* capacity, and what is executed was received.                            *)
THEOREM TypeCorrect == Spec => []TypeOK
<1>1. IInv => TypeOK
  BY DEF IInv, Shapes
<1> QED BY <1>1, Invariance, PTL

(* For any network, buffer and capacity: events are executed in the order  *)
(* of their receptions, none twice, and what they have of ReceiveBuf is as *)
(* old as their datagram or older.                                         *)
THEOREM ExecutedInOrder == Spec => []InOrder
<1>1. IInv => InOrder
  BY DEF IInv, Flow, Ascends, InOrder
<1> QED BY <1>1, Invariance, PTL

(* A datagram that reached PushEvent is executed, on its way, or refused;  *)
(* refused only behind as many accepted ones as the FIFO has places.       *)
THEOREM NothingForgotten == Spec => []NoneForgotten
<1>1. IInv => NoneForgotten
  BY DEF IInv, Flow, Firsts, NoneForgotten
<1> QED BY <1>1, Invariance, PTL

(* No push before the FIFO is initialised and the manager polls it.        *)
THEOREM PushedWhenReady == Spec => []ReadyWhenPushed
<1>1. IInv => ReadyWhenPushed
  BY DEF IInv, SetUp, ReadyWhenPushed
<1> QED BY <1>1, Invariance, PTL
=============================================================================
