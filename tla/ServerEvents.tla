---------------------------- MODULE ServerEvents ----------------------------
(***************************************************************************)
(* From the tester's console to a service: Tester/main.cpp sends a line as *)
(* a datagram (udppipe/udppipe.c), the receive thread of the server's pipe *)
(* gives it to PushEvent, the FIFO keeps it, and the event manager thread  *)
(* takes it out and executes it (Server/DataTransport.cpp,                 *)
(* Server/EventManager.cpp).  The server's main thread sets these parts up *)
(* while the receive thread is running already.                            *)
(*                                                                         *)
(* The FIFO is BoundedFifo, which XifFifo implements, with one pushing and *)
(* one popping thread; a place is free again when xif_fifo_pop returns.    *)
(* The network loses, reorders and duplicates datagrams.  ReceiveBuf is    *)
(* divided into Cells; a cell holds the number of the reception that wrote *)
(* it last (0: none).                                                      *)
(*                                                                         *)
(* PushEvent ignores the length and copies a whole xif_event, 4104 bytes,  *)
(* out of the 1024 of ReceiveBuf: an event is the buffer and whatever the  *)
(* memory beyond it holds, if it can be read at all.  Executing an event   *)
(* may end the server as well, see ManagerDies.                            *)
(***************************************************************************)
EXTENDS Integers, Sequences, FiniteSets

CONSTANTS
    Capacity,       \* UDS_FIFO_CAPACITY
    Cells,          \* length of ReceiveBuf
    Beyond,         \* what the memory behind ReceiveBuf may hold
    ThreadLimit,    \* threads that can be created and never joined
    Word16,         \* number of values of a uint16_t length
    MaxLine,        \* bound: length of a console line
    MaxSends,       \* bound: lines typed
    MaxDups,        \* bound: datagrams the network duplicates
    NoEvent         \* no xif_event

ASSUME Params ==
    /\ Capacity \in Nat \ {0}
    /\ Cells \in Nat \ {0}
    /\ ThreadLimit \in Nat
    /\ Word16 \in Nat \ {0}
    /\ MaxLine \in Nat /\ MaxSends \in Nat /\ MaxDups \in Nat

VARIABLES
    net,            \* datagrams on the way to the server: number and length
    sends, dups,    \* counters for the bounds
    main,           \* where the server's main thread is
    rx,             \* where the receive thread is
    mgr,            \* where the event manager thread is
    open,           \* ReceivingSocket is open
    ReceiveBuf,
    gStreamCallback,\* ExecutesServicePrimitive is registered
    ready,          \* _fifo points to an initialised FIFO in mode mimo
    queue, offered, got,    \* the FIFO, see BoundedFifo
    received,       \* history: datagrams recvfrom returned
    taken,          \* history: those given to the callback
    refused,        \* history: those whose push returned false
    executed,       \* the events executed, in order
    alive           \* the server process runs

tester == <<net, sends, dups>>
pipe == <<rx, open, ReceiveBuf, received, taken>>
fifo == <<queue, offered, got>>
manager == <<mgr, executed>>
server == <<main, gStreamCallback, ready>>
most == <<tester, pipe, fifo, manager, server, refused>>
vars == <<most, alive>>

-----------------------------------------------------------------------------
Receptions == 1 .. MaxSends + MaxDups

Buffers == [1 .. Cells -> Receptions \cup {0}]

\* What PushEvent copies: the buffer as it is and what lies behind it.
Events == [buffer : Buffers, beyond : Beyond]

Fifo == INSTANCE BoundedFifo WITH
    Producers <- {"rx"}, Consumers <- {"mgr"}, Data <- Events, NoDatum <- NoEvent

Init ==
    /\ net = {} /\ sends = 0 /\ dups = 0
    /\ main = "socket" /\ rx = "none" /\ mgr = "none"
    /\ open = FALSE
    /\ ReceiveBuf = [c \in 1 .. Cells |-> 0]
    /\ gStreamCallback = FALSE
    /\ ready = FALSE
    /\ Fifo!Init
    /\ received = 0 /\ taken = {} /\ refused = {}
    /\ executed = <<>>
    /\ alive = TRUE

-----------------------------------------------------------------------------
(* The tester: a line is sent with its length cut to 16 bits.              *)

UDP_PIPE_Send(length) ==
    net' = net \cup {[number |-> sends + 1, length |-> length]}

SendLine(line) ==
    /\ sends < MaxSends
    /\ UDP_PIPE_Send(line % Word16)
    /\ sends' = sends + 1
    /\ UNCHANGED <<dups, pipe, fifo, manager, server, refused>>

Lose(d) ==
    /\ net' = net \ {d}
    /\ UNCHANGED <<sends, dups, pipe, fifo, manager, server, refused>>

-----------------------------------------------------------------------------
(* InitDataTransport                                                       *)

At(here, there) == main = here /\ main' = there

\* UDP_PIPE_InitA.  It has no result: without a socket the server goes on.
CreateSocket ==
    /\ \/ At("socket", "bind") /\ open' = TRUE
       \/ At("socket", "fifo") /\ UNCHANGED open
    /\ UNCHANGED <<tester, rx, ReceiveBuf, received, taken, fifo, manager,
                   gStreamCallback, ready, refused>>

Bind ==
    /\ \/ At("bind", "spawn") /\ UNCHANGED open
       \/ At("bind", "fifo") /\ open' = FALSE
    /\ UNCHANGED <<tester, rx, ReceiveBuf, received, taken, fifo, manager,
                   gStreamCallback, ready, refused>>

SpawnReceiveThread ==
    /\ At("spawn", "fifo")
    /\ rx' = "recv"
    /\ UNCHANGED <<tester, open, ReceiveBuf, received, taken, fifo, manager,
                   gStreamCallback, ready, refused>>

\* Faulty: the callback is set before the event manager is initialised.
FaultyInitFifo ==
    /\ At("fifo", "manager")
    /\ gStreamCallback' = TRUE
    /\ UNCHANGED <<tester, pipe, fifo, manager, ready, refused>>

\* InitEventManager
InitFifo ==
    /\ At("fifo", "manager")
    /\ ready' = TRUE
    /\ UNCHANGED <<tester, pipe, fifo, manager, gStreamCallback, refused>>

SpawnManager ==
    /\ At("manager", "callback")
    /\ mgr' = "pop"
    /\ UNCHANGED <<tester, pipe, fifo, executed, gStreamCallback, ready, refused>>

SetStreamCallback ==
    /\ At("callback", "loop")
    /\ gStreamCallback' = TRUE
    /\ UNCHANGED <<tester, pipe, fifo, manager, ready, refused>>

\* UDP_PIPE_DeInit, by a user of the pipe whose main does not loop for ever.
Close ==
    /\ At("loop", "join")
    /\ rx # "none"
    /\ open' = FALSE
    /\ UNCHANGED <<tester, rx, ReceiveBuf, received, taken, fifo, manager,
                   gStreamCallback, ready, refused>>

Join ==
    /\ At("join", "stopped")
    /\ rx = "done"
    /\ UNCHANGED <<tester, pipe, fifo, manager, gStreamCallback, ready, refused>>

-----------------------------------------------------------------------------
(* ReceiveThread                                                           *)

Written(length) == IF length < Cells THEN length ELSE Cells

\* recvfrom returns a datagram, which may come again.
Receive(d) ==
    /\ rx = "recv" /\ open
    /\ Written(d.length) > 0
    /\ \/ net' = net \ {d} /\ UNCHANGED dups
       \/ dups < MaxDups /\ dups' = dups + 1 /\ UNCHANGED net
    /\ received' = received + 1
    /\ ReceiveBuf' = [c \in 1 .. Cells |-> IF c <= Written(d.length) THEN received + 1 ELSE ReceiveBuf[c]]
    /\ rx' = "callback"
    /\ UNCHANGED <<sends, open, taken, fifo, manager, server, refused>>

\* The loop ends at an empty datagram, in the Windows build at one longer than
\* the buffer, and when the socket is closed.
ReceiveNothing(d) ==
    /\ rx = "recv" /\ open
    /\ d.length = 0 \/ d.length > Cells
    /\ net' = net \ {d}
    /\ rx' = "done"
    /\ UNCHANGED <<sends, dups, open, ReceiveBuf, received, taken, fifo, manager, server, refused>>

\* Faulty: an error is skipped.
FaultyReceiveError ==
    /\ rx = "recv" /\ ~open
    /\ UNCHANGED vars

ReceiveError ==
    /\ rx = "recv" /\ ~open
    /\ rx' = "done"
    /\ UNCHANGED <<tester, open, ReceiveBuf, received, taken, fifo, manager, server, refused>>

NoCallback ==
    /\ rx = "callback" /\ ~gStreamCallback
    /\ rx' = "recv"
    /\ UNCHANGED <<tester, open, ReceiveBuf, received, taken, fifo, manager, server, refused>>

\* ExecutesServicePrimitive calls PushEvent, which calls xif_fifo_push.
PushEvent ==
    /\ rx = "callback" /\ gStreamCallback
    /\ rx' = "push"
    /\ taken' = taken \cup {received}
    /\ Fifo!Offer("rx") /\ offered'["rx"].buffer = ReceiveBuf
    /\ UNCHANGED <<tester, open, ReceiveBuf, received, manager, server, refused>>

\* The places in use: an event on its way out keeps its place until head moves.
Occupied == Len(queue) + (IF mgr = "release" THEN 1 ELSE 0)

Pushed ==
    /\ rx = "push"
    /\ Occupied < Capacity
    /\ Fifo!Enqueue("rx")
    /\ rx' = "recv"
    /\ UNCHANGED <<tester, open, ReceiveBuf, received, taken, manager, server, refused>>

\* Faulty: one place is never used.
FaultyPushRefused ==
    /\ rx = "push"
    /\ Occupied >= Capacity - 1
    /\ Fifo!Refuse("rx")
    /\ refused' = refused \cup {received}
    /\ rx' = "recv"
    /\ UNCHANGED <<tester, open, ReceiveBuf, received, taken, manager, server>>

\* The result of xif_fifo_push is not looked at.
PushRefused ==
    /\ rx = "push"
    /\ Occupied = Capacity
    /\ Fifo!Refuse("rx")
    /\ refused' = refused \cup {received}
    /\ rx' = "recv"
    /\ UNCHANGED <<tester, open, ReceiveBuf, received, taken, manager, server>>

-----------------------------------------------------------------------------
(* loop_ManageEvent                                                        *)

\* Faulty: the manager stops when the server is stopped.
FaultyPop ==
    /\ mgr = "pop" /\ main = "loop"
    /\ Fifo!Dequeue("mgr")
    /\ mgr' = "release"
    /\ UNCHANGED <<tester, pipe, executed, server, refused>>

Pop ==
    /\ mgr = "pop"
    /\ Fifo!Dequeue("mgr")
    /\ mgr' = "release"
    /\ UNCHANGED <<tester, pipe, executed, server, refused>>

\* head moves, and xif_fifo_pop returns.
Popped ==
    /\ mgr = "release"
    /\ mgr' = "execute"
    /\ UNCHANGED <<tester, pipe, executed, fifo, server, refused>>

\* Faulty: the manager executes the event that comes next.
FaultyExecute ==
    /\ mgr = "execute"
    /\ executed' = Append(executed, IF queue # <<>> THEN queue[1] ELSE got["mgr"])
    /\ mgr' = "pop"
    /\ UNCHANGED <<tester, pipe, fifo, server, refused>>

\* Every event gets a thread that does nothing and that nobody joins.
Execute ==
    /\ mgr = "execute"
    /\ Len(executed) < ThreadLimit
    /\ executed' = Append(executed, got["mgr"])
    /\ mgr' = "pop"
    /\ UNCHANGED <<tester, pipe, fifo, server, refused>>

-----------------------------------------------------------------------------
(* Steps that end the server.                                              *)

\* The copy of xif_fifo_push runs into memory that is not mapped.
UnmappedRead ==
    /\ rx = "push"
    /\ Occupied < Capacity
    /\ alive' = FALSE
    /\ UNCHANGED most

\* printf follows _ctx, which is eight bytes of a datagram; no further thread
\* can be created; or the event's type is none of the table's.
ManagerDies ==
    /\ mgr = "execute"
    /\ alive' = FALSE
    /\ UNCHANGED most

-----------------------------------------------------------------------------
Running(A) == alive /\ A /\ UNCHANGED alive

Main ==
    Running(\/ CreateSocket \/ Bind \/ SpawnReceiveThread
            \/ InitFifo \/ SpawnManager \/ SetStreamCallback \/ Join)

ReceiveThread ==
    \/ Running(\/ \E d \in net : Receive(d) \/ ReceiveNothing(d)
               \/ ReceiveError \/ NoCallback \/ PushEvent \/ Pushed \/ PushRefused)
    \/ alive /\ UnmappedRead

Manager ==
    \/ Running(Pop \/ Popped \/ Execute)
    \/ alive /\ ManagerDies

Tester ==
    /\ \/ \E line \in 1 .. MaxLine : SendLine(line)
       \/ \E d \in net : Lose(d)
    /\ UNCHANGED alive

Next == Tester \/ Main \/ Running(Close) \/ ReceiveThread \/ Manager

Spec == Init /\ [][Next]_vars

(* The three threads of the server run.  Nobody has to type or to stop the *)
(* server, and the network may lose every datagram.                        *)
FairSpec == Spec /\ WF_vars(Main) /\ WF_vars(ReceiveThread) /\ WF_vars(Manager)

-----------------------------------------------------------------------------
(* Properties                                                              *)

\* The events on their way from the receive thread, oldest first.
Pipeline ==
    executed
    \o (IF mgr \in {"release", "execute"} THEN <<got["mgr"]>> ELSE <<>>)
    \o queue
    \o (IF rx = "push" THEN <<offered["rx"]>> ELSE <<>>)

(* What the threads of the pipe, of the server loop and of the event queue  *)
(* keep between two of their steps.                                         *)
TypeOK ==
    /\ net \subseteq [number : 1 .. MaxSends, length : 0 .. Word16 - 1]
    /\ sends \in 0 .. MaxSends /\ dups \in 0 .. MaxDups
    /\ main \in {"socket", "bind", "spawn", "fifo", "manager", "callback", "loop", "join", "stopped"}
    /\ rx \in {"none", "recv", "callback", "push", "done"}
    /\ mgr \in {"none", "pop", "release", "execute"}
    /\ ReceiveBuf \in Buffers
    /\ queue \in Seq(Events) /\ Occupied <= Capacity
    /\ offered["rx"] \in Events \cup {NoEvent} /\ got["mgr"] \in Events \cup {NoEvent}
    /\ received \in Nat
    /\ taken \subseteq 1 .. received /\ refused \subseteq 1 .. received
    /\ alive \in BOOLEAN

(* Events are executed in the order in which their datagrams were received *)
(* (not sent), none twice.  The bytes an event has of ReceiveBuf stem from *)
(* its own datagram or, where that was too short, from earlier ones; never *)
(* from one received while the event was waiting.  (Of the 3080 bytes read *)
(* beyond ReceiveBuf nothing is said.)                                     *)
InOrder ==
    /\ \A i, j \in 1 .. Len(Pipeline) : i < j => Pipeline[i].buffer[1] < Pipeline[j].buffer[1]
    /\ \A i \in 1 .. Len(Pipeline), c \in 1 .. Cells :
          Pipeline[i].buffer[c] <= Pipeline[i].buffer[1]

(* Every datagram given to the callback is an event that was executed or   *)
(* is on its way - or its push was refused, which nobody notices.  None is *)
(* refused before as many earlier ones were accepted as the FIFO holds.    *)
NoneForgotten ==
    /\ taken = refused \cup {Pipeline[i].buffer[1] : i \in 1 .. Len(Pipeline)}
    /\ \A n \in refused : Cardinality({m \in taken \ refused : m < n}) >= Capacity

(* Although the receive thread runs before the FIFO exists, nothing is     *)
(* pushed until the FIFO is initialised and the event manager polls it.    *)
ReadyWhenPushed == rx = "push" => ready /\ mgr # "none"

(* An event the FIFO accepted is executed, also when the receive thread    *)
(* has ended by then, unless the server dies first.                        *)
Dispatched ==
    \A n \in Receptions :
        (n \in taken \ refused /\ rx # "push") ~>
            ((\E i \in DOMAIN executed : executed[i].buffer[1] = n) \/ ~alive)

(* UDP_PIPE_DeInit returns, unless the server dies: the receive thread     *)
(* ends wherever it is when the socket is closed, if closing wakes a       *)
(* waiting recvfrom.                                                       *)
DeInitReturns == main = "join" ~> (main = "stopped" \/ ~alive)
=============================================================================
