# A verification development for UDSPractice

UDSPractice is a small C/C++ code base for unified diagnostic services: a
tester sends requests over UDP (and, in `doip/`, over DoIP/TCP), a server puts
them into a lock-free FIFO and dispatches them to service threads, and a
software timer module runs callbacks at tick times. This directory holds TLA+
models of its parts, TLC configurations that check them, and TLAPS proofs.
Paths below are relative to `src/UDSPractice/`.

## Inventory

| Component | Source | State it keeps | Operations | How it meets the others | Hard behaviour |
|---|---|---|---|---|---|
| Lock-free FIFO | `utils/fifo/xif_safe_fifo.c` | four 32-bit cursors, a policy, the slots | `init`, `reset`, `setmode`, `push`, `pop`, `is_empty`, `is_full` | shared memory between the UDP receive thread (push) and the event manager thread (pop) | any interleaving of loads, CASes and `memcpy`s; cursors that wrap; stalled threads |
| Byte ring | `utils/fifo/xif_safe_rwbuf.c` | four 32-bit cursors, a policy, the bytes | `init`, `setmode`, `reset`, `write`, `read` | no caller yet | as the FIFO, and pieces that cross the end of the ring |
| Timer module | `Timer/timer/Timers.cpp`, `Timer/List/List.cpp` | two ordered lists of timers, tick time, last sampled time | `Create`, `StartTimer`, the processing loop | user callbacks run in the loop's thread; the tick comes from the system clock | the tick overflows; start and expiry race with the clock; functions re-enter each other |
| DoIP client | `doip/doip_client.c`, `doip/doip_pdu.c` | a TCP socket, a reassembly buffer, callbacks | `init`, `doip_routing_active`, `doip_client_send`, `recv_loop` | a receive thread and a caller share the socket | partial and merged TCP segments, disconnect and reconnect, failing sends |
| UDP pipe | `udppipe/udppipe.c` | a socket, one receive buffer, two callbacks, a thread | `Init`, `Send`, `DeInit`, `SetStreamCallback` | calls back into the server from the receive thread | loss, reordering, an empty datagram or an error ends the thread |
| Server | `Server/DataTransport.cpp`, `Server/EventManager.cpp` | the FIFO, the manager thread | `InitDataTransport`, `InitEventManager`, `PushEvent`, `loop_ManageEvent` | connects pipe, FIFO and service threads | start-up order, a full FIFO, stale bytes, copies beyond a buffer, threads never joined |
| Tester | `Tester/main.cpp` | none | a console loop around `UDP_PIPE_Send` | UDP | none of its own |
| Service primitives, services, sessions | `Application_Sender_Receiver/`, `Services/`, `Sessions/` | none | empty or undefined bodies | named by the event manager | nothing is implemented |
| Vendored code | `3rd_plugins/`, `lib/` | | | | not part of this project |

What makes each part correct:

* **FIFO**: it is a bounded queue to its callers; no slot is used by two copies
  at once; a datum stays until it has been popped; calls that claimed a
  position finish.
* **Byte ring**: bytes come out in the order they went in, each once, and no
  copy leaves the buffer.
* **Timers**: a callback runs when its expiry time has been reached and not
  before, once per period; the lists stay ordered across the overflow.
* **DoIP client**: every diagnostic message the peer sends is delivered once and
  whole, every request goes out with its own type and length, there is one
  socket at a time, and a lost connection is replaced. The code keeps the first
  two only with limits, which the properties name.
* **Pipe and server**: a received datagram becomes one event or is refused by a
  full FIFO; events are executed in the order of reception; nothing is pushed
  before the FIFO and its manager exist; the server can be shut down. The code
  can also end the server at any event, which the properties name.

## The lock-free FIFO

### Modules

* `BoundedFifo` - what callers are promised: a queue of at most `Capacity`
  datums; a push adds its datum once or is refused; a pop takes the oldest. A
  refusal is possible in any state: with several producers the code does refuse
  pushes although a place has become free (below).
* `XifFifo` - the code. State: `policy` is the operation table and the access
  bits (the code sets both together); `head`, `tail`, `write_cursor`,
  `read_cursor`, `data` are the fields of `xif_fifo_s`; `pc`, `cursor`, `seen`,
  `datum` are the threads' places and locals. One action per load of a shared
  field, CAS or `memcpy`: `PushCall`, `LoadWriteCursor`, `FullLoad`,
  `PushFull`/`PushNotFull`, `ClaimWrite`/`RetryWrite`, `CopyIn`, `ReleaseWrite`
  follow `xif_fifo_push`; the pop actions follow `xif_fifo_pop`. The single and
  the multi policy differ only in which cursor they use and whether they CAS.
* `XifFifoInv` - the inductive invariant. `XifFifoProofs` - the proofs of the
  safety properties; `XifFifoRefines` - the proof that the ring implements
  `BoundedFifo`.
* `Lemmas` - facts the proofs of several components need: remainders and words,
  putting an element into a sequence and cutting one out, the least number of a
  set, and reaching every number up to a bound.
* `MCXifFifo` - TLC's instance (threads of a side are interchangeable).

Decisions: the two volatile operands of a comparison may be loaded in either
order (C leaves it open), and a comparison takes effect at its second load.
`FullIsGenuine` and `EmptyIsGenuine` (a refused call met a full or an empty ring)
hold for operands loaded from left to right and claim nothing of the other order:
there the two loads can agree although the ring was neither full nor empty.
Further,
memory is sequentially consistent (the CASes are full barriers on both
platforms; on the x86 targets of the project files plain loads and stores keep
the order the argument needs); the datum is one value, copied in one step,
because `ExclusiveSlots` shows no two copies overlap. `Reset` and `SetMode` take
place while no call runs, and `SetMode` on a fresh ring, as `InitEventManager`
does. The single policies let one thread at a time into that side.

### Runs

| Run | Instance | Shows |
|---|---|---|
| `fifo_safe` | 2 producers, 2 consumers, 2 slots, word 8, 4 pushes | `Inv`, `Filled`, `CursorOrder`, `ExclusiveSlots`, `NoOverwrite`, `EmptyIsGenuine`, `FullIsGenuine`, and `IsFifo`: the ring implements `BoundedFifo` |
| `fifo_wrap` | 1 and 1, 2 slots, word 4, 9 pushes | `IsFifo` with cursors that wrap twice, when the capacity divides the word |
| `fifo_live` | 2 and 2, 2 slots, 2 pushes, fair threads | `PushHandsOver`, `PopHandsOver`, `Drained` |
| `fifo_wrap_slots` | 1 and 1, 3 slots, word 4 | violated `NoOverwrite`: a finding, see below |

Bounds: two threads a side is the least at which claims compete and releases
wait for each other; with two slots and four pushes the ring fills, empties and
goes round twice. `Word` is 2^32 in the code; a small word with
`MaxPush + Capacity < Word` behaves as an unbounded one, and a smaller one
shows the wrap.

Fairness: weak fairness for each push in progress and for each consumer's loop
(`loop_ManageEvent` pops for ever): a running thread is eventually scheduled.
Nothing makes anyone push.

Finding (`fifo_wrap_slots`): `xif_fifo_get_datum` computes `pos % capacity` on a
cursor that wraps at 2^32. If the capacity does not divide 2^32 - the server
configures 10 - the slots on the two sides of the wrap are not adjacent, and a
push overwrites datums still waiting, against the comment "reading finished, the
data is free-used" (`xif_safe_fifo.c:91`).

### Proofs

`XifFifoProofs` proves, for any sets of threads, any capacity and any word:

* `TypeCorrect`: `Spec => []TypeOK`, with no further assumption.
* Under `NoWrap == MaxPush + Capacity < Word` (fewer pushes than a cursor has
  values; otherwise `fifo_wrap_slots` refutes the claims): `RingInvariant`
  (`[]Inv`), `Order` (`[]CursorOrder`), `Exclusive` (`[]ExclusiveSlots`),
  `Kept` (`NoOverwrite`), `GenuinelyEmpty`, `GenuinelyFull`.
* Under `NoWrap` too, in `XifFifoRefines`: `SlotsFilled` (`[]Filled`) and
  `RingIsFifo` (`IsFifo`): every behaviour of the ring is one of `BoundedFifo`.

The argument: `CursorOrder` alone is not inductive, because a thread may be
interrupted between reading a cursor and its CAS. `Inv` adds what each thread
still knows (`PushView`, `PopView`): a loaded cursor is a lower bound of the
cursor; if they are still equal when the CAS is tried, no other thread has
claimed since, so the full or empty test it passed still holds. `OwnPositions`
(claimed positions differ) lets a release move `tail` or `head` past exactly
one claim; `Counted` (each position has a push call of its own) bounds the
cursors, so that `uint32_t` arithmetic is arithmetic (`PlainNext`, `PlainMinus`,
`FullMeans`). `SlotsDiffer` then turns "positions within a ring-full" into
"different slots".

`RingIsFifo` needs one thing more, `Filled`: once a push has left its `memcpy`,
the slot it claimed holds its datum until its position is consumed, so that the
queue the mapping reads off the slots between `head` and `tail` is the datums
that were pushed, and what `CopyOut` takes is its front. The mapping puts the
effect of a push at the move of `tail` and that of a pop where it takes its
position; every other action is a stutter.

Only model-checked: the liveness properties, and everything about cursors that
wrap.

## The timer module

### Modules

* `SortedLists` - what `List.cpp` promises: lists of items in ascending order
  of their values; an item is in one list at most; the place among equal values
  is not promised.
* `TimerList` - `List.cpp` by its pointers: `next`, `previous`, `item_value`,
  `container` of the items and of the embedded end markers, `number_of_items`
  and `index` of the lists. `InsertItem` is the scan (`StopsAt`), the four
  pointer assignments (`Link`), container and counter; `RemoveItem` the inverse
  and the step back of `index`. `StopsAt` says where the scan ends; `Scan` is
  the loop itself, a recursive function, and `ScanEnds` that the two agree.
  `Contents` walks a list from its end marker, and is the sequence `SortedLists`
  sees.
* `Timers` - `Timers.cpp` over sorted lists. `clock` is the real time in ticks
  since the constructor, `Tick` the word the program sees of it; `last` is
  `xLastTime`, `expiry[t]` the time whose tick is the `item_value` of `t`.
  `stack` is the chain of calls in progress: `start` (before the first reading
  of `StartTimer`), `command` (before the second), `insert` (before
  `prvInsertTimerInActiveList`), `switch` (in the loop of
  `prvSwitchTimerLists`), `expired` (a callback still to be made by
  `prvProcessExpiredTimer`). The clock may go on (`Pass`) between any two
  steps. `Sample`/`SampleOverflow` are the readings of `StartTimer`, the
  `Switch...` actions the turns of the switching loop and its end, the
  `Round...` actions one round of `TimerProcessLoop`. `ran` records a callback
  with the time its timer was due.
* `MCTimerList`, `MCTimers` - TLC's instances. `TimerListProofs`, and
  `TimersProofs` over the invariants of `TimersInv` - the proofs.

Decisions: everything runs in one thread at a time (`main` starts its timers
before it enters the loop and then joins that thread), and callbacks do not
start timers, as in `Timer/main.cpp`. `portENTER_CRITICAL` therefore guards
nothing the model could show. `Create` is the initial state: it stores the
parameters and sets the lists up once.

### Runs

| Run | Instance | Shows |
|---|---|---|
| `timer_list` | 3 items, 2 lists, values 0..3 | `Linked`; `Threaded` (the members of each list form one thread, whose items are in order and counted); `ScanEnds`; `IsSortedLists`: the pointers implement `SortedLists` |
| `timers_oneshot` | periods 2 and 5, word 6, clock 0..13 | `NotEarly`, `Epochs`, `MustHaveExpired`, `NoneOverdue`, `Called` across two overflows |
| `timers_reload` | auto-reload 2, one-shot 3, no overflow | `StaysActive`, `Called` with rounds more than two periods late: a late round calls an auto-reload timer once and skips the periods missed |
| `timers_reentrant` | both auto-reload, word 6, clock 0..13 | `InsertsFree`, `ListsSorted` whatever the nesting |
| `timers_switch` | the same | violated `MustHaveExpired`: a finding, see below |

Bounds: a word of 6 gives each timer every position relative to the overflow;
13 ticks hold two of them. Three `StartTimer` calls let the application start
a timer again while it is in a list. `MaxLag` is below the word: the module
notices an overflow as a smaller reading, so it depends on a reading at least
once per turn (49.7 days); the runs use every lag the bound allows.

Fairness (`FairSpec`): the thread goes on, having no lock to wait for, and time
passes. `main` does reach the loop after its last `StartTimer`.

Finding (`timers_switch`): when the tick overflows, `prvSwitchTimerLists` calls
`StartTimer` for an auto-reload timer whose next time overflows
(`Timers.cpp:124`). `xLastTime` is assigned only after the switch (`:214`), so
the first reading inside sees the overflow again, and a nested switch exchanges
the lists. The timer is inserted in the new current list, which is the list the
outer loop (`:110`) goes on emptying: it calls timers that have not expired,
period after period, and the lists are exchanged a second time if it ever ends.
The comment at `:106-109` says timers still in the current list "must have
expired". With one-shot timers only, the comment holds (`timers_oneshot`).
What survives in any case is in `timers_reentrant`: no item is linked twice and
both lists stay sorted.

Also visible in `StaysActive`: an auto-reload timer is dropped without notice
when `StartTimer` needs a whole period between its two readings, because the
code that would restart it is commented out (`:62-65`). The property names this
as the only case.

### Proofs

`TimerListProofs` proves for any finite set of items, any lists and any
`MaxDelay`: `TypeCorrect` (`[]TypeOK`), `RingsLinked` (`[]Linked`), `Sorted`
(`[]Ascending`), `CounterRight` (`[]Counted`), `ListsThreaded` (`[]Threaded`),
`ScanFindsPlace` (`[]ScanEnds`) and `ListsAreSorted` (`IsSortedLists`). The
conjunction `ListInv` is inductive and none of its parts is: a removal keeps the
order because `Linked` identifies the neighbours, and keeps the counter natural
because `Counted` makes it the cardinality of a set that has the removed item.

`Linked` looks at neighbours only, and would allow a second ring that the end
marker does not reach. `Threaded` says that there is none: the members of a list
are a sequence without repetition, each linked to the next and both ends to the
marker. Insertion puts an element into that sequence (`PutIs`), removal cuts one
out (`CutIs`), and the sequence bounds the walks: `Scan` meets the node of
`StopsAt`, and `Contents` returns the sequence. Both walks are recursive
functions. That the equation of such a function has a solution is shown by
giving one, and that it has no other by the least number at which two would
differ (`Least`), because the induction theorems take an operator.

`TimersProofs` proves about `Timers`, for any timers, periods, word and lags:

* For every mixture of modes: `TypeCorrect` (`[]TypeOK`), `NoDoubleInsert`
  (`[]InsertsFree`) and `Sorted` (`[]ListsSorted`), from `Invariant` (`[]Inv`).
  `InsertsFree` is not inductive: while `StartTimer` is interrupted by a switch
  its timer is in no list, and only that keeps a nested call from inserting it.
  `Inv` says which calls *hold* their timer (`Holds`: a call that has taken it
  out, or that a switch has made after taking it out), that no two calls hold
  the same one and none is in a list too (`Apart`), and how calls nest
  (`Nested`). The call of the application is the one exception: until its
  second reading the timer may still be in a list. `With` finds its place by a
  `CHOOSE`; that there is one is `Least` (in `Lemmas`), which gets the least
  element of a set of numbers from the well-foundedness of set inclusion, since the induction
  theorems for numbers are out of reach.
* For every mixture of modes too: `NeverLost` (`StaysActive`), from `Inv` and
  `Timely`: what a call has read is never later than what it reads next, nor
  than the readings of the calls nested in it, so the clock of `Inv`'s stack
  runs one way through any depth of switches. `ActiveStep` follows a timer from
  list to call and back; `LateMeans` shows that `pdTRUE` from
  `prvInsertTimerInActiveList` can only mean that a whole period has elapsed.
* With one-shot timers only (`AutoReload = {}`; with auto-reload timers
  `timers_switch` refutes the claims): `NeverEarly` (`[]NotEarly`),
  `EachInItsTurn` (`[]Epochs`), `SwitchedHaveExpired` (`[]MustHaveExpired`),
  `NoneMissed` (`[]NoneOverdue`), from `OneShotInvariant` (`[]OneShotInv`). Its
  parts: a switch is never nested (`Shallow`), no two readings are a word apart
  (`Frequent`), and every listed timer expires in the turn of its list
  (`InTurn`). `Turns` is the arithmetic behind it: less than a word apart, a
  smaller tick is one of the next turn. `ListOfTurn` draws the conclusion for
  the comparisons of `prvInsertTimerInActiveList`.

Only model-checked: the liveness property `Called`.

## The byte ring

### Modules

* `XifRwbuf` - `xif_safe_rwbuf.c`. Writes and reads go through the same
  stations, so one action describes a station for both sides: `WriteCall` and
  `ReadCall` enter, then `LoadCursor`, the test `Refused`/`Fits` (one load of
  the other side's field, against the local copy of the cursor), the
  compare-and-swap `Claim`/`Retry`, the `memcpy` `CopyIn`/`CopyOut`, and
  `Release`, which waits for the earlier claims. `Reset` and `SetMode` are as in
  `XifFifo`. `given` and `written` are history: the bytes written and the
  position in the stream each has.
* `XifRwbufInv`, `XifRwbufProofs` - the inductive invariant and the proofs;
  `MCXifRwbuf` - TLC's instance.

The `memcpy`s (`:238`, `:255`) are not split where `pos % capacity` goes back to
0. The model follows the bytes inside the buffer only: what a write puts behind
the end is lost, and a read gets `NoByte` for it, so `ReadsBack` excepts exactly
those bytes, and `ExclusiveBytes` says nothing of them. The overrun itself is in
no property. A length of 0 is excluded: an empty write can wait for ever for a
`tail` that has gone past its position (`:114`). `new`, `free` and `peek` have
empty bodies.

### Run

`rwbuf` has 2 writers, 2 readers, 2 bytes of capacity, pieces of 1 and 2 bytes
and 3 bytes in all: pieces of different sizes compete, the ring fills, and a
piece of 2 crosses the end. It checks `Inv`, `CursorOrder`, `ExclusiveBytes`,
`ReadsBack`, `RefusedGenuinely` and, with weak fairness for each thread inside a
call, `HandsOver`.

### Proofs

For any threads, sizes and capacity, with `MaxBytes + Capacity < Word` in the
assumptions of the module: `TypeCorrect`, `RingInvariant` (`[]Inv`), `Order`,
`Exclusive`, `ReadsWhatWasWritten`, `Refusals`. `Inv` has the order of the four
cursors (`Ring`), a range of bytes of its own for each writer (`OwnBytes`,
`Counted`: they bound the cursors), what an interrupted thread still knows
(`View`), disjoint claims (`Apart`), and what the buffer holds between `head`
and `tail` (`Stored`). Only model-checked: `HandsOver`.

## The DoIP client

### Modules

* `DoipPdu` - `doip_pdu.h`: message types, the sizes of the packed structures,
  the templates in network byte order, and `Swap16`/`Swap32`.
* `DoipClient` - `doip_client.c`: the application thread (`init`, then
  `doip_routing_active` and `doip_client_send`), the receive thread
  (`recv_loop`), and a peer. The stream is the concatenation of the frames the
  peer sent; a byte is its position in it, so a lost, doubled or moved byte
  shows. `recv` returns a piece of one of the lengths `Pieces`; `recv_buf` is
  what the buffer holds up to `offset`, with 0 for a byte nobody knows. A header
  put together from two places announces any of `Totals`, negative numbers
  included (`Decode`). `UserdataIn` is what the callback gets: `PayloadLength - 4`
  as a `uint16_t`, or `Overread` where that is more than the buffer holds. A
  piece that does not fit behind `offset` is an `Overrun`: `recv` writes into the
  statics beside `recv_buf`, and the model stops there, because what the program
  does next depends on the layout the linker chose. Each access to the header of
  the shared request and each system call is a step: `CreateMsg`, `SetType`, `SetLength`,
  `SetSa` (`doiphdr_create`), `SendMeasure`, `SwapLength`, `SwapType`,
  `SendReturn` (`doip_client_send`), `ReceiveSmall` (12 bytes or less: kept for
  later), `ReceivePart`, `ReceiveOther`, `ReceiveDiag`, `ReceiveError`,
  `CloseSocket`, `ForgetSocket`, `Unlink` (`close`, `gsock = 0` and
  `remote_unlink = true`, between which the application may use `gsock`),
  `CreateSocket`, `Reconnect`. The peer sends frames, and closes
  or resets the connection.
* `MCDoipClient` - TLC's instance; `DoipClientProofs` - the proofs.

### What the code does, and what the properties claim

The model showed several limits of the code, and the properties state what
holds up to them (the history variables `clean`, `failed`, `overlapped`):

* After a message has been handed over, the rest of the buffer is not moved to
  the front (`:134`): if TCP merges two frames, the old one is in front again.
* The length test (`:108`) is made on the piece just received, so a frame whose
  last piece has at most 12 bytes waits for the next piece.
* `recv` may write `BUFFER_SIZE` bytes behind `offset` (`:103`), which has no
  bound: small pieces add up, and so do pieces behind a header that announces
  more than was sent.
* A header read across two frames may announce less than 4 bytes of payload: the
  callback is given a length near 65536 (`:128`, `:132`), and a negative total
  moves `offset` forward (`:134`).
* `offset` is not reset by a reconnect (`:161`).
* A failed `send` leaves the header in network order (`:340`).
* The receive thread's routing activation may be in `doiphdr_create` while the
  application is between its writes to the same header (`:296`).
* `recv` returning 0, an orderly close, is not an error (`:139`): the loop spins
  and never reconnects.

`Delivered` (every diagnostic message that has arrived was given to the
callback, whole, once, in order, and nothing was written beyond `recv_buf`)
assumes pieces that do not cross frames, last pieces of more than 12 bytes, and
no loss inside a frame: that is what `clean` records. Frames are assumed to fit
the buffer (`Params`). It does not say what happens otherwise; the steps that do
are in the model. `SentWell` excepts
the request after a failed one and those overlapped by `doiphdr_create`, and so
says that the header, swapped in place call after call, is right every other
time. `OneSocket` excepts the moment between `close` and `gsock = 0`, in which
`gsock` is the number of a socket that is closed. `Reconnects` excepts an orderly
close, a `socket` that failed, and an overrun buffer.

### Run

`doip_client`: acknowledgements of 13 bytes (one piece) and diagnostic messages
of 17 (two pieces), pieces of 4 and 13 bytes, 2 frames, 2 requests, 1 loss. The
pieces make a message that arrives as the properties want it, 4 and 13; in other
orders they end it with a short piece or run into the next frame. `BufferSize` is 30
instead of 4095 and holds a frame and most of another, so that the buffer can be
overrun with 2 frames. `Totals` has -2 (less than nothing), 10 (less than header
and addresses) and 25 (more than a frame, within the buffer).
Deadlock is not checked: the client may be idle, or have stopped at an overrun.
Fairness: both threads go on; `close` succeeds if tried again and again, and a peer asked again and again accepts (strong fairness,
since these attempts are enabled only from time to time).

### Proofs

For frames of any kinds and number, user data and pieces of any lengths that fit
the buffers, any contents of the heap and any number of losses (`Params` has the
sizes of the buffers, `TotalsFit` the range in which `offset - total_len` is an
`int`): `TypeCorrect` (`[]TypeOK`), `OneSocketAtATime`
(`[]OneSocket`), `RequestsSentWell` (`[]SentWell`) and `MessagesDelivered`
(`[]Delivered`).

* `TypeOK` says what is left of the origin of bytes when headers lie: `recv_buf`
  holds bytes received or unknown, and a call of the callback gets such bytes or
  is an `Overread` (`UserdataType`).
* `OneSocket` needs where each thread is in relation to `gsock` (`SocketInv`):
  the two threads set it at different times, and only the receive thread after
  the start.
* `SentWell` needs the state of the header at each place of a request
  (`HeaderInv`) and that swapping twice gives the number back (`SwapTwice`).
* `Delivered` needs where in the stream the client is. `Ends`, the positions of
  the frames' last bytes, is a recursive function; `MarksExist` solves its
  equation with `UpTo` (every number up to a bound is reached), and from it
  follow that the positions increase (`EndsIncrease`) and that a new frame does
  not move them (`EndsStay`). The invariant is `Inside`: while `clean` holds,
  `recv_buf` is the beginning of exactly one frame, and everything before is
  gone. So the header in front of it is that of its own frame, and decodes to
  that frame's type and size (`HeaderRead`, `HeaderDecodes`), and a piece that
  stays inside the frame fits the buffer because the frame does (`Fits`,
  `FitsNext`); a buffer that reaches the decoded size ends where the frame ends (`FrameComplete`), and
  `SubSeq` cuts out its user data (`UserdataInBuffer`). The arrived diagnostic
  messages in ascending order are a list that the new frame, being the last,
  extends at its end (`NextDue`), and so does `Append` with what was handed over.
  `Reconnect` keeps `Inside` only because a connection that is lost inside a
  frame clears `clean`.

Only model-checked: `Reconnects`.

## The pipe and the server

### Modules

`ServerEvents` composes the tester's line, the network, the pipe's receive
thread, `PushEvent`, the FIFO and the manager. The FIFO is an instance of
`BoundedFifo`, which `XifFifo` is shown to implement, with a stricter guard: as
there is one producer, `write_cursor` stands still during its test, which takes
effect where `head` is loaded, whatever the order; so `PushRefused` requires
`Occupied = Capacity` and `Pushed` the opposite.
A place is free again when `xif_fifo_pop` moves `head`, after it has taken the
event (`Pop`, `Popped`). The network loses, doubles and reorders datagrams. Main goes through `CreateSocket`, `Bind`,
`SpawnReceiveThread`, `InitFifo`, `SpawnManager`, `SetStreamCallback`: the
receive thread is running before the rest exists. `Close` and `Join` are
`UDP_PIPE_DeInit`, called by a user of the pipe. The static `ReceiveBuf` is an
array of cells that hold the number of the reception that wrote them last, so
that stale bytes show. An event is the buffer and something more: `xif_fifo_push`
copies `sizeof(xif_event)` = 4104 bytes out of a buffer of 1024, and the 3080
bytes behind it are the `beyond` of the event, any of `Beyond`, of which no
property says anything. Two steps may end the server:
`UnmappedRead`, where that copy meets memory that cannot be read; and
`ManagerDies`, where `printf` follows `_ctx` (`EventManager.cpp:66`), where no
thread can be created (`:70`), or where the type of the event is none of the
table's (`:78`). `Execute` itself is limited by `ThreadLimit`, since a thread is
started for every event and never joined. `MCServerEvents` - the instance;
`ServerEventsProofs` - the proofs.

Visible in the model: an empty datagram ends the receive thread (`udppipe.c:133`;
a line of 65536 characters is sent with length 0, `Tester/main.cpp:34`); a push
refused by a full FIFO is reported as made (`EventManager.cpp:89`); a datagram
shorter than the buffer is completed by bytes of earlier ones, and the buffer by
memory behind it; each event leaks a thread (`:70`).

### Run

`server_events`: capacity 2, 2 cells, at most 3 threads, one value for the bytes
behind the buffer (no guard depends on them, so a second value adds states and
no behaviour), 16-bit lengths scaled to 4 values (so that
the longest line has length 0), 3 lines, 1 duplicate: the FIFO can overflow, a
short datagram can follow a long one, and an empty one can end the thread while
events wait. It checks `InOrder`, `NoneForgotten`, `ReadyWhenPushed`,
`Dispatched`, `DeInitReturns`. Deadlock is not checked: the server may be idle.
Fairness: the three threads run. `DeInitReturns` assumes that closing the socket
wakes a waiting `recvfrom`, as it does on Windows; it does not on Linux.
`Dispatched` and `DeInitReturns` end with "or the server has died" (`~alive`):
nothing in the code prevents `UnmappedRead` and `ManagerDies`. While the server
lives, no event that was accepted is left behind. `NoneForgotten` and `InOrder`
have no such exception; `NoneForgotten` also says that a datagram is refused only
behind as many accepted ones as the FIFO has places.

### Proofs

For any capacity, buffer, network, thread limit and memory behind the buffer:
`TypeCorrect`, `ExecutedInOrder`,
`NothingForgotten`, `PushedWhenReady`. The invariant follows an event along its
way (`Flow`): the receptions in what was executed, is being executed, waits, and
is being pushed form one ascending sequence. The places in use (`Occupied`)
are events of that sequence, so a refusal has that many accepted datagrams before
it. Only model-checked: `Dispatched` and `DeInitReturns`.

## Plan

1. `BoundedFifo`, `XifFifo`, `XifFifoInv`, `MCXifFifo`, `XifFifoProofs`,
   `XifFifoRefines`, over `Lemmas` (done).
2. `SortedLists`, `TimerList`, `TimerListProofs`, `Timers`, `TimersInv`,
   `TimersProofs` (done).
3. `XifRwbuf`, `XifRwbufInv`, `XifRwbufProofs` (done).
4. `DoipPdu`, `DoipClient`, `DoipClientProofs` (done).
5. `ServerEvents`, `ServerEventsProofs` (done).
6. Left: `IsFifo` with cursors that wrap.

Out of the prover's reach, and therefore with TLC: every liveness property
(fairness and ENABLED). What a recursive definition computes can be proved only
where its equation can be solved with `Least` or `UpTo`, as for the walks of
`TimerList` and the frames of `DoipClient`, since the induction theorems take an operator as a parameter.

## Not modelled

* Service primitives, services, sessions and server behaviours
  (`Application_Sender_Receiver/`, `Services/`, `Sessions/`, `Server/`
  behaviours): bodies that are empty, undefined or never reached.
* The timer queue: declared, never used. `port.cpp`: the nesting of its critical
  sections guards nothing in a program with one timer thread.
* The tester beyond the length of the line it sends; console output, option and
  address parsing.
* In the pipe: `gDataCallback`, which nothing sets, and joining a thread that
  was never made. In the server: what a program does after reading memory it
  does not own and going on (its end is modelled), and a second
  `InitDataTransport`.
* In the DoIP client: `SIGPIPE`, failing `malloc`s, frames longer than the 4095
  bytes of the buffer, what is overwritten behind `recv_buf`, a file that is given
  the number of the socket just closed, `set_ipaddr`. The test of the `malloc` and the assignment
  of `gdoip_msg` are one step.
* The vendored headers of pthreads, semaphores, scheduling and `getopt`
  (`3rd_plugins/`, `lib/`, twice each). They are about half of the lines of the
  repository's sources, and declare a library that is used from the code here;
  threads, sockets and the clock are modelled from that use.
