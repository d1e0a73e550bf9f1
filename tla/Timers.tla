------------------------------- MODULE Timers -------------------------------
(***************************************************************************)
(* The software timers of Timer/timer/Timers.cpp.                          *)
(*                                                                         *)
(* The program sees the time as a tick, a word that overflows.  Timers     *)
(* that expire before the next overflow are in the current list, the       *)
(* others in the overflow list; prvSwitchTimerLists exchanges the two when *)
(* a reading of the tick is less than the one before.  Everything runs in  *)
(* one thread (main starts timers, then joins the thread of the loop), but *)
(* the functions re-enter each other: reading the time may switch the      *)
(* lists, which may start a timer, which reads the time.  `stack' is that  *)
(* chain of calls.  Between any two readings the clock may go on.          *)
(*                                                                         *)
(* Times are kept as ticks since the constructor, without overflow; the    *)
(* program's view of a time is Tick(time).  The lists are those that       *)
(* TimerList shows List.cpp to implement.                                  *)
(***************************************************************************)
EXTENDS Naturals, Sequences, FiniteSets

CONSTANTS
    Timer,      \* the timers the application has created
    Period,     \* period_in_ticks of each
    AutoReload, \* the timers created with auto_reload
    Word,       \* number of values of TickType_t
    MaxStart,   \* bound: calls of StartTimer by the application
    MaxTime,    \* bound: the end of the clock
    MaxLag      \* the longest time between two readings of the clock

ASSUME TimerParams ==
    /\ Word \in Nat \ {0}
    /\ Period \in [Timer -> 1 .. Word - 1]
    /\ AutoReload \subseteq Timer
    /\ MaxStart \in Nat /\ MaxTime \in Nat
    /\ MaxLag \in 1 .. Word - 1

VARIABLES
    clock,      \* the time, as GetTickCount() - _start_tick would count it
    sampled,    \* the time of the last call of GetTickCount
    last,       \* the time whose tick is in xLastTime
    current, overflow,  \* the two lists, first to expire first
    expiry,     \* expiry[t]: the time whose tick is t's item_value
    starts,     \* number of StartTimer calls the application has made
    looping,    \* has StartTimersProcessTask been called?
    stack,      \* the calls in progress, innermost first
    ran         \* <<t, e>> if t's callback ran in the last step, for time e

vars == <<clock, sampled, last, current, overflow, expiry, starts, looping, stack, ran>>

-----------------------------------------------------------------------------
Tick(time) == time % Word

\* portMAX_DELAY
MaxDelay == Word - 1

InList(t) == (\E k \in DOMAIN current : current[k] = t) \/ (\E k \in DOMAIN overflow : overflow[k] = t)

\* RemoveItem, if t is in the list.
Without(list, t) ==
    IF \E k \in DOMAIN list : list[k] = t
    THEN LET k == CHOOSE n \in DOMAIN list : list[n] = t
         IN  SubSeq(list, 1, k - 1) \o SubSeq(list, k + 1, Len(list))
    ELSE list

\* Faulty: appends, whatever the value.
FaultyWith(list, t, exp) == Append(list, t)

\* InsertItem: in front of the first item whose value is not below t's.
With(list, t, exp) ==
    LET v == Tick(exp[t])
        k == IF v = MaxDelay
             THEN Len(list)
             ELSE CHOOSE n \in 0 .. Len(list) :
                      /\ \A j \in 1 .. n : Tick(exp[list[j]]) < v
                      /\ n < Len(list) => ~(Tick(exp[list[n + 1]]) < v)
    IN  SubSeq(list, 1, k) \o <<t>> \o SubSeq(list, k + 1, Len(list))

\* Frames of the call stack.
Start(t) == [at |-> "start", timer |-> t, command |-> 0, now |-> 0]
Switch(now) == [at |-> "switch", now |-> now]
Expired(t) == [at |-> "expired", timer |-> t, due |-> expiry[t]]

Top == Head(stack)
At(place) == stack # <<>> /\ Top.at = place

\* The reading `now' returns to the function that asked for it.
Resume(calls, now) ==
    IF calls = <<>>
    THEN <<>>
    ELSE LET f == Head(calls) IN
         <<IF f.at = "start" THEN [f EXCEPT !.at = "command", !.command = now]
                             ELSE [f EXCEPT !.at = "insert", !.now = now]>> \o Tail(calls)

Overflowed == Tick(clock) < Tick(last)

Quiet == ran' = <<>>
Callback(t, e) == ran' = <<t, e>>

-----------------------------------------------------------------------------
Init ==
    /\ clock = 0 /\ sampled = 0 /\ last = 0
    /\ current = <<>> /\ overflow = <<>>
    /\ expiry = [t \in Timer |-> 0]
    /\ starts = 0 /\ looping = FALSE
    /\ stack = <<>> /\ ran = <<>>

\* Time passes.  The loop is scheduled, and callbacks return, in time to
\* read the clock once every MaxLag ticks.
Pass ==
    /\ clock < MaxTime
    /\ clock < sampled + MaxLag
    /\ clock' = clock + 1
    /\ Quiet
    /\ UNCHANGED <<sampled, last, current, overflow, expiry, starts, looping, stack>>

(* The application starts timers, then enters the loop for ever.           *)
AppStart(t) ==
    /\ stack = <<>> /\ ~looping /\ starts < MaxStart
    /\ starts' = starts + 1
    /\ stack' = <<Start(t)>>
    /\ Quiet
    /\ UNCHANGED <<clock, sampled, last, current, overflow, expiry, looping>>

AppLoop ==
    /\ stack = <<>> /\ ~looping
    /\ looping' = TRUE
    /\ Quiet
    /\ UNCHANGED <<clock, sampled, last, current, overflow, expiry, starts, stack>>

-----------------------------------------------------------------------------
(* prvSampleTimeNowSinceConstruct, called by StartTimer.  Before its       *)
(* second reading StartTimer takes the timer out of the list it is in.     *)

\* Faulty: the test of listIS_CONTAINED_WITHIN is the wrong way round.
FaultyRemoveContained == UNCHANGED <<current, overflow>>

RemoveContained ==
    IF Top.at = "command"
    THEN /\ current' = Without(current, Top.timer)
         /\ overflow' = Without(overflow, Top.timer)
    ELSE UNCHANGED <<current, overflow>>

Sample ==
    /\ At("start") \/ At("command")
    /\ ~Overflowed
    /\ RemoveContained
    /\ last' = clock /\ sampled' = clock
    /\ stack' = Resume(stack, clock)
    /\ Quiet
    /\ UNCHANGED <<clock, expiry, starts, looping>>

\* xLastTime keeps its value while prvSwitchTimerLists runs.
SampleOverflow ==
    /\ At("start") \/ At("command")
    /\ Overflowed
    /\ RemoveContained
    /\ sampled' = clock
    /\ stack' = <<Switch(clock)>> \o stack
    /\ Quiet
    /\ UNCHANGED <<clock, last, expiry, starts, looping>>

-----------------------------------------------------------------------------
(* prvInsertTimerInActiveList(t, e, now, command)                          *)

\* Faulty: every e not after now counts as passed, ...
FaultyProcessNowEarly(t, e, now, command) ==
    \/ Tick(e) <= Tick(now)
    \/ Tick(now) < Tick(command) /\ Tick(e) >= Tick(command)

\* ... or the overflow between command and now is not thought of.
FaultyProcessNowOverflow(t, e, now, command) ==
    /\ Tick(e) <= Tick(now)
    /\ (Tick(now) + Word - Tick(command)) % Word >= Period[t]

\* pdTRUE: t's expiry time e has already passed.
ProcessNow(t, e, now, command) ==
    IF Tick(e) <= Tick(now)
    THEN (Tick(now) + Word - Tick(command)) % Word >= Period[t]
    ELSE Tick(now) < Tick(command) /\ Tick(e) >= Tick(command)

\* Faulty: nothing ever goes to the overflow list.
FaultyInsertActive(t, e, now, cur, over) ==
    /\ expiry' = [expiry EXCEPT ![t] = e]
    /\ current' = With(cur, t, expiry') /\ overflow' = over

\* Into one of the lists cur and over.
InsertActive(t, e, now, cur, over) ==
    /\ expiry' = [expiry EXCEPT ![t] = e]
    /\ IF Tick(e) <= Tick(now)
       THEN overflow' = With(over, t, expiry') /\ current' = cur
       ELSE current' = With(cur, t, expiry') /\ overflow' = over

\* The end of StartTimer: the timer is inserted, ...
StartInsert ==
    /\ At("insert")
    /\ LET t == Top.timer
           e == Top.command + Period[t]
       IN  /\ ~ProcessNow(t, e, Top.now, Top.command)
           /\ InsertActive(t, e, Top.now, current, overflow)
    /\ stack' = Tail(stack)
    /\ Quiet
    /\ UNCHANGED <<clock, sampled, last, starts, looping>>

\* ... or called back at once and, whatever auto_reload says, not inserted.
StartLate ==
    /\ At("insert")
    /\ LET t == Top.timer
           e == Top.command + Period[t]
       IN  /\ ProcessNow(t, e, Top.now, Top.command)
           /\ expiry' = [expiry EXCEPT ![t] = e]
           /\ Callback(t, e)
    /\ stack' = Tail(stack)
    /\ UNCHANGED <<clock, sampled, last, current, overflow, starts, looping>>

-----------------------------------------------------------------------------
(* prvSwitchTimerLists: one turn of its loop for the head of the current   *)
(* list, then the exchange.                                                *)

SwitchOneShot ==
    /\ At("switch") /\ current # <<>>
    /\ Head(current) \notin AutoReload
    /\ Callback(Head(current), expiry[Head(current)])
    /\ current' = Tail(current)
    /\ UNCHANGED <<clock, sampled, last, overflow, expiry, starts, looping, stack>>

\* The next expiry does not overflow: back into the current list.
SwitchReload ==
    /\ At("switch") /\ current # <<>>
    /\ LET t == Head(current)
           e == expiry[t] + Period[t]
       IN  /\ t \in AutoReload
           /\ Tick(e) > Tick(expiry[t])
           /\ Callback(t, expiry[t])
           /\ expiry' = [expiry EXCEPT ![t] = e]
           /\ current' = With(Tail(current), t, expiry')
    /\ UNCHANGED <<clock, sampled, last, overflow, starts, looping, stack>>

SwitchRestart ==
    /\ At("switch") /\ current # <<>>
    /\ LET t == Head(current) IN
           /\ t \in AutoReload
           /\ ~(Tick(expiry[t] + Period[t]) > Tick(expiry[t]))
           /\ Callback(t, expiry[t])
           /\ stack' = <<Start(t)>> \o stack
    /\ current' = Tail(current)
    /\ UNCHANGED <<clock, sampled, last, overflow, expiry, starts, looping>>

\* Faulty: the exchange is forgotten.
FaultySwitchDone ==
    /\ At("switch") /\ current = <<>>
    /\ last' = Top.now
    /\ stack' = Resume(Tail(stack), Top.now)
    /\ Quiet
    /\ UNCHANGED <<clock, sampled, current, overflow, expiry, starts, looping>>

\* The lists are exchanged and the reading that noticed the overflow returns.
SwitchDone ==
    /\ At("switch") /\ current = <<>>
    /\ current' = overflow /\ overflow' = current
    /\ last' = Top.now
    /\ stack' = Resume(Tail(stack), Top.now)
    /\ Quiet
    /\ UNCHANGED <<clock, sampled, expiry, starts, looping>>

-----------------------------------------------------------------------------
(* A round of TimerProcessLoop: prvGetNextExpireTime looks at the head of  *)
(* the current list, prvProcessTimerOrBlockTask reads the time.            *)

Round == looping /\ stack = <<>>

\* Faulty: a timer is due only after its time.
FaultyHeadExpiredLate == current # <<>> /\ Tick(expiry[Head(current)]) < Tick(clock)

HeadExpired == current # <<>> /\ Tick(expiry[Head(current)]) <= Tick(clock)

\* A round in which the lists are switched processes nothing else.
RoundOverflow ==
    /\ Round /\ Overflowed
    /\ sampled' = clock
    /\ stack' = <<Switch(clock)>>
    /\ Quiet
    /\ UNCHANGED <<clock, last, current, overflow, expiry, starts, looping>>

RoundIdle ==
    /\ Round /\ ~Overflowed /\ ~HeadExpired
    /\ last' = clock /\ sampled' = clock
    /\ Quiet
    /\ UNCHANGED <<clock, current, overflow, expiry, starts, looping, stack>>

\* prvProcessExpiredTimer for a timer that ends here, ...
RoundOneShot ==
    /\ Round /\ ~Overflowed /\ HeadExpired
    /\ Head(current) \notin AutoReload
    /\ last' = clock /\ sampled' = clock
    /\ current' = Tail(current)
    /\ Callback(Head(current), expiry[Head(current)])
    /\ UNCHANGED <<clock, overflow, expiry, starts, looping, stack>>

\* ... one that is inserted again for its next period, ...
RoundReload ==
    /\ Round /\ ~Overflowed /\ HeadExpired
    /\ LET t == Head(current)
           e == expiry[t] + Period[t]
       IN  /\ t \in AutoReload
           /\ ~ProcessNow(t, e, clock, expiry[t])
           /\ InsertActive(t, e, clock, Tail(current), overflow)
           /\ Callback(t, expiry[t])
    /\ last' = clock /\ sampled' = clock
    /\ UNCHANGED <<clock, starts, looping, stack>>

\* Faulty: the timer whose next period is over is not started again.
FaultyRoundRestart ==
    /\ Round /\ ~Overflowed /\ HeadExpired
    /\ LET t == Head(current)
           e == expiry[t] + Period[t]
       IN  /\ t \in AutoReload
           /\ ProcessNow(t, e, clock, expiry[t])
           /\ expiry' = [expiry EXCEPT ![t] = e]
           /\ stack' = <<Expired(t)>>
    /\ last' = clock /\ sampled' = clock
    /\ current' = Tail(current)
    /\ Quiet
    /\ UNCHANGED <<clock, overflow, starts, looping>>

\* ... and one whose next period is over as well: it is started afresh
\* before its callback runs.
RoundRestart ==
    /\ Round /\ ~Overflowed /\ HeadExpired
    /\ LET t == Head(current)
           e == expiry[t] + Period[t]
       IN  /\ t \in AutoReload
           /\ ProcessNow(t, e, clock, expiry[t])
           /\ expiry' = [expiry EXCEPT ![t] = e]
           /\ stack' = <<Start(t), Expired(t)>>
    /\ last' = clock /\ sampled' = clock
    /\ current' = Tail(current)
    /\ Quiet
    /\ UNCHANGED <<clock, overflow, starts, looping>>

\* Faulty: a timer that was started afresh is not called back.
FaultyExpiredCallback ==
    /\ At("expired")
    /\ stack' = Tail(stack)
    /\ Quiet
    /\ UNCHANGED <<clock, sampled, last, current, overflow, expiry, starts, looping>>

ExpiredCallback ==
    /\ At("expired")
    /\ Callback(Top.timer, Top.due)
    /\ stack' = Tail(stack)
    /\ UNCHANGED <<clock, sampled, last, current, overflow, expiry, starts, looping>>

-----------------------------------------------------------------------------
StartTimer == Sample \/ SampleOverflow \/ StartInsert \/ StartLate
SwitchTimerLists == SwitchOneShot \/ SwitchReload \/ SwitchRestart \/ SwitchDone
ProcessLoop ==
    RoundOverflow \/ RoundIdle \/ RoundOneShot \/ RoundReload \/ RoundRestart \/ ExpiredCallback
App == AppLoop \/ \E t \in Timer : AppStart(t)

Program == App \/ StartTimer \/ SwitchTimerLists \/ ProcessLoop

Next == Pass \/ Program

Spec == Init /\ [][Next]_vars

(* The thread runs (it has no lock to wait for) and time passes.           *)
FairSpec == Spec /\ WF_vars(Program) /\ WF_vars(Pass)
-----------------------------------------------------------------------------
(* Properties                                                              *)

\* Calls in progress.
StartFrames == [at : {"start", "command", "insert"}, timer : Timer, command : Nat, now : Nat]
SwitchFrames == [at : {"switch"}, now : Nat]
ExpiredFrames == [at : {"expired"}, timer : Timer, due : Nat]
Frames == StartFrames \cup SwitchFrames \cup ExpiredFrames

(* No reading is ahead of the clock, the lists hold timers, and a call has *)
(* the locals of its function.                                             *)
TypeOK ==
    /\ clock \in 0 .. MaxTime /\ sampled \in 0 .. clock /\ last \in Nat
    /\ current \in Seq(Timer) /\ overflow \in Seq(Timer)
    /\ expiry \in [Timer -> Nat]
    /\ starts \in 0 .. MaxStart /\ looping \in BOOLEAN
    /\ stack \in Seq(Frames)
    /\ ran = <<>> \/ ran \in Timer \X Nat

\* The places that hold t: positions of the lists and calls of StartTimer.
Places(t) ==
    {<<"current", k>> : k \in {j \in DOMAIN current : current[j] = t}}
    \cup {<<"overflow", k>> : k \in {j \in DOMAIN overflow : overflow[j] = t}}
    \cup {<<"stack", k>> : k \in
            {j \in DOMAIN stack : stack[j].at = "insert" /\ stack[j].timer = t}}

(* However the functions re-enter each other, a timer is in one list, and  *)
(* there once, and what StartTimer or prvSwitchTimerLists inserts is in no *)
(* list: List.cpp would link an item twice without noticing.               *)
InsertsFree == \A t \in Timer : Cardinality(Places(t)) <= 1

(* Both lists are in the order of their item values at all times, also     *)
(* while nested calls insert into them: only heads are ever looked at.     *)
ListsSorted ==
    \A list \in {current, overflow} :
        \A j, k \in DOMAIN list : j < k => Tick(expiry[list[j]]) <= Tick(expiry[list[k]])

(* No callback runs before the time its timer was started for, on either   *)
(* side of an overflow of the tick.                                        *)
NotEarly == ran # <<>> => ran[2] <= clock

Switching == \E k \in DOMAIN stack : stack[k].at = "switch"

(* The current list holds what expires before the tick overflows next, the *)
(* overflow list what expires after that and before the overflow to follow.*)
Epochs ==
    ~Switching =>
        /\ \A k \in DOMAIN current : expiry[current[k]] \div Word = last \div Word
        /\ \A k \in DOMAIN overflow : expiry[overflow[k]] \div Word = last \div Word + 1

(* The comment in prvSwitchTimerLists: when the lists are to be switched,  *)
(* all timers still in the current list have expired.                      *)
MustHaveExpired ==
    At("switch") => \A k \in DOMAIN current : expiry[current[k]] <= clock

(* A round that finds nothing to do at the head of the current list has    *)
(* missed no timer anywhere: whatever is in a list is due later.           *)
NoneOverdue ==
    Round /\ ~Overflowed /\ ~HeadExpired =>
        \A t \in Timer : InList(t) => expiry[t] > clock

Active(t) == InList(t) \/ \E k \in DOMAIN stack : stack[k].at \in {"start", "command", "insert"} /\ stack[k].timer = t

(* An auto-reload timer that has been started is lost in one case only:    *)
(* StartTimer needed a whole period from its first reading to its second.  *)
StaysActive ==
    [][\A t \in AutoReload :
          Active(t) => \/ Active(t)'
                       \/ /\ At("insert") /\ Top.timer = t
                          /\ Top.now - Top.command >= Period[t]]_vars

(* Once the loop runs, the callback of every timer in a list is called, if *)
(* the clock gets to the time it is in the list for.                       *)
Called ==
    \A t \in Timer :
        (looping /\ InList(t) /\ expiry[t] <= MaxTime) ~> (ran # <<>> /\ ran[1] = t)
=============================================================================
