----------------------------- MODULE TimersInv -----------------------------
(***************************************************************************)
(* Inductive invariants of Timers: what the calls that re-enter each other *)
(* may rely on (Inv), and where each timer is when all of them are         *)
(* one-shot timers (OneShotInv).                                           *)
(***************************************************************************)
EXTENDS Timers, Functions

\* prvInsertTimerInActiveList makes no call that could be interrupted; only
\* StartTimer and a round read the clock; a callback is due at the end.
Nested(calls) ==
    /\ \A k \in 1 .. Len(calls) : calls[k].at = "insert" => k = 1
    /\ \A k \in 1 .. Len(calls) : calls[k].at = "expired" => k = Len(calls)
    /\ \A k \in 1 .. Len(calls) - 1 :
          calls[k].at = "switch" <=> calls[k + 1].at \in {"start", "command"}

\* The k-th call has taken its timer out of the lists already.  The application
\* may start a timer that is in one, until its second reading.
Holds(calls, k) ==
    \/ calls[k].at = "insert"
    \/ calls[k].at = "start" /\ k < Len(calls)
    \/ calls[k].at = "command" /\ (1 < k \/ k < Len(calls))

Held(calls) == {calls[k].timer : k \in {j \in 1 .. Len(calls) : Holds(calls, j)}}

HeldOnce(calls) ==
    \A j, k \in 1 .. Len(calls) :
        Holds(calls, j) /\ Holds(calls, k) /\ calls[j].timer = calls[k].timer => j = k

\* A timer is in one place: a list, or a call that holds it.
Apart ==
    /\ IsInjective(current) /\ IsInjective(overflow)
    /\ Range(current) \cap Range(overflow) = {}
    /\ HeldOnce(stack)
    /\ Held(stack) \cap (Range(current) \cup Range(overflow)) = {}

Ascends(list, exp) ==
    \A j, k \in DOMAIN list : j < k => Tick(exp[list[j]]) <= Tick(exp[list[k]])

Inv ==
    /\ TypeOK
    /\ Nested(stack)
    /\ Apart
    /\ Ascends(current, expiry) /\ Ascends(overflow, expiry)

-----------------------------------------------------------------------------
(* What a call has read before is not later than what it reads next,       *)
(* whatever was read in between by the calls a switch has made.            *)
Timely(calls, time) ==
    \A k \in 1 .. Len(calls) :
        /\ calls[k].at = "command" =>
              /\ calls[k].command <= time
              /\ k > 1 /\ calls[k - 1].at = "switch" => calls[k].command <= calls[k - 1].now
        /\ calls[k].at = "insert" => calls[k].command <= calls[k].now
        /\ calls[k].at = "switch" => calls[k].now <= time

-----------------------------------------------------------------------------
(* Without auto-reload timers there is at most one switch at a time, and   *)
(* it is made within one call of StartTimer or one round.                  *)

\* What the readings a call of StartTimer has made returned to it.
Answered(f) ==
    /\ f.at = "command" => f.command = last
    /\ f.at = "insert" => f.now = last /\ f.command <= last /\ last <= f.command + MaxLag

\* The last reading of the clock has noticed that the tick overflowed.
Switches == stack[1] = Switch(sampled) /\ Tick(sampled) < Tick(last)

Shallow ==
    \/ stack = <<>> /\ last = sampled
    \/ /\ Len(stack) = 1 /\ last = sampled
       /\ stack[1].at \in {"start", "command", "insert"} /\ Answered(stack[1])
    \/ Len(stack) = 1 /\ Switches
    \/ /\ Len(stack) = 2 /\ Switches
       /\ stack[2].at \in {"start", "command"} /\ Answered(stack[2])

\* No two readings are a whole word apart.
Frequent ==
    /\ clock <= sampled + MaxLag
    /\ last <= sampled /\ sampled <= last + MaxLag

\* Every timer is in the list of its turn of the tick.
InTurn ==
    /\ \A t \in Range(current) : expiry[t] \div Word = last \div Word
    /\ \A t \in Range(overflow) : expiry[t] \div Word = last \div Word + 1

OneShotInv ==
    /\ Inv
    /\ Shallow
    /\ Frequent
    /\ InTurn
    /\ NotEarly
=============================================================================
