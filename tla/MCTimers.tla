------------------------------ MODULE MCTimers ------------------------------
(* Model checking Timers: timers, periods and modes of each run.           *)
EXTENDS Timers, TLC

CONSTANTS short, middle, long

Periods == (short :> 2) @@ (middle :> 3) @@ (long :> 5)

PeriodsOf == [t \in Timer |-> Periods[t]]
=============================================================================
