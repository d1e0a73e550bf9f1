---------------------------- MODULE MCTimerList ----------------------------
(* Model checking TimerList: items and lists are interchangeable.          *)
EXTENDS TimerList, TLC

Symmetry == Permutations(Items) \cup Permutations(Lists)
=============================================================================
