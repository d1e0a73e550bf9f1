----------------------------- MODULE MCXifFifo -----------------------------
(* Model checking XifFifo: the threads of an instance are interchangeable. *)
EXTENDS XifFifoInv, TLC

Symmetry == Permutations(Producers) \cup Permutations(Consumers)
=============================================================================
