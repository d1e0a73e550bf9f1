----------------------------- MODULE MCXifRwbuf -----------------------------
(* Model checking XifRwbuf.  No symmetry: the run checks liveness too.     *)
EXTENDS XifRwbufInv
=============================================================================
