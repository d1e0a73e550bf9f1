--------------------------- MODULE MCServerEvents ---------------------------
(* Model checking ServerEvents: a buffer of two cells, lines of up to four *)
(* characters of which the longest has length 0 in 16 bits.                *)
EXTENDS ServerEvents
=============================================================================
