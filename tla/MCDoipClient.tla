---------------------------- MODULE MCDoipClient ----------------------------
(* Model checking DoipClient with frames of real sizes: a positive         *)
(* acknowledgement (13 bytes, one piece) and diagnostic messages of 17     *)
(* bytes (two), which other pieces cut and run together.  recv_buf holds   *)
(* one frame and most of another, where the real one holds hundreds.       *)
EXTENDS DoipClient

\* Less than nothing, less than header and addresses, and more than a frame.
AnyTotals == {-2, 10, 25}
=============================================================================
