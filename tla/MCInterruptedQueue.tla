------------------------- MODULE MCInterruptedQueue -------------------------
(* Instance of InterruptedQueue: a small ring and few interruptions. *)
EXTENDS InterruptedQueue

=============================================================================
