--------------------------- MODULE MCEventStream ---------------------------
(* EventStream on two sensors with queues of two events, fewer than they report. *)
EXTENDS EventStream

=============================================================================
