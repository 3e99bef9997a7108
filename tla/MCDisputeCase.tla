--------------------------- MODULE MCDisputeCase ---------------------------
(* One dispute with two administrators' requests at a time. *)
EXTENDS DisputeCase

CONSTANTS a1, a2
=============================================================================
