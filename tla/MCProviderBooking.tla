------------------------- MODULE MCProviderBooking -------------------------
(* One provider-paid booking and two termination calls that may overlap:    *)
(* bookings share no record, so every race is among the calls on one.       *)
EXTENDS ProviderBooking

CONSTANTS b1, c1, c2
=============================================================================
