------------------------- MODULE MCEscrowSettlement -------------------------
(* Two bookings of one creator, whose wallet both settlements write and which *)
(* has room for one earning only, until some of it is used: what is used then *)
(* makes just enough room.  The job, which takes one booking in a pass, and   *)
(* an administrator release them.  Before any booking is made, the price of   *)
(* every service amount up to PriceLimit is asked for.                        *)
EXTENDS EscrowSettlement, PriceList, TLC

CONSTANTS b1, b2, creator, admin

MCCreatorOf == b1 :> creator @@ b2 :> creator
MCService == b1 :> 1200 @@ b2 :> 1700

Trade == quote = PriceLimit /\ Next /\ UNCHANGED quote

MCInit == Init /\ FirstQuote

MCSpec ==
    /\ MCInit
    /\ [][(Quote /\ UNCHANGED vars) \/ Trade]_<<vars, quote>>
    /\ Fairness
=============================================================================
