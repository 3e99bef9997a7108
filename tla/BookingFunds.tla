--------------------------- MODULE BookingFunds ---------------------------
(***************************************************************************)
(* What wallet funding promises a customer, with no booking, payment,      *)
(* reservation, slot or handler in sight: the price of a booking is taken  *)
(* from the spendable balance once, stays on hold, and then either comes   *)
(* back in full, once, or is earned, for good.                             *)
(***************************************************************************)
EXTENDS Integers

CONSTANTS Bookings, Customers, CustomerOf, Total, Deposit

VARIABLES place,      \* where the price of each booking is
          spendable   \* what each customer may still spend

fundsVars == <<place, spendable>>

Init ==
    /\ place = [b \in Bookings |-> "nowhere"]
    /\ spendable = [c \in Customers |-> Deposit[c]]

Move(b, from, to, change) ==
    /\ place[b] = from
    /\ place' = [place EXCEPT ![b] = to]
    /\ spendable' = [spendable EXCEPT ![CustomerOf[b]] = @ + change]

Hold(b)   == spendable[CustomerOf[b]] >= Total[b] /\ Move(b, "nowhere", "held", -Total[b])
Return(b) == Move(b, "held", "returned", Total[b])
Earn(b)   == Move(b, "held", "earned", 0)

Next == \E b \in Bookings : Hold(b) \/ Return(b) \/ Earn(b)

Spec == Init /\ [][Next]_fundsVars
=============================================================================
