-------------------------- MODULE MCWalletBooking --------------------------
(* A small marketplace: one creator, two customers, two slots.  Bookings b1  *)
(* and b2 are one customer's, who can pay for one of them at a time; b3 is   *)
(* the other customer's and wants b1's slot too.  Each run takes two of them.*)
EXTENDS WalletBooking, TLC

CONSTANTS b1, b2, b3, s1, s2, alice, bob, carol, day1

MCCustomerOf == [b \in Bookings |-> IF b = b3 THEN bob ELSE alice]
MCCreatorOf == [b \in Bookings |-> carol]
MCSlotsOf == [b \in Bookings |->
                 CASE b = b1 -> {s1} [] b = b2 -> {s2} [] b = b3 -> {s1, s2}]
\* The same customer asks for one slot twice, once with another slot.
MCSlotsOfShared == [b \in Bookings |-> IF b = b1 THEN {s1, s2} ELSE {s2}]
MCAvailabilityOf == [s \in Slots |-> day1]
MCTotal == [b \in Bookings |-> IF b = b3 THEN 1 ELSE 2]
MCDeposit == (alice :> 3) @@ (bob :> 1)
MCStart == (s1 :> 2) @@ (s2 :> 3)
MCEnd == (s1 :> 3) @@ (s2 :> 4)
=============================================================================
