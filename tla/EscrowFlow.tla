----------------------------- MODULE EscrowFlow -----------------------------
(***************************************************************************)
(* What happens to the price of a completed booking, with no record, call, *)
(* dispute or job in sight: it enters escrow once, is split once into the  *)
(* platform's two revenues and the creator's payable, and the payable is   *)
(* paid into the creator's wallet once.  Nothing is created or lost.       *)
(***************************************************************************)
EXTENDS Integers

CONSTANTS Bookings, FeeOf, CommissionOf, EarningOf    \* [Bookings -> Nat]

VARIABLE money    \* money[b][account]: what booking b has put on each account

Accounts == {"escrow", "commission", "fee", "payable", "wallet"}

Nothing == [a \in Accounts |-> 0]
Init == money = [b \in Bookings |-> Nothing]

Becomes(b, from, to) ==
    /\ money[b] = from
    /\ money' = [money EXCEPT ![b] = to]

Held(b) == [Nothing EXCEPT !["escrow"] = FeeOf[b] + CommissionOf[b] + EarningOf[b]]
Split(b) == [Nothing EXCEPT !["fee"] = FeeOf[b], !["commission"] = CommissionOf[b],
                            !["payable"] = EarningOf[b]]
Paid(b) == [Split(b) EXCEPT !["payable"] = 0, !["wallet"] = EarningOf[b]]

Next == \E b \in Bookings :
    Becomes(b, Nothing, Held(b)) \/ Becomes(b, Held(b), Split(b)) \/ Becomes(b, Split(b), Paid(b))

Spec == Init /\ [][Next]_money
=============================================================================
