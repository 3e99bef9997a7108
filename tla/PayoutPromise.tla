---------------------------- MODULE PayoutPromise ----------------------------
(***************************************************************************)
(* What a creator's withdrawal promises, with no wallet, request, retry or *)
(* operator in sight: its amount is set aside once, the bank answers once, *)
(* and the amount then leaves when the bank paid and comes back when it    *)
(* refused, once, and never the one for the other.                         *)
(***************************************************************************)
EXTENDS Integers

CONSTANTS Withdrawals, Amount    \* Amount \in [Withdrawals -> Nat]

VARIABLES
    bank,     \* the bank's answer to each withdrawal
    money     \* money[w][account]: what withdrawal w has put on each account

Entries(available, reserved, clearing) ==
    [available |-> available, reserved |-> reserved, clearing |-> clearing]

Untouched == Entries(0, 0, 0)
Held(w) == Entries(-Amount[w], Amount[w], 0)
PaidOut(w) == Entries(-Amount[w], 0, Amount[w])

Init ==
    /\ bank = [w \in Withdrawals |-> "NONE"]
    /\ money = [w \in Withdrawals |-> Untouched]

Move(w, from, to) ==
    /\ money[w] = from
    /\ money' = [money EXCEPT ![w] = to]
    /\ UNCHANGED bank

Answer(w, answer) ==
    /\ bank[w] = "NONE" /\ money[w] = Held(w)
    /\ bank' = [bank EXCEPT ![w] = answer]
    /\ UNCHANGED money

Next == \E w \in Withdrawals :
    \/ bank[w] = "NONE" /\ Move(w, Untouched, Held(w))
    \/ \E answer \in {"SUCCEEDED", "FAILED"} : Answer(w, answer)
    \/ bank[w] = "SUCCEEDED" /\ Move(w, Held(w), PaidOut(w))
    \/ bank[w] = "FAILED" /\ Move(w, Held(w), Untouched)

Spec == Init /\ [][Next]_<<bank, money>>
=============================================================================
