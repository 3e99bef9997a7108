---------------------------- MODULE TopUpPromise ----------------------------
(***************************************************************************)
(* What a wallet top-up promises, with no case, call or retry in sight:    *)
(* the bank answers once; only what it paid is entered in the ledger, then *)
(* credited to the wallet, each once; the user is told COMPLETED only      *)
(* after the credit, and FAILED or REJECTED only when there is none.       *)
(***************************************************************************)
EXTENDS Integers

CONSTANTS TopUps, Wallets, WalletOf, Amount, Balance

VARIABLES
    bank,       \* the bank's answer to each top-up
    entries,    \* ledger entries of each top-up
    credits,    \* credits of the wallet for each top-up
    balance,    \* what each wallet can spend
    told        \* what the user is told of each top-up

Nothing == [t \in TopUps |-> 0]

Init ==
    /\ bank = [t \in TopUps |-> "NONE"]
    /\ entries = Nothing /\ credits = Nothing
    /\ balance = Balance
    /\ told = [t \in TopUps |-> "OPEN"]

Answer(t) ==
    /\ bank[t] = "NONE" /\ told[t] = "OPEN"
    /\ \E answer \in {"SUCCEEDED", "FAILED"} : bank' = [bank EXCEPT ![t] = answer]
    /\ UNCHANGED <<entries, credits, balance, told>>

Enter(t) ==
    /\ bank[t] = "SUCCEEDED" /\ entries[t] = 0
    /\ entries' = [entries EXCEPT ![t] = 1]
    /\ UNCHANGED <<bank, credits, balance, told>>

Credit(t) ==
    /\ entries[t] = 1 /\ credits[t] = 0
    /\ credits' = [credits EXCEPT ![t] = 1]
    /\ balance' = [balance EXCEPT ![WalletOf[t]] = @ + Amount[t]]
    /\ UNCHANGED <<bank, entries, told>>

Tell(t) ==
    /\ told[t] = "OPEN"
    /\ \/ credits[t] = 1 /\ told' = [told EXCEPT ![t] = "COMPLETED"]
       \/ bank[t] = "FAILED" /\ told' = [told EXCEPT ![t] = "FAILED"]
       \/ bank[t] = "NONE" /\ told' = [told EXCEPT ![t] = "REJECTED"]
    /\ UNCHANGED <<bank, entries, credits, balance>>

Spend(w) ==
    /\ \E amount \in 1..balance[w] : balance' = [balance EXCEPT ![w] = @ - amount]
    /\ UNCHANGED <<bank, entries, credits, told>>

Next ==
    \/ \E t \in TopUps : Answer(t) \/ Enter(t) \/ Credit(t) \/ Tell(t)
    \/ \E w \in Wallets : Spend(w)

Spec == Init /\ [][Next]_<<bank, entries, credits, balance, told>>
=============================================================================
