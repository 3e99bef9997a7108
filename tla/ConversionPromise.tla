-------------------------- MODULE ConversionPromise --------------------------
(***************************************************************************)
(* What a wallet conversion promises: one wallet is debited and the other  *)
(* credited in the same step, once, out of what the first one holds, and   *)
(* only for a conversion that was agreed to and that the provider carried  *)
(* out; whoever is told REJECTED or FAILED was neither debited nor         *)
(* credited.                                                               *)
(***************************************************************************)
EXTENDS Integers

CONSTANTS Conversions, Source, Target, Amount, Bought, Balance

VARIABLES
    agreed,     \* conversions an administrator agreed to
    bank,       \* the provider's answer to each conversion
    debits,     \* debits of the source wallet for each conversion
    credits,    \* credits of the target wallet for each conversion
    balance,    \* what each wallet can spend
    told        \* what the user is told of each conversion

Nothing == [c \in Conversions |-> 0]

Init ==
    /\ agreed = {}
    /\ bank = [c \in Conversions |-> "NONE"]
    /\ debits = Nothing /\ credits = Nothing
    /\ balance = Balance
    /\ told = [c \in Conversions |-> "OPEN"]

Agree(c) ==
    /\ told[c] = "OPEN" /\ agreed' = agreed \cup {c}
    /\ UNCHANGED <<bank, debits, credits, balance, told>>

Answer(c) ==
    /\ c \in agreed /\ bank[c] = "NONE" /\ told[c] = "OPEN"
    /\ \E answer \in {"SUCCEEDED", "FAILED"} : bank' = [bank EXCEPT ![c] = answer]
    /\ UNCHANGED <<agreed, debits, credits, balance, told>>

Exchange(c) ==
    /\ bank[c] = "SUCCEEDED" /\ debits[c] = 0 /\ credits[c] = 0
    /\ told[c] = "OPEN" /\ Amount[c] <= balance[Source[c]]
    /\ debits' = [debits EXCEPT ![c] = 1] /\ credits' = [credits EXCEPT ![c] = 1]
    /\ balance' = [balance EXCEPT ![Source[c]] = @ - Amount[c],
                                  ![Target[c]] = @ + Bought[c]]
    /\ told' = [told EXCEPT ![c] = "COMPLETED"]
    /\ UNCHANGED <<agreed, bank>>

Refuse(c) ==
    /\ told[c] = "OPEN" /\ debits[c] = 0 /\ credits[c] = 0
    /\ \/ c \notin agreed /\ told' = [told EXCEPT ![c] = "REJECTED"]
       \/ bank[c] = "FAILED" /\ told' = [told EXCEPT ![c] = "FAILED"]
    /\ UNCHANGED <<agreed, bank, debits, credits, balance>>

\* Everything else that is paid out of a wallet or into it.
Use(w) ==
    /\ balance' = [balance EXCEPT ![w] = balance'[w]] /\ balance'[w] \in Nat
    /\ UNCHANGED <<agreed, bank, debits, credits, told>>

Next ==
    \/ \E c \in Conversions : Agree(c) \/ Answer(c) \/ Exchange(c) \/ Refuse(c)
    \/ \E w \in DOMAIN Balance : Use(w)

Spec == Init /\ [][Next]_<<agreed, bank, debits, credits, balance, told>>
=============================================================================
