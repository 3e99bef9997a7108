--------------------------- MODULE WalletConversion ---------------------------
(***************************************************************************)
(* Money from one wallet of a user into another currency: the user asks at *)
(* a quoted rate, an administrator decides, the internal provider carries  *)
(* the conversion out, and one transaction debits the source wallet,       *)
(* credits the target wallet (opening it if need be) and completes the     *)
(* request.  Nothing is reserved: between any two of these the wallets may *)
(* be used for something else and the rate may expire.                     *)
(*                                                                         *)
(* Where one guarded transaction decides, there is one action.  An         *)
(* approval and an inspection read before they write, so that they are     *)
(* calls of several steps.  Each conversion is one idempotency key with    *)
(* its quote.                                                              *)
(***************************************************************************)
EXTENDS Integers, FiniteSets

CONSTANTS
    Conversions, Wallets, Source, Target,
    Amount, Bought,          \* sourceAmount, targetAmount
    MaxBalance,              \* MAX_TRANSACTION_AMOUNT, the most a wallet may hold
    Balance, Opened,         \* what each wallet holds before; wallets there are before
    Callers,                 \* calls the server works on at once
    Reviewed                 \* bound: conversions administrators look into, all in the code

ASSUME ConversionAssumption ==
    /\ Source \in [Conversions -> Wallets] /\ Target \in [Conversions -> Wallets]
    /\ \A c \in Conversions : Source[c] # Target[c]
    /\ Amount \in [Conversions -> Nat \ {0}] /\ Bought \in [Conversions -> Nat \ {0}]
    /\ MaxBalance \in Nat
    /\ Balance \in [Wallets -> 0..MaxBalance]
    /\ Opened \subseteq Wallets /\ Reviewed \subseteq Conversions
    /\ \A w \in Wallets \ Opened : Balance[w] = 0

VARIABLES
    request,      \* WalletConversionRequest.status, NONE before there is one
    expired,      \* conversions whose rate snapshot is no longer eligible
    provider,     \* providerStatus, of the authority and of the request
    debits,       \* source entry and projection of each conversion
    credits,      \* target entry and projection of each conversion
    open,         \* wallets that exist
    balance,      \* Wallet.availableBalance
    finding,      \* WalletConversionReconciliation.classification
    call          \* what each caller is doing

vars == <<request, expired, provider, debits, credits, open, balance, finding, call>>

RequestStatuses == {"NONE", "PENDING", "APPROVED", "REJECTED", "COMPLETED", "FAILED"}
ProviderStatuses == {"NONE", "INITIALIZED", "SUCCEEDED", "FAILED"}
Classifications == {"NONE", "PENDING", "HEALTHY", "CORRUPTED_LEDGER", "INTEGRITY_FAILURE"}
Steps == {"approve", "wallets", "ledger", "compare", "record"}

Idle == [at |-> "idle"]
\* read: the status an inspection began with; found: its classification.
Calls == [at : Steps, conversion : Conversions,
          read : RequestStatuses, found : Classifications]

TypeOK ==
    /\ request \in [Conversions -> RequestStatuses]
    /\ expired \subseteq Conversions
    /\ provider \in [Conversions -> ProviderStatuses]
    /\ debits \in [Conversions -> Nat] /\ credits \in [Conversions -> Nat]
    /\ open \subseteq Wallets
    /\ balance \in [Wallets -> 0..MaxBalance]
    /\ \A w \in Wallets \ open : balance[w] = 0
    /\ finding \in [Conversions -> Classifications]
    /\ call \in [Callers -> {Idle} \cup Calls]

Init ==
    /\ request = [c \in Conversions |-> "NONE"]
    /\ expired = {}
    /\ provider = [c \in Conversions |-> "NONE"]
    /\ debits = [c \in Conversions |-> 0] /\ credits = [c \in Conversions |-> 0]
    /\ open = Opened /\ balance = Balance
    /\ finding = [c \in Conversions |-> "NONE"]
    /\ call = [p \in Callers |-> Idle]

wallets == <<open, balance>>
legs == <<debits, credits>>

-----------------------------------------------------------------------------
(* Calls *)

At(p, at) == call[p] # Idle /\ call[p].at = at
End(p) == call' = [call EXCEPT ![p] = Idle]

Start(p, c, at, found) ==
    /\ call[p] = Idle
    /\ call' = [call EXCEPT ![p] =
          [at |-> at, conversion |-> c, read |-> request[c], found |-> found]]

-----------------------------------------------------------------------------
(* Request *)

\* The balance is compared with the amount, not reserved.
Covered(c) == Source[c] \in open /\ Amount[c] <= balance[Source[c]]

\* A request is quoted at a rate that is current; a repeated one is answered
\* with the first.  (What is spent between the comparison and the creation
\* might as well be spent after it.)
RequestConversion(c) ==
    /\ request[c] = "NONE" /\ Covered(c)
    /\ request' = [request EXCEPT ![c] = "PENDING"]
    /\ UNCHANGED <<expired, provider, legs, wallets, finding, call>>

Expire(c) ==
    /\ request[c] # "NONE" /\ expired' = expired \cup {c}
    /\ UNCHANGED <<request, provider, legs, wallets, finding, call>>

-----------------------------------------------------------------------------
(* Decision *)

\* What the stored quote must still satisfy to be approved.
Eligible(c) == Covered(c) /\ c \notin expired

\* An approval compares balance and rate once more, before its transaction.
BeginApproval(p, c) ==
    /\ request[c] = "PENDING" /\ Eligible(c)
    /\ Start(p, c, "approve", "NONE")
    /\ UNCHANGED <<request, expired, provider, legs, wallets, finding>>

\* Mutant: only the read before the transaction looks at the status.
PendingWhenRead(c) == request[c] # "NONE"
\* The guard of approvePending and rejectPending.
Pending(c) == request[c] = "PENDING"

CommitApproval(p) ==
    LET c == call[p].conversion IN
    /\ At(p, "approve")
    /\ request' = [request EXCEPT ![c] = IF Pending(c) THEN "APPROVED" ELSE @]
    /\ End(p)
    /\ UNCHANGED <<expired, provider, legs, wallets, finding>>

Reject(c) ==
    /\ Pending(c)
    /\ request' = [request EXCEPT ![c] = "REJECTED"]
    /\ UNCHANGED <<expired, provider, legs, wallets, finding, call>>

-----------------------------------------------------------------------------
(* The provider: its authority is created by one transaction and carried   *)
(* through PROCESSING to its end, with the request, by another             *)

\* Only an approved conversion; who comes second finds another status.
Executable(c, status) == request[c] = "APPROVED" /\ provider[c] = status

InitializeProvider(c) ==
    /\ Executable(c, "NONE")
    /\ provider' = [provider EXCEPT ![c] = "INITIALIZED"]
    /\ UNCHANGED <<request, expired, legs, wallets, finding, call>>

Execute(c, answer) ==
    /\ Executable(c, "INITIALIZED")
    /\ provider' = [provider EXCEPT ![c] = answer]
    /\ UNCHANGED <<request, expired, legs, wallets, finding, call>>

-----------------------------------------------------------------------------
(* Accounting: one transaction *)

\* Whoever comes second finds the request completed or failed.
Accountable(c, answer) ==
    /\ request[c] = "APPROVED" /\ provider[c] = answer
    /\ debits[c] = 0 /\ credits[c] = 0

\* What resolveWallets and the bounds of the two projections ask for.
Payable(c) == Covered(c) /\ balance[Target[c]] + Bought[c] <= MaxBalance

\* A target wallet that the request did not name is found or created here.
Complete(c) ==
    /\ Accountable(c, "SUCCEEDED") /\ Payable(c)
    /\ open' = open \cup {Target[c]}
    /\ debits' = [debits EXCEPT ![c] = @ + 1]
    /\ credits' = [credits EXCEPT ![c] = @ + 1]
    /\ balance' = [balance EXCEPT ![Source[c]] = @ - Amount[c],
                                  ![Target[c]] = @ + Bought[c]]
    /\ request' = [request EXCEPT ![c] = "COMPLETED"]
    /\ UNCHANGED <<expired, provider, finding, call>>

FinalizeFailed(c) ==
    /\ Accountable(c, "FAILED")
    /\ request' = [request EXCEPT ![c] = "FAILED"]
    /\ UNCHANGED <<expired, provider, legs, wallets, finding, call>>

-----------------------------------------------------------------------------
(* Reconciliation: an inspection reads one document after another, then    *)
(* stores what it found without a guard                                    *)

\* What the request alone settles; "NONE" when the graph has to be proved.
ByRequest(c) ==
    CASE request[c] = "FAILED" -> "HEALTHY"
      [] request[c] \in {"PENDING", "REJECTED"} -> "PENDING"
      [] request[c] = "APPROVED" /\ provider[c] # "SUCCEEDED" -> "PENDING"
      [] OTHER -> "NONE"

Goes(p, found, next) ==
    call' = [call EXCEPT ![p].found = found,
                           ![p].at = IF found = "NONE" THEN next ELSE "compare"]

Inspect(p, c) ==
    /\ c \in Reviewed /\ request[c] # "NONE"
    /\ Start(p, c, IF ByRequest(c) = "NONE" THEN "wallets" ELSE "compare", ByRequest(c))
    /\ UNCHANGED <<request, expired, provider, legs, wallets, finding>>

\* A conversion that still waits for its target wallet looks damaged.
ProveWallets(p) ==
    /\ At(p, "wallets")
    /\ Goes(p, IF Target[call[p].conversion] \in open THEN "NONE" ELSE "INTEGRITY_FAILURE",
            "ledger")
    /\ UNCHANGED <<request, expired, provider, legs, wallets, finding>>

\* Mutant: entries are taken for granted once the provider has succeeded.
ProvedAlready(c, read) == "HEALTHY"
\* Entries, projections, references and audit come with one commit.
Proved(c, read) ==
    IF debits[c] # 1 \/ credits[c] # 1 THEN "CORRUPTED_LEDGER"
    ELSE IF read = "COMPLETED" THEN "HEALTHY" ELSE "INTEGRITY_FAILURE"

ProveLedger(p) ==
    /\ At(p, "ledger")
    /\ Goes(p, Proved(call[p].conversion, call[p].read), "compare")
    /\ UNCHANGED <<request, expired, provider, legs, wallets, finding>>

\* The same finding again is answered, not stored.
Compare(p) ==
    /\ At(p, "compare")
    /\ IF finding[call[p].conversion] = call[p].found THEN End(p)
       ELSE call' = [call EXCEPT ![p].at = "record"]
    /\ UNCHANGED <<request, expired, provider, legs, wallets, finding>>

Record(p) ==
    /\ At(p, "record")
    /\ finding' = [finding EXCEPT ![call[p].conversion] = call[p].found]
    /\ End(p)
    /\ UNCHANGED <<request, expired, provider, legs, wallets>>

-----------------------------------------------------------------------------
(* The rest of the world: bookings and withdrawals take what is there,     *)
(* top-ups and settlements bring money and open wallets                    *)

Spend(w, amount) ==
    /\ amount <= balance[w]
    /\ balance' = [balance EXCEPT ![w] = @ - amount]
    /\ UNCHANGED <<request, expired, provider, legs, open, finding, call>>

Receive(w, amount) ==
    /\ balance[w] + amount <= MaxBalance
    /\ open' = open \cup {w}
    /\ balance' = [balance EXCEPT ![w] = @ + amount]
    /\ UNCHANGED <<request, expired, provider, legs, finding, call>>

-----------------------------------------------------------------------------
Process(c) ==
    \/ RequestConversion(c) \/ Expire(c) \/ Reject(c)
    \/ InitializeProvider(c)
    \/ \E answer \in {"SUCCEEDED", "FAILED"} : Execute(c, answer)
    \/ Complete(c) \/ FinalizeFailed(c)

Proceed(p) ==
    \/ CommitApproval(p)
    \/ ProveWallets(p) \/ ProveLedger(p) \/ Compare(p) \/ Record(p)

Next ==
    \/ \E c \in Conversions : Process(c)
    \/ \E p \in Callers : Proceed(p) \/ \E c \in Conversions : BeginApproval(p, c) \/ Inspect(p, c)
    \/ \E w \in Wallets, amount \in 1..MaxBalance : Spend(w, amount) \/ Receive(w, amount)

Spec == Init /\ [][Next]_vars

-----------------------------------------------------------------------------
(* Properties *)

\* A conversion that reconciliation calls HEALTHY is over: exchanged, both
\* legs once, or failed without any, although the inspection read its
\* documents one by one and stored the finding later.
HealthyIsOver ==
    \A c \in Conversions : finding[c] = "HEALTHY" =>
        \/ request[c] = "COMPLETED" /\ debits[c] = 1 /\ credits[c] = 1
        \/ request[c] = "FAILED" /\ debits[c] = 0 /\ credits[c] = 0

\* Decision, provider and accounting implement ConversionPromise, whatever
\* the wallets are used for in between and whoever decides at once.
Told(status) == IF status \in {"REJECTED", "COMPLETED", "FAILED"} THEN status ELSE "OPEN"
Promise == INSTANCE ConversionPromise WITH
    agreed <- {c \in Conversions : request[c] \in {"APPROVED", "COMPLETED", "FAILED"}},
    bank <- [c \in Conversions |->
        IF provider[c] \in {"SUCCEEDED", "FAILED"} THEN provider[c] ELSE "NONE"],
    told <- [c \in Conversions |-> Told(request[c])]
PromiseSpec == Promise!Spec
=============================================================================
