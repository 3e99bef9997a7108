----------------------------- MODULE WalletTopUp -----------------------------
(***************************************************************************)
(* Money into a user's wallet: a request is decided by an administrator,   *)
(* funded at the internal provider, and accounted for in three writes that *)
(* commit one by one: the ledger entry, the wallet projection, the         *)
(* completion of the request.  A crash or another call may fall between    *)
(* any two.  Administrators inspect a top-up, which keeps a case of what   *)
(* was seen, retry its accounting, finalize a provider failure and close   *)
(* the case, several at once.                                              *)
(*                                                                         *)
(* An inspection reads one document after another and writes the case      *)
(* without a guard, so both what it saw and the status it stores may be    *)
(* out of date.  Each top-up is one idempotency key with its amount.       *)
(***************************************************************************)
EXTENDS Integers, FiniteSets

CONSTANTS
    TopUps, Wallets, WalletOf, Amount,
    MaxBalance,              \* MAX_TRANSACTION_AMOUNT, the most a wallet may hold
    Balance,                 \* what each wallet holds before
    Callers,                 \* calls the server works on at once
    MaxRetries,              \* MAX_ACCOUNTING_RETRIES, 5 in the code
    Reviewed                 \* bound: top-ups administrators look into, all in the code

ASSUME TopUpAssumption ==
    /\ WalletOf \in [TopUps -> Wallets]
    /\ Amount \in [TopUps -> Nat \ {0}]
    /\ MaxBalance \in Nat
    /\ Balance \in [Wallets -> 0..MaxBalance]
    /\ MaxRetries \in Nat \ {0}
    /\ Reviewed \subseteq TopUps

VARIABLES
    request,      \* WalletTopUpRequest.status, NONE before there is one
    funding,      \* InternalTopUpFunding.status
    posted,       \* ledger entries with the top-up's posting key
    projected,    \* wallet projection operations with its operation key
    balance,      \* Wallet.availableBalance
    review,       \* WalletTopUpReconciliation; seen: snapshot and fingerprint
    call          \* what each caller is doing

vars == <<request, funding, posted, projected, balance, review, call>>

RequestStatuses ==
    {"NONE", "PENDING", "APPROVED", "REJECTED", "PROCESSING", "COMPLETED", "FAILED"}
FundingStatuses == {"NONE", "PROCESSING", "SUCCEEDED", "FAILED"}
ReviewStatuses ==
    {"NONE", "OPEN", "IN_PROGRESS", "RETRY_SCHEDULED", "ACKNOWLEDGED", "RESOLVED", "FAILED"}

\* What an inspection reads of a top-up; the links of a request follow its status.
Snapshot == [request : RequestStatuses, funding : FundingStatuses,
             posted : BOOLEAN, projected : BOOLEAN]
Unread == [request |-> "NONE", funding |-> "NONE", posted |-> FALSE, projected |-> FALSE]

Review == [status : ReviewStatuses, seen : Snapshot, tries : 0..MaxRetries]
NoReview == [status |-> "NONE", seen |-> Unread, tries |-> 0]

Operations == {"account", "inspect", "claim", "retry", "fail", "close"}
Steps == {"operation", "post", "project", "complete",           \* of account
          "request", "funding", "posted", "projected", "case", "record",
          "claim", "account", "resolve", "report", "finalize", "update"}
Idle == [op |-> "idle"]
\* loaded: what the case showed when a retry or a closing began; store: the status
\* an inspection is about to store; tries: the number of the retry.
Calls ==
    [op : Operations, at : Steps, topUp : TopUps, seen : Snapshot,
     loaded : Snapshot, store : ReviewStatuses, tries : 0..MaxRetries]
CallState == {Idle} \cup Calls

TypeOK ==
    /\ request \in [TopUps -> RequestStatuses]
    /\ funding \in [TopUps -> FundingStatuses]
    /\ posted \in [TopUps -> Nat] /\ projected \in [TopUps -> Nat]
    /\ balance \in [Wallets -> 0..MaxBalance]
    /\ review \in [TopUps -> Review]
    /\ call \in [Callers -> CallState]

Init ==
    /\ request = [t \in TopUps |-> "NONE"]
    /\ funding = [t \in TopUps |-> "NONE"]
    /\ posted = [t \in TopUps |-> 0] /\ projected = [t \in TopUps |-> 0]
    /\ balance = Balance
    /\ review = [t \in TopUps |-> NoReview]
    /\ call = [p \in Callers |-> Idle]

money == <<posted, projected, balance>>

-----------------------------------------------------------------------------
(* Calls *)

At(p, at) == call[p] # Idle /\ call[p].at = at
End(p) == call' = [call EXCEPT ![p] = Idle]
Goto(p, at) == call' = [call EXCEPT ![p].at = at]

Start(p, c) ==
    /\ call[p] = Idle
    /\ call' = [call EXCEPT ![p] = c]
    /\ UNCHANGED <<request, funding, money, review>>

NewCall(op, at, t) ==
    [op |-> op, at |-> at, topUp |-> t, seen |-> Unread,
     loaded |-> Unread, store |-> "NONE", tries |-> 0]

-----------------------------------------------------------------------------
(* Request and decision: one guarded update each *)

RequestTopUp(t) ==
    /\ request[t] = "NONE"
    /\ request' = [request EXCEPT ![t] = "PENDING"]
    /\ UNCHANGED <<funding, money, review, call>>

Decide(t, decision) ==
    /\ request[t] = "PENDING"
    /\ request' = [request EXCEPT ![t] = decision]
    /\ UNCHANGED <<funding, money, review, call>>

-----------------------------------------------------------------------------
(* Funding: the provider's record, its link to the request and the outcome are *)
(* written one by one.  Each write is guarded by what the one before left, so   *)
(* that a second call, or one after a crash, goes on where the first stopped.   *)

CreateFunding(t) ==
    /\ request[t] = "APPROVED" /\ funding[t] = "NONE"
    /\ funding' = [funding EXCEPT ![t] = "PROCESSING"]
    /\ UNCHANGED <<request, money, review, call>>

LinkFunding(t) ==
    /\ request[t] = "APPROVED" /\ funding[t] # "NONE"
    /\ request' = [request EXCEPT ![t] = "PROCESSING"]
    /\ UNCHANGED <<funding, money, review, call>>

\* The answer that is recorded first stays.
Answered(old, answer) == IF old = "PROCESSING" THEN answer ELSE old

Simulate(t, answer) ==
    /\ request[t] = "PROCESSING"
    /\ funding' = [funding EXCEPT ![t] = Answered(@, answer)]
    /\ UNCHANGED <<request, money, review, call>>

-----------------------------------------------------------------------------
(* Accounting: ledger, projection, completion, each found or written *)

\* The end of an accounting, for a plain call and for a retry.
Accounted(p) ==
    call' = [call EXCEPT ![p] =
        IF @.op = "retry" THEN [@ EXCEPT !.at = "request", !.seen = Unread] ELSE Idle]
Failed(p) ==
    call' = [call EXCEPT ![p] =
        IF @.op = "retry" THEN [@ EXCEPT !.at = "report", !.seen = Unread] ELSE Idle]

\* The request, its funding and the ledger entry change in one order only, so
\* that reading them one by one is reading them at once.
Account(p, t) ==
    /\ request[t] = "PROCESSING" /\ funding[t] = "SUCCEEDED"
    /\ Start(p, [NewCall("account", "operation", t) EXCEPT !.seen.posted = posted[t] > 0])

AccountAgain(p) ==
    LET t == call[p].topUp IN
    /\ At(p, "account")
    /\ \/ request[t] = "COMPLETED" /\ Accounted(p)
       \/ /\ request[t] = "PROCESSING"
          /\ call' = [call EXCEPT ![p].at = "operation", ![p].seen.posted = posted[t] > 0]
    /\ UNCHANGED <<request, funding, money, review>>

\* A projection whose entry was not there a moment ago is taken for a conflict.
ReadOperation(p) ==
    /\ At(p, "operation")
    /\ IF projected[call[p].topUp] > 0 /\ ~call[p].seen.posted
       THEN Failed(p)
       ELSE call' = [call EXCEPT ![p].at = "post", ![p].seen = Unread]
    /\ UNCHANGED <<request, funding, money, review>>

\* Mutant: an entry per call.
EntriesEachTime(old) == old + 1
\* The unique posting key: whoever comes second finds the first one's entry.
Entries(old) == IF old = 0 THEN 1 ELSE old

PostEntry(p) ==
    /\ At(p, "post")
    /\ posted' = [posted EXCEPT ![call[p].topUp] = Entries(@)]
    /\ Goto(p, "project")
    /\ UNCHANGED <<request, funding, projected, balance, review>>

\* applyConditionalDelta: the maximum is tested with the increment.
Fits(w, amount) == balance[w] + amount <= MaxBalance

\* One transaction: the operation's key makes a second projection a replay.
Project(p) ==
    LET t == call[p].topUp IN
    /\ At(p, "project")
    /\ \/ /\ projected[t] > 0 /\ Goto(p, "complete")
          /\ UNCHANGED <<projected, balance>>
       \/ /\ projected[t] = 0 /\ Fits(WalletOf[t], Amount[t])
          /\ projected' = [projected EXCEPT ![t] = @ + 1]
          /\ balance' = [balance EXCEPT ![WalletOf[t]] = @ + Amount[t]]
          /\ Goto(p, "complete")
       \/ /\ projected[t] = 0 /\ ~Fits(WalletOf[t], Amount[t]) /\ Failed(p)
          /\ UNCHANGED <<projected, balance>>
    /\ UNCHANGED <<request, funding, posted, review>>

Complete(p) ==
    LET t == call[p].topUp IN
    /\ At(p, "complete")
    /\ request' = [request EXCEPT ![t] = IF @ = "PROCESSING" THEN "COMPLETED" ELSE @]
    /\ IF request[t] \in {"PROCESSING", "COMPLETED"} THEN Accounted(p) ELSE Failed(p)
    /\ UNCHANGED <<funding, money, review>>

-----------------------------------------------------------------------------
(* Inspection, alone or as the first part of another operation *)

Linked(s) == s.request \in {"PROCESSING", "COMPLETED", "FAILED"}

\* The classifications that decide what may be done; CRITICAL stands for all
\* that only an acknowledgement closes.
Class(s) ==
    CASE s.request = "COMPLETED" /\ s.funding = "SUCCEEDED" /\ s.posted /\ s.projected
             -> "COMPLETED_VALID"
      [] s.request # "COMPLETED" /\ s.funding = "FAILED"
             /\ Linked(s) /\ ~s.posted /\ ~s.projected -> "PROVIDER_FAILED"
      [] s.request # "COMPLETED" /\ s.funding = "PROCESSING" -> "PROVIDER_PENDING"
      [] s.request # "COMPLETED" /\ s.funding = "SUCCEEDED"
             /\ Linked(s) /\ (s.posted \/ ~s.projected) -> "RETRYABLE"
      [] OTHER -> "CRITICAL"

\* A call whose first step is to read the request.
Looking(op, t) == [NewCall(op, "funding", t) EXCEPT !.seen.request = request[t]]

Inspect(p, t) ==
    /\ t \in Reviewed /\ request[t] # "NONE"
    /\ Start(p, Looking("inspect", t))

\* A retry or a closing that sees something else than the case showed will be
\* refused: from then on it is an inspection and nothing more.
Refused(c, document, value) ==
    c.op \in {"claim", "close"} /\ value # c.loaded[document]

Saw(p, document, value, next) ==
    LET c == call[p]
        goes == IF Refused(c, document, value)
                THEN [NewCall("inspect", next, c.topUp) EXCEPT !.seen = c.seen]
                ELSE [c EXCEPT !.at = next] IN
    /\ At(p, document)
    /\ call' = [call EXCEPT ![p] = [goes EXCEPT !.seen[document] = value]]

\* Mutant: a closed case stays closed whatever is seen.
NewStatusAlways(was, seen) ==
    IF was.status \in {"IN_PROGRESS", "ACKNOWLEDGED", "FAILED", "RESOLVED"}
    THEN was.status ELSE "OPEN"
\* The status an inspection stores: a closed case stays closed only over what
\* it was closed on.
NewStatus(was, seen) ==
    IF was.status = "IN_PROGRESS" THEN "IN_PROGRESS"
    ELSE IF was.status \in {"ACKNOWLEDGED", "FAILED", "RESOLVED"} /\ was.seen = seen
         THEN was.status ELSE "OPEN"

\* One document after another; the entry and the projection are looked for
\* under identities derived from the funding.  (The code reads these two in
\* parallel; the entry is there before the projection, so that the other order
\* sees nothing more.)
Read(p) ==
    LET t == call[p].topUp
        funded == call[p].seen.funding # "NONE" IN
    /\ \/ Saw(p, "request", request[t], "funding")
       \/ Saw(p, "funding", funding[t], "posted")
       \/ Saw(p, "posted", funded /\ posted[t] > 0, "projected")
       \/ Saw(p, "projected", funded /\ projected[t] > 0, "case")
       \/ /\ At(p, "case")
          /\ call' = [call EXCEPT ![p].at = "record",
                                    ![p].store = NewStatus(review[t], call[p].seen)]
    /\ UNCHANGED <<request, funding, money, review>>

\* What an operation goes on with after its inspection.
Afterwards(c) ==
    LET next == [c EXCEPT !.loaded = Unread, !.store = "NONE"] IN
    CASE c.op = "claim" /\ Class(c.seen) = "RETRYABLE" -> [next EXCEPT !.at = "claim"]
      [] c.op = "retry" ->
             [next EXCEPT !.at = IF Class(c.seen) = "COMPLETED_VALID" THEN "resolve" ELSE "report"]
      [] c.op = "close" -> [next EXCEPT !.at = "update"]
      [] c.op = "fail" /\ Class(c.seen) = "PROVIDER_FAILED" /\ c.seen.request = "PROCESSING"
             -> [next EXCEPT !.at = "finalize", !.seen = Unread]
      [] OTHER -> Idle

\* upsertObservation has no guard.
Record(p) ==
    LET c == call[p] IN
    /\ At(p, "record")
    /\ review' = [review EXCEPT ![c.topUp].status = c.store, ![c.topUp].seen = c.seen]
    /\ call' = [call EXCEPT ![p] = Afterwards(c)]
    /\ UNCHANGED <<request, funding, money>>

-----------------------------------------------------------------------------
(* Retry of the accounting *)

Retry(p, t) ==
    /\ review[t].status \notin {"NONE", "RESOLVED", "ACKNOWLEDGED"}
    /\ review[t].tries < MaxRetries /\ Class(review[t].seen) = "RETRYABLE"
    /\ Start(p, [NewCall("claim", "request", t) EXCEPT
           !.loaded = review[t].seen, !.tries = review[t].tries + 1])

\* The guard of beginRetry.
Claimable(c, r) ==
    /\ r.seen = c.seen /\ r.tries = c.tries - 1
    /\ r.status \in {"OPEN", "RETRY_SCHEDULED"}

Claim(p) ==
    LET c == call[p] IN
    /\ At(p, "claim")
    /\ IF Claimable(c, review[c.topUp])
       THEN /\ review' = [review EXCEPT ![c.topUp].status = "IN_PROGRESS",
                                        ![c.topUp].tries = @ + 1]
            /\ call' = [call EXCEPT ![p] =
                  [NewCall("retry", "account", c.topUp) EXCEPT !.tries = c.tries]]
       ELSE End(p) /\ UNCHANGED review
    /\ UNCHANGED <<request, funding, money>>

\* updateResolution: over the snapshot it decided on, from the statuses it
\* expects, or not at all.
Close(p, from, to) ==
    LET c == call[p] IN
    /\ review' = [review EXCEPT ![c.topUp].status =
          IF review[c.topUp].seen = c.seen /\ @ \in from THEN to ELSE @]
    /\ End(p)
    /\ UNCHANGED <<request, funding, money>>

\* A retry that succeeded.
Resolve(p) == At(p, "resolve") /\ Close(p, {"IN_PROGRESS", "RESOLVED"}, "RESOLVED")

\* A retry that failed: completeRetry, while the case is still its own.
Report(p) ==
    LET c == call[p] IN
    /\ At(p, "report")
    /\ review' = [review EXCEPT ![c.topUp].status =
          IF @ = "IN_PROGRESS" /\ review[c.topUp].tries = c.tries
          THEN IF c.tries < MaxRetries THEN "RETRY_SCHEDULED" ELSE "FAILED"
          ELSE @]
    /\ End(p)
    /\ UNCHANGED <<request, funding, money>>

-----------------------------------------------------------------------------
(* Provider failure, and closing a case *)

FinalizeFailure(p, t) ==
    /\ t \in Reviewed /\ request[t] # "NONE"
    /\ Start(p, Looking("fail", t))

\* The update is guarded by PROCESSING; who comes second finds FAILED.
CommitFailure(p) ==
    LET c == call[p] IN
    /\ At(p, "finalize")
    /\ request' = [request EXCEPT ![c.topUp] = IF @ = "PROCESSING" THEN "FAILED" ELSE @]
    /\ call' = [call EXCEPT ![p] = NewCall("inspect", "request", c.topUp)]
    /\ UNCHANGED <<funding, money, review>>

BeginClosing(p, t) ==
    /\ review[t].status \notin {"NONE", "RESOLVED", "ACKNOWLEDGED"}
    /\ Class(review[t].seen) \in {"COMPLETED_VALID", "CRITICAL"}
    /\ Start(p, [NewCall("close", "request", t) EXCEPT !.loaded = review[t].seen])

\* The statuses updateStatus may leave.
Closable == {"OPEN", "RETRY_SCHEDULED", "FAILED"}

UpdateStatus(p) ==
    /\ At(p, "update")
    /\ \/ Class(call[p].seen) = "COMPLETED_VALID" /\ Close(p, Closable, "RESOLVED")
       \/ Class(call[p].seen) = "CRITICAL" /\ Close(p, Closable, "ACKNOWLEDGED")

-----------------------------------------------------------------------------
(* The rest of the world *)

\* Bookings and conversions take from the wallet what is there.
Spend(w, amount) ==
    /\ amount <= balance[w]
    /\ balance' = [balance EXCEPT ![w] = @ - amount]
    /\ UNCHANGED <<request, funding, posted, projected, review, call>>

\* The server stops under a call.  Only accountings and claimed retries leave
\* something behind: any other call that stops is one that ended before.
Crash(p) ==
    /\ call[p] # Idle /\ call[p].op \in {"account", "retry"} /\ End(p)
    /\ UNCHANGED <<request, funding, money, review>>

-----------------------------------------------------------------------------
Begin(p, t) ==
    \/ Account(p, t) \/ Inspect(p, t)
    \/ Retry(p, t) \/ FinalizeFailure(p, t) \/ BeginClosing(p, t)

Proceed(p) ==
    \/ AccountAgain(p) \/ ReadOperation(p) \/ PostEntry(p) \/ Project(p) \/ Complete(p)
    \/ Read(p) \/ Record(p)
    \/ Claim(p) \/ Resolve(p) \/ Report(p) \/ CommitFailure(p) \/ UpdateStatus(p)

Next ==
    \/ \E t \in TopUps :
          \/ RequestTopUp(t) \/ \E d \in {"APPROVED", "REJECTED"} : Decide(t, d)
          \/ CreateFunding(t) \/ LinkFunding(t)
          \/ \E answer \in {"SUCCEEDED", "FAILED"} : Simulate(t, answer)
    \/ \E p \in Callers : Proceed(p) \/ Crash(p) \/ \E t \in TopUps : Begin(p, t)
    \/ \E w \in Wallets, amount \in 1..MaxBalance : Spend(w, amount)

Spec == Init /\ [][Next]_vars

-----------------------------------------------------------------------------
(* Properties *)

\* A closed case shows what it was closed on, whatever inspections began
\* before and record after: a RESOLVED one a valid completion that did happen,
\* an ACKNOWLEDGED one a state that nothing else could close.
ClosedOnWhatItShows ==
    \A t \in TopUps :
        /\ review[t].status = "RESOLVED" =>
              Class(review[t].seen) = "COMPLETED_VALID" /\ request[t] = "COMPLETED"
        /\ review[t].status = "ACKNOWLEDGED" => Class(review[t].seen) = "CRITICAL"

\* Funding, ledger, wallet and request implement TopUpPromise, across crashes
\* between the writes, repeated calls and retries.
Told(status) == IF status \in {"REJECTED", "COMPLETED", "FAILED"} THEN status ELSE "OPEN"
Promise == INSTANCE TopUpPromise WITH
    bank <- [t \in TopUps |-> IF funding[t] = "PROCESSING" THEN "NONE" ELSE funding[t]],
    entries <- posted, credits <- projected,
    told <- [t \in TopUps |-> Told(request[t])]
PromiseSpec == Promise!Spec
=============================================================================
