-------------------------- MODULE CreatorWithdrawal --------------------------
(***************************************************************************)
(* A creator's withdrawal: the amount moves from the available to the      *)
(* reserved part of the wallet, a request is set up at the internal        *)
(* provider and executed there, and finalization turns the provider's      *)
(* answer into a payout or a refund.  Administrators inspect a withdrawal, *)
(* retry its finalization and close the case; the creator's destination    *)
(* is switched off and on meanwhile; a crash falls anywhere.               *)
(*                                                                         *)
(* A transaction takes its snapshot and commits in a later step; it starts *)
(* over when a commit in between wrote one of the documents it writes.     *)
(* PENDING, CREATED and PROCESSING exist only inside one.  Each withdrawal *)
(* is one idempotency key with its intent.                                 *)
(***************************************************************************)
EXTENDS Integers, FiniteSets, FiniteSums

CONSTANTS
    Creators, Withdrawals, CreatorOf, Amount,
    Balance,                 \* what each creator's wallet starts with
    Callers,                 \* requests the server works on at once
    MaxRetries,              \* MAX_WITHDRAWAL_FINALIZATION_RETRIES, 5 in the code
    Reviewed,                \* bound: withdrawals administrators look into, all in the code
    MaxCrashes               \* bound, for model checking only

ASSUME WithdrawalAssumption ==
    /\ IsFiniteSet(Withdrawals)
    /\ CreatorOf \in [Withdrawals -> Creators]
    /\ Amount \in [Withdrawals -> Nat \ {0}]
    /\ Balance \in [Creators -> Nat]
    /\ MaxRetries \in Nat \ {0}
    /\ Reviewed \subseteq Withdrawals
    /\ MaxCrashes \in Nat

VARIABLES
    status,       \* CreatorWithdrawalRequest.status
    provider,     \* InternalWithdrawalProviderRequest.providerStatus
    available,    \* the creators' Wallet.availableBalance
    reserved,     \* the creators' Wallet.reservedBalance
    money,        \* ledger balance of each account, per withdrawal
    payable,      \* creator ACTIVE, and destination VERIFIED and active
    review,       \* CreatorWithdrawalReconciliation; pending: the recorded snapshot
                  \* is that of a withdrawal waiting for its finalization, which
                  \* is the same each time it is taken
    attempts,     \* CreatorWithdrawalRetryAttempt.status, per retry
    call,         \* what each caller is doing
    crashes

vars == <<status, provider, available, reserved, money, payable,
          review, attempts, call, crashes>>

Statuses == {"NONE", "RESERVED", "COMPLETED", "FAILED"}
Answers == {"SUCCEEDED", "FAILED"}
ProviderStatuses == {"NONE", "INITIALIZED"} \cup Answers
ReviewStatuses ==
    {"NONE", "OPEN", "RETRY_SCHEDULED", "IN_PROGRESS", "ACKNOWLEDGED", "RESOLVED", "FAILED"}

Idle == [op |-> "idle"]
\* What a call is about to do.  The first four have taken a snapshot.
Transactions == {"reserve", "initialize", "execute", "settle"}
FinalSteps == {"check", "finalize", "settle", "verify", "observe", "applied", "failed"}
OperatorSteps == {"recordPending", "recordOther", "claim"}
\* tries: the retry a finalization belongs to, 0 for none.
CallState == {Idle}
    \cup [op : Transactions \cup OperatorSteps \cup FinalSteps,
          withdrawal : Withdrawals, tries : 0..MaxRetries]

TypeOK ==
    /\ status \in [Withdrawals -> Statuses]
    /\ provider \in [Withdrawals -> ProviderStatuses]
    /\ available \in [Creators -> Nat] /\ reserved \in [Creators -> Nat]
    /\ money \in [Withdrawals -> [available : Int, reserved : Int, clearing : Int]]
    /\ payable \in [Creators -> BOOLEAN]
    /\ review \in [Withdrawals ->
          [status : ReviewStatuses, pending : BOOLEAN, tries : 0..MaxRetries]]
    /\ attempts \in [Withdrawals ->
          [1..MaxRetries -> {"NONE", "STARTED", "APPLIED", "FAILED"}]]
    /\ call \in [Callers -> CallState]
    /\ crashes \in Nat

Init ==
    /\ status = [w \in Withdrawals |-> "NONE"]
    /\ provider = [w \in Withdrawals |-> "NONE"]
    /\ available = Balance
    /\ reserved = [c \in Creators |-> 0]
    /\ money = [w \in Withdrawals |-> [available |-> 0, reserved |-> 0, clearing |-> 0]]
    /\ payable = [c \in Creators |-> TRUE]
    /\ review = [w \in Withdrawals |-> [status |-> "NONE", pending |-> FALSE, tries |-> 0]]
    /\ attempts = [w \in Withdrawals |-> [n \in 1..MaxRetries |-> "NONE"]]
    /\ call = [p \in Callers |-> Idle]
    /\ crashes = 0

funds == <<available, reserved, money>>
cases == <<review, attempts>>
world == <<payable, crashes>>

Payable(w) == payable[CreatorOf[w]]
Final(w) == status[w] \in {"COMPLETED", "FAILED"}
Answered(w) == provider[w] \in Answers

\* The two classes of an inspection that decide anything; a provider graph
\* whose destination is switched off counts as corrupted.
Pending(w) == status[w] = "RESERVED" /\ Answered(w) /\ Payable(w)
Healthy(w) == Final(w) /\ Payable(w)

-----------------------------------------------------------------------------
(* Calls and transactions *)

At(p, op) == call[p].op = op
End(p) == call' = [call EXCEPT ![p] = Idle]
Goto(p, op) == call' = [call EXCEPT ![p].op = op]

Start(p, op, w) ==
    /\ call[p] = Idle
    /\ call' = [call EXCEPT ![p] = [op |-> op, withdrawal |-> w, tries |-> 0]]
    /\ UNCHANGED <<status, provider, funds, cases, world>>

WritesWallet(op) == op \in {"reserve", "settle"}

\* The commit of an op on w makes the open transaction of d start over.
Conflicts(d, op, w) ==
    /\ call[d].op \in Transactions
    /\ \/ call[d].withdrawal = w
       \/ /\ WritesWallet(op) /\ WritesWallet(call[d].op)
          /\ CreatorOf[call[d].withdrawal] = CreatorOf[w]

\* Starting over is calling again, except in a finalization, which goes on.
StartOver(c) == IF c.op = "settle" THEN [c EXCEPT !.op = "finalize"] ELSE Idle

\* p commits and goes on with `next`.
CommitCall(p, next) ==
    call' = [d \in Callers |->
        IF d = p THEN next
        ELSE IF Conflicts(d, call[p].op, call[p].withdrawal) THEN StartOver(call[d])
        ELSE call[d]]

Post(w, a, r, c) ==
    money' = [money EXCEPT ![w] = [available |-> @.available + a,
                                   reserved |-> @.reserved + r,
                                   clearing |-> @.clearing + c]]

\* applyProjectionMutation.
Project(w, a, r) ==
    /\ available' = [available EXCEPT ![CreatorOf[w]] = @ + a]
    /\ reserved' = [reserved EXCEPT ![CreatorOf[w]] = @ + r]

-----------------------------------------------------------------------------
(* The request reserves the amount *)

HasObligation(c) == \E v \in Withdrawals : CreatorOf[v] = c /\ status[v] = "RESERVED"

\* Mutant: neither the balance nor the obligations are looked at.
ReservableOnSight(w) == status[w] = "NONE" /\ Payable(w)

Reservable(w) ==
    /\ status[w] = "NONE"
    /\ Payable(w)
    /\ available[CreatorOf[w]] >= Amount[w]
    /\ ~HasObligation(CreatorOf[w])

\* What is checked before the transaction is checked again in it; a key that
\* exists is a replay and changes nothing.
RequestWithdrawal(p, w) == Reservable(w) /\ Start(p, "reserve", w)

CommitReservation(p) ==
    LET w == call[p].withdrawal IN
    /\ At(p, "reserve")
    /\ status' = [status EXCEPT ![w] = "RESERVED"]
    /\ Post(w, -Amount[w], Amount[w], 0)
    /\ Project(w, -Amount[w], Amount[w])
    /\ CommitCall(p, Idle)
    /\ UNCHANGED <<provider, cases, world>>

-----------------------------------------------------------------------------
(* The provider: set up, then executed *)

InitializeProvider(p, w) ==
    status[w] = "RESERVED" /\ provider[w] = "NONE" /\ Payable(w) /\ Start(p, "initialize", w)

CommitInitialization(p) ==
    LET w == call[p].withdrawal IN
    /\ At(p, "initialize")
    /\ provider' = [provider EXCEPT ![w] = "INITIALIZED"]
    /\ CommitCall(p, Idle)
    /\ UNCHANGED <<status, funds, cases, world>>

\* A terminal result is kept, whatever outcome a later call asks for.
ExecuteProvider(p, w) ==
    status[w] = "RESERVED" /\ provider[w] = "INITIALIZED" /\ Payable(w) /\ Start(p, "execute", w)

CommitExecution(p, answer) ==
    LET w == call[p].withdrawal IN
    /\ At(p, "execute")
    /\ provider' = [provider EXCEPT ![w] = answer]
    /\ CommitCall(p, Idle)
    /\ UNCHANGED <<status, funds, cases, world>>

-----------------------------------------------------------------------------
(* Finalization *)

Finalize(p, w) == status[w] # "NONE" /\ Start(p, "check", w)

\* Mutant: a retry whose finalization failed ends without telling the case.
FailQuietly(p) == End(p)

\* A finalization that failed: only a retry has somebody to tell.
Fail(p) == IF call[p].tries > 0 THEN Goto(p, "failed") ELSE End(p)

\* Before the transaction: an outcome that exists is validated; the provider's
\* graph must be sound, its destination included.
CheckFinalization(p) ==
    LET w == call[p].withdrawal IN
    /\ At(p, "check")
    /\ \/ Final(w) /\ Goto(p, "verify")
       \/ Pending(w) /\ Goto(p, "finalize")
       \/ ~Final(w) /\ ~Pending(w) /\ Fail(p)
    /\ UNCHANGED <<status, provider, funds, cases, world>>

\* Mutant: the transaction trusts the status read before it.
FinalizableAgain(w) == reserved[CreatorOf[w]] >= Amount[w]

Finalizable(w) == status[w] = "RESERVED" /\ reserved[CreatorOf[w]] >= Amount[w]

\* A transaction that cannot finalize falls back to validating what is there.
\* Or it fails: the database, or a fifth conflict.
OpenFinalization(p) ==
    LET w == call[p].withdrawal IN
    /\ At(p, "finalize")
    /\ Goto(p, IF Finalizable(w) THEN "settle" ELSE "verify") \/ Fail(p)
    /\ UNCHANGED <<status, provider, funds, cases, world>>

\* Mutant: a refusal releases the reservation and gives nothing back.
SettleReservationOnly(w) ==
    Project(w, 0, -Amount[w])

\* The wallet side of finalization.
SettleReservation(w) ==
    Project(w, IF provider[w] = "SUCCEEDED" THEN 0 ELSE Amount[w], -Amount[w])

CommitFinalization(p) ==
    LET w == call[p].withdrawal
        paid == provider[w] = "SUCCEEDED"
    IN  /\ At(p, "settle")
        /\ status' = [status EXCEPT ![w] = IF paid THEN "COMPLETED" ELSE "FAILED"]
        /\ Post(w, IF paid THEN 0 ELSE Amount[w], -Amount[w], IF paid THEN Amount[w] ELSE 0)
        /\ SettleReservation(w)
        /\ CommitCall(p, [call[p] EXCEPT !.op = "verify"])
        /\ UNCHANGED <<provider, cases, world>>

\* validateReplay of what was committed, by this call or another: it fails
\* when the destination has been switched off meanwhile.
VerifyFinalization(p) ==
    /\ At(p, "verify")
    /\ IF ~Healthy(call[p].withdrawal) THEN Fail(p)
       ELSE IF call[p].tries > 0 THEN Goto(p, "observe") ELSE End(p)
    /\ UNCHANGED <<status, provider, funds, cases, world>>

-----------------------------------------------------------------------------
(* Inspection, retries and the case's status *)

\* An administrator inspects; what was seen is recorded in a transaction later.
Inspect(p, w) ==
    /\ w \in Reviewed /\ status[w] # "NONE"
    /\ Start(p, IF Pending(w) THEN "recordPending" ELSE "recordOther", w)

\* upsertObservation: a new case is OPEN, an old one keeps its status.
Record(p) ==
    LET w == call[p].withdrawal IN
    /\ call[p].op \in {"recordPending", "recordOther"}
    /\ review' = [review EXCEPT ![w].pending = (call[p].op = "recordPending"),
                                ![w].status = IF @ = "NONE" THEN "OPEN" ELSE @]
    /\ End(p)
    /\ UNCHANGED <<status, provider, funds, attempts, world>>

\* A retry is offered for what the case last recorded, if that is still so.
Retry(p, w) ==
    /\ call[p] = Idle /\ review[w].status # "NONE"
    /\ review[w].pending /\ Pending(w)
    /\ review[w].tries < MaxRetries
    /\ call' = [call EXCEPT ![p] =
          [op |-> "claim", withdrawal |-> w, tries |-> review[w].tries]]
    /\ UNCHANGED <<status, provider, funds, cases, world>>

\* Mutant: the update's filter leaves out the status.
ClaimableInAnyStatus(p, w) == review[w].pending /\ review[w].tries < MaxRetries

\* The filter of beginRetry.
Claimable(p, w) ==
    /\ review[w].pending
    /\ review[w].tries = call[p].tries
    /\ review[w].tries < MaxRetries
    /\ review[w].status \in {"OPEN", "RETRY_SCHEDULED"}

Claim(p) ==
    LET w == call[p].withdrawal
        n == review[w].tries + 1
    IN  /\ At(p, "claim")
        /\ \/ /\ Claimable(p, w)
              /\ review' = [review EXCEPT ![w].status = "IN_PROGRESS", ![w].tries = n]
              /\ attempts' = [attempts EXCEPT ![w][n] = "STARTED"]
              /\ call' = [call EXCEPT ![p] =
                    [op |-> "check", withdrawal |-> w, tries |-> n]]
           \/ ~Claimable(p, w) /\ End(p) /\ UNCHANGED cases
        /\ UNCHANGED <<status, provider, funds, world>>

\* After a finalization that went well the withdrawal is inspected once more;
\* unless it is healthy the retry throws and reports nothing.
ObserveRetry(p) ==
    /\ At(p, "observe")
    /\ IF Healthy(call[p].withdrawal) THEN Goto(p, "applied") ELSE End(p)
    /\ UNCHANGED <<status, provider, funds, cases, world>>

\* Mutant: the report looks for the number of tries the case had before the claim.
ReportableBefore(p, w) ==
    review[w].status = "IN_PROGRESS" /\ review[w].tries = call[p].tries - 1

\* The filter of completeRetry and failRetry.
Reportable(p, w) == review[w].status = "IN_PROGRESS" /\ review[w].tries = call[p].tries

\* One transaction over the attempt and the case, or an error and no change.
Report(p, outcome, after) ==
    LET w == call[p].withdrawal IN
    /\ \/ /\ Reportable(p, w)
          /\ attempts' = [attempts EXCEPT ![w][call[p].tries] = outcome]
          /\ review' = [review EXCEPT ![w] = after]
       \/ ~Reportable(p, w) /\ UNCHANGED cases
    /\ End(p)
    /\ UNCHANGED <<status, provider, funds, world>>

CompleteRetry(p) ==
    LET w == call[p].withdrawal IN
    /\ At(p, "applied")
    /\ Report(p, "APPLIED", [review[w] EXCEPT !.status = "OPEN", !.pending = FALSE])

FailRetry(p) ==
    LET w == call[p].withdrawal IN
    /\ At(p, "failed")
    /\ Report(p, "FAILED", [review[w] EXCEPT !.status =
          IF call[p].tries < MaxRetries THEN "RETRY_SCHEDULED" ELSE "FAILED"])

UpdateStatus(w, from, to) ==
    /\ review[w].status \in from
    /\ review' = [review EXCEPT ![w].status = to]
    /\ UNCHANGED <<status, provider, funds, attempts, world, call>>

Acknowledge(w) == UpdateStatus(w, {"OPEN", "FAILED", "RETRY_SCHEDULED"}, "ACKNOWLEDGED")
Resolve(w) ==
    UpdateStatus(w, {"OPEN", "ACKNOWLEDGED", "FAILED", "RETRY_SCHEDULED"}, "RESOLVED")

-----------------------------------------------------------------------------
(* The rest of the world *)

\* setActivation of the destination, or an administrator's word on the creator:
\* neither looks for withdrawals.
SetPayable(c) ==
    /\ payable' = [payable EXCEPT ![c] = ~@]
    /\ UNCHANGED <<status, provider, funds, cases, call, crashes>>

Crash ==
    /\ crashes < MaxCrashes
    /\ crashes' = crashes + 1
    /\ call' = [p \in Callers |-> Idle]
    /\ UNCHANGED <<status, provider, funds, payable, cases>>

-----------------------------------------------------------------------------
Begin(p, w) ==
    \/ RequestWithdrawal(p, w) \/ InitializeProvider(p, w) \/ ExecuteProvider(p, w)
    \/ Finalize(p, w) \/ Inspect(p, w) \/ Retry(p, w)

Proceed(p) ==
    \/ CommitReservation(p) \/ CommitInitialization(p)
    \/ \E answer \in Answers : CommitExecution(p, answer)
    \/ CheckFinalization(p) \/ OpenFinalization(p) \/ CommitFinalization(p)
    \/ VerifyFinalization(p) \/ Record(p) \/ Claim(p)
    \/ ObserveRetry(p) \/ CompleteRetry(p) \/ FailRetry(p)

Next ==
    \/ \E p \in Callers, w \in Withdrawals : Begin(p, w)
    \/ \E p \in Callers : Proceed(p)
    \/ \E w \in Withdrawals : Acknowledge(w) \/ Resolve(w)
    \/ \E c \in Creators : SetPayable(c)
    \/ Crash

Spec == Init /\ [][Next]_vars

\* A call that has begun goes on; nobody has to begin one.
Fairness == \A p \in Callers : WF_vars(Proceed(p))

FairSpec == Spec /\ Fairness

-----------------------------------------------------------------------------
(* Properties *)

Retrying(p, w) ==
    call[p].op \in FinalSteps /\ call[p].withdrawal = w /\ call[p].tries > 0

\* A creator has at most one withdrawal under way, whatever requests race.
OneObligation ==
    \A v, w \in Withdrawals :
        status[v] = "RESERVED" /\ status[w] = "RESERVED" /\ CreatorOf[v] = CreatorOf[w] => v = w

\* What each withdrawal has posted to an account of its creator's wallet.
Posted(account) == [w \in Withdrawals |-> money[w][account]]
WithdrawalsOf(c) == {w \in Withdrawals : CreatorOf[w] = c}

\* The wallet is what the ledger says: the reserved part is the amount under
\* way, the available part what was there less what is under way and what was
\* paid out; whatever requests and finalizations race, neither is overdrawn.
WalletFollowsLedger ==
    \A c \in Creators :
        /\ available[c] >= 0 /\ reserved[c] >= 0
        /\ available[c] = Balance[c] + SumOf(Posted("available"), WithdrawalsOf(c))
        /\ reserved[c] = SumOf(Posted("reserved"), WithdrawalsOf(c))

\* Retries of one withdrawal never overlap: a claimed case has exactly its
\* last attempt STARTED, and only that attempt's call may finalize and report.
RetriesAreSerial ==
    \A w \in Withdrawals :
        /\ \A n \in 1..MaxRetries : attempts[w][n] = "STARTED" <=>
              review[w].status = "IN_PROGRESS" /\ n = review[w].tries
        /\ \A p \in Callers : Retrying(p, w) =>
              review[w].status = "IN_PROGRESS" /\ call[p].tries = review[w].tries
        /\ \A p, q \in Callers : Retrying(p, w) /\ Retrying(q, w) => p = q

\* A call never walks away from its retry: whatever its finalization comes to, it
\* is done with it only when the case leaves IN_PROGRESS.  The exceptions are the
\* process stopping, and a destination switched off before the last inspection.
RetriesStayOwned ==
    [][\A p \in Callers, w \in Withdrawals : Retrying(p, w) =>
          \/ Retrying(p, w)'
          \/ review'[w].status # "IN_PROGRESS"
          \/ At(p, "observe") /\ ~Payable(w)
          \/ crashes' # crashes]_vars

\* A retry that is under way reports what became of it, unless the server
\* stops or the destination is switched off under it.
RetryReports ==
    \A w \in Withdrawals :
        (\E p \in Callers : Retrying(p, w)) ~>
            review[w].status # "IN_PROGRESS" \/ ~Payable(w) \/ crashes > 0

\* The reservation, the provider's answer and the outcome implement PayoutPromise.
Promise == INSTANCE PayoutPromise WITH
    bank <- [w \in Withdrawals |-> IF Answered(w) THEN provider[w] ELSE "NONE"]
PromiseSpec == Promise!Spec
=============================================================================
