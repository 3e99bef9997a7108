# A TLA+ verification project for the STHN backend

STHN is a marketplace backend (TypeScript on Node, Express, MongoDB through mongoose). Customers
book time slots that creators publish and pay from a wallet or through an internal payment
provider; the money is held, goes to escrow when the session is completed, and after a hold is
split between the creator and the platform. Paths below are relative to the repository's source
tree (`src/src/` in `PROJECT.json`).

The project says, for the parts of the backend where money and races meet, what every
interleaving of handlers, background jobs, provider calls, crashes and retries may do.

| what to read | where |
|---|---|
| the system: components, state, how they interact, what is hard | section 1 |
| the modules and how they correspond to the code | sections 2 and 3 |
| what the model-checking runs ask, their bounds, fairness | section 4 |
| what is proved and how | section 5 |
| where the code and its own words disagree | section 6 |
| what is not modelled, and what could follow | section 7 |

To check a run: `tlc -config <cfg> <module>`; to check the proofs: `tlapm` on each of the
eight modules `..._proofs.tla` (section 5).

## 1. The system

### 1.1 How it runs

`server.ts` starts one Express application and one job loop. `runBackgroundJobs` runs every 60
seconds, never twice at once (`jobRunning`), and calls in sequence: expireBookings, completeBookings,
interactionTrigger, sessionEndingSoon, disputeEscalation, settleBookings,
profileVerificationReconciliation and faceVerificationEvidenceCleanup. One `try` surrounds them all:
a job that throws ends the round. At shutdown the loop is stopped, at a crash everything in memory
is gone; only MongoDB persists.

All handlers and jobs share the database. The unit of atomicity is either one document update or
a multi-document transaction (`session.withTransaction`, snapshot reads). Two transactions that
write the same document conflict and one is retried or aborted; a document that a transaction
only *reads* may change before it commits (write skew). What a handler reads before its transaction
may be stale when the transaction starts. Calls to the payment provider are made between
transactions. These four facts decide where every action of the models begins and ends.

### 1.2 Inventory

| component | state it keeps | operations | interacts with | makes it correct |
|---|---|---|---|---|
| Bookings, wallet funded (`controllers/booking.controller.ts`, `creatorBookingDecision.controller.ts`, `services/booking/*`, `services/financial/bookingFinancialTermination.service.ts`) | `Booking` (status, expiresAt, isPayable), `Payment` | request, accept, reject, cancel (customer, creator, admin), expire, governance termination, complete (creator, job) | slots, reservation, wallet, job loop | booking, payment and reservation tell one story; a terminal outcome is final; no slot is sold twice; every hold ends |
| Reservation (`bookingWalletReservation*.service.ts`) | `BookingFundReservation` | authorize, release, capture | wallet projection, ledger | money is moved once and conserved |
| Slots and availability (`creatorAvailability.controller.ts`) | `Slot`, `Availability` | lock, book, free; cancel availability; enable, disable, delete slot | bookings | a slot has at most one live booking |
| Wallet projection (`services/wallet/*`, `repositories/wallet/*`) | `Wallet` balances | conditional `$inc` with minimums and maximums | every money flow | equals the ledger account, never negative or above its maximum |
| Ledger (`ledger.service.ts`) | `LedgerEntry` | paired debits and credits, one `transactionId` | every money flow | balanced, replay-safe |
| Bookings, provider paid (`paymentLifecycle.service.ts`, `payment.service.ts`) | `Payment`, escrow entries | create session, initialize, verify (authorize, capture), record, mark payable, void, refund | internal provider, bookings | escrow follows the payment through late captures |
| Internal provider (`services/internalProvider/*`) | `InternalPayment`, `InternalRefund`, payouts, settlements, events | each transition in its own transaction | payment lifecycle, termination, withdrawals | no void after capture, one refund per key |
| Pricing (`marketplacePricing.service.ts`) | none | calculate, validate | bookings, escrow | amounts add up; limits refuse |
| Escrow allocation and creator settlement (`bookingEscrowAllocation.service.ts`, `bookingCreatorSettlement.service.ts`, `bookingSettlementRelease.service.ts`) | `BookingEscrowAllocation`, `BookingCreatorSettlement`, creator wallet | allocate, settle; by job after the hold or by an admin | ledger, wallet, disputes | each completed booking is split once, to the unit, and paid once, when the creator's wallet has room |
| Settlement inspection, retry, repair | attempts, repair operations | retry, repair, reconcile | settlement | repairs nothing twice |
| Disputes (`dispute.controller.ts`, `adminDispute.controller.ts`, `disputeInvestigation.controller.ts`, `admin.controller.ts`, `disputeEscalation.job.ts`) | `Dispute`, submissions, findings, requests, evidence | open, submit, find, share, open and close input, finalize, resolve, escalate | settlement release, job loop | an open dispute stops the money; decided once, finally with both inputs closed; never reopened |
| Creator withdrawal (`creatorWithdrawalRequest.service.ts`, `withdrawalProvider*.service.ts`, `creatorWithdrawalFinalization*.service.ts`, `creatorWithdrawalReconciliation.service.ts`) | `CreatorWithdrawalRequest`, `InternalWithdrawalProviderRequest`, the reconciliation case, retry attempts | request, initialize and execute at the provider, finalize; inspect, retry, acknowledge, resolve, repair | wallet, ledger, destinations | one withdrawal under way per creator, paid once or given back once; retries do not overlap |
| Payout destinations | `PayoutDestination` versions | add, verify, activate, default | withdrawals read them | a withdrawal goes where its creator may be paid |
| Earlier withdrawals (`withdrawal.service.ts`, `withdrawalPayoutLifecycle.service.ts`) | `Withdrawal`, `Payout`, `CreatorBalance` | refresh, cancel, for records that exist | internal provider | finalized once |
| Wallet top-up (`walletTopUp*.service.ts`, `topUpAccountingOrchestrator.service.ts`, `internalTopUpFunding.service.ts`) | `WalletTopUpRequest`, its funding, ledger entry and projection, the reconciliation case | request, decide, fund, account; inspect, retry, finalize a failure, close, repair | provider, wallet, ledger | entered and credited once, only when paid; a case is closed on what it shows |
| Wallet conversion, FX (`walletConversion*.service.ts`, `fxRateSnapshot.service.ts`) | `WalletConversionRequest`, the provider's conversion, `ExchangeRateSnapshot`, findings | quote, request, decide, execute, account, inspect, retry, repair | both wallets, provider, ledger | both legs or none, once, never overdrawn; what is called healthy is over |
| Profile verification (`services/profile/profileVerification*.service.ts`) | the profile's status and version, requests, jobs with leases | submit, list, claim, infer, decide, escalate, fail, retry, expire, reconcile | inference, administrators, job loop | a status is what a decision granted; a claim is respected; no request is left behind |
| Account governance (`services/accountGovernance/*`, `cooldownEngine.service.ts`, `abuseScore.service.ts`) | `User`: governanceState, status, abuse score, two cooldowns | suspend, ban, activate, reset trust, apply and revoke cooldowns | bookings, chat, admin actions, the auth middleware | a ban stands, the status follows it, its bookings end |
| Admin actions (`services/adminActions/*`) | execution records by idempotency key, confirmation tokens, controls, throttles | preview, confirm, execute, replay | account governance | executed once per key |
| Control plane | feature flags and their cache | set, read through a cache | every flagged route | staleness bounded |
| Chat, reviews, applications, dashboards, authentication | their own documents | CRUD | | outside the money flows |

`PROJECT.json` lists all components with their source files and status.

### 1.3 What is hard

* **Accept against everything.** Accept reads outside and inside its transaction and reads the
  clock in the middle; reject and expire read before theirs; all write the same booking.
* **Two owners of a slot.** Bookings lock slots with a conditional update, while the slot routes of
  the creator write them without looking.
* **A provider between transactions.** A void or a refund is done before the termination commits,
  a capture before the payment records it; a crash forgets who was going on.
* **Two transactions for one release.** Allocation and settlement are separate, each with its own
  replay; the job and an admin may release at once, and a dispute is only read. The second one is refused
  while the creator's wallet is too full for the earning.
* **Finalization under retries.** A withdrawal is finalized by ordinary calls and by an administrator's
  retries at once, each with reads before, in and after its transaction, while the destination may be
  switched off; the case says IN_PROGRESS as long as a retry owes it a report.
* **Three writes for one top-up.** Entry, projection and completion commit one by one; retries may
  overlap because a stale inspection may open a case that was claimed.
* **Nothing reserved for a conversion.** Balance and rate are compared long before the transaction
  that needs them.
* **A queue without transactions.** Submission, request, job, verdict and completion are steps of
  different processes; leases end under their workers; the reconciliation repairs what it can see.
* **A dispute everyone saves.** Two administrators and the escalation job read one document and save
  it later; only the final decision and the resolution use transactions.
* **Read, then saved.** A user document is read and saved as a whole by the trust reset, the cooldowns
  and the first submission, while suspensions and bans use transactions.
* **Liveness through jobs.** Held money is given back or paid by jobs alone; whatever makes one of
  them throw for ever keeps the money.
* **Integers.** Rounded percentages must add up, and amounts that round to zero must be postable.

The `hazards` of `PROJECT.json` give each one at its line, with the properties that would catch it.

## 2. Modules

| module | models | state | proved in |
|---|---|---|---|
| `BookingFunds` | abstract: what a customer is promised about the price of a booking | place of the money, spendable balance | (refined) |
| `WalletBooking` | wallet-funded bookings, reservation, slots | 14 variables, see 3.1 | `WalletBooking_proofs` |
| `ProviderBooking` | provider-paid bookings | 12 variables, see 3.2 | `PaidBooking_proofs` |
| `Pricing` | the fee and commission functions | none (pure operators) | `EscrowSettlement_proofs` |
| `PriceList` | the prices asked for, one service amount after the other | the amount asked for | `EscrowSettlement_proofs` |
| `EscrowFlow` | abstract: what becomes of one completed booking's money | where each share is | (refined) |
| `EscrowSettlement` | allocation and settlement, disputes, job and admins; uses `Pricing` | see 3.4 | `EscrowSettlement_proofs` |
| `PayoutPromise` | abstract: what becomes of the amount of a withdrawal | the bank's answer, entries per account | (refined) |
| `CreatorWithdrawal` | withdrawals from request to outcome, and the case an administrator keeps of one | 10 variables, see 3.5 | `CreatorWithdrawal_proofs` |
| `TopUpPromise` | abstract: what becomes of a top-up | what was told, entries, credit | (refined) |
| `WalletTopUp` | top-ups from request to credit, and the case kept of one | 9 variables, see 3.6 | `WalletTopUp_proofs` |
| `ConversionPromise` | abstract: what becomes of a conversion's two legs | what was told, the wallets | (refined) |
| `WalletConversion` | conversions between the wallets of one user | see 3.7 | `WalletConversion_proofs` |
| `VerificationQueue` | submissions of one profile, requests, jobs, workers, reconciliation | see 3.8 | `Account_proofs` |
| `AccountGovernance` | one account, the dispatcher's actions on it, its bookings | 8 variables, see 3.9 | `Account_proofs` |
| `DisputeOutcome` | abstract: what the participants of a dispute may rely on | status, who may submit, who decided | (refined) |
| `DisputeCase` | the dispute of one booking | 4 variables, see 3.10 | `PaidBooking_proofs` |
| `FiniteSums` | sums over finite sets: what a wallet must hold | none (pure operators) | `FiniteSums_proofs` |
| `MC...` | the small instances for TLC | | |

A proof module holds the theorems of one component or of two that belong to the same thing: of a booking
paid through the provider its payment and its dispute (`PaidBooking_proofs`), of an account its profile's
queue and its governance (`Account_proofs`). In the latter two the second module has names of its own for
its specification, types, variables and calls (`CaseSpec`, `CaseTypeOK`, `caseVars`, `request`;
`GovernanceSpec`, `GovernanceTypes`, `governanceVars`, `dispatch`), so that both can be extended at once;
neither uses the other.

The modules meet where the code meets: `WalletBooking` and `ProviderBooking` end with a COMPLETED
booking whose total is in escrow; `EscrowSettlement` begins there, with the amounts of `Pricing`.
`CreatorWithdrawal` begins with the wallet that settlements filled, `WalletTopUp` and `WalletConversion`
share wallets with all of them: what the others do to a wallet is an action of its own there (`Spend`,
`Receive`). Of a dispute, `EscrowSettlement` knows that it is open, which `DisputeCase` opens and decides.
`AccountGovernance` ends bookings as `GOVERNANCE_TERMINATED` does in `WalletBooking`. They are
checked apart because they share no other document: after completion neither the booking's payment nor
its reservation is written again (`TerminalIsFinal`, `ClosedIsFinal`).

## 3. How the models correspond to the code

A handler's transaction that writes every document it decides upon is one action. Reads before the
transaction are a `Begin...` action that stores what was learnt, and the transaction is a
`Commit...` action that tests again exactly what the code tests again. `Fail...` is the aborted
transaction; its guard is the negation of the commit's. A conflict between write sets removes the
loser from the set of open transactions.

### 3.1 WalletBooking

| action | code |
|---|---|
| `BeginRequest`, `CommitRequest`, `FailRequest` | `requestBooking`: cleanup of the creator's lapsed requests, then one transaction that locks slots, creates booking and payment, authorizes the reservation |
| `BeginAccept`, `CommitAccept` | `decideBooking(ACCEPT)`: reads and the clock test, then the writes to booking and slots |
| `BeginTerminate`, `CommitTerminate`, `FailTerminate` | `terminateBookingFinancially`, with the guards of its six callers (reject, expire, customer, creator and admin cancel, governance) |
| `CompleteByCreator`, `CompleteAutomatically` | `completeBookingService`, `completeBookingAutomatically` |
| `EnableSlot`, `DisableSlot`, `DeleteSlot`, `CancelAvailability` | the creator's calendar routes; the first three do not read the slot's bookings and are enabled by `SlotEdits` |
| `Tick`, `Crash` | time; the process stops and forgets open transactions and handlers |

`wallet` is the projection document, `ledger` the account balances the entries add up to: two
separate pieces of state, changed by the separate operators `Project` and `Post`, so that their
agreement is a property and not a definition. Abstracted: the ledger's replay identities, references
and audit documents (one transaction writes them all or none), currencies (one per booking), the
notification and chat side effects. A booking identity stands for a `bookingRequestKey`: a repeated
request with the same key finds the booking and changes nothing.

### 3.2 ProviderBooking

`RequestBooking`, then the steps of `completePaymentLifecycle` (`CreatePaymentSession`,
`InitializePayment`, `AuthorizeAtProvider`, `CaptureAtProvider`, `RecordCapture`, `MarkPayable`,
`FundingEnds`), each one transaction of either side; the steps of a termination
(`BeginTerminate`, `ChooseAction`, `Void`, `AdvanceRefund`, `CommitTerminate`, `FailTerminate`);
accept, completion, lapse and crash. `funding` and `call` are the program counters of the handlers in
flight; `FundingFails` says what makes the lifecycle throw or find nothing to record, after which nobody
resumes it. The payable mark, the capture and the accept commit apart: a request that is captured and
accepted before the mark stays confirmed and unpayable for good, and `PayableFollowsCapture` says that
nothing but such an accept, or a crash, leaves a captured booking unmarked. The provider is code of this repository, so its guards are translated too. Left out: slots,
which no guard of this path reads (their exclusion is `WalletBooking`'s).

### 3.3 Pricing

`calculateBps` with its safe-integer guards, fee, commission, totals and the money limits. `MaxSafe`
stands for 2^53 - 1. `PriceList` asks for the price of one service amount after the other and compares each
with a reference definition (`IsExact`: the nearest whole number, halves up, and no refusal but by the
limits). `MCEscrowSettlement` does so before the bookings are made.

### 3.4 EscrowSettlement

Completion puts `Total` in escrow; `Allocate` splits it into commission, fee and the creator's payable;
`Settle` moves the payable to the creator's wallet. Each call (`call`, one per releasing actor) goes
through the two transactions with a crash possible between; a loser finds the winner and replays. The
job takes at most `Window` eligible bookings, oldest first (50 in the code). `OpenDispute` is allowed
within the dispute window after completion, `ResolveDispute` is the admin's. The read of the dispute
belongs to the beginning of a release and not to its commit, because the transaction does not write
the dispute.

`Settle` credits the wallet through `applyProjectionMutation`, whose filter holds the wallet below
`MAX_TRANSACTION_AMOUNT` (`MaxAmount`, the same constant the prices are limited by). `Fits` is that filter.
A snapshot in which the earning does not fit matches no document: `OpenSettle` ends the release
(PROJECTION_CONFLICT), the booking stays allocated, and the next release tries again. Where it fits,
the transaction writes the wallet, so that every other writer of it conflicts and starts over
(`Reopened`). `UseWallet` is the creator taking money out, by whatever route: it stands for the other
writers of the document, changes the balance within its minimum and makes open settlements start over.
The balance is all available here: what a withdrawal or a reservation of the creator's holds still counts
for the maximum, and makes room when it is taken out.

### 3.5 CreatorWithdrawal

| action | code |
|---|---|
| `RequestWithdrawal`, `CommitReservation` | `CreatorWithdrawalRequestService.request`: the checks, then one transaction that checks again, creates the request, posts available to reserved and changes the wallet |
| `InitializeProvider`, `CommitInitialization` | `WithdrawalProviderInitializationService` |
| `ExecuteProvider`, `CommitExecution` | `WithdrawalProviderExecutionService`, with either outcome |
| `Finalize`, `CheckFinalization`, `OpenFinalization`, `CommitFinalization`, `VerifyFinalization` | `CreatorWithdrawalFinalizationService.finalize`: status read, provider graph, transaction (its reads and its commit), `validateReplay` |
| `Inspect`, `Record` | the inspection, and the transaction that stores what it saw in the case |
| `Retry`, `Claim`, then the finalization, then `ObserveRetry`, `CompleteRetry` or `FailRetry` | `CreatorWithdrawalFinalizationRetryService.retry` |
| `Acknowledge`, `Resolve` | `updateStatus` |
| `SetPayable` | `setActivation` of the destination, or an administrator's decision on the creator |
| `Crash` | the process stops and forgets its calls |

A transaction is two steps, its snapshot and its commit. `CommitCall` applies MongoDB's rule to the
others that are open: a commit makes those start over that write one of its documents, the withdrawal
or (`reserve`, `settle`) the creator's wallet; of two such transactions the snapshot that loses is
taken again. The unique index on active obligations is not a guard of its own: that the wallet
document conflicts is enough for `OneObligation`. `money` holds what each withdrawal posted, `available`
and `reserved` the wallet, written by separate operators.

Abstracted: PENDING, CREATED and PROCESSING exist only inside one transaction each; identities,
fingerprints and audits of one transaction are written together and their validation is the predicate
`Healthy` or `Pending`; an inspection's snapshot of a withdrawal that waits for finalization depends
on nothing that changes while it waits, so that one bit stands for it. The finalization gives up after
five conflicts, or at another error of its transaction: no attempts are counted, `OpenFinalization` may
fail at each. The two repairs (missing links,
missing audit) start from documents no modelled step produces and are left out. `validateReplay` runs
once more inside the last inspection; that read is `ObserveRetry`.

### 3.6 WalletTopUp

| action | code |
|---|---|
| `RequestTopUp`, `Decide` | the request, and the administrator's decision on it |
| `CreateFunding`, `LinkFunding`, `Simulate` | `InternalTopUpFunding`: created, linked to the request, answered by the internal provider |
| `Account`, `AccountAgain`, `ReadOperation`, `PostEntry`, `Project`, `Complete` | `TopUpAccountingOrchestrator`: the checks, then ledger entry, wallet projection and completion, which commit one by one |
| `Inspect`, `Read`, `Record` | `WalletTopUpReconciliationService.inspect`: one document after another, then the case, written without a guard |
| `Retry`, `Claim`, then the accounting, `Resolve` or `Report` | `WalletTopUpRetryService` |
| `FinalizeFailure`, `CommitFailure` | the finalization of a provider failure |
| `BeginClosing`, `UpdateStatus` | acknowledging and resolving a case |
| `Spend` | any other use of the wallet (a booking's authorization) |
| `Crash` | a call is forgotten |

The funding steps have no caller in the model: each is guarded by what the one before left in the
database, so that a crash between two of them is the same as nobody going on. Crashes matter for the
accounting and for the calls that hold what they read. A retry or a closing that sees something else
than the case shows writes that down and ends (`Refused`). The entry is posted before the wallet's
maximum is tested, so a top-up of a full wallet stays posted until something is spent. Left out: repair
of missing links (no modelled step loses one), audits, database errors other than the wallet maximum
and conflicts. Retries may overlap, because a stale inspection stores OPEN over IN_PROGRESS; the test
`tests/financial/phase7h/walletTopUpReconciliation.test.ts:178` ("concurrent requests cannot bypass
durable attempt guard") exercises two retries and no inspection. `PromiseSpec` shows that overlapping
retries credit once all the same.

### 3.7 WalletConversion

`RequestConversion`, `Expire`, `Reject`, `InitializeProvider`, `Execute` (with either answer), `Complete`
(the accounting: debit, credit, opening of the target wallet, completion) and `FinalizeFailed` are one
guarded transaction each. `BeginApproval` and `CommitApproval` are the approval, whose comparison of
balance and rate precedes its transaction. `Inspect`, `ProveWallets`, `ProveLedger`, `Compare` and
`Record` are the reconciliation, which reads in that order and stores its finding over any newer one.
`Spend` and `Receive` are what else happens to the wallets (`Use` in `ConversionPromise`).

Left out: retry and repair, which apply only to findings no modelled transaction leads to, and the
refresh of rate snapshots. (Fetching an unchanged rate finds the old snapshot and does not renew its
`expiresAt`; a rate that goes back to an earlier value returns a snapshot that is SUPERSEDED.) The
answer a lost race of two accountings gives is not modelled: the second finds the request completed and
is refused, where `tests/financial/phase10i/walletConversionConcurrency.test.ts:15` allows it either
answer. A conversion that is approved or carried out and waits for its accounting is classified as
CORRUPTED_LEDGER or INTEGRITY_FAILURE by the inspection: `HealthyIsOver` claims something of HEALTHY only.

### 3.8 VerificationQueue

| action | code |
|---|---|
| `BeginSubmission`, `SaveSubmission`, `EnsureRequest`, `EnsureJob` | `upsertProfile`: the profile is read, saved as pending with a new version, then gets a request and a job |
| `ListQueue` | an administrator's list, which opens requests for pending profiles that have none |
| `AdminDecide` | `approveProfile`, `rejectProfile`: one transaction |
| `Claim`, `ReadRequest`, `Infer`, `StoreResult`, `ApplyDecision`, `ApplyReview`, `CompleteJob` | a worker: `claimNext`, the inference, its result stored, the verdict decided or escalated, the job completed |
| `RecordFailure`, `CheckFailed`, `EscalateFailed` | a throw in any of these: retry or failure, and the escalation that follows the last one |
| `ExpireRequest`, `ResetProfile`, `FailAbandoned` ... `CompleteListed`, `EndRound` | the reconciliation job, step by step |
| `PassDeadline`, `PassRetention`, `LeaseEnds` | time: the 30 minutes of a request, its retention, a lease |
| `CrashCall`, `CrashWorker`, `CrashKeeper` | a process stops; its claim stays until the lease ends |

One profile is enough: profiles meet only in the order in which `claimNext` takes jobs and in a round
of reconciliation that a throw cuts short. A read and the guarded update that follows it are one action
where the update repeats the guard. Retry delays are taken to be over. The binding of face sessions, the
mapping of a verdict to approve, reject or review, and the reasons of a review are abstracted: a verdict
is any of the three. Job completion of a request that is out of date is slightly over-approximated.

### 3.9 AccountGovernance

| action | code |
|---|---|
| `Preview` | the dry run, which returns a confirmation token for one key |
| `ClaimExecution`, `Answer`, `Finish` | `executeAdminActionService`: the record is created IN_PROGRESS, or the call ends before (a control, a throttle, the flag, an expired token, a record that is there); the record becomes EXECUTED |
| `Fail` | a guard that throws, a write conflict, a database error, a crash: the record stays IN_PROGRESS |
| `Suspend`, `Ban`, `Activate` | the three lifecycles, one transaction each |
| `Find`, `Terminate`, `LeaveAsItIs` | `orchestrateGovernanceBookingConsequences` after the commit: the bookings found, then one after the other ended, or left as it is and reported FAILED (the termination threw) or FINANCIAL_LOCKED |
| `ReadForReset`, `ReadForRevoke`, `CheckCooldown`, `ReadForApply`, `Save` | trust reset and creator cooldown: the user is read, then saved |
| `applyAbuseScore`, `applyCooldownIfNeeded`, `ReadAutomatic`, `SaveAutomatic` | a message the moderation objects to |
| `ReadForSubmission`, `SaveSubmittedUser` | the end of `upsertProfile`, which makes a new account active |
| `Ask`, `Request`, `StartAccept`, `Accept`, `End` | the account's bookings: the test before a transaction, and the transaction |
| `Expire` | a cooldown is over |

A key is the action with what else enters its hash (administrator, reason, parameters: `Reasons`). A
save writes the fields that were changed since the read and no others, as mongoose does (`Changes`, `Saved`).
`dispatch` holds the dispatcher's calls. A cooldown
that is over is none. Scores count in steps of 20, the thresholds of `cooldownEngine.service.ts`; negative
deltas are left out, no caller uses them. The two kinds of cooldown do not touch each other: the run has
the creator's, the only one that administrators and the chat both apply. Of the outcomes of
`classifyGovernanceBooking`, PROTECTED and NO_ACTION are decided by `Terminable`. Whether a terminable booking is ended depends on
documents of other modules (its slots, its payment, the provider), each of which can fail it: `Terminate` and
`LeaveAsItIs` are therefore a choice. The second stands for a termination that throws, which the loop
catches and reports FAILED (slots disabled or deleted, a void refused after a capture, a write conflict, a booking
that ended meanwhile, the database), and for FINANCIAL_LOCKED (a slot is gone, or payment and reservation are not
those of a wallet booking that can be released). DISPUTE_LOCKED does not occur, as disputes are about completed
bookings. PENDING_SUSPENSION and PENDING_BAN are never set. The copy of the cooldown in the creator profile, audits and logs are left out.
`unswept` is auxiliary: it collects the bookings that `SweepsFindAll` has to excuse, those requested after the
last look, those a sweep was stopped before, and those `LeaveAsItIs` left open.

### 3.10 DisputeCase

| action | code |
|---|---|
| `WindowMoves` | the booking ends; 24 hours after a completion disputes are refused |
| `BeginOpen`, `CreateDispute` | `openDispute`: eligibility and absence are read, then the document is created; `bookingId` is unique |
| `BeginItem`, `AddItem` | submission of a participant, upload of evidence, and an administrator's finding, request or sharing: the dispute is read and its guards tested (`MayAdd`), then another document is written |
| `BeginSetInput`, `SaveInput` | `setAdminDisputeInputAccess` |
| `BeginDecision`, `ReadDecision`, `SaveDecision`, `CommitDecision`, `AbortDecision` | `finalizeAdminDispute` (`how` = finalize) and `resolveDispute` (`how` = resolve): snapshot and guards, the save in the transaction, its commit or abort |
| `BeginEscalation`, `SaveEscalation` | `disputeEscalationJob`: all open disputes are read at once, each is saved in its turn |
| `Lost` | a request fails or the server stops |

`dispute` is the document, `file` the items recorded about it: which kinds exist by whom, as nothing
depends on how many. A transaction whose dispute was written after its snapshot finds a conflict when it
saves (`Written`; `request` holds the requests in flight); `withTransaction` then begins again,
`resolveDispute` aborts. Saves without a
transaction are not refused by a transaction that holds the document; they wait for it (`Held`). Mongoose
writes the paths that changed, so that a late save of an input or a level leaves the status alone. There
is one job loop, hence one escalation at a time, and time only raises the level that is due.

Left out: stored files, audit records, signals, the outcomes and summaries of a decision, and
`resolveDispute` with an action other than NO_ACTION, which it refuses. Appeals and the lock of a dispute
by a decided appeal cannot occur: `routes/v1/appeal.routes.ts` is not mounted.

## 4. Model checking

### 4.1 Runs that pass

| run | instance | distinct states | asks |
|---|---|---|---|
| `wallet` (`MCWalletBooking.cfg`) | 2 bookings of 2 customers for one slot, 2 termination calls in flight, 1 crash, 5 ticks | 44,264 | documents and slots agree and terminal is final while the slot routes that ignore a slot's status are not used; under the job loop every hold ends |
| `wallet_edits` (`MCWalletBookingEdits.cfg`) | 2 bookings of one customer who can pay one at a time, one slot shared, all slot edits | 79,618 | every balance is explained by the reservations (`BalancesAreExplained`), and what else survives when slots are edited under bookings; refinement of `BookingFunds` |
| `provider` (`MCProviderBooking.cfg`) | 1 booking, 2 termination calls, 2 crashes | 49,841 | escrow, payment, provider agree through every race (`MoneyAgrees`); only captured money is payable (`PayableFollowsCapture`); every request ends |
| `escrow` (`MCEscrowSettlement.cfg`) | 2 bookings of one creator whose wallet has room for one of them until 320 is used, job and admin, 1 crash, job window 1; before them the price of every service amount from 1 to 3000 | 136,669 | rounding and limits against reference definitions; ledger follows records, wallet and uses are a sum and within the maximum, job respects disputes, refinement of `EscrowFlow`, held money is paid |
| `withdrawal` (`MCCreatorWithdrawal.cfg`) | 2 withdrawals of one creator, of 1 and 2 out of 2; 2 calls at once, 2 retries, one withdrawal under review, 1 crash | 140,180 | one obligation, wallet and ledger agree, retries are serial, are never walked away from (`RetriesStayOwned`) and report, refinement of `PayoutPromise` |
| `topup` (`MCWalletTopUp.cfg`) | 1 top-up of 1 for a wallet that is full at 1; 2 calls at once, 2 retries | 1,109,576 | a case is closed on what it shows; refinement of `TopUpPromise` |
| `conversion` (`MCWalletConversion.cfg`) | 2 opposite conversions of 1 and 2 between two wallets, one not opened yet; 2 calls at once, one conversion under review | 338,538 | HEALTHY means over; refinement of `ConversionPromise`, by which no wallet is overdrawn |
| `queue` (`MCVerificationQueue.cfg`) | 1 submission, 2 workers, 2 attempts, an administrator, 1 crash | 221,448 | no completed job leaves its request unanswered; no worker takes another's claim |
| `queue_deadline` (`MCVerificationDeadline.cfg`) | 2 submissions, 2 requests, 1 worker, 1 attempt, 1 crash, fair job loop | 491,305 | a status is granted by a decision; no request of the pending version stays in process for ever |
| `governance` (`MCAccountGovernance.cfg`) | one settled account, 2 dispatcher calls, 2 recorded actions, 2 bookings (one as creator and far ahead, one as customer and near), score to 2 | 2,852,814 | one run per key; status follows governance; a recorded ban stands; sweeps find all they can; cooldowns are shortened only unseen |
| `dispute` (`MCDisputeCase.cfg`) | 1 dispute, 2 participants, 2 administrators with one request each at a time, the escalation job, 2 kinds of items | 930,969 | refinement of `DisputeOutcome`; a decided dispute comes to rest |

### 4.2 Bounds, and why they are enough

* Bookings interact only through a slot, a customer's wallet or a creator's wallet. `wallet` has two
  customers in conflict for a slot, `wallet_edits` one customer in conflict for money and a slot.
  What three bookings could add is covered by the theorems, which hold for any number.
* Calls on one booking interact only through that booking: two terminations in flight, an accept and
  a completion are every pair that can race. `MaxHandlers` bounds the first.
* The clock runs long enough to request, lapse, start, end and complete a slot, in any order the
  durations permit; durations are scaled so that each of `<`, `=`, `>` at each deadline occurs.
* One or two crashes: recovery keeps no memory of a crash, so a second differs from a first only by
  the documents it finds.
* In `escrow`, the earnings 960 and 1360 do not fit together under the maximum of 2000; 320 taken
  out makes exactly enough room (2000 is reached), whichever was paid first. The job takes one booking in a
  pass (50 in the code), so that one blocked booking crowds out a younger one: `HeldMoneyIsPaid` names
  that exception (`Crowded`) and is checked while it happens.
* In `withdrawal`, two calls give every pair of operations that can race on a withdrawal and on a
  wallet. Balance 2 with amounts 1 and 2 admits either withdrawal first and, after a paid one, refuses
  what is no longer there. Two retries give a first one, a last one and the limit; one withdrawal
  under review is enough as cases are not related, and the other may be requested at any time.
* In `topup`, one top-up of a full wallet meets the maximum and, once something is spent, room again;
  two calls are every pair of accounting, inspection, retry and closing, two retries reach the limit.
* In `conversion`, two opposite conversions share both wallets, so that each can take from the other
  what its approval saw; `MaxBalance` 2 is reached from both sides.
* In `queue`, two workers and two attempts give a claim that is lost, taken over and completed by either
  worker. `queue_deadline` has a second submission while requests and jobs of the first are alive, and
  one worker, because the deadline is about what happens when no worker helps.
* In `governance`, two calls are every pair of the six actions, two records a ban with any other
  action. One booking in which the account is the creator and one in which it is the customer, one
  near and one far, give each branch of the sweep; `Agreed` gives one that was confirmed before.
* In `dispute`, two administrators give every pair of finalization, resolution and input change. The two
  kinds of items are the one a participant adds while the input is open and the one an administrator adds
  until the decision; the other kinds have the same guards or fewer, and the proofs have all of them.
* TLC's integers have 32 bits, so `MaxSafe` and the limits of `Pricing` are scaled down; the proof
  covers the real ones.

Deadlock checking is off where the system may stop: all bookings ended and the bounded clock at its
bound.

### 4.3 Fairness

Only what the code schedules: the clock advances; the job loop comes back every minute and, for each
booking it should act on, acts (weak fairness of the expiry, of automatic completion, of the job's
release); a handler that has begun proceeds to its end or is forgotten by a crash, and crashes are
finitely many. In `withdrawal` a call that has begun proceeds; nobody has to begin one, so nothing is
claimed of a withdrawal nobody executes or finalizes. In `queue_deadline` the reconciliation comes back with the
job loop, and the 30 minutes of a request pass; workers owe nothing, and the end of the retention is
not assumed. `dispute` needs no fairness: that a decided dispute comes to rest is true because only requests
that had read it before can still write it. No fairness for customers, creators and administrators:
they owe nothing. In `escrow` nobody has to resolve a dispute or to make room in a wallet: `HeldMoneyIsPaid`
says that a booking cannot be withheld from some point on without being blocked (by its dispute, its
price or the wallet) or crowded out. One fairness
assumption is stronger than the loop: a booking whose termination throws also stops the rest of the
round, so fairness per job and booking presumes that no *other* booking throws for ever.
Such a booking can exist (section 6).

### 4.4 Mutants

Each property has a mutant of the definition a plausible bug would change, next to the definition it
replaces (`\* Mutant: ...`): dropped guards, swapped orders, a forgotten reversal. TLC finds the property
violated under each.

## 5. Proofs

All theorems hold for every value of the constants: any number of bookings, customers, slots,
concurrent calls, any prices and deadlines within the named assumptions of the modules.

| module | theorem | establishes |
|---|---|---|
| `WalletBooking_proofs` | `TypeCorrect` | `TypeOK` |
| | `FundsAgree`, `OpenAcceptsAreCurrent` | `FundsFollowBooking`, `OpenAcceptIsCurrent` |
| | `EndIsEnd` | `TerminalIsFinal` |
| | `MoneyIsConserved` | `MoneyConserved` |
| | `BalancesAreExact` | `BalancesAreExplained`: each of the three balances is what the reservations say |
| | `ReservedIsExact` | `ReservedIsSumOfActive`, its part about reserved money |
| | `ReservationsAreCovered` | every live booking can be released or captured: its price is still reserved |
| | `FundsRefinement` | `WalletBooking` implements `BookingFunds` |
| | `SlotsAreExclusive` | `SlotsExclusive`, when no unguarded slot route is used |
| | `TerminationsSucceed` | the safety half of `EveryHoldEnds`, under the same hypothesis |
| `EscrowSettlement_proofs` | `EscrowTypes`, `LedgerAgrees`, `JobLeavesDisputes`, `FlowRefinement` | `TypeOK`, `LedgerFollowsRecords`, `JobRespectsDisputes`, `EscrowFlow` implemented |
| | `WalletIsExact` | `WalletIsSumOfSettled` |
| | `PriceIsSplit`, `LimitsDecide`, `TenIsTheSmallest` | the price amounts add up, what the limits decide, the smallest price with a platform fee |
| | `RoundsToNearest`, `PricesExact` | `calculateBps` rounds to the nearest unit at every rate; `PricesAreExact` for every service amount |
| | `ReleasesAlwaysSucceed` | the safety half of `HeldMoneyIsPaid`: only a full wallet or a crash ends a release of what can be paid out |
| `CreatorWithdrawal_proofs` | `WithdrawalTypes`, `WithdrawalsAreSingle`, `RetriesFollowOneAnother`, `PromiseRefinement` | `TypeOK` (balances are never negative), `OneObligation`, `RetriesAreSerial`, `PayoutPromise` implemented |
| | `WalletsFollowLedger` | `WalletFollowsLedger` |
| | `RetriesReport` | `RetriesStayOwned`, the safety half of `RetryReports` |
| | `ReservationsAreExact` | the reserved part of a wallet is the withdrawal under way, 0 without one |
| `WalletTopUp_proofs` | `TopUpTypes`, `CasesCloseOnWhatTheyShow`, `PromiseRefinement` | `TypeOK`, `ClosedOnWhatItShows`, `TopUpPromise` implemented |
| `WalletConversion_proofs` | `ConversionTypes`, `HealthyConversionsAreOver`, `PromiseRefinement` | `TypeOK` (no wallet is overdrawn or above its maximum), `HealthyIsOver`, `ConversionPromise` implemented |
| `PaidBooking_proofs` | `ProviderTypes` | `TypeOK` of `ProviderBooking` |
| | `MoneyAlwaysAgrees`, `TerminationCloses` | `MoneyAgrees` (from `EscrowFollows` and `ProviderAgrees`), `TerminatedClosesPayment` |
| | `MarksFollowCapture` | `PayableFollowsCapture` |
| | `ClosedStaysClosed` | `ClosedIsFinal` |
| | `TerminationsProceed` | the safety half of `RequestEnds` |
| | `CaseTypes`, `DecidedOnce`, `OutcomeRefinement` | `CaseTypeOK`; the status tells which decision a dispute carries (`OneDecision`); `DisputeOutcome` implemented |
| | `RestIsApproached` | the safety half of `DecidedComesToRest` |
| `Account_proofs` | `TypeCorrect`, `NothingUngranted`, `NothingReopened` | `TypeOK` of `VerificationQueue`; `StatusIsGranted`; an answered request is never active again |
| | `ClaimsAreRespected`, `NobodyLeftBehind` | `ClaimIsRespected`; `CompletedIsAnswered`, when only one submission is under way at a time (`OneSubmitter`) |
| | `LateGoesToReview` | the safety half of `EveryRequestIsAnswered`, under the same hypothesis |
| | `GovernanceTyped`, `ClaimsExclude` | `GovernanceTypes`; `ClaimsAreExclusive` |
| | `BansAreKept`, `BansAreFinal` | `RecordedBanStands`; no step leads out of BANNED |
| | `SweepsAreComplete`, `ShortenedOnlyUnseen` | `SweepsFindAll`; `ShortenedUnseen` |
| | `StatusFollows` | `StatusFollowsGovernance`, when the account is active from the start |
| `FiniteSums_proofs` | lemmas `SumWith`, `SumWithout`, `SumSame`, `SumChange`, `SumCovers` | how a sum changes with its set and its summands, used by the three theorems about wallets |

Arguments:

* **WalletBooking.** `FundsFollowBooking` is not inductive by itself: an accept transaction that is
  still open could confirm a booking that was terminated after its reads. The strengthening is
  `OpenAcceptIsCurrent`: whatever changes a booking or its slots aborts the open accept. With both,
  each action needs only the guards of its own commit. Conservation is by cases on `Post` and
  `Project`: each moves one amount between two accounts, and both by the same amount. The
  refinement maps `reservation` to the place of the money; the only steps that change it are
  `CommitRequest`, `CommitTerminate` and the completions. `ReservationsAreCovered` combines all of it:
  an active reservation is one summand of what is reserved and prices are not negative, so the conditional
  `$inc` of a release or capture always matches.
* **Sums.** A wallet is one document, incremented; what it ought to hold is a sum over other documents.
  `BalancesAreExact`, `WalletIsExact` and `WalletsFollowLedger` say that the two are equal, in every reachable
  state. `FiniteSums` defines the sum by recursion over the subsets of its domain; that this recursion has a
  solution, and that the sum does not depend on which element it takes first, is proved from a smallest set
  for which it would fail (well-foundedness of strict inclusion among finite sets). With that each commit
  changes one summand, or moves one booking in or out of the summed set, by what it adds to the wallet. That
  the set of bookings is finite (`DomainAssumption`) is an assumption of the modules: a database holds
  finitely many documents. The addition is never made twice because the preceding agreement (`Agreement`,
  `Consistent`, the types of the withdrawals) says the document was not in the sum before.
* **ProviderBooking.** The strengthening relates the program counters with the records: what a
  handler is about to record was done at the provider and a refund in flight presupposes a capture.
  `PayableFollowsCapture` needs `PaymentProgress` (how far the Payment is at each step of the lifecycle) and
  what is consistent after the step: a termination closes the Payment of the booking it ends, so that the
  Payment of a live booking keeps its capture.
* **EscrowSettlement.** The strengthening `CallsKnow` says what each call in flight may rely on: a call
  that is settling is about an allocated booking. `JobRespectsDisputes` needs `JobWaits`: while the
  job holds a booking, its dispute window is over, because `DisputeWindow < Hold` (an assumption
  of the module, as in the code: 24 and 72 hours). The bound in `WalletIsSumOfSettled` needs nothing but the
  filter of the credit; that an open settlement can still be credited needs `RoomIsKept`: the wallet it
  found room in has not been written since, as every write makes it start over.
* **Pricing.** `RoundsToNearest` is `floor((x + 5000) / 10000)` against the exact quotient, at every rate. The
  rest is about the code's rates and limits (`CodeConstants`: 5% and 20%, smallest amount 1, and a largest
  amount far enough below `MaxSafe`, which holds of the real limits and of the run's smaller ones).
* **CreatorWithdrawal.** `Knows` says what a call may rely on between its snapshot and its commit; every
  commit either leaves it true of the others or, by `Conflicts`, makes them start over (one lemma for all
  commits). `BooksAgree` gives each withdrawal's entries from its status. `ReservedIsUnderWay` is what
  makes the wallet's reserved part sufficient at each finalization, hence natural; it rests on
  `OneObligation`. Retries are serial because only `Claim` leaves OPEN or RETRY_SCHEDULED for
  IN_PROGRESS, with a new number, and only the report of that number, or nothing, ends it.
  `RetriesStayOwned` is proved per step of a retry (`RetryStep`); its last inspection passes because what it
  looks at, a finalized withdrawal, stays as it is (`FinalStays`, `ObservedIsFinal`, `ObservedStays`).
* **WalletTopUp.** `BooksAgree` says which of entry, projection and completion are there, each only after
  the one before and only for a funding that was paid; `CallsKnow` what a call may rely on between two of
  them: that the earlier ones are there, never that the later ones are not. Double credit is excluded
  because the projection is keyed by the entry, and not because retries were serial: they are not.
  `CasesSound` relates what a case shows to what the records said when it was read; records only advance,
  so what was healthy stays so.
* **WalletConversion.** `LegsFollow` gives the two legs from the request's status, `ProviderFollows` the
  provider's record; `FindingsSound` carries what an inspection has read so far, which later steps of the
  conversion cannot undo. The type theorem is the deep one: balance and room were compared outside the
  transaction, and only its conditional updates keep both wallets in range.
* **VerificationQueue.** The type invariant is kept in parts, one per table, so that an action only
  meets those it writes; `StatusIsGranted` is inductive beside them, as a status is written in the transaction
  that decides a request, and what is decided is not reopened. It does not say that the request is of the
  profile's version (section 6). `NobodyLeftBehind` needs in addition that versions are ordered: the versions of known
  requests are at most the profile's, and a submission that is about to save has a newer one.
* **DisputeCase.** `Holds` says what a transaction may rely on: the guards it tested on its snapshot still
  hold while it is deciding or has saved, and only one has saved, because every write of the dispute
  turns the open snapshots into conflicts and no other write happens while one is committing. Hence
  a commit finds the dispute open and, if it finalizes, both inputs closed; the late saves leave the status alone.
* **AccountGovernance.** The inductive invariant `Governance` (checked by TLC before it was proved) adds to the
  checked properties what the calls carry: past its start, the call of a ban has banned the account
  (`BansStand`), which is why a record that says EXECUTED can be believed; a cooldown about to be saved outlasts
  the one its call saw (`SavesOutlast`, `AbuseOutlasts`); a key stays with its call (`KeysAreKnown`). All of it
  rests on one fact about the saves (`SaveEffect`): they write only fields that were read and changed, never
  `governanceState`, so that suspension, ban and activation alone move it, each with a guard tested in its
  transaction. For `StatusFollows` the addition is that no call holds a status to save (`StatusIsProjected`): a
  trust reset works its status out from the account it read, and for an account whose status followed then
  there is nothing to change. That fails for an account that is not active yet, which is the hypothesis, and
  what section 6 shows.

* **Safety halves of the liveness properties.** A liveness property fails in one of two ways: the step that would
  help cannot be taken or does not help, or it is never taken. The first is a matter of safety, holds without
  fairness, and is proved for each of them:
  `TerminationsSucceed`: in every state, the slots, documents and funds of a held booking are such that its
  termination commits. It is the conjunction of `Agreement`, `SlotsExclusive` and `ReservationsAreCovered`.
  `ReleasesAlwaysSucceed`: what can be paid out stays so until it is paid, because the hold outlasts the
  dispute window, and a release of it ends with it paid, or has found the creator's wallet full, or is cut
  short by a crash; one that found room is not held up by the wallet any more (`RoomIsKept`).
  `TerminationsProceed`: the provider never refuses the refund of a termination; where it refuses a void, the
  next attempt does not ask for one, as the payment it sees is captured; what no longer matches at the commit is over.
  `RetriesReport`: the call of a retry leaves it only with the case's report, with the named exceptions.
  `RestIsApproached`: of a decided dispute, the set of requests with a write to make only shrinks, and every
  write takes its writer out, so that there are as many writes left as there were requests in flight, at most.
  `LateGoesToReview`: a round that looks for late requests finds the one the user waits for, which no completed
  job hides (`CompletedIsAnswered`), and the escalation of it is not refused, since it is the only active one
  (`Alone`): a request is opened only where none is active.
  What remains to TLC is the second half, that fair schedules take these steps.

Only model-checked: that the liveness properties (`EveryHoldEnds`, `RequestEnds`, `HeldMoneyIsPaid`,
`EveryRequestIsAnswered`, `DecidedComesToRest`, `RetryReports`) follow from fairness, because fairness and what
it enables are out of this prover's reach, and the absence of deadlock in `escrow`. Every other property of the
passing runs is a theorem, `CompletedIsAnswered`, `SlotsExclusive` and `StatusFollowsGovernance` under the
hypothesis the table names. None can be dropped: section 6 says what breaks
`SlotsExclusive` and `StatusFollowsGovernance` without theirs, and two submissions of one user at a time can save
the same version twice, the second after the first was decided and the job of a later request was completed,
which leaves that request pending (TLC finds it in `VerificationQueue` with two `Submitters`).

## 6. Where the code disagrees with its words

`governance_status` (`MCGovernanceStatus.cfg`) is a run TLC must find violated. An account that is not active
yet submits its profile while an administrator suspends it: the submission read the account before the
suspension and saves the status it worked out, `active`, after it. The governance state says SUSPENDED or
BANNED, the status says active, and the middleware that answers requests looks at the status alone. A
repeated ban finds the account banned and heals nothing. The trust reset of an account that is not active
yet races in the same way. For an account that is active already (run `governance`) the status follows.

Further limits of what the properties claim, each reachable in the model named:

* `WalletBooking`: the transaction of a rejection or expiry matches an accepted booking too
  (`booking.repository.ts:40`), so that an accept that commits between their reads and their transaction is
  overwritten, although `bookingFinancialTermination.service.ts:106` says "Only a requested booking can be
  rejected.". `TerminalIsFinal` claims nothing of it: the accepted booking was not over.
* `WalletBooking`: disabling a slot of an open request makes its release fail in every round, the request
  outlives its deadline; `enableSlot` makes any slot available, booked ones included, and a second booking
  of it is then admitted and confirmed. `EveryHoldEnds` and `SlotsExclusive` are checked while these routes
  are not used; `wallet_edits` uses them and shows that the money still follows the bookings.
* `ProviderBooking`: a termination cancels a Payment the provider then captures, so that the customer is
  charged for a cancelled booking; a completion may commit between the provider's refund and the transaction of
  the termination, so that money is returned and earned.
* `EscrowSettlement`: the platform fee of a price below 10 minor units rounds to 0, the ledger refuses a
  zero credit, and the escrow is never released; an early release that read no dispute commits after one
  was opened. A settlement that would lift the creator's wallet above `MAX_TRANSACTION_AMOUNT` is refused after
  its allocation committed: the earning stays payable, and every round tries again, until the creator has
  taken enough out. 50 bookings that are blocked in one of these ways fill the job's list, and no younger
  booking is paid by the job as long as they are (`Crowded`).
* `CreatorWithdrawal`: a retry whose server stops after the claim, or whose destination is switched off
  between its finalization and its last inspection, leaves the case IN_PROGRESS, a status no retry and no
  update leaves. `RetryReports` names both as its exceptions.
* `VerificationQueue`: a late `EnsureRequest` opens a request for a profile that was approved meanwhile, and
  a worker may then reject it, where `tests/profile/profileVerificationRequest.runtime.test.ts:161` says
  "admin approval is terminal, replay-safe, and cannot be overwritten by future AI" (of the request that was
  approved, this holds: `NothingReopened`). A crash after the save leaves a pending profile without a
  request, which only an administrator's list repairs. A submission may adopt the active request of an
  earlier version, and the decision on it is then recorded there. An expiry that stops between its two writes
  leaves a pending profile whose request is over; a submission between them is reset.
* `DisputeCase`: an input that an administrator was changing may be opened, and a finding or a submission may
  be added, after the decision, although `adminDispute.controller.ts:103` says "Participant input can only
  change while a dispute is OPEN". `DecidedComesToRest` shows that this ends, `OutcomeSpec` that it decides
  nothing. The audit records of both decisions are written outside their transactions, which is not
  modelled: one may tell of a decision that was rolled back.
* `AccountGovernance`: an action that throws or is cut short leaves its record IN_PROGRESS, and the same
  action with the same reason is answered from the record for ever. A booking whose termination throws, or whose
  slot was deleted, is reported FAILED or FINANCIAL_LOCKED and left open while the action is recorded EXECUTED; a
  repetition is answered from the record, and only one with another reason sweeps again. A sweep that saw a booking as requested
  ends it although it was accepted meanwhile. At an accept the creator is tested, not the customer. What
  a trust reset saves are the fields it saw a reason to change.

## 7. Not modelled, and what could follow

Not modelled because nothing interleaves or it is I/O: inference adapters, file storage, dashboards,
DTOs, routing, scripts. Not modelled because nothing reaches it: appeals, whose routes are not mounted;
the retry and repair of a settlement, which no route or job calls. Not modelled because no state calls
for it: the repairs of missing links in withdrawals, top-ups and conversions, which administrators can
call, but which act only on documents (a completed request without its ledger link) that the modelled
transactions never leave behind. Not modelled although it could be:

* the earlier withdrawals (`withdrawal.service.ts`) with the provider's payouts, which only serve records
  made before `CreatorWithdrawal`'s;
* payout destinations as records of their own, instead of the one bit `CreatorWithdrawal` reads;
* `FeatureFlagCache`, and the job loop as a whole: eight jobs in sequence under one `try`. Section 4.3 says
  what the fairness of the jobs presumes instead.

Proofs that could follow: `StatusFollowsGovernance` for the saves that section 6 excepts, once the submission
writes the status in a transaction that reads the governance state; and `CompletedIsAnswered` without
`OneSubmitter`, once a version can be saved only once.
