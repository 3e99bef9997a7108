-------------------------- MODULE EscrowSettlement --------------------------
(***************************************************************************)
(* From the completion of a wallet-funded booking to the creator's wallet: *)
(* the captured price waits in escrow for a hold period, is allocated in   *)
(* one transaction and settled in another.  The scheduled job and early    *)
(* releases by administrators call the same two stages and may overlap;    *)
(* participants may open a dispute meanwhile; a crash falls anywhere.  The *)
(* creator's wallet has a maximum, which a settlement may not exceed, and  *)
(* the creator uses the money in it elsewhere.                             *)
(*                                                                         *)
(* A transaction is two steps: it takes its snapshot (Open...) and commits *)
(* (Commit...).  It is retried from a new snapshot when another one has    *)
(* written a document it writes; a document it only READ may have changed. *)
(*                                                                         *)
(* Booking.isFinancialLocked is FALSE here: no code in src sets it.        *)
(***************************************************************************)
EXTENDS Pricing, FiniteSets, FiniteSums

CONSTANTS
    Bookings, Creators, CreatorOf,
    Service,                 \* service amount of each booking
    Job, Admins,             \* who calls release: the job, and admin requests
    Window,                  \* bookings the job takes in one pass (50 in the code)
    DisputeWindow, Hold,     \* 24h and 72h after completion, in clock units
    Uses,                    \* amounts a creator takes out of the wallet at once
    MaxCrashes               \* bound, for model checking only

ASSUME DomainAssumption ==
    /\ IsFiniteSet(Bookings)
    /\ CreatorOf \in [Bookings -> Creators]
    /\ Service \in [Bookings -> Nat]
    /\ \A b \in Bookings : Priceable(Service[b])
    /\ Job \notin Admins
    /\ Window \in Nat \ {0} /\ MaxCrashes \in Nat
    /\ Uses \subseteq Nat \ {0}
    /\ DisputeWindow \in Nat /\ Hold \in Nat /\ DisputeWindow < Hold

Callers == Admins \cup {Job}

VARIABLES
    rank,         \* order of completion; 0: not COMPLETED yet
    age,          \* time since completion, up to Hold
    dispute,      \* Dispute.status; "CLOSED" is RESOLVED or REJECTED
    allocation,   \* BookingEscrowAllocation.status
    settlement,   \* BookingCreatorSettlement.status
    money,        \* ledger balance of each account, per booking
    wallet,       \* the creators' Wallet.availableBalance, here all of currentBalance
    spent,        \* what each creator took out of the wallet, in all
    due,          \* bookings the job's current pass has still to take
    call,         \* where each caller's release stands
    crashes

vars == <<rank, age, dispute, allocation, settlement, money, wallet, spent, due, call, crashes>>

Accounts == {"escrow", "commission", "fee", "payable", "wallet"}
Idle == [step |-> "idle"]
CallState == {Idle} \cup
    [step : {"allocate", "allocating", "settle", "settling"}, booking : Bookings]

TypeOK ==
    /\ rank \in [Bookings -> Nat]
    /\ age \in [Bookings -> 0..Hold]
    /\ dispute \in [Bookings -> {"NONE", "OPEN", "CLOSED"}]
    /\ allocation \in [Bookings -> {"NONE", "ALLOCATED"}]
    /\ settlement \in [Bookings -> {"NONE", "SETTLED"}]
    /\ money \in [Bookings -> [Accounts -> Int]]
    /\ wallet \in [Creators -> Nat]
    /\ spent \in [Creators -> Nat]
    /\ due \subseteq Bookings
    /\ call \in [Callers -> CallState]
    /\ crashes \in Nat

Init ==
    /\ rank = [b \in Bookings |-> 0]
    /\ age = [b \in Bookings |-> 0]
    /\ dispute = [b \in Bookings |-> "NONE"]
    /\ allocation = [b \in Bookings |-> "NONE"]
    /\ settlement = [b \in Bookings |-> "NONE"]
    /\ money = [b \in Bookings |-> [a \in Accounts |-> 0]]
    /\ wallet = [c \in Creators |-> 0]
    /\ spent = [c \in Creators |-> 0]
    /\ due = {}
    /\ call = [c \in Callers |-> Idle]
    /\ crashes = 0

Completed(b) == rank[b] > 0
Earning(b) == CreatorAmount(Service[b])

\* Ledger entries of one transaction: a signed change per account.
Post(b, change) ==
    money' = [money EXCEPT ![b] = [a \in Accounts |-> @[a] + change[a]]]

NoChange == [a \in Accounts |-> 0]

-----------------------------------------------------------------------------
(* Completion, time and disputes *)

\* completeBookingService captures the reservation into escrow (WalletBooking
\* models how it gets there) and stamps completedAt.
Complete(b) ==
    /\ ~Completed(b)
    /\ rank' = [rank EXCEPT ![b] = 1 + Cardinality({d \in Bookings : Completed(d)})]
    /\ Post(b, [NoChange EXCEPT !["escrow"] = Total(Service[b])])
    /\ UNCHANGED <<age, dispute, allocation, settlement, wallet, spent, due, call, crashes>>

Tick ==
    /\ \E b \in Bookings : Completed(b) /\ age[b] < Hold
    /\ age' = [b \in Bookings |-> IF Completed(b) /\ age[b] < Hold THEN age[b] + 1 ELSE age[b]]
    /\ UNCHANGED <<rank, dispute, allocation, settlement, money, wallet, spent, due, call, crashes>>

\* Mutant: the dispute window is not compared with the clock.
MayDisputeAnytime(b) == Completed(b)

\* disputeIneligibility of a completed booking.
MayDispute(b) == Completed(b) /\ age[b] <= DisputeWindow

\* One dispute per booking, ever: bookingId is unique.
OpenDispute(b) ==
    /\ MayDispute(b)
    /\ dispute[b] = "NONE"
    /\ dispute' = [dispute EXCEPT ![b] = "OPEN"]
    /\ UNCHANGED <<rank, age, allocation, settlement, money, wallet, spent, due, call, crashes>>

\* finalizeAdminDispute or resolveDispute(NO_ACTION): neither moves money.
ResolveDispute(b) ==
    /\ dispute[b] = "OPEN"
    /\ dispute' = [dispute EXCEPT ![b] = "CLOSED"]
    /\ UNCHANGED <<rank, age, allocation, settlement, money, wallet, spent, due, call, crashes>>

-----------------------------------------------------------------------------
(* Who releases *)

Goto(c, step) == call' = [call EXCEPT ![c].step = step]
Begin(c, b) == call' = [call EXCEPT ![c] = [step |-> "allocate", booking |-> b]]
End(c) == call' = [call EXCEPT ![c] = Idle]

\* Mutant: a booking whose allocation is done counts as taken care of.
EligibleUnallocated(b) == Completed(b) /\ age[b] >= Hold /\ allocation[b] = "NONE"

Eligible(b) == Completed(b) /\ age[b] >= Hold /\ settlement[b] = "NONE"

\* The first Window eligible bookings, oldest first.
FirstDue(S) == {b \in S : Cardinality({d \in S : rank[d] < rank[b]}) < Window}

\* settleBookingsJob makes its list, once its previous pass is over ...
BeginPass ==
    /\ call[Job] = Idle /\ due = {}
    /\ \E b \in Bookings : Eligible(b)
    /\ due' = FirstDue({b \in Bookings : Eligible(b)})
    /\ UNCHANGED <<rank, age, dispute, allocation, settlement, money, wallet, spent, call, crashes>>

\* ... and releases its bookings one after the other.
ReleaseNext(b) ==
    /\ call[Job] = Idle
    /\ b \in due
    /\ \A d \in due : rank[b] <= rank[d]
    /\ due' = due \ {b}
    /\ Begin(Job, b)
    /\ UNCHANGED <<rank, age, dispute, allocation, settlement, money, wallet, spent, crashes>>

\* ADMIN_EARLY_RELEASE: no hold period to wait for.
ReleaseEarly(c, b) ==
    /\ c \in Admins /\ call[c] = Idle
    /\ Begin(c, b)
    /\ UNCHANGED <<rank, age, dispute, allocation, settlement, money, wallet, spent, due, crashes>>

-----------------------------------------------------------------------------
(* Allocation *)

\* validateCapturedPreconditions, and four entries the ledger can post.
Allocatable(b) == Completed(b) /\ dispute[b] # "OPEN" /\ Postable(Service[b])

\* The snapshot.  Whatever fails, an allocation that exists is found by the
\* catch and the release goes on.
OpenAllocate(c) ==
    LET b == call[c].booking IN
    /\ call[c].step = "allocate"
    /\ \/ allocation[b] = "ALLOCATED" /\ Goto(c, "settle")
       \/ allocation[b] # "ALLOCATED" /\ ~Allocatable(b) /\ End(c)
       \/ allocation[b] # "ALLOCATED" /\ Allocatable(b) /\ Goto(c, "allocating")
    /\ UNCHANGED <<rank, age, dispute, allocation, settlement, money, wallet, spent, due, crashes>>

\* Mutant: no unique key makes two open allocations of one booking conflict.
RetryAllocationNever(c, b) == Goto(c, "settle")

\* c commits; another open allocation of b has written the same keys and starts over.
RetryAllocation(c, b) ==
    call' = [d \in Callers |->
        IF d = c THEN [call[c] EXCEPT !.step = "settle"]
        ELSE IF call[d] = [step |-> "allocating", booking |-> b]
             THEN [step |-> "allocate", booking |-> b] ELSE call[d]]

\* The escrow is debited, the two revenues and the creator's payable credited.
CommitAllocate(c) ==
    LET b == call[c].booking IN
    /\ call[c].step = "allocating"
    /\ allocation' = [allocation EXCEPT ![b] = "ALLOCATED"]
    /\ Post(b, [NoChange EXCEPT !["escrow"] = -Total(Service[b]),
                                !["commission"] = Commission(Service[b]),
                                !["fee"] = PlatformFee(Service[b]),
                                !["payable"] = Earning(b)])
    /\ RetryAllocation(c, b)
    /\ UNCHANGED <<rank, age, dispute, settlement, wallet, spent, due, crashes>>

-----------------------------------------------------------------------------
(* Settlement *)

\* validateBaseGraph.
Settleable(b) == allocation[b] = "ALLOCATED" /\ dispute[b] # "OPEN"

\* The maximums of applyConditionalDelta: the wallet has room for the earning.
Fits(b) == wallet[CreatorOf[b]] + Earning(b) <= MaxAmount

\* The snapshot.  A wallet that is full there matches no filter: nothing is
\* written, so nothing conflicts, the refusal (PROJECTION_CONFLICT) aborts the
\* transaction and the booking stays allocated for a later release.
OpenSettle(c) ==
    LET b == call[c].booking IN
    /\ call[c].step = "settle"
    /\ \/ (settlement[b] = "SETTLED" \/ ~Settleable(b) \/ ~Fits(b)) /\ End(c)
       \/ settlement[b] # "SETTLED" /\ Settleable(b) /\ Fits(b) /\ Goto(c, "settling")
    /\ UNCHANGED <<rank, age, dispute, allocation, settlement, money, wallet, spent, due, crashes>>

\* What becomes of the release of d when another transaction writes the wallet
\* of creator w: an open settlement into that wallet starts over.
Reopened(d, w) ==
    IF call[d].step = "settling" /\ CreatorOf[call[d].booking] = w
    THEN [call[d] EXCEPT !.step = "settle"] ELSE call[d]

\* Mutant: two settlements into one wallet do not conflict.
RetrySettlementNever(c, b) == End(c)

\* c commits; open settlements into the same creator's wallet start over.
RetrySettlement(c, b) ==
    call' = [d \in Callers |-> IF d = c THEN Idle ELSE Reopened(d, CreatorOf[b])]

\* applyProjectionMutation on the creator's Wallet.
Credit(b) == Fits(b) /\ wallet' = [wallet EXCEPT ![CreatorOf[b]] = @ + Earning(b)]

\* The payable becomes the creator's available balance.
CommitSettle(c) ==
    LET b == call[c].booking IN
    /\ call[c].step = "settling"
    /\ settlement' = [settlement EXCEPT ![b] = "SETTLED"]
    /\ Post(b, [NoChange EXCEPT !["payable"] = -Earning(b), !["wallet"] = Earning(b)])
    /\ Credit(b)
    /\ RetrySettlement(c, b)
    /\ UNCHANGED <<rank, age, dispute, allocation, spent, due, crashes>>

\* Creator w takes n out of the wallet (a withdrawal, a booking of its own, a
\* conversion): a debit with its minimum, which writes the Wallet document.
UseWallet(w, n) ==
    /\ n <= wallet[w]
    /\ wallet' = [wallet EXCEPT ![w] = @ - n]
    /\ spent' = [spent EXCEPT ![w] = @ + n]
    /\ call' = [d \in Callers |-> Reopened(d, w)]
    /\ UNCHANGED <<rank, age, dispute, allocation, settlement, money, due, crashes>>

\* The server stops: open transactions abort, committed stages stay.
Crash ==
    /\ crashes < MaxCrashes
    /\ crashes' = crashes + 1
    /\ call' = [c \in Callers |-> Idle]
    /\ due' = {}
    /\ UNCHANGED <<rank, age, dispute, allocation, settlement, money, wallet, spent>>

-----------------------------------------------------------------------------
Proceed(c) == OpenAllocate(c) \/ CommitAllocate(c) \/ OpenSettle(c) \/ CommitSettle(c)

Next ==
    \/ \E b \in Bookings : Complete(b) \/ OpenDispute(b) \/ ResolveDispute(b) \/ ReleaseNext(b)
    \/ \E c \in Admins, b \in Bookings : ReleaseEarly(c, b)
    \/ \E c \in Callers : Proceed(c)
    \/ \E w \in Creators, n \in Uses : UseWallet(w, n)
    \/ Tick \/ BeginPass \/ Crash

Spec == Init /\ [][Next]_vars

\* Time passes, the job comes back every minute and works its list off, and a
\* call that has begun goes on.  Nobody has to open, or to resolve, a dispute,
\* and no creator has to make room in the wallet.
Fairness ==
    /\ WF_vars(Tick) /\ WF_vars(BeginPass)
    /\ \A b \in Bookings : WF_vars(ReleaseNext(b))
    /\ \A c \in Callers : WF_vars(Proceed(c))

FairSpec == Spec /\ Fairness

-----------------------------------------------------------------------------
(* Properties *)

\* Each stage posts its entries exactly once, whoever raced to do it: what a
\* booking has on the accounts is what its two records say, to the unit.
LedgerFollowsRecords ==
    \A b \in Bookings :
        LET s == Service[b]
            allocated == allocation[b] = "ALLOCATED"
            settled == settlement[b] = "SETTLED"
        IN  /\ money[b]["escrow"] = IF Completed(b) /\ ~allocated THEN Total(s) ELSE 0
            /\ money[b]["commission"] = IF allocated THEN Commission(s) ELSE 0
            /\ money[b]["fee"] = IF allocated THEN PlatformFee(s) ELSE 0
            /\ money[b]["payable"] = IF allocated /\ ~settled THEN Earning(b) ELSE 0
            /\ money[b]["wallet"] = IF settled THEN Earning(b) ELSE 0
            /\ settled => allocated
            /\ allocated => Completed(b)

\* The earnings, and the bookings whose earning creator w was paid.
Earnings == [b \in Bookings |-> Earning(b)]
SettledFor(w) == {b \in Bookings : CreatorOf[b] = w /\ settlement[b] = "SETTLED"}

\* A creator's balance and what the creator took out of it are the sum of the
\* settled bookings: settlements into one wallet and uses of it, at once, lose no
\* update and pay none twice; and no two of them fill it above its maximum.
WalletIsSumOfSettled ==
    \A w \in Creators :
        /\ wallet[w] + spent[w] = SumOf(Earnings, SettledFor(w))
        /\ wallet[w] <= MaxAmount

\* In this step the job's release of b settles it.
JobSettles(b) == call[Job] = [step |-> "settling", booking |-> b] /\ call'[Job] = Idle

\* The job never settles a booking in dispute: its hold outlasts the dispute
\* window, so whatever it checks when it opens its transaction still holds
\* when it commits.  (An early release has no such margin.)
JobRespectsDisputes ==
    [][\A b \in Bookings :
          dispute[b] = "OPEN" /\ settlement'[b] # settlement[b] => ~ JobSettles(b)]_vars

\* What keeps a release of b from paying: an open dispute, a share that rounds
\* to zero, which the ledger does not take, or a full wallet of the creator.
Blocked(b) == dispute[b] = "OPEN" \/ ~Postable(Service[b]) \/ ~Fits(b)

\* The job's list is full of older bookings that are blocked.
Crowded(b) ==
    Cardinality({d \in Bookings : Eligible(d) /\ Blocked(d) /\ rank[d] < rank[b]}) >= Window

Withheld(b) == Completed(b) /\ settlement[b] = "NONE" /\ ~Blocked(b) /\ ~Crowded(b)

\* Money of a completed booking is not withheld for good: the booking is settled
\* in the end, whatever crashes and overlaps came before, unless it is blocked,
\* or crowded out, again and again.  What was refused by a full wallet is paid
\* once there is room.
HeldMoneyIsPaid == \A b \in Bookings : Withheld(b) ~> ~Withheld(b)

\* The escrow, revenue, payable and wallet movements implement EscrowFlow.
Flow == INSTANCE EscrowFlow WITH
    FeeOf <- [b \in Bookings |-> PlatformFee(Service[b])],
    CommissionOf <- [b \in Bookings |-> Commission(Service[b])],
    EarningOf <- [b \in Bookings |-> Earning(b)]
FlowSpec == Flow!Spec
=============================================================================
