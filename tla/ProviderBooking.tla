-------------------------- MODULE ProviderBooking --------------------------
(***************************************************************************)
(* Bookings paid through the INTERNAL payment provider.  Three records     *)
(* tell the story of one payment: the Booking, the financial Payment and   *)
(* the provider's own InternalPayment with its refund.  The provider is    *)
(* called BETWEEN transactions: requestBooking drives the payment after    *)
(* the booking has committed, and a termination voids or refunds at the    *)
(* provider before its own transaction.  Every call in between may race    *)
(* with the others, and a crash forgets it.                                *)
(*                                                                         *)
(* Slots are in WalletBooking: no guard of this path reads them.           *)
(***************************************************************************)
EXTENDS Naturals

CONSTANTS
    Bookings,
    Calls,        \* terminateBookingFinancially calls that may be in flight
    TerminationTypes,
    MaxCrashes    \* bound, for model checking only

ASSUME TypesAssumption ==
    TerminationTypes \subseteq {"CREATOR_REJECTED", "BOOKING_EXPIRED", "CUSTOMER_CANCELLED",
                                "CREATOR_CANCELLED", "ADMIN_CANCELLED"}
ASSUME BoundAssumption == MaxCrashes \in Nat

VARIABLES
    booking,     \* Booking.status
    lapsed,      \* expiresAt has passed
    isPayable,   \* Booking.isPayable
    accepting,   \* open decideBooking(ACCEPT) transactions
    payment,     \* Payment.status
    linked,      \* Payment.providerPaymentId is set
    provider,    \* InternalPayment.status
    refund,      \* InternalRefund.status
    escrow,      \* ledger: captured money in, out of, or never in escrow
    funding,     \* where requestBooking's completePaymentLifecycle stands
    call,        \* where each termination call stands
    crashes

bookingVars  == <<booking, lapsed, isPayable, accepting>>
paymentVars  == <<payment, linked, escrow>>
providerVars == <<provider, refund>>
vars == <<bookingVars, paymentVars, providerVars, funding, call, crashes>>

Live       == {"REQUESTED", "CONFIRMED"}
Terminated == {"REJECTED", "CANCELLED", "EXPIRED"}
Idle == [step |-> "idle"]

CallState == {Idle} \cup
    [step : {"choose", "void", "refund", "commit"}, booking : Bookings,
     type : TerminationTypes, action : {"NONE", "CANCEL", "REFUND"}, voided : BOOLEAN]

TypeOK ==
    /\ booking \in [Bookings -> {"NONE", "COMPLETED"} \cup Live \cup Terminated]
    /\ lapsed \in [Bookings -> BOOLEAN]
    /\ isPayable \in [Bookings -> BOOLEAN]
    /\ accepting \subseteq Bookings
    /\ payment \in [Bookings ->
          {"NONE", "CREATED", "INITIALIZING", "CAPTURED", "CANCELLED", "REFUNDED"}]
    /\ linked \in [Bookings -> BOOLEAN]
    /\ provider \in [Bookings -> {"NONE", "CREATED", "AUTHORIZED", "CAPTURED", "CANCELLED"}]
    /\ refund \in [Bookings -> {"NONE", "CREATED", "PROCESSING", "REFUNDED"}]
    /\ escrow \in [Bookings -> {"never", "held", "returned"}]
    /\ funding \in [Bookings ->
          {"none", "session", "link", "authorize", "capture", "record", "payable", "over"}]
    /\ call \in [Calls -> CallState]
    /\ crashes \in Nat

Init ==
    /\ booking = [b \in Bookings |-> "NONE"]
    /\ lapsed = [b \in Bookings |-> FALSE]
    /\ isPayable = [b \in Bookings |-> FALSE]
    /\ accepting = {}
    /\ payment = [b \in Bookings |-> "NONE"]
    /\ linked = [b \in Bookings |-> FALSE]
    /\ provider = [b \in Bookings |-> "NONE"]
    /\ refund = [b \in Bookings |-> "NONE"]
    /\ escrow = [b \in Bookings |-> "never"]
    /\ funding = [b \in Bookings |-> "none"]
    /\ call = [c \in Calls |-> Idle]
    /\ crashes = 0

-----------------------------------------------------------------------------
(* requestBooking and completePaymentLifecycle *)

\* The booking and its Payment commit together; then the lifecycle starts.
RequestBooking(b) ==
    /\ booking[b] = "NONE"
    /\ booking' = [booking EXCEPT ![b] = "REQUESTED"]
    /\ payment' = [payment EXCEPT ![b] = "CREATED"]
    /\ funding' = [funding EXCEPT ![b] = "session"]
    /\ UNCHANGED <<lapsed, isPayable, accepting, linked, escrow, providerVars, call, crashes>>

FundingStep(b, from, to) ==
    /\ funding[b] = from
    /\ funding' = [funding EXCEPT ![b] = to]
    /\ UNCHANGED <<call, crashes>>

CreatePaymentSession(b) ==
    /\ FundingStep(b, "session", "link")
    /\ provider' = [provider EXCEPT ![b] = "CREATED"]
    /\ UNCHANGED <<bookingVars, paymentVars, refund>>

InitializePayment(b) ==
    /\ FundingStep(b, "link", "authorize")
    /\ payment[b] = "CREATED"
    /\ payment' = [payment EXCEPT ![b] = "INITIALIZING"]
    /\ linked' = [linked EXCEPT ![b] = TRUE]
    /\ UNCHANGED <<bookingVars, escrow, providerVars>>

\* verifyPayment: two provider transactions, each checking the state it leaves.
AuthorizeAtProvider(b) ==
    /\ FundingStep(b, "authorize", "capture")
    /\ provider[b] = "CREATED"
    /\ provider' = [provider EXCEPT ![b] = "AUTHORIZED"]
    /\ UNCHANGED <<bookingVars, paymentVars, refund>>

CaptureAtProvider(b) ==
    /\ FundingStep(b, "capture", "record")
    /\ provider[b] = "AUTHORIZED"
    /\ provider' = [provider EXCEPT ![b] = "CAPTURED"]
    /\ UNCHANGED <<bookingVars, paymentVars, refund>>

\* Mutant: the transaction does not look at the Payment's current status.
RecordsCaptureAlways(b) == TRUE

\* The statuses from which the transaction walks to AUTHORIZED and CAPTURED.
RecordsCapture(b) == payment[b] = "INITIALIZING"

\* The financial transaction: Payment walks to CAPTURED and escrow is recognized,
\* unless a termination has closed the Payment in the meantime.
RecordCapture(b) ==
    /\ FundingStep(b, "record", "payable")
    /\ RecordsCapture(b)
    /\ payment' = [payment EXCEPT ![b] = "CAPTURED"]
    /\ escrow' = [escrow EXCEPT ![b] = "held"]
    /\ UNCHANGED <<bookingVars, linked, providerVars>>

\* Booking.updateOne({status: REQUESTED}, {isPayable: true}): its result is not
\* read.  When it matches, an accept that is open meets a write conflict.
MarkPayable(b) ==
    /\ FundingStep(b, "payable", "over")
    /\ IF booking[b] = "REQUESTED"
       THEN isPayable' = [isPayable EXCEPT ![b] = TRUE] /\ accepting' = accepting \ {b}
       ELSE UNCHANGED <<isPayable, accepting>>
    /\ UNCHANGED <<booking, lapsed, paymentVars, providerVars>>

FundingFails(b) ==
    \/ funding[b] = "link" /\ payment[b] # "CREATED"
    \/ funding[b] = "authorize" /\ provider[b] # "CREATED"
    \/ funding[b] = "capture" /\ provider[b] # "AUTHORIZED"
    \/ funding[b] = "record" /\ ~RecordsCapture(b)

\* Mutant: a lifecycle that comes back without a capture is not told from one with.
FundingEndsPayable(b) ==
    /\ FundingFails(b)
    /\ funding' = [funding EXCEPT ![b] = "payable"]
    /\ UNCHANGED <<bookingVars, paymentVars, providerVars, call, crashes>>

\* The lifecycle throws, or finds nothing left to record; nobody resumes it.
FundingEnds(b) ==
    /\ FundingFails(b)
    /\ funding' = [funding EXCEPT ![b] = "over"]
    /\ UNCHANGED <<bookingVars, paymentVars, providerVars, call, crashes>>

-----------------------------------------------------------------------------
(* decideBooking(ACCEPT), time, completion *)

Lapse(b) ==
    /\ booking[b] # "NONE" /\ ~lapsed[b]
    /\ lapsed' = [lapsed EXCEPT ![b] = TRUE]
    /\ UNCHANGED <<booking, isPayable, accepting, paymentVars, providerVars,
                   funding, call, crashes>>

BeginAccept(b) ==
    /\ booking[b] = "REQUESTED" /\ ~lapsed[b] /\ b \notin accepting
    /\ accepting' = accepting \cup {b}
    /\ UNCHANGED <<booking, lapsed, isPayable, paymentVars, providerVars,
                   funding, call, crashes>>

\* The Payment is not looked at: a request may be accepted before it is paid.
CommitAccept(b) ==
    /\ b \in accepting
    /\ accepting' = accepting \ {b}
    /\ booking[b] = "REQUESTED"
    /\ booking' = [booking EXCEPT ![b] = "CONFIRMED"]
    /\ UNCHANGED <<lapsed, isPayable, paymentVars, providerVars, funding, call, crashes>>

\* The booking was written in the meantime: the transaction aborts.
AbortAccept(b) ==
    /\ b \in accepting
    /\ booking[b] # "REQUESTED"
    /\ accepting' = accepting \ {b}
    /\ UNCHANGED <<booking, lapsed, isPayable, paymentVars, providerVars,
                   funding, call, crashes>>

\* completeBookingService or the job: the Payment is captured, the booking payable.
Complete(b) ==
    /\ booking[b] = "CONFIRMED"
    /\ isPayable[b]
    /\ payment[b] = "CAPTURED"
    /\ booking' = [booking EXCEPT ![b] = "COMPLETED"]
    /\ isPayable' = [isPayable EXCEPT ![b] = FALSE]
    /\ UNCHANGED <<lapsed, accepting, paymentVars, providerVars, funding, call, crashes>>

-----------------------------------------------------------------------------
(* terminateBookingFinancially *)

MayTerminate(b, type) ==
    /\ booking[b] \in Live
    /\ type = "CREATOR_REJECTED" => booking[b] = "REQUESTED"
    /\ type = "BOOKING_EXPIRED" => booking[b] = "REQUESTED" /\ lapsed[b]

CallTo(c, next) ==
    /\ call' = [call EXCEPT ![c] = next]
    /\ UNCHANGED <<funding, crashes>>

BeginTerminate(c, b, type) ==
    /\ call[c] = Idle
    /\ MayTerminate(b, type)
    /\ CallTo(c, [step |-> "choose", booking |-> b, type |-> type,
                  action |-> "NONE", voided |-> FALSE])
    /\ UNCHANGED <<bookingVars, paymentVars, providerVars>>

\* Mutant: a capture the provider has made but the Payment does not show yet is
\* not refunded.
ActionForPaymentOnly(b) ==
    IF \/ payment[b] \in {"CANCELLED", "REFUNDED"}
       \/ payment[b] # "CAPTURED" /\ linked[b] /\ provider[b] = "CANCELLED"
    THEN "NONE"
    ELSE IF payment[b] = "CAPTURED" THEN "REFUND" ELSE "CANCEL"

\* actionFor: what the Payment and, once linked, the provider say.
ActionFor(b) ==
    LET captured == payment[b] = "CAPTURED" \/ (linked[b] /\ provider[b] = "CAPTURED") IN
    IF \/ payment[b] \in {"CANCELLED", "REFUNDED"}
       \/ ~captured /\ linked[b] /\ provider[b] = "CANCELLED"
    THEN "NONE"
    ELSE IF captured THEN "REFUND" ELSE "CANCEL"

\* The reads of Payment and InternalPayment, before any transaction.
ChooseAction(c) ==
    LET b == call[c].booking IN
    /\ call[c].step = "choose"
    /\ CallTo(c, [call[c] EXCEPT
          !.action = ActionFor(b),
          !.voided = linked[b] /\ provider[b] = "CANCELLED",
          !.step = CASE ActionFor(b) = "CANCEL" /\ linked[b] -> "void"
                     [] ActionFor(b) = "REFUND" -> "refund"
                     [] OTHER -> "commit"])
    /\ UNCHANGED <<bookingVars, paymentVars, providerVars>>

Voidable(b) == provider[b] \in {"CREATED", "AUTHORIZED", "CANCELLED"}

Void(c) ==
    LET b == call[c].booking IN
    /\ call[c].step = "void"
    /\ Voidable(b)
    /\ provider' = [provider EXCEPT ![b] = "CANCELLED"]
    /\ CallTo(c, [call[c] EXCEPT !.step = "commit", !.voided = TRUE])
    /\ UNCHANGED <<bookingVars, paymentVars, refund>>

\* createRefund at the provider: created, processed, completed, in a transaction
\* each; another call (or a retry) takes over from wherever it stands.
AdvanceRefund(c) ==
    LET b == call[c].booking IN
    /\ call[c].step = "refund"
    /\ provider[b] = "CAPTURED"
    /\ refund' = [refund EXCEPT ![b] =
          CASE refund[b] = "NONE" -> "CREATED"
            [] refund[b] = "CREATED" -> "PROCESSING"
            [] OTHER -> "REFUNDED"]
    /\ CallTo(c, IF refund'[b] = "REFUNDED" THEN [call[c] EXCEPT !.step = "commit"]
                                            ELSE call[c])
    /\ UNCHANGED <<bookingVars, paymentVars, provider>>

TargetStatus(type) ==
    CASE type = "CREATOR_REJECTED" -> "REJECTED"
      [] type = "BOOKING_EXPIRED"  -> "EXPIRED"
      [] OTHER                     -> "CANCELLED"

TargetPayment(c) ==
    CASE call[c].action = "REFUND" -> "REFUNDED"
      [] call[c].action # "REFUND" /\ (call[c].action = "CANCEL" \/ call[c].voided) -> "CANCELLED"
      [] OTHER -> payment[call[c].booking]

\* Mutant: the escrow posting is not reversed with the refund.
EscrowAfterKept(b, target) == escrow[b]

\* recognizeFullRefund: only what was recognized is taken out again.
EscrowAfter(b, target) ==
    IF target = "REFUNDED" /\ payment[b] # "REFUNDED" /\ escrow[b] = "held"
    THEN "returned" ELSE escrow[b]

\* Mutant: the booking's terminal state does not stop the transaction.
StillTerminableAlways(b) == TRUE

\* transitionToTerminated's filter, tested in the transaction.
StillTerminable(b) == booking[b] \in {"REQUESTED", "CONFIRMED"}

CommitTerminate(c) ==
    LET b == call[c].booking IN
    /\ call[c].step = "commit"
    /\ StillTerminable(b)
    /\ payment' = [payment EXCEPT ![b] = TargetPayment(c)]
    /\ escrow' = [escrow EXCEPT ![b] = EscrowAfter(b, TargetPayment(c))]
    /\ booking' = [booking EXCEPT ![b] = TargetStatus(call[c].type)]
    /\ CallTo(c, Idle)
    /\ UNCHANGED <<lapsed, isPayable, accepting, linked, providerVars>>

\* The provider refuses to void, or the transaction aborts.  A refund stays made.
FailTerminate(c) ==
    /\ \/ call[c].step = "void" /\ ~Voidable(call[c].booking)
       \/ call[c].step = "commit" /\ ~StillTerminable(call[c].booking)
    /\ CallTo(c, Idle)
    /\ UNCHANGED <<bookingVars, paymentVars, providerVars>>

-----------------------------------------------------------------------------
\* The server stops.  The lifecycle of a payment is not resumed at restart.
Crash ==
    /\ crashes < MaxCrashes
    /\ crashes' = crashes + 1
    /\ accepting' = {}
    /\ call' = [c \in Calls |-> Idle]
    /\ funding' = [b \in Bookings |-> IF funding[b] = "none" THEN "none" ELSE "over"]
    /\ UNCHANGED <<booking, lapsed, isPayable, paymentVars, providerVars>>

Funding(b) ==
    \/ CreatePaymentSession(b) \/ InitializePayment(b) \/ AuthorizeAtProvider(b)
    \/ CaptureAtProvider(b) \/ RecordCapture(b) \/ MarkPayable(b) \/ FundingEnds(b)

Expire(c, b) == BeginTerminate(c, b, "BOOKING_EXPIRED")

CallProceeds(c) ==
    ChooseAction(c) \/ Void(c) \/ AdvanceRefund(c) \/ CommitTerminate(c) \/ FailTerminate(c)

Next ==
    \/ \E b \in Bookings :
          \/ RequestBooking(b) \/ Funding(b) \/ Lapse(b)
          \/ BeginAccept(b) \/ CommitAccept(b) \/ AbortAccept(b) \/ Complete(b)
    \/ \E c \in Calls, b \in Bookings, type \in TerminationTypes : BeginTerminate(c, b, type)
    \/ \E c \in Calls : CallProceeds(c)
    \/ Crash

Spec == Init /\ [][Next]_vars

\* Handlers that have begun go on, the expiry job comes back every minute, a
\* request lapses after three hours and a session ends.
Fairness ==
    /\ \A b \in Bookings : WF_vars(Lapse(b)) /\ WF_vars(Funding(b)) /\ WF_vars(Complete(b))
    /\ \A b \in Bookings : WF_vars(\E c \in Calls : Expire(c, b))
    /\ \A c \in Calls : WF_vars(CallProceeds(c))

FairSpec == Spec /\ Fairness

-----------------------------------------------------------------------------
(* Properties *)

\* The ledger's escrow posting and the Payment agree through every race of a
\* late capture with a termination: refunded money is never left in escrow,
\* and money leaves escrow only with a refund.
EscrowFollowsPayment ==
    \A b \in Bookings :
        /\ payment[b] = "CAPTURED" => escrow[b] = "held"
        /\ payment[b] = "REFUNDED" => escrow[b] # "held"
        /\ escrow[b] = "returned" => payment[b] = "REFUNDED"

\* Payment and booking close together: a terminated booking leaves no Payment
\* that a late lifecycle could still capture, a live one has no closed Payment,
\* and a Payment says REFUNDED only of money the provider gave back.
TerminatedClosesPayment ==
    \A b \in Bookings :
        /\ booking[b] \in Terminated <=> payment[b] \in {"CANCELLED", "REFUNDED"}
        /\ payment[b] = "REFUNDED" => provider[b] = "CAPTURED" /\ refund[b] = "REFUNDED"

\* The provider never voids a payment it captured and refunds only what it
\* captured, however calls and retries overlap.
ProviderIsConsistent ==
    \A b \in Bookings :
        /\ refund[b] # "NONE" => provider[b] = "CAPTURED"
        /\ escrow[b] # "never" => provider[b] = "CAPTURED"

\* Ledger, Payment and provider tell one story of the money.
MoneyAgrees == EscrowFollowsPayment /\ ProviderIsConsistent

\* Only captured money is payable, and a completed booking is a paid one, though
\* the capture, the payable mark and the accept commit apart.  A capture that is
\* on record leaves the request unmarked only until requestBooking returns: what
\* is left for good is the work of an accept in between, or of a crash.
PayableFollowsCapture ==
    \A b \in Bookings :
        /\ booking[b] \in Live /\ isPayable[b] => payment[b] = "CAPTURED"
        /\ booking[b] = "COMPLETED" => payment[b] = "CAPTURED"
        /\ booking[b] = "REQUESTED" /\ payment[b] = "CAPTURED" =>
              isPayable[b] \/ funding[b] = "payable" \/ crashes > 0

\* A closed Payment and a terminal booking are final: overlapping terminations,
\* late captures and accepts change neither.
ClosedIsFinal ==
    [][\A b \in Bookings :
          /\ payment[b] \in {"CANCELLED", "REFUNDED"} => payment'[b] = payment[b]
          /\ booking[b] \in Terminated \cup {"COMPLETED"} => booking'[b] = booking[b]]_vars

\* Liveness: a request that is not accepted lapses and ends, though the provider call of an earlier
\* attempt may have failed, or succeeded just before the server stopped.
RequestEnds ==
    \A b \in Bookings : booking[b] = "REQUESTED" ~> booking[b] # "REQUESTED"
=============================================================================
