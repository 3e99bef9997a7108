--------------------------- MODULE WalletBooking ---------------------------
(***************************************************************************)
(* The life of bookings paid from the customer's wallet: request, accept,  *)
(* the six ways to terminate, completion, and the creator's edits of the   *)
(* slots underneath.  One database (MongoDB) is shared by request handlers *)
(* and background jobs.                                                    *)
(*                                                                         *)
(* A MongoDB transaction that writes every document it decided upon is one *)
(* step.  What a handler reads BEFORE its transaction is a step of its own *)
(* (Begin...), and may be stale when the transaction commits (Commit...).  *)
(* The accept transaction is also two steps, because it reads the clock in *)
(* the middle: a concurrent commit to one of its documents aborts it.      *)
(***************************************************************************)
EXTENDS Integers, FiniteSets, FiniteSums

CONSTANTS
    Bookings,        \* request identities (bookingRequestKey): one booking each
    Slots, Customers, Creators, Availabilities,
    CustomerOf, CreatorOf,   \* [Bookings -> ...]
    SlotsOf,                 \* [Bookings -> non-empty sets of slots]
    AvailabilityOf,          \* [Slots -> Availabilities]
    Total,                   \* totalAmount in minor units
    Deposit,                 \* opening wallet balance of each customer
    Start, End,              \* slot times, in clock units
    RequestTTL,              \* expiresAt - createdAt (180 minutes in the code)
    Grace,                   \* 10 minutes after a slot before auto-completion
    Protection,              \* the 24h governance protection window
    TerminationTypes,        \* the causes enabled in this instance
    SlotEdits,               \* the unguarded slot routes enabled in this instance
    MaxClock, MaxHandlers, MaxCrashes    \* bounds, for model checking only

AllTerminationTypes ==
    {"CREATOR_REJECTED", "BOOKING_EXPIRED", "CUSTOMER_CANCELLED",
     "CREATOR_CANCELLED", "ADMIN_CANCELLED", "GOVERNANCE_TERMINATED"}

ASSUME DomainAssumption ==
    /\ IsFiniteSet(Bookings)
    /\ CustomerOf \in [Bookings -> Customers]
    /\ CreatorOf \in [Bookings -> Creators]
    /\ SlotsOf \in [Bookings -> (SUBSET Slots) \ {{}}]
    /\ AvailabilityOf \in [Slots -> Availabilities]
    /\ TerminationTypes \subseteq AllTerminationTypes
    /\ SlotEdits \subseteq {"enableSlot", "disableSlot", "deleteSlot"}

ASSUME NumberAssumption ==
    /\ Total \in [Bookings -> Nat \ {0}]
    /\ Deposit \in [Customers -> Nat]
    /\ Start \in [Slots -> Nat]
    /\ End \in [Slots -> Nat]
    /\ RequestTTL \in Nat /\ Grace \in Nat /\ Protection \in Nat
    /\ MaxClock \in Nat /\ MaxHandlers \in Nat /\ MaxCrashes \in Nat

VARIABLES
    clock,
    slot,          \* Slot.status; "DELETED" when the document is gone
    availability,  \* Availability.status
    booking,       \* Booking.status; "NONE" before the request commits
    expiresAt,     \* Booking.expiresAt
    isPayable,     \* Booking.isPayable
    payment,       \* Payment.status
    reservation,   \* BookingFundReservation.status
    wallet,        \* Wallet projection per customer
    ledger,        \* ledger account balances, per customer of the entries
    requesting,    \* requestBooking handlers past cleanupExpiredBookings
    accepting,     \* open decideBooking(ACCEPT) transactions
    terminating,   \* terminateBookingFinancially calls past their outer reads
    crashes

moneyVars    == <<payment, reservation, wallet, ledger>>
calendarVars == <<clock, availability, crashes>>
handlerVars  == <<requesting, accepting, terminating>>
vars == <<slot, booking, expiresAt, isPayable, moneyVars, calendarVars, handlerVars>>

SlotStatus     == {"AVAILABLE", "LOCKED", "BOOKED", "CANCELLED", "DELETED"}
Live           == {"REQUESTED", "CONFIRMED"}
Terminated     == {"REJECTED", "CANCELLED", "EXPIRED"}
Terminal       == Terminated \cup {"COMPLETED"}
BookingStatus  == {"NONE"} \cup Live \cup Terminal
PaymentStatus  == {"NONE", "AUTHORIZED", "CAPTURED", "CANCELLED", "EXPIRED"}
ReservationStatus == {"NONE", "ACTIVE", "RELEASED", "CAPTURED"}
Wallets == [availableBalance : Int, reservedBalance : Int]
Accounts == {"WALLET_AVAILABLE", "WALLET_RESERVED", "PLATFORM_ESCROW"}
Calls   == [booking : Bookings, type : TerminationTypes]

TypeOK ==
    /\ clock \in Nat
    /\ slot \in [Slots -> SlotStatus]
    /\ availability \in [Availabilities -> {"ACTIVE", "CANCELLED"}]
    /\ booking \in [Bookings -> BookingStatus]
    /\ expiresAt \in [Bookings -> Nat]
    /\ isPayable \in [Bookings -> BOOLEAN]
    /\ payment \in [Bookings -> PaymentStatus]
    /\ reservation \in [Bookings -> ReservationStatus]
    /\ wallet \in [Customers -> Wallets]
    /\ ledger \in [Customers -> [Accounts -> Int]]
    /\ requesting \subseteq Bookings
    /\ accepting \subseteq Bookings
    /\ terminating \subseteq Calls
    /\ crashes \in Nat

Init ==
    /\ clock = 0
    /\ slot = [s \in Slots |-> "AVAILABLE"]
    /\ availability = [a \in Availabilities |-> "ACTIVE"]
    /\ booking = [b \in Bookings |-> "NONE"]
    /\ expiresAt = [b \in Bookings |-> 0]
    /\ isPayable = [b \in Bookings |-> FALSE]
    /\ payment = [b \in Bookings |-> "NONE"]
    /\ reservation = [b \in Bookings |-> "NONE"]
    /\ wallet = [c \in Customers |->
                    [availableBalance |-> Deposit[c], reservedBalance |-> 0]]
    /\ ledger = [c \in Customers |->
                    [a \in Accounts |-> IF a = "WALLET_AVAILABLE" THEN Deposit[c] ELSE 0]]
    /\ requesting = {} /\ accepting = {} /\ terminating = {}
    /\ crashes = 0

-----------------------------------------------------------------------------
(* The wallet projection and the ledger *)

\* Mutant: the projection is updated unconditionally.
MeetsMinimumUnchecked(c, field, amount) == TRUE

\* applyProjectionMutation: the conditional update finds no wallet, and the
\* caller's transaction aborts, when a balance is below the required minimum.
MeetsMinimum(c, field, amount) == wallet[c][field] >= amount

\* Mutant: the $inc leaves the reserved balance out.
ProjectAvailableOnly(c, available, reserved) ==
    wallet' = [wallet EXCEPT ![c].availableBalance = @ + available]

\* $inc of the projection, in the caller's transaction.
Project(c, available, reserved) ==
    wallet' = [wallet EXCEPT ![c] =
                  [availableBalance |-> wallet[c].availableBalance + available,
                   reservedBalance  |-> wallet[c].reservedBalance + reserved]]

\* A balanced debit and credit of the same amount, same transactionId.
Post(c, debited, credited, amount) ==
    ledger' = [ledger EXCEPT ![c][debited] = @ - amount, ![c][credited] = @ + amount]

\* bookingWalletReservationService.authorize
Authorize(b) ==
    LET c == CustomerOf[b] IN
    /\ MeetsMinimum(c, "availableBalance", Total[b])
    /\ Post(c, "WALLET_AVAILABLE", "WALLET_RESERVED", Total[b])
    /\ Project(c, -Total[b], Total[b])
    /\ reservation' = [reservation EXCEPT ![b] = "ACTIVE"]
    /\ payment' = [payment EXCEPT ![b] = "AUTHORIZED"]

\* bookingWalletReservationReleaseService.release: its preconditions, effects.
CanRelease(b) ==
    /\ reservation[b] = "ACTIVE"
    /\ payment[b] = "AUTHORIZED"
    /\ MeetsMinimum(CustomerOf[b], "reservedBalance", Total[b])

ReleasedPayment(type) == IF type = "BOOKING_EXPIRED" THEN "EXPIRED" ELSE "CANCELLED"

Release(b, type) ==
    LET c == CustomerOf[b] IN
    /\ CanRelease(b)
    /\ Post(c, "WALLET_RESERVED", "WALLET_AVAILABLE", Total[b])
    /\ Project(c, Total[b], -Total[b])
    /\ reservation' = [reservation EXCEPT ![b] = "RELEASED"]
    /\ payment' = [payment EXCEPT ![b] = ReleasedPayment(type)]

\* bookingWalletReservationCaptureService.capture
Capture(b) ==
    LET c == CustomerOf[b] IN
    /\ CanRelease(b)    \* the same three conditions guard a capture
    /\ Post(c, "WALLET_RESERVED", "PLATFORM_ESCROW", Total[b])
    /\ Project(c, 0, -Total[b])
    /\ reservation' = [reservation EXCEPT ![b] = "CAPTURED"]
    /\ payment' = [payment EXCEPT ![b] = "CAPTURED"]

-----------------------------------------------------------------------------
(* Slots *)

SetSlots(S, status) == slot' = [s \in Slots |-> IF s \in S THEN status ELSE slot[s]]

\* Mutant: the accept's writes no longer conflict with the commits they raced.
AbortNothing(S) == accepting' = accepting

\* A committed write to a document of an open accept transaction makes that
\* transaction fail with a write conflict when it writes the same document.
AbortConflicting(S) ==
    accepting' = {b \in accepting : SlotsOf[b] \cap S = {}}

-----------------------------------------------------------------------------
(* requestBooking *)

\* cleanupExpiredBookings has expired the lapsed requests of this creator;
\* a request it could not expire makes the handler fail before going on.
BeginRequest(b) ==
    /\ booking[b] = "NONE"
    /\ b \notin requesting
    /\ \A other \in Bookings :
          CreatorOf[other] = CreatorOf[b] /\ booking[other] = "REQUESTED"
             => expiresAt[other] >= clock
    /\ requesting' = requesting \cup {b}
    /\ UNCHANGED <<slot, booking, expiresAt, isPayable, moneyVars, calendarVars,
                   accepting, terminating>>

\* Mutant: only rival requests are looked for, not the slots' own status.
SlotsRequestableByRivals(b) ==
    \A other \in Bookings :
        booking[other] = "REQUESTED" /\ expiresAt[other] > clock
           => SlotsOf[other] \cap SlotsOf[b] = {}

\* Slots free and not started, and no other live request names one of them.
SlotsRequestable(b) ==
    /\ \A s \in SlotsOf[b] : slot[s] = "AVAILABLE" /\ Start[s] >= clock
    /\ \A other \in Bookings :
          booking[other] = "REQUESTED" /\ expiresAt[other] > clock
             => SlotsOf[other] \cap SlotsOf[b] = {}

CommitRequest(b) ==
    /\ b \in requesting
    /\ booking[b] = "NONE"
    /\ SlotsRequestable(b)
    /\ Authorize(b)
    /\ SetSlots(SlotsOf[b], "LOCKED")
    /\ AbortConflicting(SlotsOf[b])
    /\ booking' = [booking EXCEPT ![b] = "REQUESTED"]
    /\ expiresAt' = [expiresAt EXCEPT ![b] = clock + RequestTTL]
    /\ isPayable' = [isPayable EXCEPT ![b] = TRUE]
    /\ requesting' = requesting \ {b}
    /\ UNCHANGED <<calendarVars, terminating>>

\* The transaction aborts: slots taken, funds short.  The client may ask again.
FailRequest(b) ==
    /\ b \in requesting
    /\ \/ ~SlotsRequestable(b)
       \/ ~MeetsMinimum(CustomerOf[b], "availableBalance", Total[b])
    /\ requesting' = requesting \ {b}
    /\ UNCHANGED <<slot, booking, expiresAt, isPayable, moneyVars, calendarVars,
                   accepting, terminating>>

-----------------------------------------------------------------------------
(* decideBooking with ACCEPT *)

BeginAccept(b) ==
    /\ b \notin accepting
    /\ booking[b] = "REQUESTED"
    /\ expiresAt[b] >= clock
    /\ \A s \in SlotsOf[b] : slot[s] = "LOCKED"
    /\ accepting' = accepting \cup {b}
    /\ UNCHANGED <<slot, booking, expiresAt, isPayable, moneyVars, calendarVars,
                   requesting, terminating>>

CommitAccept(b) ==
    /\ b \in accepting
    /\ booking' = [booking EXCEPT ![b] = "CONFIRMED"]
    /\ SetSlots(SlotsOf[b], "BOOKED")
    /\ AbortConflicting(SlotsOf[b])
    /\ UNCHANGED <<expiresAt, isPayable, moneyVars, calendarVars, requesting, terminating>>

-----------------------------------------------------------------------------
(* terminateBookingFinancially *)

\* What each caller and the outer reads of the service require.
MayReject(b) == booking[b] = "REQUESTED"

\* Mutant: the comparison with expiresAt is turned round.
MayExpireEarly(b) == booking[b] = "REQUESTED" /\ expiresAt[b] > clock

MayExpire(b) == booking[b] = "REQUESTED" /\ expiresAt[b] <= clock
MayGovern(b) ==
    /\ reservation[b] = "ACTIVE" /\ payment[b] = "AUTHORIZED"
    /\ \/ booking[b] = "REQUESTED"
       \/ /\ booking[b] = "CONFIRMED"
          /\ \A s \in SlotsOf[b] : slot[s] # "DELETED" /\ Start[s] - clock > Protection

MayTerminate(b, type) ==
    /\ booking[b] \in Live
    /\ type = "CREATOR_REJECTED" => MayReject(b)
    /\ type = "BOOKING_EXPIRED" => MayExpire(b)
    /\ type = "GOVERNANCE_TERMINATED" => MayGovern(b)

BeginTerminate(b, type) ==
    /\ MayTerminate(b, type)
    /\ Cardinality(terminating) < MaxHandlers
    /\ terminating' = terminating \cup {[booking |-> b, type |-> type]}
    /\ UNCHANGED <<slot, booking, expiresAt, isPayable, moneyVars, calendarVars,
                   requesting, accepting>>

TargetStatus(type) ==
    CASE type = "CREATOR_REJECTED" -> "REJECTED"
      [] type = "BOOKING_EXPIRED"  -> "EXPIRED"
      [] OTHER                     -> "CANCELLED"

\* Every slot of a wallet booking must go back, or the transaction aborts.
SlotsReleasable(b) == \A s \in SlotsOf[b] : slot[s] \in {"LOCKED", "BOOKED"}

CommitTerminate(call) ==
    LET b == call.booking IN
    /\ call \in terminating
    /\ booking[b] \in {"REQUESTED", "CONFIRMED"}
    /\ SlotsReleasable(b)
    /\ Release(b, call.type)
    /\ booking' = [booking EXCEPT ![b] = TargetStatus(call.type)]
    /\ SetSlots(SlotsOf[b], "AVAILABLE")
    /\ AbortConflicting(SlotsOf[b])
    /\ terminating' = terminating \ {call}
    /\ UNCHANGED <<expiresAt, isPayable, calendarVars, requesting>>

\* The transaction aborts; the call returns a replay of the winner or an error.
FailTerminate(call) ==
    /\ call \in terminating
    /\ ~ (/\ booking[call.booking] \in {"REQUESTED", "CONFIRMED"}
          /\ SlotsReleasable(call.booking)
          /\ CanRelease(call.booking))
    /\ terminating' = terminating \ {call}
    /\ UNCHANGED <<slot, booking, expiresAt, isPayable, moneyVars, calendarVars,
                   requesting, accepting>>

-----------------------------------------------------------------------------
(* completeBookingService and completeBookingAutomatically *)

AutoTiming(b) == \A s \in SlotsOf[b] : slot[s] # "DELETED" /\ End[s] + Grace <= clock

Complete(b) ==
    /\ booking[b] = "CONFIRMED"
    /\ isPayable[b]
    /\ Capture(b)
    /\ booking' = [booking EXCEPT ![b] = "COMPLETED"]
    /\ isPayable' = [isPayable EXCEPT ![b] = FALSE]
    /\ accepting' = accepting \ {b}
    /\ UNCHANGED <<slot, expiresAt, calendarVars, requesting, terminating>>

CompleteByCreator(b) == Complete(b)
CompleteAutomatically(b) == AutoTiming(b) /\ Complete(b)

-----------------------------------------------------------------------------
(* The creator's calendar *)

EditSlot(s, route, status) ==
    /\ route \in SlotEdits
    /\ slot[s] # "DELETED"
    /\ SetSlots({s}, status)
    /\ AbortConflicting({s})
    /\ UNCHANGED <<booking, expiresAt, isPayable, moneyVars, calendarVars,
                   requesting, terminating>>

EnableSlot(s)  == EditSlot(s, "enableSlot", "AVAILABLE")
DisableSlot(s) == EditSlot(s, "disableSlot", "CANCELLED")
DeleteSlot(s)  == EditSlot(s, "deleteSlot", "DELETED")

CancelAvailability(a) ==
    LET own  == {s \in Slots : AvailabilityOf[s] = a}
        free == {s \in own : slot[s] = "AVAILABLE"}
    IN
    /\ availability[a] = "ACTIVE"
    /\ \A s \in own : slot[s] \notin {"LOCKED", "BOOKED"}
    /\ SetSlots(free, "CANCELLED")
    /\ AbortConflicting(free)
    /\ availability' = [availability EXCEPT ![a] = "CANCELLED"]
    /\ UNCHANGED <<booking, expiresAt, isPayable, moneyVars, clock, crashes,
                   requesting, terminating>>

-----------------------------------------------------------------------------
Tick ==
    /\ clock < MaxClock
    /\ clock' = clock + 1
    /\ UNCHANGED <<slot, booking, expiresAt, isPayable, moneyVars, availability,
                   crashes, handlerVars>>

\* The server stops: open transactions roll back, handlers are forgotten.
Crash ==
    /\ crashes < MaxCrashes
    /\ crashes' = crashes + 1
    /\ requesting' = {} /\ accepting' = {} /\ terminating' = {}
    /\ UNCHANGED <<slot, booking, expiresAt, isPayable, moneyVars, clock, availability>>

RequestStep(b) == BeginRequest(b) \/ CommitRequest(b) \/ FailRequest(b)
AcceptStep(b)  == BeginAccept(b) \/ CommitAccept(b)
TerminateStep  ==
    \/ \E b \in Bookings, type \in TerminationTypes : BeginTerminate(b, type)
    \/ \E call \in terminating : CommitTerminate(call) \/ FailTerminate(call)
CompleteStep(b) == CompleteByCreator(b) \/ CompleteAutomatically(b)
SlotStep(s)    == EnableSlot(s) \/ DisableSlot(s) \/ DeleteSlot(s)

Next ==
    \/ \E b \in Bookings : RequestStep(b) \/ AcceptStep(b) \/ CompleteStep(b)
    \/ TerminateStep
    \/ \E s \in Slots : SlotStep(s)
    \/ \E a \in Availabilities : CancelAvailability(a)
    \/ Tick
    \/ Crash

Spec == Init /\ [][Next]_vars

\* The job loop runs every minute and a handler that has begun goes on to its
\* end; the clock advances.  Customers, creators and admins owe nothing.
Fairness ==
    /\ WF_vars(Tick)
    /\ \A b \in Bookings :
          /\ WF_vars(BeginTerminate(b, "BOOKING_EXPIRED"))
          /\ WF_vars(CompleteAutomatically(b))
    /\ \A call \in Calls : WF_vars(CommitTerminate(call) \/ FailTerminate(call))

FairSpec == Spec /\ Fairness

-----------------------------------------------------------------------------
(* Properties *)

\* Booking, Payment and reservation are three documents; whatever races, they
\* tell one story: funds are held exactly while the booking is live, are back
\* with the customer (under the cause's Payment status) when it was terminated,
\* and are in escrow when it was completed.
FundsFollowBooking ==
    \A b \in Bookings :
        /\ booking[b] = "NONE" => reservation[b] = "NONE" /\ payment[b] = "NONE"
        /\ booking[b] \in Live =>
              reservation[b] = "ACTIVE" /\ payment[b] = "AUTHORIZED" /\ isPayable[b]
        /\ booking[b] \in {"REJECTED", "CANCELLED"} =>
              reservation[b] = "RELEASED" /\ payment[b] = "CANCELLED"
        /\ booking[b] = "EXPIRED" =>
              reservation[b] = "RELEASED" /\ payment[b] = "EXPIRED"
        /\ booking[b] = "COMPLETED" =>
              reservation[b] = "CAPTURED" /\ payment[b] = "CAPTURED" /\ ~isPayable[b]

\* The bookings of c whose reservation has this status.
ReservedAs(c, status) == {b \in Bookings : CustomerOf[b] = c /\ reservation[b] = status}
ActiveOf(c) == ReservedAs(c, "ACTIVE")
CapturedOf(c) == ReservedAs(c, "CAPTURED")

\* The wallet projection is kept by $inc beside the ledger; it never drifts from
\* the ledger accounts, no money appears or vanishes, and no balance that can be
\* spent is negative however many bookings are requested at once.
MoneyConserved ==
    \A c \in Customers :
        /\ wallet[c].availableBalance = ledger[c]["WALLET_AVAILABLE"]
        /\ wallet[c].reservedBalance = ledger[c]["WALLET_RESERVED"]
        /\ ledger[c]["WALLET_AVAILABLE"] + ledger[c]["WALLET_RESERVED"]
             + ledger[c]["PLATFORM_ESCROW"] = Deposit[c]
        /\ wallet[c].availableBalance >= 0

\* The reserved balance is exactly the sum of the customer's active
\* reservations, so a release or a capture never lacks the funds it moves.
ReservedIsSumOfActive ==
    \A c \in Customers : wallet[c].reservedBalance = SumOf(Total, ActiveOf(c))

\* Every balance of a wallet can be recomputed from the reservations behind it:
\* besides the active ones, the captured ones are what the customer's entries
\* left in escrow, and the rest of the deposit is there to be spent.
BalancesAreExplained ==
    /\ ReservedIsSumOfActive
    /\ \A c \in Customers :
          /\ ledger[c]["PLATFORM_ESCROW"] = SumOf(Total, CapturedOf(c))
          /\ wallet[c].availableBalance
               = Deposit[c] - SumOf(Total, ActiveOf(c)) - SumOf(Total, CapturedOf(c))

\* Two bookings that hold or have used their slots never share one, and the
\* slot's status is that of its booking.  Holds while no slot route that ignores
\* the slot's status is used.
SlotsExclusive ==
    /\ \A b \in Bookings, s \in Slots : s \in SlotsOf[b] =>
          /\ booking[b] = "REQUESTED" => slot[s] = "LOCKED"
          /\ booking[b] \in {"CONFIRMED", "COMPLETED"} => slot[s] = "BOOKED"
    /\ \A b, other \in Bookings :
          /\ b # other
          /\ booking[b] \in Live \cup {"COMPLETED"}
          /\ booking[other] \in Live \cup {"COMPLETED"}
          => SlotsOf[b] \cap SlotsOf[other] = {}

\* An accept transaction that is still open has read what is still the case: the
\* write conflicts it would meet have aborted it.  (The inductive strengthening
\* under which a late accept can never revive a booking.)
OpenAcceptIsCurrent ==
    \A b \in accepting :
        /\ booking[b] = "REQUESTED"
        /\ \A s \in SlotsOf[b] : slot[s] = "LOCKED"

\* A terminal outcome is final: no late accept, second termination, completion
\* or retry changes the booking, its payment or its reservation again.
TerminalIsFinal ==
    [][\A b \in Bookings : booking[b] \in Terminal =>
          /\ booking'[b] = booking[b]
          /\ payment'[b] = payment[b]
          /\ reservation'[b] = reservation[b]]_vars

\* Liveness: no customer's money stays reserved for ever.  Every hold ends in a
\* release or a capture, whatever the creator and the customer do not do.
EveryHoldEnds ==
    \A b \in Bookings : reservation[b] = "ACTIVE" ~> reservation[b] # "ACTIVE"

\* The promise to the customer: this specification implements BookingFunds.
Place(b) ==
    CASE reservation[b] = "NONE"     -> "nowhere"
      [] reservation[b] = "ACTIVE"   -> "held"
      [] reservation[b] = "RELEASED" -> "returned"
      [] OTHER                       -> "earned"

Funds == INSTANCE BookingFunds WITH
    place     <- [b \in Bookings |-> Place(b)],
    spendable <- [c \in Customers |-> wallet[c].availableBalance]

\* Every step on the documents is a hold, a return, an earning or nothing at all
\* to the customer: no price is taken twice, returned twice or returned and earned.
FundsSpec == Funds!Spec
=============================================================================
