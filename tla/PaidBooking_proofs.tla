------------------------- MODULE PaidBooking_proofs -------------------------
(* Proofs about a booking paid through the provider: its payment, escrow and *)
(* provider records (ProviderBooking), for any number of bookings and of     *)
(* terminations in flight, and its dispute (DisputeCase), for any number of  *)
(* administrators' requests and kinds of items.  Neither uses the other.     *)
EXTENDS ProviderBooking, DisputeCase, TLAPS

(* The payment *)

Closed == {"CANCELLED", "REFUNDED"}

\* The provider knows a payment only once its session was created, once.
SessionOnce ==
    \A b \in Bookings :
        /\ booking[b] = "NONE" => provider[b] = "NONE"
        /\ funding[b] = "session" => provider[b] = "NONE" /\ booking[b] # "NONE"

\* What a termination knows from its reads and provider calls, and what the
\* lifecycle of requestBooking knows when it records a capture.  A provider
\* payment that is CAPTURED stays so, which is why this knowledge does not age.
CallsKnow ==
    /\ \A b \in Bookings : funding[b] = "record" => provider[b] = "CAPTURED"
    /\ \A c \in Calls :
          /\ call[c].step = "refund" => call[c].action = "REFUND"
          /\ call[c].step = "void" => call[c].action = "CANCEL"
          /\ call[c].step = "commit" /\ call[c].action = "REFUND" =>
                provider[call[c].booking] = "CAPTURED" /\ refund[call[c].booking] = "REFUNDED"
          /\ call[c].step = "commit" /\ call[c].action = "NONE" =>
                call[c].voided \/ payment[call[c].booking] \in Closed

Consistent ==
    /\ EscrowFollowsPayment /\ TerminatedClosesPayment /\ ProviderIsConsistent
    /\ SessionOnce /\ CallsKnow

\* Every variable keeps its type, and a call that is not idle has all its fields.
THEOREM ProviderTypes == Spec => []TypeOK
<1>1. Init => TypeOK
  BY BoundAssumption DEF Init, TypeOK, CallState
<1>2. TypeOK /\ [Next]_vars => TypeOK'
  <2> SUFFICES ASSUME TypeOK, [Next]_vars PROVE TypeOK'
    OBVIOUS
  <2> USE TypesAssumption, BoundAssumption
      DEF TypeOK, Live, Terminated, bookingVars, paymentVars, providerVars
  <2>1. ASSUME NEW b \in Bookings, RequestBooking(b) PROVE TypeOK'
    BY <2>1 DEF RequestBooking
  <2>2. ASSUME NEW b \in Bookings, Funding(b) PROVE TypeOK'
    <3>1. CASE CreatePaymentSession(b)
      BY <3>1 DEF FundingStep, CreatePaymentSession
    <3>2. CASE InitializePayment(b)
      BY <3>2 DEF FundingStep, InitializePayment
    <3>3. CASE AuthorizeAtProvider(b)
      BY <3>3 DEF FundingStep, AuthorizeAtProvider
    <3>4. CASE CaptureAtProvider(b)
      BY <3>4 DEF FundingStep, CaptureAtProvider
    <3>5. CASE RecordCapture(b)
      BY <3>5 DEF FundingStep, RecordCapture
    <3>6. CASE MarkPayable(b)
      BY <3>6 DEF FundingStep, MarkPayable
    <3>7. CASE FundingEnds(b)
      BY <3>7 DEF FundingEnds
    <3> QED BY <2>2, <3>1, <3>2, <3>3, <3>4, <3>5, <3>6, <3>7 DEF Funding
  <2>3. ASSUME NEW b \in Bookings,
               Lapse(b) \/ BeginAccept(b) \/ CommitAccept(b) \/ AbortAccept(b) \/ Complete(b)
        PROVE TypeOK'
    BY <2>3 DEF Lapse, BeginAccept, CommitAccept, AbortAccept, Complete
  <2>4. ASSUME NEW c \in Calls, NEW b \in Bookings, NEW type \in TerminationTypes,
               BeginTerminate(c, b, type)
        PROVE TypeOK'
    BY <2>4 DEF BeginTerminate, CallTo, CallState
  <2>5. ASSUME NEW c \in Calls, CallProceeds(c) PROVE TypeOK'
    <3>1. CASE ChooseAction(c)
      <4>1. call[c] \in CallState \ {Idle}
        BY <3>1 DEF ChooseAction, Idle, CallState
      <4>2. call' \in [Calls -> CallState]
        BY <3>1, <4>1 DEF ChooseAction, CallTo, CallState, ActionFor
      <4> QED BY <3>1, <4>2 DEF ChooseAction, CallTo
    <3>2. CASE Void(c)
      <4>1. call[c] \in CallState \ {Idle}
        BY <3>2 DEF Void, Idle, CallState
      <4>2. call' \in [Calls -> CallState]
        BY <3>2, <4>1 DEF Void, CallTo, CallState
      <4> QED BY <3>2, <4>1, <4>2 DEF Void, CallTo, CallState
    <3>3. CASE AdvanceRefund(c)
      <4>1. call[c] \in CallState \ {Idle}
        BY <3>3 DEF AdvanceRefund, Idle, CallState
      <4>2. call' \in [Calls -> CallState]
        BY <3>3, <4>1 DEF AdvanceRefund, CallTo, CallState
      <4>3. refund' \in [Bookings -> {"NONE", "CREATED", "PROCESSING", "REFUNDED"}]
        BY <3>3 DEF AdvanceRefund
      <4> QED BY <3>3, <4>2, <4>3 DEF AdvanceRefund, CallTo
    <3>4. CASE CommitTerminate(c)
      <4>1. call[c] \in CallState \ {Idle}
        BY <3>4 DEF CommitTerminate, Idle, CallState
      <4>2. /\ call[c].booking \in Bookings
            /\ TargetPayment(c) \in
                 {"NONE", "CREATED", "INITIALIZING", "CAPTURED", "CANCELLED", "REFUNDED"}
        BY <4>1 DEF TargetPayment, CallState
      <4>3. booking' \in [Bookings -> {"NONE", "COMPLETED"} \cup Live \cup Terminated]
        BY <3>4 DEF CommitTerminate, TargetStatus
      <4>4. escrow' \in [Bookings -> {"never", "held", "returned"}]
        BY <3>4, <4>2 DEF CommitTerminate, EscrowAfter
      <4>5. payment' \in [Bookings ->
              {"NONE", "CREATED", "INITIALIZING", "CAPTURED", "CANCELLED", "REFUNDED"}]
        BY <3>4, <4>2 DEF CommitTerminate
      <4>6. call' \in [Calls -> CallState]
        BY <3>4 DEF CommitTerminate, CallTo, CallState
      <4> QED BY <3>4, <4>3, <4>4, <4>5, <4>6 DEF CommitTerminate, CallTo
    <3>5. CASE FailTerminate(c)
      BY <3>5 DEF FailTerminate, CallTo, CallState
    <3> QED BY <2>5, <3>1, <3>2, <3>3, <3>4, <3>5 DEF CallProceeds
  <2>6. CASE Crash
    BY <2>6 DEF Crash, CallState
  <2>7. CASE UNCHANGED vars
    BY <2>7 DEF vars
  <2> QED BY <2>1, <2>2, <2>3, <2>4, <2>5, <2>6, <2>7 DEF Next
<1> QED BY <1>1, <1>2, PTL DEF Spec
-----------------------------------------------------------------------------
(* The three records stay consistent.  Inductive only with SessionOnce and     *)
(* CallsKnow: a termination acts on what it read and did before its            *)
(* transaction, and that must still be the case when it commits.               *)

\* The records are consistent at the start.
LEMMA ConsistentInit == Init => Consistent
  BY DEF Init, Consistent, EscrowFollowsPayment, TerminatedClosesPayment,
     ProviderIsConsistent, SessionOnce, CallsKnow, Idle, Terminated, Closed

\* Steps that touch neither payment, provider nor escrow, end no booking and
\* give neither a call nor the lifecycle new knowledge.
LEMMA ConsistentKept ==
  ASSUME TypeOK, Consistent,
         UNCHANGED <<payment, escrow, provider, refund>>,
         \A b \in Bookings : /\ booking'[b] \in Terminated <=> booking[b] \in Terminated
                             /\ booking'[b] = "NONE" <=> booking[b] = "NONE",
         \A b \in Bookings : funding'[b] = funding[b] \/ funding'[b] \notin {"session", "record"},
         \A c \in Calls : call'[c] = call[c] \/ call'[c].step \in {"idle", "choose"}
  PROVE  Consistent'
<1>1. EscrowFollowsPayment' /\ TerminatedClosesPayment' /\ ProviderIsConsistent'
  BY DEF Consistent, EscrowFollowsPayment, TerminatedClosesPayment, ProviderIsConsistent
<1>2. SessionOnce'
  BY DEF Consistent, SessionOnce
<1>3. CallsKnow'
  BY DEF Consistent, CallsKnow
<1> QED BY <1>1, <1>2, <1>3 DEF Consistent

\* Steps of the lifecycle at the provider: they leave a captured payment alone.
LEMMA ConsistentAtProvider ==
  ASSUME TypeOK, Consistent, NEW b \in Bookings, NEW status, NEW next,
         provider[b] # "CAPTURED", booking[b] # "NONE",
         provider' = [provider EXCEPT ![b] = status],
         funding' = [funding EXCEPT ![b] = next],
         next # "session", next = "record" => status = "CAPTURED",
         UNCHANGED <<booking, payment, escrow, refund, call>>
  PROVE  Consistent'
<1>1. EscrowFollowsPayment'
  BY DEF Consistent, EscrowFollowsPayment
<1>2. refund[b] = "NONE" /\ escrow[b] = "never" /\ payment[b] # "REFUNDED"
  BY DEF Consistent, TerminatedClosesPayment, ProviderIsConsistent
<1>3. TerminatedClosesPayment' /\ ProviderIsConsistent'
  BY <1>2 DEF TypeOK, Consistent, TerminatedClosesPayment, ProviderIsConsistent
<1>4. SessionOnce'
  BY DEF TypeOK, Consistent, SessionOnce
<1>5. CallsKnow'
  BY DEF TypeOK, Consistent, CallsKnow
<1> QED BY <1>1, <1>3, <1>4, <1>5 DEF Consistent

\* Every step keeps the records consistent.
LEMMA ConsistentNext == TypeOK /\ Consistent /\ [Next]_vars => Consistent'
<1> SUFFICES ASSUME TypeOK, Consistent, [Next]_vars PROVE Consistent'
  OBVIOUS
<1> USE DEF bookingVars, paymentVars, providerVars
<1>1. ASSUME NEW b \in Bookings, RequestBooking(b) PROVE Consistent'
  <2>0. payment[b] \notin Closed /\ escrow[b] # "returned" /\ provider[b] = "NONE"
    BY <1>1 DEF RequestBooking, Consistent, TerminatedClosesPayment, EscrowFollowsPayment,
       SessionOnce, Terminated, Closed
  <2>1. EscrowFollowsPayment'
    BY <1>1, <2>0 DEF RequestBooking, TypeOK, Consistent, EscrowFollowsPayment
  <2>2. TerminatedClosesPayment' /\ ProviderIsConsistent'
    BY <1>1, <2>0 DEF RequestBooking, TypeOK, Consistent, TerminatedClosesPayment,
       ProviderIsConsistent, Terminated
  <2>3. SessionOnce'
    BY <1>1, <2>0 DEF RequestBooking, TypeOK, Consistent, SessionOnce
  <2>4. CallsKnow'
    BY <1>1, <2>0 DEF RequestBooking, TypeOK, Consistent, CallsKnow, Closed
  <2> QED BY <2>1, <2>2, <2>3, <2>4 DEF Consistent
<1>2. ASSUME NEW b \in Bookings, Funding(b) PROVE Consistent'
  <2>1. CASE CreatePaymentSession(b)
    BY <2>1, ConsistentAtProvider DEF CreatePaymentSession, FundingStep, Consistent, SessionOnce
  <2>2. CASE InitializePayment(b)
    <3>1. payment[b] = "CREATED" /\ payment' = [payment EXCEPT ![b] = "INITIALIZING"]
      BY <2>2 DEF InitializePayment
    <3>2. EscrowFollowsPayment' /\ TerminatedClosesPayment' /\ ProviderIsConsistent'
      BY <2>2, <3>1 DEF InitializePayment, FundingStep, TypeOK, Consistent, EscrowFollowsPayment,
         TerminatedClosesPayment, ProviderIsConsistent
    <3>3. SessionOnce' /\ CallsKnow'
      BY <2>2, <3>1 DEF InitializePayment, FundingStep, TypeOK, Consistent, SessionOnce,
         CallsKnow, Closed
    <3> QED BY <3>2, <3>3 DEF Consistent
  <2>3. CASE AuthorizeAtProvider(b)
    BY <2>3, ConsistentAtProvider DEF AuthorizeAtProvider, FundingStep, Consistent, SessionOnce
  <2>4. CASE CaptureAtProvider(b)
    BY <2>4, ConsistentAtProvider DEF CaptureAtProvider, FundingStep, Consistent, SessionOnce
  <2>5. CASE RecordCapture(b)
    <3>1. payment[b] = "INITIALIZING" /\ provider[b] = "CAPTURED"
      BY <2>5 DEF RecordCapture, RecordsCapture, FundingStep, Consistent, CallsKnow
    <3>2. EscrowFollowsPayment' /\ TerminatedClosesPayment' /\ ProviderIsConsistent'
      BY <2>5, <3>1 DEF RecordCapture, FundingStep, TypeOK, Consistent, EscrowFollowsPayment,
         TerminatedClosesPayment, ProviderIsConsistent
    <3>3. SessionOnce' /\ CallsKnow'
      BY <2>5, <3>1 DEF RecordCapture, FundingStep, TypeOK, Consistent, SessionOnce,
         CallsKnow, Closed
    <3> QED BY <3>2, <3>3 DEF Consistent
  <2>6. CASE MarkPayable(b)
    BY <2>6, ConsistentKept DEF MarkPayable, FundingStep, TypeOK
  <2>7. CASE FundingEnds(b)
    BY <2>7, ConsistentKept DEF FundingEnds, FundingFails, TypeOK
  <2> QED BY <1>2, <2>1, <2>2, <2>3, <2>4, <2>5, <2>6, <2>7 DEF Funding
<1>3. ASSUME NEW b \in Bookings,
             Lapse(b) \/ BeginAccept(b) \/ CommitAccept(b) \/ AbortAccept(b) \/ Complete(b)
      PROVE Consistent'
  BY <1>3, ConsistentKept
     DEF Lapse, BeginAccept, CommitAccept, AbortAccept, Complete, TypeOK, Terminated
<1>4. ASSUME NEW c \in Calls, NEW b \in Bookings, NEW type \in TerminationTypes,
             BeginTerminate(c, b, type)
      PROVE Consistent'
  BY <1>4, ConsistentKept DEF BeginTerminate, CallTo, TypeOK
<1>5. ASSUME NEW c \in Calls, CallProceeds(c) PROVE Consistent'
  <2>0. ASSUME call[c].step # "idle"
        PROVE  /\ call[c].booking \in Bookings
               /\ call[c] \in CallState \ {Idle}
    BY <2>0 DEF TypeOK, CallState, Idle
  <2>1. CASE ChooseAction(c)
    <3>1. /\ call'[c].step = "refund" => call'[c].action = "REFUND"
          /\ call'[c].step = "void" => call'[c].action = "CANCEL"
          /\ call'[c].step = "commit" => call'[c].action # "REFUND"
          /\ call'[c].step = "commit" /\ call'[c].action = "NONE" =>
                call'[c].voided \/ payment[call'[c].booking] \in Closed
      BY <2>0, <2>1 DEF ChooseAction, CallTo, ActionFor, Closed, TypeOK, CallState
    <3>2. \A d \in Calls \ {c} : call'[d] = call[d]
      BY <2>1 DEF ChooseAction, CallTo, TypeOK
    <3>3. UNCHANGED <<booking, payment, escrow, provider, refund, funding>>
      BY <2>1 DEF ChooseAction, CallTo
    <3>4. CallsKnow'
      BY <3>1, <3>2, <3>3 DEF Consistent, CallsKnow
    <3> QED BY <3>3, <3>4 DEF Consistent, EscrowFollowsPayment, TerminatedClosesPayment,
               ProviderIsConsistent, SessionOnce
  <2>2. CASE Void(c)
    <3> DEFINE b == call[c].booking
    <3>1. /\ b \in Bookings /\ provider[b] \notin {"NONE", "CAPTURED"}
          /\ provider' = [provider EXCEPT ![b] = "CANCELLED"]
          /\ UNCHANGED <<booking, payment, escrow, refund, funding>>
      BY <2>0, <2>2 DEF Void, Voidable, CallTo
    <3>2. /\ call'[c].step = "commit" /\ call'[c].action = "CANCEL"
          /\ \A d \in Calls \ {c} : call'[d] = call[d]
      BY <2>0, <2>2 DEF Void, CallTo, Consistent, CallsKnow, TypeOK, CallState
    <3>3. refund[b] = "NONE" /\ escrow[b] = "never" /\ payment[b] # "REFUNDED"
      BY <3>1 DEF Consistent, TerminatedClosesPayment, ProviderIsConsistent
    <3>4. EscrowFollowsPayment' /\ TerminatedClosesPayment' /\ ProviderIsConsistent'
      BY <3>1, <3>3 DEF TypeOK, Consistent, EscrowFollowsPayment, TerminatedClosesPayment,
         ProviderIsConsistent
    <3>5. SessionOnce'
      BY <3>1 DEF TypeOK, Consistent, SessionOnce
    <3>6. CallsKnow'
      BY <3>1, <3>2 DEF TypeOK, Consistent, CallsKnow
    <3> QED BY <3>4, <3>5, <3>6 DEF Consistent
  <2>3. CASE AdvanceRefund(c)
    <3> DEFINE b == call[c].booking
    <3>0. b \in Bookings
      BY <2>0, <2>3 DEF AdvanceRefund
    <3>1. /\ provider[b] = "CAPTURED"
          /\ refund[b] = "REFUNDED" => refund'[b] = "REFUNDED"
          /\ \A d \in Bookings \ {b} : refund'[d] = refund[d]
          /\ UNCHANGED <<booking, payment, escrow, provider, funding>>
      BY <3>0, <2>3 DEF AdvanceRefund, CallTo, TypeOK
    <3>2. /\ \/ call'[c] = call[c]
             \/ call'[c].step = "commit" /\ refund'[b] = "REFUNDED"
          /\ call'[c].action = call[c].action /\ call'[c].booking = b
          /\ \A d \in Calls \ {c} : call'[d] = call[d]
      <4>1. call' = [call EXCEPT ![c] = IF refund'[b] = "REFUNDED"
                                        THEN [call[c] EXCEPT !.step = "commit"] ELSE call[c]]
        BY <2>3 DEF AdvanceRefund, CallTo
      <4>2. CASE refund'[b] = "REFUNDED"
        <5>1. call' = [call EXCEPT ![c] = [call[c] EXCEPT !.step = "commit"]]
          BY <4>1, <4>2
        <5> QED BY <5>1, <4>2, <2>0, <2>3 DEF AdvanceRefund, TypeOK, CallState
      <4>3. CASE refund'[b] # "REFUNDED"
        <5>1. call' = [call EXCEPT ![c] = call[c]]
          BY <4>1, <4>3
        <5> QED BY <5>1 DEF TypeOK
      <4> QED BY <4>2, <4>3
    <3>3. call[c].step = "refund" /\ call[c].action = "REFUND"
      BY <2>3 DEF AdvanceRefund, Consistent, CallsKnow
    <3>4. EscrowFollowsPayment' /\ TerminatedClosesPayment' /\ ProviderIsConsistent' /\ SessionOnce'
      BY <3>0, <3>1 DEF Consistent, EscrowFollowsPayment, TerminatedClosesPayment,
         ProviderIsConsistent, SessionOnce
    <3>5. CallsKnow'
      <4>1. \A d \in Calls : call[d].step = "commit" => call[d].booking \in Bookings
        BY DEF TypeOK, CallState, Idle
      <4>2. \A d \in Bookings : refund[d] = "REFUNDED" => refund'[d] = "REFUNDED"
        BY <3>0, <3>1
      <4>3. \A d \in Calls \ {c} : call[d].step = "commit" /\ call[d].action = "REFUND" =>
               provider'[call[d].booking] = "CAPTURED" /\ refund'[call[d].booking] = "REFUNDED"
        BY <3>1, <4>1, <4>2 DEF Consistent, CallsKnow
      <4> QED BY <3>0, <3>1, <3>2, <3>3, <4>3 DEF Consistent, CallsKnow
    <3> QED BY <3>4, <3>5 DEF Consistent
  <2>4. CASE CommitTerminate(c)
    <3> DEFINE b == call[c].booking
    <3>1. /\ b \in Bookings /\ booking[b] \in Live
          /\ booking' = [booking EXCEPT ![b] = TargetStatus(call[c].type)]
          /\ payment' = [payment EXCEPT ![b] = TargetPayment(c)]
          /\ escrow' = [escrow EXCEPT ![b] = EscrowAfter(b, TargetPayment(c))]
          /\ UNCHANGED <<provider, refund, funding>>
      BY <2>0, <2>4 DEF CommitTerminate, StillTerminable, Live, CallTo
    <3>2. payment[b] \notin Closed
      BY <3>1 DEF Consistent, TerminatedClosesPayment, Live, Terminated, Closed
    <3>3. TargetStatus(call[c].type) \in Terminated
      BY DEF TargetStatus, Terminated
    <3>4. /\ TargetPayment(c) \in Closed
          /\ TargetPayment(c) = "REFUNDED" =>
                provider[b] = "CAPTURED" /\ refund[b] = "REFUNDED"
      BY <2>0, <2>4, <3>2
         DEF CommitTerminate, TargetPayment, Consistent, CallsKnow, Closed, CallState
    <3>5. EscrowFollowsPayment'
      BY <3>1, <3>2, <3>4 DEF TypeOK, Consistent, EscrowFollowsPayment, EscrowAfter, Closed
    <3>6. TerminatedClosesPayment'
      BY <3>1, <3>3, <3>4 DEF TypeOK, Consistent, TerminatedClosesPayment, Closed
    <3>7. ProviderIsConsistent'
      BY <3>1 DEF TypeOK, Consistent, ProviderIsConsistent, EscrowAfter
    <3>8. SessionOnce'
      BY <3>1, <3>3 DEF TypeOK, Consistent, SessionOnce, Terminated
    <3>9. CallsKnow'
      <4>1. call'[c] = Idle /\ \A d \in Calls \ {c} : call'[d] = call[d]
        BY <2>4 DEF CommitTerminate, CallTo, TypeOK
      <4>2. \A d \in Bookings : payment[d] \in Closed => payment'[d] \in Closed
        BY <3>1, <3>4 DEF TypeOK
      <4>3. \A d \in Calls : call[d].step = "commit" => call[d].booking \in Bookings
        BY DEF TypeOK, CallState, Idle
      <4> QED BY <3>1, <4>1, <4>2, <4>3 DEF Consistent, CallsKnow, Idle
    <3> QED BY <3>5, <3>6, <3>7, <3>8, <3>9 DEF Consistent
  <2>5. CASE FailTerminate(c)
    BY <2>5, ConsistentKept DEF FailTerminate, CallTo, Idle, TypeOK
  <2> QED BY <1>5, <2>1, <2>2, <2>3, <2>4, <2>5 DEF CallProceeds
<1>6. CASE Crash
  BY <1>6, ConsistentKept DEF Crash, Idle, TypeOK
<1>7. CASE UNCHANGED vars
  BY <1>7, ConsistentKept DEF vars
<1> QED BY <1>1, <1>2, <1>3, <1>4, <1>5, <1>6, <1>7 DEF Next

\* Booking, Payment, provider and escrow agree after any interleaving of the
\* payment lifecycle, accepts, completions, terminations and crashes.
LEMMA AlwaysConsistent == Spec => []Consistent
  BY ConsistentInit, ConsistentNext, ProviderTypes, PTL DEF Spec

\* The money of a captured Payment is in escrow, that of a refunded one is not,
\* and money leaves escrow only with a refund.
THEOREM EscrowFollows == Spec => []EscrowFollowsPayment
<1>1. Consistent => EscrowFollowsPayment
  BY DEF Consistent
<1> QED BY <1>1, AlwaysConsistent, PTL

\* A terminated booking leaves no Payment a late lifecycle could still capture.
THEOREM TerminationCloses == Spec => []TerminatedClosesPayment
<1>1. Consistent => TerminatedClosesPayment
  BY DEF Consistent
<1> QED BY <1>1, AlwaysConsistent, PTL

\* The provider refunds, and the ledger takes into escrow, only what the provider
\* captured, however calls and retries overlap.
THEOREM ProviderAgrees == Spec => []ProviderIsConsistent
<1>1. Consistent => ProviderIsConsistent
  BY DEF Consistent
<1> QED BY <1>1, AlwaysConsistent, PTL

\* Ledger, Payment and provider tell one story of the money, for any number of
\* bookings, terminations in flight and crashes.
THEOREM MoneyAlwaysAgrees == Spec => []MoneyAgrees
  BY EscrowFollows, ProviderAgrees, PTL DEF MoneyAgrees

\* How far a Payment is when its lifecycle stands where it does.
PaymentProgress ==
    \A b \in Bookings :
        /\ booking[b] = "NONE" => ~isPayable[b]
        /\ funding[b] \in {"session", "link", "authorize", "capture", "record"} =>
              payment[b] # "CAPTURED"
        /\ funding[b] = "payable" => payment[b] \in {"CAPTURED"} \cup Closed

\* Inductive with what is consistent before and after the step: a termination
\* closes the Payment of the booking it ends, so a live one keeps its capture.
LEMMA MarksKept ==
  ASSUME TypeOK, Consistent, Consistent', PayableFollowsCapture, PaymentProgress, [Next]_vars
  PROVE  PayableFollowsCapture' /\ PaymentProgress'
<1> DEFINE Marks == PayableFollowsCapture' /\ PaymentProgress'
<1> USE DEF TypeOK, PayableFollowsCapture, PaymentProgress, bookingVars, paymentVars,
            providerVars, FundingStep, CallTo
<1>1. ASSUME NEW b \in Bookings, RequestBooking(b) PROVE Marks
  BY <1>1 DEF RequestBooking, Live
<1>2. ASSUME NEW b \in Bookings, Funding(b) PROVE Marks
  <2>1. CASE CreatePaymentSession(b)
    BY <2>1 DEF CreatePaymentSession
  <2>2. CASE InitializePayment(b)
    BY <2>2 DEF InitializePayment
  <2>3. CASE AuthorizeAtProvider(b)
    BY <2>3 DEF AuthorizeAtProvider
  <2>4. CASE CaptureAtProvider(b)
    BY <2>4 DEF CaptureAtProvider
  <2>5. CASE RecordCapture(b)
    BY <2>5 DEF RecordCapture
  <2>6. CASE MarkPayable(b)
    <3>1. booking[b] = "REQUESTED" => payment[b] = "CAPTURED"
      BY <2>6 DEF MarkPayable, Consistent, TerminatedClosesPayment, Terminated, Closed
    <3> QED BY <2>6, <3>1 DEF MarkPayable
  <2>7. CASE FundingEnds(b)
    BY <2>7 DEF FundingEnds, FundingFails
  <2> QED BY <1>2, <2>1, <2>2, <2>3, <2>4, <2>5, <2>6, <2>7 DEF Funding
<1>3. ASSUME NEW b \in Bookings,
             Lapse(b) \/ BeginAccept(b) \/ CommitAccept(b) \/ AbortAccept(b) \/ Complete(b)
      PROVE Marks
  BY <1>3 DEF Lapse, BeginAccept, CommitAccept, AbortAccept, Complete, Live
<1>4. ASSUME NEW c \in Calls, NEW b \in Bookings, NEW type \in TerminationTypes,
             BeginTerminate(c, b, type)
      PROVE Marks
  BY <1>4 DEF BeginTerminate
<1>5. ASSUME NEW c \in Calls, CallProceeds(c) PROVE Marks
  <2>1. CASE CommitTerminate(c)
    <3> DEFINE b == call[c].booking
    <3>1. b \in Bookings
      BY <2>1 DEF CommitTerminate, CallState, Idle
    <3>2. /\ booking'[b] \in Terminated
          /\ \A d \in Bookings \ {b} : booking'[d] = booking[d] /\ payment'[d] = payment[d]
          /\ UNCHANGED <<isPayable, funding, crashes>>
      BY <2>1, <3>1 DEF CommitTerminate, TargetStatus, Terminated
    <3>3. payment'[b] \in Closed
      BY <3>1, <3>2 DEF Consistent, TerminatedClosesPayment, Closed
    <3> HIDE DEF b
    <3> QED BY <3>1, <3>2, <3>3 DEF Terminated, Live, Closed
  <2>2. CASE ~CommitTerminate(c)
    BY <1>5, <2>2 DEF CallProceeds, ChooseAction, Void, AdvanceRefund, FailTerminate
  <2> QED BY <2>1, <2>2
<1>6. ASSUME Crash PROVE Marks
  BY <1>6 DEF Crash
<1>7. ASSUME UNCHANGED vars PROVE Marks
  BY <1>7 DEF vars
<1> QED BY <1>1, <1>2, <1>3, <1>4, <1>5, <1>6, <1>7 DEF Next

\* Only captured money is payable, a completed booking is a paid one, and only an
\* accept or a crash keeps a captured request from being marked.
THEOREM MarksFollowCapture == Spec => []PayableFollowsCapture
<1>1. Init => PayableFollowsCapture /\ PaymentProgress
  BY DEF Init, PayableFollowsCapture, PaymentProgress
<1>2. /\ TypeOK /\ Consistent /\ Consistent' /\ PayableFollowsCapture /\ PaymentProgress
      /\ [Next]_vars
      => PayableFollowsCapture' /\ PaymentProgress'
  BY MarksKept
<1> QED BY <1>1, <1>2, AlwaysConsistent, ProviderTypes, PTL DEF Spec

\* What a termination in flight has found: a booking, a payment to void that the
\* provider knows, or a capture to refund.
Prepared ==
    /\ \A b \in Bookings : linked[b] \/ funding[b] = "link" => provider[b] # "NONE"
    /\ \A c \in Calls :
          /\ call[c].step # "idle" => booking[call[c].booking] # "NONE"
          /\ call[c].step = "void" => linked[call[c].booking]
          /\ call[c].step = "refund" => provider[call[c].booking] = "CAPTURED"

LEMMA PreparedKept ==
  ASSUME TypeOK, Consistent, Prepared, [Next]_vars
  PROVE  Prepared'
<1> USE DEF TypeOK, Prepared, bookingVars, paymentVars, providerVars, FundingStep, CallTo
<1>0. \A c \in Calls : call[c].step # "idle" => call[c].booking \in Bookings
  BY DEF CallState, Idle
<1>1. ASSUME NEW b \in Bookings, RequestBooking(b) PROVE Prepared'
  BY <1>0, <1>1 DEF RequestBooking
<1>2. ASSUME NEW b \in Bookings, Funding(b) PROVE Prepared'
  <2>1. CASE CreatePaymentSession(b)
    BY <1>0, <2>1 DEF CreatePaymentSession, Consistent, SessionOnce
  <2>2. CASE InitializePayment(b)
    BY <1>0, <2>2 DEF InitializePayment
  <2>3. CASE AuthorizeAtProvider(b) \/ CaptureAtProvider(b)
    BY <1>0, <2>3 DEF AuthorizeAtProvider, CaptureAtProvider
  <2>4. CASE RecordCapture(b) \/ MarkPayable(b) \/ FundingEnds(b)
    BY <1>0, <2>4 DEF RecordCapture, MarkPayable, FundingEnds
  <2> QED BY <1>2, <2>1, <2>2, <2>3, <2>4 DEF Funding
<1>3. ASSUME NEW b \in Bookings,
             Lapse(b) \/ BeginAccept(b) \/ CommitAccept(b) \/ AbortAccept(b) \/ Complete(b)
      PROVE Prepared'
  <2>1. UNCHANGED <<linked, funding, provider, call>>
    BY <1>3 DEF Lapse, BeginAccept, CommitAccept, AbortAccept, Complete
  <2>2. \A d \in Bookings : booking[d] # "NONE" => booking'[d] # "NONE"
    BY <1>3 DEF Lapse, BeginAccept, CommitAccept, AbortAccept, Complete
  <2> QED BY <1>0, <2>1, <2>2
<1>4. ASSUME NEW c \in Calls, NEW b \in Bookings, NEW type \in TerminationTypes,
             BeginTerminate(c, b, type)
      PROVE Prepared'
  BY <1>4 DEF BeginTerminate, MayTerminate, Live
<1>5. ASSUME NEW c \in Calls, CallProceeds(c) PROVE Prepared'
  <2>1. CASE ChooseAction(c)
    <3> DEFINE b == call[c].booking
    <3>1. call[c] \in CallState \ {Idle} /\ b \in Bookings
      BY <2>1 DEF ChooseAction, Idle, CallState
    <3>2. ActionFor(b) = "REFUND" => provider[b] = "CAPTURED"
      BY <3>1 DEF ActionFor, Consistent, EscrowFollowsPayment, ProviderIsConsistent
    <3>3. /\ call'[c].booking = b
          /\ call'[c].step = "void" => linked[b]
          /\ call'[c].step = "refund" => ActionFor(b) = "REFUND"
      BY <2>1, <3>1 DEF ChooseAction, CallState, ActionFor
    <3>4. /\ \A d \in Calls \ {c} : call'[d] = call[d]
          /\ UNCHANGED <<bookingVars, paymentVars, providerVars, funding>>
      BY <2>1 DEF ChooseAction
    <3>5. booking[b] # "NONE"
      BY <2>1 DEF ChooseAction
    <3> HIDE DEF b
    <3> QED BY <3>1, <3>2, <3>3, <3>4, <3>5
  <2>2. CASE Void(c)
    BY <2>2 DEF Void, Voidable, CallState
  <2>3. CASE AdvanceRefund(c)
    BY <2>3 DEF AdvanceRefund, CallState
  <2>4. CASE CommitTerminate(c)
    BY <2>4 DEF CommitTerminate, TargetStatus, CallState, Idle
  <2>5. CASE FailTerminate(c)
    BY <2>5 DEF FailTerminate, Idle
  <2> QED BY <1>5, <2>1, <2>2, <2>3, <2>4, <2>5 DEF CallProceeds
<1>6. ASSUME Crash PROVE Prepared'
  BY <1>6 DEF Crash, Idle
<1>7. ASSUME UNCHANGED vars PROVE Prepared'
  BY <1>7 DEF vars
<1> QED BY <1>1, <1>2, <1>3, <1>4, <1>5, <1>6, <1>7 DEF Next

\* A termination of bookingFinancialTermination.service.ts is never stuck: the
\* provider does not refuse its refund; where it refuses a void, the next attempt
\* asks for none but refunds what was captured, unless the Payment was closed
\* meanwhile; and a transaction that no longer matches finds the booking over.
TerminationProceeds ==
    \A c \in Calls : LET b == call[c].booking IN
        /\ call[c].step = "refund" => provider[b] = "CAPTURED"
        /\ call[c].step = "void" /\ ~Voidable(b) =>
              ActionFor(b) = IF payment[b] \in Closed THEN "NONE" ELSE "REFUND"
        /\ call[c].step = "commit" /\ ~StillTerminable(b) =>
              booking[b] \in Terminated \cup {"COMPLETED"}

\* The safety half of RequestEnds: whatever a termination meets, an attempt at it
\* completes or leaves a booking of which the next attempt does.
THEOREM TerminationsProceed == Spec => []TerminationProceeds
<1>1. Init => Prepared
  BY DEF Init, Prepared, Idle
<1>2. TypeOK /\ Consistent /\ Prepared /\ [Next]_vars => Prepared'
  BY PreparedKept
<1>3. TypeOK /\ Consistent /\ Prepared => TerminationProceeds
  <2> SUFFICES ASSUME TypeOK, Consistent, Prepared, NEW c \in Calls, call[c].step # "idle"
               PROVE  LET b == call[c].booking IN
                        /\ call[c].step = "refund" => provider[b] = "CAPTURED"
                        /\ call[c].step = "void" /\ ~Voidable(b) =>
                              ActionFor(b) = IF payment[b] \in Closed THEN "NONE" ELSE "REFUND"
                        /\ call[c].step = "commit" /\ ~StillTerminable(b) =>
                              booking[b] \in Terminated \cup {"COMPLETED"}
    BY DEF TerminationProceeds
  <2>1. call[c].booking \in Bookings
    BY DEF TypeOK, CallState, Idle
  <2>2. call[c].step = "refund" => provider[call[c].booking] = "CAPTURED"
    BY DEF Prepared
  <2>3. ASSUME call[c].step = "void", ~Voidable(call[c].booking)
        PROVE  linked[call[c].booking] /\ provider[call[c].booking] = "CAPTURED"
    BY <2>1, <2>3 DEF Prepared, TypeOK, Voidable
  <2>4. call[c].step = "void" /\ ~Voidable(call[c].booking) =>
          ActionFor(call[c].booking) =
             IF payment[call[c].booking] \in Closed THEN "NONE" ELSE "REFUND"
    BY <2>3 DEF ActionFor, Closed
  <2>5. call[c].step = "commit" /\ ~StillTerminable(call[c].booking) =>
          booking[call[c].booking] \in Terminated \cup {"COMPLETED"}
    BY <2>1 DEF Prepared, TypeOK, StillTerminable, Live, Terminated
  <2> QED BY <2>2, <2>4, <2>5
<1> QED BY <1>1, <1>2, <1>3, AlwaysConsistent, ProviderTypes, PTL DEF Spec

\* A closed Payment never opens again, and a booking that has ended stays as it
\* ended: the only steps that write them require a live booking, whose Payment
\* is not closed.
THEOREM ClosedStaysClosed == Spec => ClosedIsFinal
<1> DEFINE Final ==
      \A b \in Bookings :
          /\ payment[b] \in {"CANCELLED", "REFUNDED"} => payment'[b] = payment[b]
          /\ booking[b] \in Terminated \cup {"COMPLETED"} => booking'[b] = booking[b]
<1>1. TypeOK /\ Consistent /\ [Next]_vars => Final
  <2> SUFFICES ASSUME TypeOK, Consistent, [Next]_vars PROVE Final
    OBVIOUS
  <2> USE DEF TypeOK, bookingVars, paymentVars, providerVars, FundingStep, CallTo
  <2>1. ASSUME NEW b \in Bookings, RequestBooking(b) PROVE Final
    BY <2>1 DEF RequestBooking, Consistent, TerminatedClosesPayment, Terminated
  <2>2. ASSUME NEW b \in Bookings, Funding(b) PROVE Final
    BY <2>2 DEF Funding, CreatePaymentSession, InitializePayment, AuthorizeAtProvider,
       CaptureAtProvider, RecordCapture, RecordsCapture, MarkPayable, FundingEnds
  <2>3. ASSUME NEW b \in Bookings,
               Lapse(b) \/ BeginAccept(b) \/ CommitAccept(b) \/ AbortAccept(b) \/ Complete(b)
        PROVE Final
    BY <2>3 DEF Lapse, BeginAccept, CommitAccept, AbortAccept, Complete, Terminated
  <2>4. ASSUME NEW c \in Calls, NEW b \in Bookings, NEW type \in TerminationTypes,
               BeginTerminate(c, b, type)
        PROVE Final
    BY <2>4 DEF BeginTerminate
  <2>5. ASSUME NEW c \in Calls, CallProceeds(c) PROVE Final
    <3>1. CASE CommitTerminate(c)
      <4>1. /\ booking[call[c].booking] \in Live
            /\ \A b \in Bookings \ {call[c].booking} :
                  payment'[b] = payment[b] /\ booking'[b] = booking[b]
        BY <3>1 DEF CommitTerminate, StillTerminable, Live
      <4> QED BY <4>1 DEF Consistent, TerminatedClosesPayment, Terminated, Live
    <3>2. CASE ~CommitTerminate(c)
      BY <2>5, <3>2 DEF CallProceeds, ChooseAction, Void, AdvanceRefund, FailTerminate
    <3> QED BY <3>1, <3>2
  <2>6. CASE Crash
    BY <2>6 DEF Crash
  <2>7. CASE UNCHANGED vars
    BY <2>7 DEF vars
  <2> QED BY <2>1, <2>2, <2>3, <2>4, <2>5, <2>6, <2>7 DEF Next
<1> QED BY <1>1, ConsistentInit, ConsistentNext, ProviderTypes, PTL DEF Spec, ClosedIsFinal

-----------------------------------------------------------------------------
(* The dispute.  A transaction that decides still sees the dispute as it is, *)
(* because every write in between turns its snapshot into a conflict, and    *)
(* once it has saved, the others wait or start over.                         *)

\* At most one transaction holds the dispute, and a decision being taken may
\* still be taken.
Holds ==
    /\ \A a \in Admins : request[a].step \in {"deciding", "committing"} => MayDecide(request[a].how)
    /\ \A a, b \in Admins :
          request[a].step = "committing" /\ request[b].step = "committing" => a = b

\* An input is only changed of a dispute that exists.
SetsExisting == \A a \in Admins : request[a].step = "setting" => dispute.status # "NONE"

Safe == CaseTypeOK /\ OneDecision /\ Holds /\ SetsExisting

-----------------------------------------------------------------------------
(* Lemmas *)

\* The kinds of callers are different.
LEMMA Apart ==
  /\ Admins \subseteq Callers /\ Roles \subseteq Callers /\ Authors \subseteq Callers
  /\ "JOB" \in Callers /\ Nobody \notin Admins
  /\ \A a \in Admins : a \notin Roles /\ a # "JOB"
  BY CaseAssumption DEF Callers, Authors, Roles

\* What a call carries at each step.
LEMMA CallFields ==
  ASSUME CaseTypeOK, NEW c \in Callers
  PROVE  /\ request[c].step \in {"reading", "deciding", "conflict", "committing"} =>
              /\ request[c].how \in Decisions
              /\ request[c] = [step |-> request[c].step, how |-> request[c].how]
         /\ request[c].step = "setting" => request[c].role \in Roles /\ request[c].state \in InputStates
         /\ request[c].step = "adding" => request[c].item \in Items
         /\ request[c].step = "escalating" => request[c].level \in Levels
  BY DEF CaseTypeOK, RequestState, AtRest

\* Moving one call.
LEMMA GotoEffect ==
  ASSUME CaseTypeOK, NEW c \in Callers, NEW state \in RequestState, Goto(c, state)
  PROVE  /\ request' \in [Callers -> RequestState]
         /\ request'[c] = state
         /\ \A d \in Callers \ {c} : request'[d] = request[d]
  BY DEF CaseTypeOK, Goto

\* Writing the dispute: no snapshot stays open, the other calls stay where they are.
LEMMA WrittenEffect ==
  ASSUME CaseTypeOK, NEW c \in Callers, request' = Written(c, AtRest)
  PROVE  /\ request' \in [Callers -> RequestState]
         /\ request'[c] = AtRest
         /\ \A d \in Callers :
              /\ request'[d].step # "deciding"
              /\ request'[d].step \in {"setting", "committing"} => d # c /\ request'[d] = request[d]
<1>1. AtRest \in RequestState /\ AtRest.step = "idle"
  BY DEF RequestState, AtRest
<1>2. ASSUME NEW d \in Callers
      PROVE  /\ request'[d] \in RequestState
             /\ request'[d].step # "deciding"
             /\ request'[d].step \in {"setting", "committing"} => d # c /\ request'[d] = request[d]
  <2>1. CASE d = c
    BY <1>1, <2>1 DEF Written
  <2>2. CASE d # c /\ request[d].step = "deciding"
    <3>1. /\ request[d].how \in Decisions
          /\ request[d] = [step |-> "deciding", how |-> request[d].how]
      BY <2>2, CallFields
    <3>2. request'[d] = [step |-> "conflict", how |-> request[d].how]
      BY <2>2, <3>1 DEF Written
    <3> QED BY <3>1, <3>2 DEF RequestState
  <2>3. CASE d # c /\ request[d].step # "deciding"
    BY <2>3 DEF Written, CaseTypeOK
  <2> QED BY <2>1, <2>2, <2>3
<1> QED BY <1>1, <1>2 DEF Written

\* The states a deciding call moves to.
LEMMA DecisionStates ==
  ASSUME CaseTypeOK, NEW a \in Admins,
         request[a].step \in {"reading", "deciding", "conflict", "committing"}
  PROVE  /\ AtRest \in RequestState
         /\ \A s \in {"reading", "deciding", "conflict", "committing"} :
              /\ [request[a] EXCEPT !.step = s] \in RequestState
              /\ [request[a] EXCEPT !.step = s].step = s
              /\ [request[a] EXCEPT !.step = s].how = request[a].how
         /\ Retried(a) \in RequestState
         /\ Retried(a).step \in {"idle", "reading"}
<1>1. /\ request[a].how \in Decisions
      /\ request[a] = [step |-> request[a].step, how |-> request[a].how]
  BY Apart, CallFields
<1>2. ASSUME NEW s \in {"reading", "deciding", "conflict", "committing"}
      PROVE  [request[a] EXCEPT !.step = s] = [step |-> s, how |-> request[a].how]
  BY <1>1
<1> QED BY <1>1, <1>2 DEF RequestState, Retried, AtRest

-----------------------------------------------------------------------------
(* Steps that only move one call, and may add to the file *)

\* Such a step keeps everything, provided what the call goes to is justified.
LEMMA MoveKeeps ==
  ASSUME Safe, NEW c \in Callers, NEW state \in RequestState, Goto(c, state),
         dispute' = dispute, window' \in {"BEFORE", "OPEN", "OVER"}, file' \subseteq Items,
         state.step \in {"deciding", "committing"} => c \in Admins /\ MayDecide(state.how),
         state.step = "committing" => ~Held,
         state.step = "setting" => dispute.status # "NONE"
  PROVE  Safe'
<1>1. /\ request' \in [Callers -> RequestState]
      /\ request'[c] = state
      /\ \A d \in Callers \ {c} : request'[d] = request[d]
  BY GotoEffect DEF Safe
<1>2. CaseTypeOK'
  BY <1>1 DEF Safe, CaseTypeOK
<1>3. OneDecision'
  BY DEF Safe, OneDecision
<1>4. Holds'
  <2>1. ASSUME NEW a \in Admins, request'[a].step \in {"deciding", "committing"}
        PROVE  MayDecide(request[a].how)'
    <3>1. MayDecide(request'[a].how)
      <4>1. CASE a = c
        BY <1>1, <2>1, <4>1
      <4>2. CASE a # c
        BY <1>1, <2>1, <4>2, Apart DEF Safe, Holds
      <4> QED BY <4>1, <4>2
    <3> QED BY <3>1 DEF MayDecide, IsOpen
  <2>2. ASSUME NEW a \in Admins, NEW b \in Admins,
               request'[a].step = "committing", request'[b].step = "committing"
        PROVE  a = b
    <3>1. CASE state.step = "committing"
      BY <1>1, <2>2, <3>1, Apart DEF Held
    <3>2. CASE state.step # "committing"
      BY <1>1, <2>2, <3>2, Apart DEF Safe, Holds
    <3> QED BY <3>1, <3>2
  <2> QED BY <2>1, <2>2 DEF Holds
<1>5. SetsExisting'
  BY <1>1, Apart DEF Safe, SetsExisting
<1> QED BY <1>2, <1>3, <1>4, <1>5 DEF Safe

\* A write of the dispute that is no decision: nobody holds it, and afterwards
\* no snapshot is open.
LEMMA WriteKeeps ==
  ASSUME Safe, NEW c \in Callers, ~Held, request' = Written(c, AtRest), window' = window, file' = file,
         NEW d \in [status : {"NONE", "OPEN", "RESOLVED", "REJECTED"},
                    input : [Roles -> InputStates], level : Levels,
                    finalDecision : Admins \cup {Nobody}, resolution : Admins \cup {Nobody}],
         dispute' = d,
         d.status = dispute.status,
         d.finalDecision = dispute.finalDecision, d.resolution = dispute.resolution
  PROVE  Safe'
<1>1. /\ request' \in [Callers -> RequestState]
      /\ \A e \in Callers :
           /\ request'[e].step # "deciding"
           /\ request'[e].step \in {"setting", "committing"} => request'[e] = request[e]
  BY WrittenEffect DEF Safe
<1>2. CaseTypeOK'
  BY <1>1 DEF Safe, CaseTypeOK
<1>3. OneDecision'
  BY DEF Safe, OneDecision
<1>4. \A a \in Admins : request'[a].step \notin {"deciding", "committing"}
  BY <1>1, Apart DEF Held
<1>5. SetsExisting'
  BY <1>1, Apart DEF Safe, SetsExisting
<1> QED BY <1>2, <1>3, <1>4, <1>5 DEF Safe, Holds

-----------------------------------------------------------------------------
(* The inductive invariant *)

LEMMA SafeInit == CaseInit => Safe
  BY Apart DEF CaseInit, Safe, CaseTypeOK, OneDecision, Holds, SetsExisting, RequestState, AtRest,
     Roles, Levels, InputStates

\* The decision itself.
LEMMA CommitKeeps ==
  ASSUME Safe, NEW a \in Admins, CommitDecision(a)
  PROVE  Safe'
<1> USE DEF Safe
<1>0. a \in Callers /\ a # Nobody
  BY Apart
<1>1. /\ IsOpen /\ request[a].how \in Decisions
      /\ dispute.finalDecision = Nobody /\ dispute.resolution = Nobody
  BY <1>0, CallFields DEF CommitDecision, Holds, MayDecide, OneDecision, IsOpen
<1>2. /\ request' \in [Callers -> RequestState]
      /\ \A e \in Callers :
           /\ request'[e].step # "deciding"
           /\ request'[e].step \in {"setting", "committing"} => e # a /\ request'[e] = request[e]
  BY <1>0, WrittenEffect DEF CommitDecision
<1>3. CaseTypeOK' /\ OneDecision' /\ dispute'.status \in {"RESOLVED", "REJECTED"}
  <2>1. CASE request[a].how = "finalize"
    BY <1>0, <1>1, <1>2, <2>1 DEF CommitDecision, Decided, CaseTypeOK, OneDecision
  <2>2. CASE request[a].how = "resolve"
    BY <1>0, <1>1, <1>2, <2>2 DEF CommitDecision, Decided, CaseTypeOK, OneDecision
  <2> QED BY <1>1, <2>1, <2>2 DEF Decisions
<1>4. \A b \in Admins : request'[b].step \notin {"deciding", "committing"}
  BY <1>2, Apart DEF CommitDecision, Holds
<1> QED BY <1>3, <1>4 DEF Holds, SetsExisting

\* The creation of the dispute: no decision can be under way before it.
LEMMA CreateKeeps ==
  ASSUME Safe, NEW p \in Roles, CreateDispute(p)
  PROVE  Safe'
<1>0. p \in Callers /\ p \notin Admins /\ AtRest \in RequestState /\ AtRest.step = "idle"
  BY Apart DEF RequestState, AtRest
<1>1. CASE dispute.status # "NONE"
  BY <1>0, <1>1, MoveKeeps DEF CreateDispute, End, Safe, CaseTypeOK
<1>2. CASE dispute.status = "NONE"
  <2> USE DEF Safe
  <2>1. /\ request' \in [Callers -> RequestState]
        /\ \A d \in Callers \ {p} : request'[d] = request[d]
    BY <1>0, GotoEffect DEF CreateDispute, End
  <2>2. dispute' = [dispute EXCEPT !.status = "OPEN", !.input = [r \in Roles |-> "OPEN"]]
    BY <1>2 DEF CreateDispute
  <2>3. CaseTypeOK'
    <3>1. [r \in Roles |-> "OPEN"] \in [Roles -> InputStates]
      BY DEF InputStates
    <3>2. dispute' \in [status : {"NONE", "OPEN", "RESOLVED", "REJECTED"},
                        input : [Roles -> InputStates], level : Levels,
                        finalDecision : Admins \cup {Nobody}, resolution : Admins \cup {Nobody}]
      BY <2>2, <3>1 DEF CaseTypeOK
    <3> QED BY <2>1, <3>2 DEF CreateDispute, CaseTypeOK
  <2>4. OneDecision'
    BY <1>2, <2>2 DEF OneDecision, CaseTypeOK
  <2>5. \A a \in Admins : request'[a].step \notin {"deciding", "committing"}
    BY <1>0, <1>2, <2>1, Apart DEF Holds, MayDecide, IsOpen
  <2>6. dispute'.status = "OPEN"
    BY <2>2 DEF CaseTypeOK
  <2> QED BY <2>3, <2>4, <2>5, <2>6 DEF Holds, SetsExisting
<1> QED BY <1>1, <1>2

LEMMA SafeNext == Safe /\ [CaseNext]_caseVars => Safe'
<1> SUFFICES ASSUME Safe, [CaseNext]_caseVars PROVE Safe'
  OBVIOUS
<1>0. /\ CaseTypeOK /\ AtRest \in RequestState /\ AtRest.step = "idle"
      /\ window \in {"BEFORE", "OPEN", "OVER"} /\ file \subseteq Items
  BY DEF Safe, CaseTypeOK, RequestState, AtRest
<1>1. ASSUME WindowMoves PROVE Safe'
  BY <1>1 DEF WindowMoves, Safe, CaseTypeOK, OneDecision, Holds, SetsExisting, MayDecide, IsOpen
<1>2. ASSUME SaveEscalation PROVE Safe'
  <2>1. request["JOB"].level \in Levels
    BY <1>0, <1>2, Apart, CallFields DEF SaveEscalation
  <2> DEFINE d == [dispute EXCEPT !.level = request["JOB"].level]
  <2>2. /\ d \in [status : {"NONE", "OPEN", "RESOLVED", "REJECTED"},
                  input : [Roles -> InputStates], level : Levels,
                  finalDecision : Admins \cup {Nobody}, resolution : Admins \cup {Nobody}]
        /\ d.status = dispute.status
        /\ d.finalDecision = dispute.finalDecision /\ d.resolution = dispute.resolution
    BY <1>0, <2>1 DEF CaseTypeOK
  <2> HIDE DEF d
  <2>3. dispute' = d
    BY <1>2 DEF SaveEscalation, d
  <2> QED BY <1>2, <2>2, <2>3, Apart, WriteKeeps DEF SaveEscalation
<1>3. ASSUME NEW level \in Levels, BeginEscalation(level) PROVE Safe'
  <2> DEFINE s == [step |-> "escalating", level |-> level]
  <2>1. s \in RequestState /\ s.step = "escalating"
    BY DEF RequestState
  <2> QED BY <1>0, <1>3, <2>1, Apart, MoveKeeps DEF BeginEscalation, Begin
<1>4. ASSUME NEW c \in Callers, Lost(c) PROVE Safe'
  BY <1>0, <1>4, MoveKeeps DEF Lost, End
<1>5. ASSUME NEW p \in Roles, BeginOpen(p) PROVE Safe'
  <2> DEFINE s == [step |-> "opening"]
  <2>1. s \in RequestState /\ s.step = "opening"
    BY DEF RequestState
  <2> QED BY <1>0, <1>5, <2>1, Apart, MoveKeeps DEF BeginOpen, Begin
<1>6. ASSUME NEW p \in Roles, CreateDispute(p) PROVE Safe'
  BY <1>6, CreateKeeps
<1>7. ASSUME NEW c \in Authors, NEW item \in Items, BeginItem(c, item) PROVE Safe'
  <2> DEFINE s == [step |-> "adding", item |-> item]
  <2>1. s \in RequestState /\ s.step = "adding"
    BY DEF RequestState
  <2> QED BY <1>0, <1>7, <2>1, Apart, MoveKeeps DEF BeginItem, Begin
<1>8. ASSUME NEW c \in Authors, AddItem(c) PROVE Safe'
  <2>1. file' \subseteq Items
    BY <1>0, <1>8, Apart, CallFields DEF AddItem
  <2> QED BY <1>0, <1>8, <2>1, Apart, MoveKeeps DEF AddItem, End
<1>9. ASSUME NEW a \in Admins, NEW r \in Roles, NEW state \in InputStates,
             BeginSetInput(a, r, state)
      PROVE  Safe'
  <2> DEFINE s == [step |-> "setting", role |-> r, state |-> state]
  <2>1. s \in RequestState /\ s.step = "setting"
    BY DEF RequestState
  <2>2. dispute.status # "NONE"
    BY <1>9 DEF BeginSetInput, InputMayChange, IsOpen
  <2> QED BY <1>0, <1>9, <2>1, <2>2, Apart, MoveKeeps DEF BeginSetInput, Begin
<1>10. ASSUME NEW a \in Admins, NEW how \in Decisions, BeginDecision(a, how) PROVE Safe'
  <2> DEFINE s == [step |-> "reading", how |-> how]
  <2>1. s \in RequestState /\ s.step = "reading"
    BY DEF RequestState
  <2> QED BY <1>0, <1>10, <2>1, Apart, MoveKeeps DEF BeginDecision, Begin
<1>11. ASSUME NEW a \in Admins, SaveInput(a) PROVE Safe'
  <2>1. request[a].role \in Roles /\ request[a].state \in InputStates
    BY <1>0, <1>11, Apart, CallFields DEF SaveInput
  <2> DEFINE d == [dispute EXCEPT !.input[request[a].role] = request[a].state]
  <2>2. /\ d \in [status : {"NONE", "OPEN", "RESOLVED", "REJECTED"},
                  input : [Roles -> InputStates], level : Levels,
                  finalDecision : Admins \cup {Nobody}, resolution : Admins \cup {Nobody}]
        /\ d.status = dispute.status
        /\ d.finalDecision = dispute.finalDecision /\ d.resolution = dispute.resolution
    BY <1>0, <2>1 DEF CaseTypeOK
  <2> HIDE DEF d
  <2>3. dispute' = d
    BY <1>11 DEF SaveInput, InputSaved, d
  <2> QED BY <1>11, <2>2, <2>3, Apart, WriteKeeps DEF SaveInput
<1>12. ASSUME NEW a \in Admins, ReadDecision(a) PROVE Safe'
  <2> DEFINE s == [request[a] EXCEPT !.step = "deciding"]
  <2>1. /\ s \in RequestState /\ s.step = "deciding" /\ s.how = request[a].how
    BY <1>0, <1>12, DecisionStates DEF ReadDecision
  <2> HIDE DEF s
  <2>2. CASE MayDecide(request[a].how)
    <3>1. Goto(a, s)
      BY <1>12, <2>2 DEF ReadDecision, s
    <3> QED BY <1>0, <1>12, <2>1, <2>2, <3>1, Apart, MoveKeeps DEF ReadDecision
  <2>3. CASE ~MayDecide(request[a].how)
    BY <1>0, <1>12, <2>3, Apart, MoveKeeps DEF ReadDecision, End
  <2> QED BY <2>2, <2>3
<1>13. ASSUME NEW a \in Admins, SaveDecision(a) PROVE Safe'
  <2> DEFINE s == [request[a] EXCEPT !.step = "committing"]
  <2>1. /\ s \in RequestState /\ s.step = "committing" /\ s.how = request[a].how
        /\ Retried(a) \in RequestState /\ Retried(a).step \in {"idle", "reading"}
    BY <1>0, <1>13, DecisionStates DEF SaveDecision
  <2> HIDE DEF s
  <2>2. CASE request[a].step = "deciding" /\ ~Held /\ Goto(a, s)
    <3>1. MayDecide(request[a].how)
      BY <2>2 DEF Safe, Holds
    <3> QED BY <1>0, <1>13, <2>1, <2>2, <3>1, Apart, MoveKeeps DEF SaveDecision
  <2>3. CASE Goto(a, Retried(a))
    BY <1>0, <1>13, <2>1, <2>3, Apart, MoveKeeps DEF SaveDecision
  <2> QED BY <1>13, <2>2, <2>3 DEF SaveDecision, s
<1>14. ASSUME NEW a \in Admins, CommitDecision(a) PROVE Safe'
  BY <1>14, CommitKeeps
<1>15. ASSUME NEW a \in Admins, AbortDecision(a) PROVE Safe'
  <2>1. Retried(a) \in RequestState /\ Retried(a).step \in {"idle", "reading"}
    BY <1>0, <1>15, DecisionStates DEF AbortDecision
  <2> QED BY <1>0, <1>15, <2>1, Apart, MoveKeeps DEF AbortDecision
<1>16. ASSUME UNCHANGED caseVars PROVE Safe'
  BY <1>16 DEF caseVars, Safe, CaseTypeOK, OneDecision, Holds, SetsExisting, MayDecide, IsOpen
<1> QED
  BY <1>1, <1>2, <1>3, <1>4, <1>5, <1>6, <1>7, <1>8, <1>9, <1>10, <1>11, <1>12, <1>13,
     <1>14, <1>15, <1>16 DEF CaseNext, Decide

LEMMA AlwaysSafe == CaseSpec => []Safe
  BY SafeInit, SafeNext, PTL DEF CaseSpec

-----------------------------------------------------------------------------
(* Theorems *)

\* Dispute, case file and requests keep their types.
THEOREM CaseTypes == CaseSpec => []CaseTypeOK
<1>1. Safe => CaseTypeOK
  BY DEF Safe
<1> QED BY <1>1, AlwaysSafe, PTL

\* However finalizations and resolutions overlap, a dispute carries the one
\* decision its status tells.
THEOREM DecidedOnce == CaseSpec => []OneDecision
<1>1. Safe => OneDecision
  BY DEF Safe
<1> QED BY <1>1, AlwaysSafe, PTL

-----------------------------------------------------------------------------
(* A decided dispute comes to rest *)

\* The requests that have read the dispute and still have a write to make.
LateWriters == {c \in Callers : request[c].step \in {"adding", "setting", "escalating"}}

\* Once the dispute is decided nobody joins those who may still write, and who
\* writes leaves them: dispute and file change at most once more per request.
RestApproaches ==
    [][dispute.status \in {"RESOLVED", "REJECTED"} =>
          /\ LateWriters' \subseteq LateWriters
          /\ UNCHANGED <<dispute, file>> \/ LateWriters' # LateWriters]_caseVars

\* A request that moves without writing joins no late writers.
LEMMA MoveToRest ==
  ASSUME CaseTypeOK, NEW c \in Callers, NEW state \in RequestState, Goto(c, state),
         state.step \notin {"adding", "setting", "escalating"}
  PROVE  /\ LateWriters' \subseteq LateWriters
         /\ c \in LateWriters => LateWriters' # LateWriters
  BY GotoEffect DEF LateWriters

\* A write is its request's last, and moves nobody else to a write.
LEMMA WriteToRest ==
  ASSUME CaseTypeOK, NEW c \in Callers, request' = Written(c, AtRest)
  PROVE  /\ LateWriters' \subseteq LateWriters
         /\ c \in LateWriters => LateWriters' # LateWriters
<1>1. ASSUME NEW d \in Callers, request'[d].step \in {"adding", "setting", "escalating"}
      PROVE  d # c /\ request[d].step = request'[d].step
  <2>1. CASE d = c
    BY <1>1, <2>1 DEF Written, AtRest
  <2>2. CASE d # c /\ request[d].step = "deciding"
    <3>1. request[d] = [step |-> "deciding", how |-> request[d].how]
      BY <2>2, CallFields
    <3>2. request'[d] = [step |-> "conflict", how |-> request[d].how]
      BY <2>2, <3>1 DEF Written
    <3> QED BY <1>1, <3>2
  <2>3. CASE d # c /\ request[d].step # "deciding"
    BY <2>3 DEF Written
  <2> QED BY <2>1, <2>2, <2>3
<1> QED BY <1>1 DEF LateWriters

\* The safety half of DecidedComesToRest, for any number of administrators'
\* requests and kinds of items.
THEOREM RestIsApproached == CaseSpec => RestApproaches
<1> DEFINE Rest == /\ LateWriters' \subseteq LateWriters
                   /\ UNCHANGED <<dispute, file>> \/ LateWriters' # LateWriters
<1>1. Safe /\ dispute.status \in {"RESOLVED", "REJECTED"} /\ [CaseNext]_caseVars => Rest
  <2> SUFFICES ASSUME Safe, dispute.status \in {"RESOLVED", "REJECTED"}, [CaseNext]_caseVars
               PROVE  Rest
    OBVIOUS
  <2>0. /\ CaseTypeOK /\ AtRest \in RequestState /\ AtRest.step = "idle" /\ ~IsOpen
        /\ dispute.status # "NONE"
    BY DEF Safe, RequestState, AtRest, IsOpen
  <2>1. ASSUME NEW c \in Callers, End(c), UNCHANGED <<dispute, file>> PROVE Rest
    BY <2>0, <2>1, MoveToRest DEF End
  <2>2. ASSUME UNCHANGED <<dispute, file, request>> PROVE Rest
    BY <2>2 DEF LateWriters
  <2>3. ASSUME NEW c \in Callers, request' = Written(c, AtRest), c \in LateWriters PROVE Rest
    BY <2>0, <2>3, WriteToRest
  <2>4. ASSUME WindowMoves PROVE Rest
    BY <2>2, <2>4 DEF WindowMoves
  <2>5. ASSUME SaveEscalation PROVE Rest
    BY <2>3, <2>5, Apart DEF SaveEscalation, LateWriters
  <2>6. ASSUME NEW level \in Levels, BeginEscalation(level) PROVE Rest
    BY <2>0, <2>6 DEF BeginEscalation
  <2>7. ASSUME NEW c \in Callers, Lost(c) PROVE Rest
    BY <2>1, <2>7 DEF Lost
  <2>8. ASSUME NEW p \in Roles, BeginOpen(p) \/ CreateDispute(p) PROVE Rest
    BY <2>0, <2>1, <2>8, Apart DEF BeginOpen, CreateDispute
  <2>9. ASSUME NEW c \in Authors, NEW item \in Items, BeginItem(c, item) PROVE Rest
    BY <2>0, <2>9 DEF BeginItem, MayAdd
  <2>10. ASSUME NEW c \in Authors, AddItem(c) PROVE Rest
    <3>1. c \in Callers /\ c \in LateWriters
      BY <2>10, Apart DEF AddItem, LateWriters
    <3> QED BY <2>0, <2>10, <3>1, MoveToRest DEF AddItem, End
  <2>11. ASSUME NEW a \in Admins, NEW r \in Roles, NEW state \in InputStates,
                BeginSetInput(a, r, state)
         PROVE  Rest
    BY <2>0, <2>11 DEF BeginSetInput, InputMayChange
  <2>12. ASSUME NEW a \in Admins, NEW how \in Decisions, BeginDecision(a, how) PROVE Rest
    <3> DEFINE s == [step |-> "reading", how |-> how]
    <3>1. s \in RequestState /\ s.step = "reading"
      BY DEF RequestState
    <3> QED BY <2>0, <2>12, <3>1, Apart, MoveToRest DEF BeginDecision, Begin
  <2>13. ASSUME NEW a \in Admins, SaveInput(a) PROVE Rest
    BY <2>3, <2>13, Apart DEF SaveInput, LateWriters
  <2>14. ASSUME NEW a \in Admins, ReadDecision(a) PROVE Rest
    BY <2>0, <2>1, <2>14, Apart DEF ReadDecision, MayDecide
  <2>15. ASSUME NEW a \in Admins, SaveDecision(a) PROVE Rest
    <3> DEFINE s == [request[a] EXCEPT !.step = "committing"]
    <3>1. /\ s \in RequestState /\ s.step = "committing"
          /\ Retried(a) \in RequestState /\ Retried(a).step \in {"idle", "reading"}
      BY <2>0, <2>15, DecisionStates DEF SaveDecision
    <3>2. PICK state \in {s, Retried(a)} : Goto(a, state)
      BY <2>15 DEF SaveDecision
    <3>3. state \in RequestState /\ state.step \notin {"adding", "setting", "escalating"}
      BY <3>1, <3>2
    <3>4. LateWriters' \subseteq LateWriters
      BY <2>0, <3>2, <3>3, Apart, MoveToRest
    <3> QED BY <2>15, <3>4 DEF SaveDecision
  <2>16. ASSUME NEW a \in Admins, CommitDecision(a) PROVE Rest
    BY <2>0, <2>16 DEF CommitDecision, Safe, Holds, MayDecide
  <2>17. ASSUME NEW a \in Admins, AbortDecision(a) PROVE Rest
    BY <2>0, <2>17 DEF AbortDecision, Safe, Holds, MayDecide
  <2>18. ASSUME UNCHANGED caseVars PROVE Rest
    BY <2>2, <2>18 DEF caseVars
  <2> QED BY <2>4, <2>5, <2>6, <2>7, <2>8, <2>9, <2>10, <2>11, <2>12, <2>13, <2>14, <2>15,
             <2>16, <2>17, <2>18 DEF CaseNext, Decide
<1> QED BY <1>1, AlwaysSafe, PTL DEF CaseSpec, RestApproaches

-----------------------------------------------------------------------------
(* The refinement *)

\* The mapped variables do not change while the dispute does not.
LEMMA Unmoved == dispute' = dispute => UNCHANGED Outcome!vars
  BY DEF Outcome!vars

LEMMA OutcomeInit == CaseInit => Outcome!Init
  BY DEF CaseInit, Outcome!Init

LEMMA OutcomeStep == Safe /\ [CaseNext]_caseVars => [Outcome!Next]_(Outcome!vars)
<1> SUFFICES ASSUME Safe, [CaseNext]_caseVars, dispute' # dispute, ~ UNCHANGED Outcome!vars
             PROVE  Outcome!Next
  BY Unmoved
<1>0. CaseTypeOK
  BY DEF Safe
<1>1. ASSUME NEW p \in Roles, CreateDispute(p) PROVE Outcome!Next
  <2>1. /\ dispute.status = "NONE"
        /\ dispute' = [dispute EXCEPT !.status = "OPEN", !.input = [r \in Roles |-> "OPEN"]]
    BY <1>1 DEF CreateDispute
  <2>2. /\ dispute'.status = "OPEN" /\ \A r \in Roles : dispute'.input[r] = "OPEN"
        /\ dispute'.finalDecision = dispute.finalDecision
        /\ dispute'.resolution = dispute.resolution
    BY <1>0, <2>1 DEF CaseTypeOK
  <2>3. Outcome!Open
    BY <2>1, <2>2 DEF Outcome!Open
  <2> QED BY <2>3 DEF Outcome!Next
<1>2. ASSUME dispute.status # "NONE", dispute'.status = dispute.status,
             dispute'.finalDecision = dispute.finalDecision,
             dispute'.resolution = dispute.resolution
      PROVE  Outcome!Next
  BY <1>2 DEF Outcome!Next, Outcome!Adjust
<1>3. ASSUME NEW a \in Admins, SaveInput(a) PROVE Outcome!Next
  <2>1. dispute.status # "NONE"
    BY <1>3 DEF SaveInput, Safe, SetsExisting
  <2>2. /\ dispute'.status = dispute.status
        /\ dispute'.finalDecision = dispute.finalDecision
        /\ dispute'.resolution = dispute.resolution
    BY <1>0, <1>3 DEF SaveInput, InputSaved, CaseTypeOK
  <2> QED BY <1>2, <2>1, <2>2
<1>4. ASSUME SaveEscalation PROVE Outcome!Next
  <2>1. /\ dispute'.status = dispute.status
        /\ dispute'.input = dispute.input
        /\ dispute'.finalDecision = dispute.finalDecision
        /\ dispute'.resolution = dispute.resolution
    BY <1>0, <1>4 DEF SaveEscalation, CaseTypeOK
  <2>2. UNCHANGED Outcome!vars
    BY <2>1 DEF Outcome!vars
  <2> QED BY <2>2
<1>5. ASSUME NEW a \in Admins, CommitDecision(a) PROVE Outcome!Next
  <2>1. /\ a # Nobody /\ request[a].how \in Decisions
        /\ IsOpen /\ MayDecide(request[a].how)
        /\ dispute.finalDecision = Nobody /\ dispute.resolution = Nobody
    BY <1>0, <1>5, Apart, CallFields
       DEF CommitDecision, Safe, Holds, MayDecide, OneDecision, IsOpen
  <2>2. CASE request[a].how = "finalize"
    <3>1. dispute' = [dispute EXCEPT !.status = "RESOLVED", !.finalDecision = a]
      BY <1>5, <2>2 DEF CommitDecision, Decided
    <3>2. /\ dispute'.status = "RESOLVED" /\ dispute'.finalDecision = a
          /\ dispute'.input = dispute.input
      BY <1>0, <3>1 DEF CaseTypeOK
    <3>3. Outcome!Finalize(a)
      BY <2>1, <2>2, <3>2 DEF Outcome!Finalize, MayDecide, IsOpen
    <3> QED BY <3>3 DEF Outcome!Next
  <2>3. CASE request[a].how = "resolve"
    <3>1. dispute' = [dispute EXCEPT !.status = "REJECTED", !.resolution = a]
      BY <1>5, <2>3 DEF CommitDecision, Decided
    <3>2. /\ dispute'.status = "REJECTED" /\ dispute'.resolution = a
          /\ dispute'.finalDecision = Nobody /\ dispute'.input = dispute.input
      BY <1>0, <2>1, <3>1 DEF CaseTypeOK
    <3>3. Outcome!Reject(a)
      BY <2>1, <3>2 DEF Outcome!Reject, IsOpen
    <3> QED BY <3>3 DEF Outcome!Next
  <2> QED BY <2>1, <2>2, <2>3 DEF Decisions
<1> QED
  BY <1>1, <1>3, <1>4, <1>5
     DEF CaseNext, caseVars, Decide, WindowMoves, BeginEscalation, Lost, BeginOpen, BeginItem, AddItem,
         BeginSetInput, BeginDecision, ReadDecision, SaveDecision, AbortDecision

\* A dispute is opened once and decided once, the final decision with both
\* inputs closed, and nothing decided is reopened.
THEOREM OutcomeRefinement == CaseSpec => OutcomeSpec
  BY AlwaysSafe, OutcomeInit, OutcomeStep, PTL DEF CaseSpec, OutcomeSpec, Outcome!Spec
=============================================================================
