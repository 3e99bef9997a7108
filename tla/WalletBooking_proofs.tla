------------------------ MODULE WalletBooking_proofs ------------------------
(* Proofs about WalletBooking, for every set of bookings, slots, customers,  *)
(* every price, deposit and time, and whatever slot routes are in use.       *)
EXTENDS WalletBooking, FiniteSums_proofs, TLAPS

\* What $inc does to the projection of one customer, and to nobody else's.
LEMMA ProjectEffect ==
  ASSUME wallet \in [Customers -> Wallets],
         NEW c \in Customers, NEW available \in Int, NEW reserved \in Int,
         Project(c, available, reserved)
  PROVE  /\ wallet' \in [Customers -> Wallets]
         /\ wallet'[c].availableBalance = wallet[c].availableBalance + available
         /\ wallet'[c].reservedBalance = wallet[c].reservedBalance + reserved
         /\ \A d \in Customers \ {c} : wallet'[d] = wallet[d]
  BY DEF Project, Wallets

\* What a balanced posting does to the accounts of one customer.
LEMMA PostEffect ==
  ASSUME ledger \in [Customers -> [Accounts -> Int]],
         NEW c \in Customers, NEW amount \in Int,
         NEW debited \in Accounts, NEW credited \in Accounts, debited # credited,
         Post(c, debited, credited, amount)
  PROVE  /\ ledger' \in [Customers -> [Accounts -> Int]]
         /\ ledger'[c][debited] = ledger[c][debited] - amount
         /\ ledger'[c][credited] = ledger[c][credited] + amount
         /\ \A a \in Accounts \ {debited, credited} : ledger'[c][a] = ledger[c][a]
         /\ \A d \in Customers \ {c} : ledger'[d] = ledger[d]
  BY DEF Post

\* Every variable keeps its type.
THEOREM TypeCorrect == Spec => []TypeOK
<1>1. Init => TypeOK
  BY NumberAssumption DEF Init, TypeOK, SlotStatus, BookingStatus, PaymentStatus,
     ReservationStatus, Wallets, Accounts, Calls
<1>2. TypeOK /\ [Next]_vars => TypeOK'
  <2> SUFFICES ASSUME TypeOK, [Next]_vars PROVE TypeOK'
    OBVIOUS
  <2> USE DomainAssumption, NumberAssumption
      DEF TypeOK, SlotStatus, BookingStatus, Live, Terminal, Terminated, PaymentStatus,
          ReservationStatus, Wallets, Accounts, moneyVars, calendarVars, handlerVars,
          SetSlots, AbortConflicting
  <2>1. ASSUME NEW b \in Bookings, BeginRequest(b) PROVE TypeOK'
    BY <2>1 DEF BeginRequest
  <2>2. ASSUME NEW b \in Bookings, CommitRequest(b) PROVE TypeOK'
    <3>1. wallet' \in [Customers -> Wallets] /\ ledger' \in [Customers -> [Accounts -> Int]]
      BY <2>2, ProjectEffect, PostEffect DEF CommitRequest, Authorize, Accounts
    <3>2. payment' \in [Bookings -> PaymentStatus] /\ reservation' \in [Bookings -> ReservationStatus]
      BY <2>2 DEF CommitRequest, Authorize
    <3>3. slot' \in [Slots -> SlotStatus] /\ accepting' \subseteq Bookings
      BY <2>2 DEF CommitRequest
    <3>4. booking' \in [Bookings -> BookingStatus] /\ expiresAt' \in [Bookings -> Nat]
      BY <2>2 DEF CommitRequest
    <3>5. isPayable' \in [Bookings -> BOOLEAN]
      BY <2>2 DEF CommitRequest
    <3>6. requesting' \subseteq Bookings
          /\ UNCHANGED <<clock, availability, crashes, terminating>>
      BY <2>2 DEF CommitRequest
    <3> QED BY <3>1, <3>2, <3>3, <3>4, <3>5, <3>6
  <2>3. ASSUME NEW b \in Bookings, FailRequest(b) PROVE TypeOK'
    BY <2>3 DEF FailRequest
  <2>4. ASSUME NEW b \in Bookings, BeginAccept(b) PROVE TypeOK'
    BY <2>4 DEF BeginAccept
  <2>5. ASSUME NEW b \in Bookings, CommitAccept(b) PROVE TypeOK'
    <3>1. booking' \in [Bookings -> BookingStatus]
      BY <2>5 DEF CommitAccept
    <3>2. slot' \in [Slots -> SlotStatus] /\ accepting' \subseteq Bookings
      BY <2>5 DEF CommitAccept
    <3> QED BY <2>5, <3>1, <3>2 DEF CommitAccept
  <2>6. ASSUME NEW b \in Bookings, Complete(b) PROVE TypeOK'
    <3>1. wallet' \in [Customers -> Wallets] /\ ledger' \in [Customers -> [Accounts -> Int]]
      BY <2>6, ProjectEffect, PostEffect DEF Complete, Capture, Accounts
    <3>2. payment' \in [Bookings -> PaymentStatus] /\ reservation' \in [Bookings -> ReservationStatus]
      BY <2>6 DEF Complete, Capture
    <3>3. booking' \in [Bookings -> BookingStatus]
      BY <2>6 DEF Complete
    <3>4. isPayable' \in [Bookings -> BOOLEAN]
      BY <2>6 DEF Complete
    <3>5. accepting' \subseteq Bookings
          /\ UNCHANGED <<slot, expiresAt, clock, availability, crashes, requesting, terminating>>
      BY <2>6 DEF Complete
    <3> QED BY <3>1, <3>2, <3>3, <3>4, <3>5
  <2>7. ASSUME NEW b \in Bookings, NEW type \in TerminationTypes, BeginTerminate(b, type)
        PROVE TypeOK'
    BY <2>7 DEF BeginTerminate, Calls
  <2>8. ASSUME NEW call \in terminating, CommitTerminate(call) PROVE TypeOK'
    <3>0. call.booking \in Bookings
      BY DEF Calls
    <3>1. wallet' \in [Customers -> Wallets] /\ ledger' \in [Customers -> [Accounts -> Int]]
      BY <2>8, <3>0, ProjectEffect, PostEffect DEF CommitTerminate, Release, Accounts
    <3>2. payment' \in [Bookings -> PaymentStatus] /\ reservation' \in [Bookings -> ReservationStatus]
      BY <2>8, <3>0 DEF CommitTerminate, Release, ReleasedPayment
    <3>3. booking' \in [Bookings -> BookingStatus]
      BY <2>8, <3>0 DEF CommitTerminate, TargetStatus
    <3>4. slot' \in [Slots -> SlotStatus] /\ accepting' \subseteq Bookings
      BY <2>8 DEF CommitTerminate
    <3>5. terminating' \subseteq Calls
          /\ UNCHANGED <<expiresAt, isPayable, clock, availability, crashes, requesting>>
      BY <2>8 DEF CommitTerminate
    <3> QED BY <3>1, <3>2, <3>3, <3>4, <3>5
  <2>9. ASSUME NEW call \in terminating, FailTerminate(call) PROVE TypeOK'
    BY <2>9 DEF FailTerminate
  <2>10. ASSUME NEW s \in Slots, SlotStep(s) PROVE TypeOK'
    BY <2>10 DEF SlotStep, EnableSlot, DisableSlot, DeleteSlot, EditSlot
  <2>11. ASSUME NEW a \in Availabilities, CancelAvailability(a) PROVE TypeOK'
    BY <2>11 DEF CancelAvailability
  <2>12. CASE Tick
    BY <2>12 DEF Tick
  <2>13. CASE Crash
    BY <2>13 DEF Crash
  <2>14. CASE UNCHANGED vars
    BY <2>14 DEF vars
  <2> QED
    BY <2>1, <2>2, <2>3, <2>4, <2>5, <2>6, <2>7, <2>8, <2>9, <2>10, <2>11, <2>12, <2>13, <2>14
       DEF Next, RequestStep, AcceptStep, TerminateStep, CompleteStep,
           CompleteByCreator, CompleteAutomatically
<1> QED BY <1>1, <1>2, PTL DEF Spec
-----------------------------------------------------------------------------
(* The three documents agree.  The agreement is inductive only together with   *)
(* OpenAcceptIsCurrent: an accept that could commit after its booking was      *)
(* terminated would leave a CONFIRMED booking without funds.                   *)

Agreement == FundsFollowBooking /\ OpenAcceptIsCurrent

\* The slots of a booking are among the documents a write conflict is about.
LEMMA OwnSlotsConflict ==
  ASSUME NEW b \in Bookings, AbortConflicting(SlotsOf[b]) PROVE b \notin accepting'
  BY DomainAssumption DEF AbortConflicting

\* The documents agree at the start: there are none.
LEMMA AgreementInit == Init => Agreement
  BY DEF Init, Agreement, FundsFollowBooking, OpenAcceptIsCurrent, Live

\* Steps that write no booking, payment or reservation.
LEMMA AgreementKept ==
  ASSUME TypeOK, Agreement,
         UNCHANGED <<booking, payment, reservation, isPayable>>,
         accepting' \subseteq accepting,
         \A b \in accepting' : \A s \in SlotsOf[b] : slot'[s] = slot[s]
  PROVE  Agreement'
  BY DEF Agreement, FundsFollowBooking, OpenAcceptIsCurrent, TypeOK

\* Every step keeps them in agreement, and every open accept current.
LEMMA AgreementNext == TypeOK /\ Agreement /\ [Next]_vars => Agreement'
  <1> SUFFICES ASSUME TypeOK, Agreement, [Next]_vars PROVE Agreement'
    OBVIOUS
  <1> USE DEF moneyVars, calendarVars, handlerVars
  <1>1. ASSUME NEW b \in Bookings, BeginRequest(b) \/ FailRequest(b) PROVE Agreement'
    BY <1>1, AgreementKept DEF BeginRequest, FailRequest
  <1>2. ASSUME NEW b \in Bookings, CommitRequest(b) PROVE Agreement'
    <2>1. FundsFollowBooking'
      <3>1. /\ booking' = [booking EXCEPT ![b] = "REQUESTED"]
            /\ reservation' = [reservation EXCEPT ![b] = "ACTIVE"]
            /\ payment' = [payment EXCEPT ![b] = "AUTHORIZED"]
            /\ isPayable' = [isPayable EXCEPT ![b] = TRUE]
        BY <1>2 DEF CommitRequest, Authorize
      <3>2. isPayable'[b] /\ \A other \in Bookings \ {b} : isPayable'[other] = isPayable[other]
        BY <3>1 DEF TypeOK
      <3> QED BY <3>1, <3>2 DEF Agreement, FundsFollowBooking, Live, TypeOK
    <2>2. OpenAcceptIsCurrent'
      BY <1>2, OwnSlotsConflict, DomainAssumption
         DEF CommitRequest, Agreement, OpenAcceptIsCurrent, AbortConflicting, SetSlots, TypeOK
    <2> QED BY <2>1, <2>2 DEF Agreement
  <1>3. ASSUME NEW b \in Bookings, BeginAccept(b) PROVE Agreement'
    BY <1>3 DEF BeginAccept, Agreement, FundsFollowBooking, OpenAcceptIsCurrent
  <1>4. ASSUME NEW b \in Bookings, CommitAccept(b) PROVE Agreement'
    <2>1. booking[b] = "REQUESTED"
      BY <1>4 DEF CommitAccept, Agreement, OpenAcceptIsCurrent
    <2>2. FundsFollowBooking'
      BY <1>4, <2>1 DEF CommitAccept, Agreement, FundsFollowBooking, Live, TypeOK
    <2>3. OpenAcceptIsCurrent'
      BY <1>4, OwnSlotsConflict, DomainAssumption
         DEF CommitAccept, Agreement, OpenAcceptIsCurrent, AbortConflicting, SetSlots, TypeOK
    <2> QED BY <2>2, <2>3 DEF Agreement
  <1>5. ASSUME NEW b \in Bookings, Complete(b) PROVE Agreement'
    <2>1. FundsFollowBooking'
      <3>1. /\ booking' = [booking EXCEPT ![b] = "COMPLETED"]
            /\ reservation' = [reservation EXCEPT ![b] = "CAPTURED"]
            /\ payment' = [payment EXCEPT ![b] = "CAPTURED"]
            /\ isPayable' = [isPayable EXCEPT ![b] = FALSE]
        BY <1>5 DEF Complete, Capture
      <3>2. ~isPayable'[b] /\ \A other \in Bookings \ {b} : isPayable'[other] = isPayable[other]
        BY <3>1 DEF TypeOK
      <3> QED BY <3>1, <3>2 DEF Agreement, FundsFollowBooking, Live, TypeOK
    <2>2. OpenAcceptIsCurrent'
      BY <1>5 DEF Complete, Agreement, OpenAcceptIsCurrent, TypeOK
    <2> QED BY <2>1, <2>2 DEF Agreement
  <1>6. ASSUME NEW b \in Bookings, NEW type \in TerminationTypes, BeginTerminate(b, type)
        PROVE Agreement'
    BY <1>6, AgreementKept DEF BeginTerminate
  <1>7. ASSUME NEW call \in terminating, CommitTerminate(call) PROVE Agreement'
    <2> DEFINE b == call.booking
    <2>0. b \in Bookings
      BY DEF TypeOK, Calls
    <2>1. FundsFollowBooking'
      <3>1. /\ booking' = [booking EXCEPT ![b] = TargetStatus(call.type)]
            /\ reservation' = [reservation EXCEPT ![b] = "RELEASED"]
            /\ payment' = [payment EXCEPT ![b] = ReleasedPayment(call.type)]
            /\ isPayable' = isPayable
        BY <1>7 DEF CommitTerminate, Release
      <3>2. \/ TargetStatus(call.type) = "EXPIRED" /\ ReleasedPayment(call.type) = "EXPIRED"
            \/ TargetStatus(call.type) \in {"REJECTED", "CANCELLED"}
               /\ ReleasedPayment(call.type) = "CANCELLED"
        BY DEF TargetStatus, ReleasedPayment
      <3> QED BY <2>0, <3>1, <3>2 DEF Agreement, FundsFollowBooking, Live, TypeOK
    <2>2. OpenAcceptIsCurrent'
      <3>1. /\ AbortConflicting(SlotsOf[b])
            /\ booking' = [booking EXCEPT ![b] = TargetStatus(call.type)]
            /\ SetSlots(SlotsOf[b], "AVAILABLE")
        BY <1>7 DEF CommitTerminate
      <3>2. \A a \in accepting' : a \in accepting /\ SlotsOf[a] \cap SlotsOf[b] = {} /\ a # b
        BY <2>0, <3>1, OwnSlotsConflict DEF AbortConflicting
      <3>3. \A a \in accepting' : booking'[a] = booking[a]
        BY <3>1, <3>2 DEF TypeOK
      <3>4. \A a \in accepting' : \A s \in SlotsOf[a] : slot'[s] = slot[s]
        BY <3>1, <3>2, DomainAssumption DEF SetSlots, TypeOK
      <3> QED BY <3>2, <3>3, <3>4 DEF Agreement, OpenAcceptIsCurrent
    <2> QED BY <2>1, <2>2 DEF Agreement
  <1>8. ASSUME NEW call \in terminating, FailTerminate(call) PROVE Agreement'
    BY <1>8, AgreementKept DEF FailTerminate
  <1>9. ASSUME NEW s \in Slots, SlotStep(s) PROVE Agreement'
    BY <1>9, AgreementKept, DomainAssumption
       DEF SlotStep, EnableSlot, DisableSlot, DeleteSlot, EditSlot, AbortConflicting, SetSlots, TypeOK
  <1>10. ASSUME NEW a \in Availabilities, CancelAvailability(a) PROVE Agreement'
    BY <1>10, AgreementKept, DomainAssumption
       DEF CancelAvailability, AbortConflicting, SetSlots, TypeOK
  <1>11. CASE Tick
    BY <1>11, AgreementKept DEF Tick
  <1>12. CASE Crash
    BY <1>12, AgreementKept DEF Crash
  <1>13. CASE UNCHANGED vars
    BY <1>13, AgreementKept DEF vars
  <1> QED
    BY <1>1, <1>2, <1>3, <1>4, <1>5, <1>6, <1>7, <1>8, <1>9, <1>10, <1>11, <1>12, <1>13
       DEF Next, RequestStep, AcceptStep, TerminateStep, CompleteStep,
           CompleteByCreator, CompleteAutomatically

\* The agreement of the documents and the open accepts, of every reachable state.
LEMMA AlwaysAgree == Spec => []Agreement
  BY AgreementInit, AgreementNext, TypeCorrect, PTL DEF Spec

\* Booking, Payment and reservation always tell one story.
THEOREM FundsAgree == Spec => []FundsFollowBooking
<1>1. Agreement => FundsFollowBooking
  BY DEF Agreement
<1> QED BY <1>1, AlwaysAgree, PTL

\* An accept transaction that is still open has read what is still the case: its
\* booking is requested and its slots locked, so a late accept revives nothing.
THEOREM OpenAcceptsAreCurrent == Spec => []OpenAcceptIsCurrent
<1>1. Agreement => OpenAcceptIsCurrent
  BY DEF Agreement
<1> QED BY <1>1, AlwaysAgree, PTL

-----------------------------------------------------------------------------
(* A terminal outcome is final: in a state where the documents agree, each     *)
(* action that writes one of them requires a booking that is not terminal.     *)

\* A late accept, a second termination, a completion or a retry changes nothing
\* of a booking that has ended, nor of its payment or its reservation.
THEOREM EndIsEnd == Spec => TerminalIsFinal
<1> DEFINE Final == \A b \in Bookings : booking[b] \in Terminal =>
             /\ booking'[b] = booking[b]
             /\ payment'[b] = payment[b]
             /\ reservation'[b] = reservation[b]
<1>1. TypeOK /\ Agreement /\ [Next]_vars => [Final]_vars
  <2> SUFFICES ASSUME TypeOK, Agreement, [Next]_vars PROVE Final
    BY DEF vars
  <2> USE DEF moneyVars, calendarVars, handlerVars, Terminal, Terminated
  <2>1. ASSUME NEW b \in Bookings, CommitRequest(b) PROVE Final
    BY <2>1 DEF CommitRequest, Authorize, TypeOK
  <2>2. ASSUME NEW b \in Bookings, CommitAccept(b) PROVE Final
    BY <2>2 DEF CommitAccept, Agreement, OpenAcceptIsCurrent, TypeOK
  <2>3. ASSUME NEW b \in Bookings, Complete(b) PROVE Final
    BY <2>3 DEF Complete, Capture, TypeOK
  <2>4. ASSUME NEW call \in terminating, CommitTerminate(call) PROVE Final
    <3>1. /\ call.booking \in Bookings
          /\ booking[call.booking] \in {"REQUESTED", "CONFIRMED"}
      BY <2>4 DEF CommitTerminate, TypeOK, Calls
    <3>2. \A b \in Bookings \ {call.booking} :
            booking'[b] = booking[b] /\ payment'[b] = payment[b] /\ reservation'[b] = reservation[b]
      BY <2>4, <3>1 DEF CommitTerminate, Release, TypeOK
    <3> QED BY <3>1, <3>2
  <2>5. ASSUME UNCHANGED <<booking, payment, reservation>> PROVE Final
    BY <2>5
  <2> QED
    BY <2>1, <2>2, <2>3, <2>4, <2>5
       DEF Next, RequestStep, AcceptStep, TerminateStep, CompleteStep, CompleteByCreator,
           CompleteAutomatically, BeginRequest, FailRequest, BeginAccept, BeginTerminate,
           FailTerminate, SlotStep, EnableSlot, DisableSlot, DeleteSlot, EditSlot,
           CancelAvailability, Tick, Crash, vars
<1>2. Spec => [](TypeOK /\ Agreement)
  BY TypeCorrect, AlwaysAgree, PTL
<1>3. Spec => [][Final]_vars
  BY <1>1, <1>2, PTL DEF Spec
<1> QED BY <1>3 DEF TerminalIsFinal

-----------------------------------------------------------------------------
(* Conservation.  Each money operation is one posting and one projection of    *)
(* the same amount, so only three actions have to be looked at.                *)

\* At the start each customer's deposit is spendable, in wallet and ledger alike.
LEMMA MoneyInit == Init => MoneyConserved
  BY NumberAssumption DEF Init, MoneyConserved, Accounts

\* One posting and one projection of the same amount conserve a customer's money.
LEMMA MoneyMove ==
  ASSUME TypeOK, MoneyConserved, NEW c \in Customers, NEW amount \in Nat,
         \/ /\ Post(c, "WALLET_AVAILABLE", "WALLET_RESERVED", amount)
            /\ Project(c, -amount, amount)
            /\ wallet[c].availableBalance >= amount
         \/ /\ Post(c, "WALLET_RESERVED", "WALLET_AVAILABLE", amount)
            /\ Project(c, amount, -amount)
         \/ /\ Post(c, "WALLET_RESERVED", "PLATFORM_ESCROW", amount)
            /\ Project(c, 0, -amount)
  PROVE  MoneyConserved'
  <1> USE NumberAssumption
  <1>1. /\ wallet \in [Customers -> Wallets]
        /\ ledger \in [Customers -> [Accounts -> Int]]
        /\ wallet[c].availableBalance \in Int /\ wallet[c].reservedBalance \in Int
        /\ \A a \in Accounts : ledger[c][a] \in Int
        /\ amount \in Int /\ -amount \in Int /\ Deposit[c] \in Int
    BY DEF TypeOK, Wallets
  <1>2. CASE /\ Post(c, "WALLET_AVAILABLE", "WALLET_RESERVED", amount)
             /\ Project(c, -amount, amount)
             /\ wallet[c].availableBalance >= amount
    <2>1. /\ wallet'[c].availableBalance = wallet[c].availableBalance - amount
          /\ wallet'[c].reservedBalance = wallet[c].reservedBalance + amount
          /\ \A d \in Customers \ {c} : wallet'[d] = wallet[d]
      BY <1>1, <1>2, ProjectEffect
    <2>2. /\ ledger'[c]["WALLET_AVAILABLE"] = ledger[c]["WALLET_AVAILABLE"] - amount
          /\ ledger'[c]["WALLET_RESERVED"] = ledger[c]["WALLET_RESERVED"] + amount
          /\ ledger'[c]["PLATFORM_ESCROW"] = ledger[c]["PLATFORM_ESCROW"]
          /\ \A d \in Customers \ {c} : ledger'[d] = ledger[d]
      BY <1>1, <1>2, PostEffect DEF Accounts
    <2> QED BY <1>1, <1>2, <2>1, <2>2 DEF MoneyConserved, Accounts
  <1>3. CASE /\ Post(c, "WALLET_RESERVED", "WALLET_AVAILABLE", amount)
             /\ Project(c, amount, -amount)
    <2>1. /\ wallet'[c].availableBalance = wallet[c].availableBalance + amount
          /\ wallet'[c].reservedBalance = wallet[c].reservedBalance - amount
          /\ \A d \in Customers \ {c} : wallet'[d] = wallet[d]
      BY <1>1, <1>3, ProjectEffect
    <2>2. /\ ledger'[c]["WALLET_AVAILABLE"] = ledger[c]["WALLET_AVAILABLE"] + amount
          /\ ledger'[c]["WALLET_RESERVED"] = ledger[c]["WALLET_RESERVED"] - amount
          /\ ledger'[c]["PLATFORM_ESCROW"] = ledger[c]["PLATFORM_ESCROW"]
          /\ \A d \in Customers \ {c} : ledger'[d] = ledger[d]
      BY <1>1, <1>3, PostEffect DEF Accounts
    <2> QED BY <1>1, <2>1, <2>2 DEF MoneyConserved, Accounts
  <1>4. CASE /\ Post(c, "WALLET_RESERVED", "PLATFORM_ESCROW", amount)
             /\ Project(c, 0, -amount)
    <2>1. /\ wallet'[c].availableBalance = wallet[c].availableBalance
          /\ wallet'[c].reservedBalance = wallet[c].reservedBalance - amount
          /\ \A d \in Customers \ {c} : wallet'[d] = wallet[d]
      BY <1>1, <1>4, ProjectEffect
    <2>2. /\ ledger'[c]["WALLET_AVAILABLE"] = ledger[c]["WALLET_AVAILABLE"]
          /\ ledger'[c]["WALLET_RESERVED"] = ledger[c]["WALLET_RESERVED"] - amount
          /\ ledger'[c]["PLATFORM_ESCROW"] = ledger[c]["PLATFORM_ESCROW"] + amount
          /\ \A d \in Customers \ {c} : ledger'[d] = ledger[d]
      BY <1>1, <1>4, PostEffect DEF Accounts
    <2> QED BY <1>1, <2>1, <2>2 DEF MoneyConserved, Accounts
  <1> QED BY <1>2, <1>3, <1>4

\* The projection never drifts from the ledger, no money appears or vanishes,
\* and no customer's available balance is ever negative.
THEOREM MoneyIsConserved == Spec => []MoneyConserved
<1>1. TypeOK /\ MoneyConserved /\ [Next]_vars => MoneyConserved'
  <2> SUFFICES ASSUME TypeOK, MoneyConserved, [Next]_vars PROVE MoneyConserved'
    OBVIOUS
  <2> USE DomainAssumption, NumberAssumption DEF moneyVars, calendarVars, handlerVars
  <2>1. ASSUME NEW b \in Bookings, CommitRequest(b) PROVE MoneyConserved'
    BY <2>1, MoneyMove DEF CommitRequest, Authorize, MeetsMinimum
  <2>2. ASSUME NEW b \in Bookings, Complete(b) PROVE MoneyConserved'
    BY <2>2, MoneyMove DEF Complete, Capture
  <2>3. ASSUME NEW call \in terminating, CommitTerminate(call) PROVE MoneyConserved'
    <3>1. call.booking \in Bookings
      BY DEF TypeOK, Calls
    <3> QED BY <2>3, <3>1, MoneyMove DEF CommitTerminate, Release
  <2>4. ASSUME UNCHANGED <<wallet, ledger>> PROVE MoneyConserved'
    BY <2>4 DEF MoneyConserved
  <2> QED
    BY <2>1, <2>2, <2>3, <2>4
       DEF Next, RequestStep, AcceptStep, TerminateStep, CompleteStep, CompleteByCreator,
           CompleteAutomatically, BeginRequest, FailRequest, BeginAccept, CommitAccept,
           BeginTerminate, FailTerminate, SlotStep, EnableSlot, DisableSlot, DeleteSlot,
           EditSlot, CancelAvailability, Tick, Crash, vars
<1> QED BY <1>1, MoneyInit, TypeCorrect, PTL DEF Spec

-----------------------------------------------------------------------------
(* The reserved balance.  A booking becomes one of its customer's active       *)
(* reservations, or ceases to be one, in the step that moves its price.        *)

\* One booking of c enters or leaves the active reservations together with its
\* price; the other customers keep theirs.
LEMMA ReservedMove ==
  ASSUME TypeOK, ReservedIsSumOfActive, NEW b \in Bookings, NEW available \in Int,
         NEW status, reservation' = [reservation EXCEPT ![b] = status],
         \/ /\ Project(CustomerOf[b], available, Total[b])
            /\ reservation[b] # "ACTIVE" /\ status = "ACTIVE"
         \/ /\ Project(CustomerOf[b], available, -Total[b])
            /\ reservation[b] = "ACTIVE" /\ status # "ACTIVE"
  PROVE  ReservedIsSumOfActive'
<1> DEFINE c == CustomerOf[b]
<1>0. Total \in [Bookings -> Int] /\ Total[b] \in Int /\ -Total[b] \in Int
  BY NumberAssumption
<1>1. /\ c \in Customers /\ IsFiniteSet(Bookings)
      /\ Total \in [Bookings -> Int] /\ Total[b] \in Int /\ -Total[b] \in Int
      /\ wallet \in [Customers -> Wallets] /\ reservation \in [Bookings -> ReservationStatus]
  BY <1>0, DomainAssumption DEF TypeOK
<1>2. \A d \in Customers \ {c} : wallet'[d] = wallet[d] /\ ActiveOf(d)' = ActiveOf(d)
  BY <1>1, ProjectEffect DEF ActiveOf, ReservedAs
<1>3. ActiveOf(c) \in SUBSET Bookings /\ SumOf(Total, ActiveOf(c)) \in Int
  BY <1>1, SumType DEF ActiveOf, ReservedAs
<1>4. wallet'[c].reservedBalance = SumOf(Total, ActiveOf(c)')
  <2>1. CASE /\ Project(c, available, Total[b])
             /\ reservation[b] # "ACTIVE" /\ status = "ACTIVE"
    <3>1. wallet'[c].reservedBalance = wallet[c].reservedBalance + Total[b]
      BY <1>1, <2>1, ProjectEffect
    <3>2. ActiveOf(c)' = ActiveOf(c) \cup {b} /\ b \in Bookings \ ActiveOf(c)
      BY <1>1, <2>1 DEF ActiveOf, ReservedAs
    <3>3. SumOf(Total, ActiveOf(c) \cup {b}) = Total[b] + SumOf(Total, ActiveOf(c))
      BY <1>1, <1>3, <3>2, SumWith
    <3> QED BY <1>1, <1>3, <3>1, <3>2, <3>3 DEF ReservedIsSumOfActive
  <2>2. CASE /\ Project(c, available, -Total[b])
             /\ reservation[b] = "ACTIVE" /\ status # "ACTIVE"
    <3>1. wallet'[c].reservedBalance = wallet[c].reservedBalance - Total[b]
      BY <1>1, <2>2, ProjectEffect DEF Wallets
    <3>2. ActiveOf(c)' = ActiveOf(c) \ {b} /\ b \in ActiveOf(c)
      BY <1>1, <2>2 DEF ActiveOf, ReservedAs
    <3>3. SumOf(Total, ActiveOf(c)) = Total[b] + SumOf(Total, ActiveOf(c) \ {b})
      BY <1>1, <1>3, <3>2, SumWithout
    <3>4. SumOf(Total, ActiveOf(c) \ {b}) \in Int
      BY <1>1, SumType DEF ActiveOf, ReservedAs
    <3> QED BY <1>1, <1>3, <3>1, <3>2, <3>3, <3>4 DEF ReservedIsSumOfActive
  <2> QED BY <2>1, <2>2
<1> QED BY <1>2, <1>4 DEF ReservedIsSumOfActive

\* The reserved balance of a wallet is the sum of the prices of the customer's
\* active reservations.
THEOREM ReservedIsExact == Spec => []ReservedIsSumOfActive
<1>1. Init => ReservedIsSumOfActive
  <2> SUFFICES ASSUME Init PROVE ReservedIsSumOfActive
    OBVIOUS
  <2>1. \A c \in Customers : ActiveOf(c) = {} /\ wallet[c].reservedBalance = 0
    BY DEF Init, ActiveOf, ReservedAs
  <2>2. SumOf(Total, {}) = 0
    BY DomainAssumption, NumberAssumption, SumOfNone
  <2> QED BY <2>1, <2>2 DEF ReservedIsSumOfActive
<1>2. TypeOK /\ Agreement /\ ReservedIsSumOfActive /\ [Next]_vars => ReservedIsSumOfActive'
  <2> SUFFICES ASSUME TypeOK, Agreement, ReservedIsSumOfActive, [Next]_vars
               PROVE  ReservedIsSumOfActive'
    OBVIOUS
  <2> USE DEF moneyVars, calendarVars, handlerVars
  <2>0. \A b \in Bookings : Total[b] \in Int /\ -Total[b] \in Int
    BY NumberAssumption
  <2>1. ASSUME NEW b \in Bookings, CommitRequest(b) PROVE ReservedIsSumOfActive'
    <3>1. reservation[b] # "ACTIVE"
      BY <2>1 DEF CommitRequest, Agreement, FundsFollowBooking
    <3> QED BY <2>0, <2>1, <3>1, ReservedMove DEF CommitRequest, Authorize
  <2>2. ASSUME NEW b \in Bookings, Complete(b) PROVE ReservedIsSumOfActive'
    <3>1. /\ reservation[b] = "ACTIVE"
          /\ reservation' = [reservation EXCEPT ![b] = "CAPTURED"]
          /\ Project(CustomerOf[b], 0, -Total[b])
      BY <2>2 DEF Complete, Capture, CanRelease
    <3>2. 0 \in Int /\ "CAPTURED" # "ACTIVE"
      OBVIOUS
    <3> QED BY <2>0, <3>1, <3>2, ReservedMove
  <2>3. ASSUME NEW call \in terminating, CommitTerminate(call) PROVE ReservedIsSumOfActive'
    <3>1. call.booking \in Bookings
      BY DEF TypeOK, Calls
    <3> QED BY <2>0, <2>3, <3>1, ReservedMove DEF CommitTerminate, Release, CanRelease
  <2>4. ASSUME UNCHANGED <<wallet, reservation>> PROVE ReservedIsSumOfActive'
    BY <2>4 DEF ReservedIsSumOfActive, ActiveOf, ReservedAs
  <2> QED
    BY <2>1, <2>2, <2>3, <2>4
       DEF Next, RequestStep, AcceptStep, TerminateStep, CompleteStep, CompleteByCreator,
           CompleteAutomatically, BeginRequest, FailRequest, BeginAccept, CommitAccept,
           BeginTerminate, FailTerminate, SlotStep, EnableSlot, DisableSlot, DeleteSlot,
           EditSlot, CancelAvailability, Tick, Crash, vars
<1> QED BY <1>1, <1>2, TypeCorrect, AlwaysAgree, PTL DEF Spec

\* What an active reservation set aside is there: a termination or completion of
\* a live booking is never refused for want of reserved funds.
THEOREM ReservationsAreCovered ==
  Spec => [](\A b \in Bookings : booking[b] \in Live => CanRelease(b))
<1>1. TypeOK /\ Agreement /\ ReservedIsSumOfActive =>
         \A b \in Bookings : booking[b] \in Live => CanRelease(b)
  <2> SUFFICES ASSUME Agreement, ReservedIsSumOfActive, NEW b \in Bookings, booking[b] \in Live
               PROVE  CanRelease(b)
    OBVIOUS
  <2>1. reservation[b] = "ACTIVE" /\ payment[b] = "AUTHORIZED"
    BY DEF Agreement, FundsFollowBooking
  <2>2. Total \in [Bookings -> Nat] /\ IsFiniteSet(Bookings) /\ CustomerOf[b] \in Customers
    BY DomainAssumption, NumberAssumption
  <2>3. b \in ActiveOf(CustomerOf[b]) /\ ActiveOf(CustomerOf[b]) \in SUBSET Bookings
    BY <2>1 DEF ActiveOf, ReservedAs
  <2>4. SumOf(Total, ActiveOf(CustomerOf[b])) >= Total[b]
    BY <2>2, <2>3, SumCovers
  <2> QED BY <2>1, <2>2, <2>4 DEF CanRelease, MeetsMinimum, ReservedIsSumOfActive
<1> QED BY <1>1, TypeCorrect, AlwaysAgree, ReservedIsExact, PTL

-----------------------------------------------------------------------------
(* Escrow.  A booking's reservation becomes CAPTURED in the step that posts its *)
(* price to escrow, and stays so: nothing else touches the account here.       *)

EscrowIsSumOfCaptured ==
    \A c \in Customers : ledger[c]["PLATFORM_ESCROW"] = SumOf(Total, CapturedOf(c))

\* A reservation that is made or released leaves the escrow account alone.
LEMMA EscrowKept ==
  ASSUME TypeOK, EscrowIsSumOfCaptured, NEW b \in Bookings,
         NEW status \in {"ACTIVE", "RELEASED"}, reservation[b] # "CAPTURED",
         reservation' = [reservation EXCEPT ![b] = status],
         NEW debited \in Accounts \ {"PLATFORM_ESCROW"},
         NEW credited \in Accounts \ {"PLATFORM_ESCROW", debited},
         Post(CustomerOf[b], debited, credited, Total[b])
  PROVE  EscrowIsSumOfCaptured'
<1>1. CustomerOf[b] \in Customers /\ Total[b] \in Int
  BY DomainAssumption, NumberAssumption
<1>2. \A c \in Customers : ledger'[c]["PLATFORM_ESCROW"] = ledger[c]["PLATFORM_ESCROW"]
  <2>1. /\ \A a \in Accounts \ {debited, credited} :
              ledger'[CustomerOf[b]][a] = ledger[CustomerOf[b]][a]
        /\ \A d \in Customers \ {CustomerOf[b]} : ledger'[d] = ledger[d]
    BY <1>1, PostEffect DEF TypeOK
  <2> QED BY <2>1 DEF Accounts
<1>3. \A c \in Customers : CapturedOf(c)' = CapturedOf(c)
  BY DEF CapturedOf, ReservedAs, TypeOK
<1> QED BY <1>2, <1>3 DEF EscrowIsSumOfCaptured

\* A capture adds its booking and its price.
LEMMA EscrowGrows ==
  ASSUME TypeOK, EscrowIsSumOfCaptured, NEW b \in Bookings, reservation[b] # "CAPTURED",
         reservation' = [reservation EXCEPT ![b] = "CAPTURED"],
         Post(CustomerOf[b], "WALLET_RESERVED", "PLATFORM_ESCROW", Total[b])
  PROVE  EscrowIsSumOfCaptured'
<1> DEFINE c == CustomerOf[b]
<1>1. /\ c \in Customers /\ Total[b] \in Int
      /\ IsFiniteSet(Bookings) /\ Total \in [Bookings -> Int]
  BY DomainAssumption, NumberAssumption
<1>2. /\ ledger'[c]["PLATFORM_ESCROW"] = ledger[c]["PLATFORM_ESCROW"] + Total[b]
      /\ \A d \in Customers \ {c} : ledger'[d] = ledger[d]
  BY <1>1, PostEffect DEF TypeOK, Accounts
<1>3. \A d \in Customers \ {c} : CapturedOf(d)' = CapturedOf(d)
  BY DEF CapturedOf, ReservedAs, TypeOK
<1>4. /\ CapturedOf(c)' = CapturedOf(c) \cup {b}
      /\ CapturedOf(c) \in SUBSET Bookings /\ b \in Bookings \ CapturedOf(c)
  BY DEF CapturedOf, ReservedAs, TypeOK
<1>5. SumOf(Total, CapturedOf(c) \cup {b}) = Total[b] + SumOf(Total, CapturedOf(c))
  BY <1>1, <1>4, SumWith
<1>6. SumOf(Total, CapturedOf(c)) \in Int
  BY <1>1, <1>4, SumType
<1>7. ledger'[c]["PLATFORM_ESCROW"] = SumOf(Total, CapturedOf(c)')
  BY <1>1, <1>2, <1>4, <1>5, <1>6 DEF EscrowIsSumOfCaptured
<1> HIDE DEF c
<1>8. ASSUME NEW d \in Customers
      PROVE  ledger'[d]["PLATFORM_ESCROW"] = SumOf(Total, CapturedOf(d)')
  BY <1>2, <1>3, <1>7 DEF EscrowIsSumOfCaptured
<1> QED BY <1>8 DEF EscrowIsSumOfCaptured

\* The escrow account of a customer is the sum of the captured reservations.
LEMMA EscrowIsExact == Spec => []EscrowIsSumOfCaptured
<1>1. Init => EscrowIsSumOfCaptured
  <2> SUFFICES ASSUME Init PROVE EscrowIsSumOfCaptured
    OBVIOUS
  <2>1. \A c \in Customers : CapturedOf(c) = {} /\ ledger[c]["PLATFORM_ESCROW"] = 0
    BY DEF Init, CapturedOf, ReservedAs, Accounts
  <2>2. SumOf(Total, {}) = 0
    BY DomainAssumption, NumberAssumption, SumOfNone
  <2> QED BY <2>1, <2>2 DEF EscrowIsSumOfCaptured
<1>2. TypeOK /\ Agreement /\ EscrowIsSumOfCaptured /\ [Next]_vars => EscrowIsSumOfCaptured'
  <2> SUFFICES ASSUME TypeOK, Agreement, EscrowIsSumOfCaptured, [Next]_vars
               PROVE  EscrowIsSumOfCaptured'
    OBVIOUS
  <2> USE DEF moneyVars, calendarVars, handlerVars
  <2>1. ASSUME NEW b \in Bookings, CommitRequest(b) PROVE EscrowIsSumOfCaptured'
    <3>1. reservation[b] # "CAPTURED"
      BY <2>1 DEF CommitRequest, Agreement, FundsFollowBooking
    <3> QED BY <2>1, <3>1, EscrowKept DEF CommitRequest, Authorize, Accounts
  <2>2. ASSUME NEW b \in Bookings, Complete(b) PROVE EscrowIsSumOfCaptured'
    BY <2>2, EscrowGrows DEF Complete, Capture, CanRelease
  <2>3. ASSUME NEW call \in terminating, CommitTerminate(call) PROVE EscrowIsSumOfCaptured'
    <3>1. call.booking \in Bookings
      BY DEF TypeOK, Calls
    <3> QED BY <2>3, <3>1, EscrowKept DEF CommitTerminate, Release, CanRelease, Accounts
  <2>4. ASSUME UNCHANGED <<ledger, reservation>> PROVE EscrowIsSumOfCaptured'
    BY <2>4 DEF EscrowIsSumOfCaptured, CapturedOf, ReservedAs
  <2> QED
    BY <2>1, <2>2, <2>3, <2>4
       DEF Next, RequestStep, AcceptStep, TerminateStep, CompleteStep, CompleteByCreator,
           CompleteAutomatically, BeginRequest, FailRequest, BeginAccept, CommitAccept,
           BeginTerminate, FailTerminate, SlotStep, EnableSlot, DisableSlot, DeleteSlot,
           EditSlot, CancelAvailability, Tick, Crash, vars
<1> QED BY <1>1, <1>2, TypeCorrect, AlwaysAgree, PTL DEF Spec

\* Each balance of a wallet, and what its owner's bookings left in escrow, can be
\* recomputed from the deposit and the reservations, whatever raced or crashed.
THEOREM BalancesAreExact == Spec => []BalancesAreExplained
<1>1. TypeOK /\ MoneyConserved /\ ReservedIsSumOfActive /\ EscrowIsSumOfCaptured
         => BalancesAreExplained
  <2> SUFFICES ASSUME TypeOK, MoneyConserved, ReservedIsSumOfActive, EscrowIsSumOfCaptured,
                      NEW c \in Customers
               PROVE  wallet[c].availableBalance
                        = Deposit[c] - SumOf(Total, ActiveOf(c)) - SumOf(Total, CapturedOf(c))
    BY DEF BalancesAreExplained, EscrowIsSumOfCaptured
  <2>1. \A a \in Accounts : ledger[c][a] \in Int
    BY DEF TypeOK
  <2>2. /\ wallet[c].availableBalance = ledger[c]["WALLET_AVAILABLE"]
        /\ SumOf(Total, ActiveOf(c)) = ledger[c]["WALLET_RESERVED"]
        /\ SumOf(Total, CapturedOf(c)) = ledger[c]["PLATFORM_ESCROW"]
        /\ ledger[c]["WALLET_AVAILABLE"] + ledger[c]["WALLET_RESERVED"]
             + ledger[c]["PLATFORM_ESCROW"] = Deposit[c]
    BY DEF MoneyConserved, ReservedIsSumOfActive, EscrowIsSumOfCaptured
  <2> QED BY <2>1, <2>2, NumberAssumption DEF Accounts
<1> QED BY <1>1, TypeCorrect, MoneyIsConserved, ReservedIsExact, EscrowIsExact, PTL

-----------------------------------------------------------------------------
(* Refinement of BookingFunds: a request that commits is a Hold, a termination *)
(* a Return, a completion an Earn, and every other step stutters.              *)

\* Changing one reservation changes the place of that booking's price alone.
LEMMA PlaceChange ==
  ASSUME TypeOK, NEW b \in Bookings, NEW status \in ReservationStatus,
         reservation' = [reservation EXCEPT ![b] = status]
  PROVE  \A other \in Bookings \ {b} : Place(other)' = Place(other)
  BY DEF Place, TypeOK

\* What the customer is promised: a price is taken once, and then returned once
\* or earned, however handlers, jobs, crashes and retries interleave.
THEOREM FundsRefinement == Spec => FundsSpec
<1> DEFINE place == [b \in Bookings |-> Place(b)]
           spendable == [c \in Customers |-> wallet[c].availableBalance]
<1>1. Init => Funds!Init
  BY DEF Init, Funds!Init, Place
<1>2. TypeOK /\ Agreement /\ [Next]_vars => [Funds!Next]_<<place, spendable>>
  <2> SUFFICES ASSUME TypeOK, Agreement, [Next]_vars PROVE Funds!Next \/ UNCHANGED <<place, spendable>>
    OBVIOUS
  <2> USE DomainAssumption, NumberAssumption DEF moneyVars, calendarVars, handlerVars
  <2>1. ASSUME NEW b \in Bookings, CommitRequest(b) PROVE Funds!Next
    <3>0. reservation[b] = "NONE"
      BY <2>1 DEF CommitRequest, Agreement, FundsFollowBooking
    <3>1. /\ reservation' = [reservation EXCEPT ![b] = "ACTIVE"]
          /\ wallet[CustomerOf[b]].availableBalance >= Total[b]
          /\ Project(CustomerOf[b], -Total[b], Total[b])
      BY <2>1 DEF CommitRequest, Authorize, MeetsMinimum
    <3>2. place' = [place EXCEPT ![b] = "held"]
      BY <3>1, PlaceChange DEF Place, TypeOK, ReservationStatus
    <3>3. spendable' = [spendable EXCEPT ![CustomerOf[b]] = @ + (-Total[b])]
      <4>1. CustomerOf[b] \in Customers /\ Total[b] \in Int /\ -Total[b] \in Int
        OBVIOUS
      <4>2. /\ wallet'[CustomerOf[b]].availableBalance
                 = wallet[CustomerOf[b]].availableBalance + (-Total[b])
            /\ \A d \in Customers \ {CustomerOf[b]} : wallet'[d] = wallet[d]
        BY <3>1, <4>1, ProjectEffect DEF TypeOK
      <4> QED BY <4>1, <4>2
    <3> QED BY <3>0, <3>1, <3>2, <3>3 DEF Funds!Next, Funds!Hold, Funds!Move, Place
  <2>2. ASSUME NEW b \in Bookings, Complete(b) PROVE Funds!Next
    <3>1. /\ reservation[b] = "ACTIVE"
          /\ reservation' = [reservation EXCEPT ![b] = "CAPTURED"]
          /\ Project(CustomerOf[b], 0, -Total[b])
      BY <2>2 DEF Complete, Capture, CanRelease
    <3>2. place' = [place EXCEPT ![b] = "earned"]
      BY <3>1, PlaceChange DEF Place, TypeOK, ReservationStatus
    <3>3. spendable' = [spendable EXCEPT ![CustomerOf[b]] = @ + 0]
      BY <3>1, ProjectEffect DEF TypeOK, Wallets
    <3> QED BY <3>1, <3>2, <3>3 DEF Funds!Next, Funds!Earn, Funds!Move, Place
  <2>3. ASSUME NEW call \in terminating, CommitTerminate(call) PROVE Funds!Next
    <3> DEFINE b == call.booking
    <3>0. b \in Bookings
      BY DEF TypeOK, Calls
    <3>1. /\ reservation[b] = "ACTIVE"
          /\ reservation' = [reservation EXCEPT ![b] = "RELEASED"]
          /\ Project(CustomerOf[b], Total[b], -Total[b])
      BY <2>3 DEF CommitTerminate, Release, CanRelease
    <3>2. place' = [place EXCEPT ![b] = "returned"]
      BY <3>0, <3>1, PlaceChange DEF Place, TypeOK, ReservationStatus
    <3>3. spendable' = [spendable EXCEPT ![CustomerOf[b]] = @ + Total[b]]
      BY <3>0, <3>1, ProjectEffect DEF TypeOK, Wallets
    <3> QED BY <3>0, <3>1, <3>2, <3>3 DEF Funds!Next, Funds!Return, Funds!Move, Place
  <2>4. ASSUME UNCHANGED <<wallet, reservation>> PROVE UNCHANGED <<place, spendable>>
    BY <2>4 DEF Place
  <2> QED
    BY <2>1, <2>2, <2>3, <2>4
       DEF Next, RequestStep, AcceptStep, TerminateStep, CompleteStep, CompleteByCreator,
           CompleteAutomatically, BeginRequest, FailRequest, BeginAccept, CommitAccept,
           BeginTerminate, FailTerminate, SlotStep, EnableSlot, DisableSlot, DeleteSlot,
           EditSlot, CancelAvailability, Tick, Crash, vars
<1>3. Spec => [](TypeOK /\ Agreement)
  BY TypeCorrect, AlwaysAgree, PTL
<1> QED BY <1>1, <1>2, <1>3, PTL DEF Spec, FundsSpec, Funds!Spec, Funds!fundsVars

-----------------------------------------------------------------------------
(* Slots.  Without the unguarded slot routes every slot that leaves AVAILABLE  *)
(* belongs to one booking, and only that booking's steps move it.              *)

\* Without the unguarded slot routes, every step keeps the slots exclusive.
LEMMA SlotsNext ==
  ASSUME SlotEdits = {}
  PROVE  TypeOK /\ Agreement /\ SlotsExclusive /\ [Next]_vars => SlotsExclusive'
  <1> SUFFICES ASSUME TypeOK, Agreement, SlotsExclusive, [Next]_vars PROVE SlotsExclusive'
    OBVIOUS
  <1> USE DomainAssumption DEF moneyVars, calendarVars, handlerVars
  <1>1. ASSUME NEW b \in Bookings, CommitRequest(b) PROVE SlotsExclusive'
    <2>1. /\ booking' = [booking EXCEPT ![b] = "REQUESTED"]
          /\ SetSlots(SlotsOf[b], "LOCKED")
          /\ \A s \in SlotsOf[b] : slot[s] = "AVAILABLE"
      BY <1>1 DEF CommitRequest, SlotsRequestable
    <2>2. \A other \in Bookings \ {b} :
             booking[other] \in Live \cup {"COMPLETED"} => SlotsOf[b] \cap SlotsOf[other] = {}
      BY <2>1 DEF SlotsExclusive, Live
    <2> QED BY <2>1, <2>2 DEF SlotsExclusive, SetSlots, Live, TypeOK
  <1>2. ASSUME NEW b \in Bookings, CommitAccept(b) PROVE SlotsExclusive'
    <2>1. /\ booking' = [booking EXCEPT ![b] = "CONFIRMED"]
          /\ SetSlots(SlotsOf[b], "BOOKED")
          /\ booking[b] = "REQUESTED"
      BY <1>2 DEF CommitAccept, Agreement, OpenAcceptIsCurrent
    <2> QED BY <2>1 DEF SlotsExclusive, SetSlots, Live, TypeOK
  <1>3. ASSUME NEW b \in Bookings, Complete(b) PROVE SlotsExclusive'
    BY <1>3 DEF Complete, SlotsExclusive, Live, TypeOK
  <1>4. ASSUME NEW call \in terminating, CommitTerminate(call) PROVE SlotsExclusive'
    <2> DEFINE b == call.booking
    <2>0. b \in Bookings
      BY DEF TypeOK, Calls
    <2>1. /\ booking' = [booking EXCEPT ![b] = TargetStatus(call.type)]
          /\ SetSlots(SlotsOf[b], "AVAILABLE")
          /\ booking[b] \in Live
          /\ TargetStatus(call.type) \in Terminated
      BY <1>4 DEF CommitTerminate, TargetStatus, Live, Terminated
    <2>2. \A other \in Bookings \ {b} :
             booking[other] \in Live \cup {"COMPLETED"} => SlotsOf[b] \cap SlotsOf[other] = {}
      BY <2>0, <2>1 DEF SlotsExclusive
    <2> QED BY <2>0, <2>1, <2>2 DEF SlotsExclusive, SetSlots, Live, Terminated, TypeOK
  <1>5. ASSUME NEW a \in Availabilities, CancelAvailability(a) PROVE SlotsExclusive'
    <2>1. /\ booking' = booking
          /\ SetSlots({s \in {t \in Slots : AvailabilityOf[t] = a} : slot[s] = "AVAILABLE"},
                      "CANCELLED")
      BY <1>5 DEF CancelAvailability
    <2> QED BY <2>1 DEF SlotsExclusive, SetSlots, TypeOK
  <1>6. ASSUME NEW s \in Slots, SlotStep(s) PROVE SlotsExclusive'
    BY <1>6 DEF SlotStep, EnableSlot, DisableSlot, DeleteSlot, EditSlot
  <1>7. ASSUME UNCHANGED <<slot, booking>> PROVE SlotsExclusive'
    BY <1>7 DEF SlotsExclusive
  <1> QED
    BY <1>1, <1>2, <1>3, <1>4, <1>5, <1>6, <1>7
       DEF Next, RequestStep, AcceptStep, TerminateStep, CompleteStep, CompleteByCreator,
           CompleteAutomatically, BeginRequest, FailRequest, BeginAccept, BeginTerminate,
           FailTerminate, Tick, Crash, vars

\* No slot is sold twice as long as the creator uses no route that sets a slot's
\* status without looking at it.
THEOREM SlotsAreExclusive ==
  ASSUME SlotEdits = {} PROVE Spec => []SlotsExclusive
<1>1. Init => SlotsExclusive
  BY DEF Init, SlotsExclusive, Live
<1>2. TypeOK /\ Agreement /\ SlotsExclusive /\ [Next]_vars => SlotsExclusive'
  BY SlotsNext
<1>3. Spec => [](TypeOK /\ Agreement)
  BY TypeCorrect, AlwaysAgree, PTL
<1> QED BY <1>1, <1>2, <1>3, PTL DEF Spec

\* What EveryHoldEnds rests on: nothing can get in the way of ending a hold.  Where
\* no slot route ignores the slot's status, the slots, the documents and the funds
\* of a live booking are such that its termination commits, in every state.
THEOREM TerminationsSucceed ==
  ASSUME SlotEdits = {}
  PROVE  Spec => [](\A b \in Bookings : reservation[b] = "ACTIVE" =>
                       booking[b] \in Live /\ SlotsReleasable(b) /\ CanRelease(b))
<1>1. TypeOK /\ Agreement /\ SlotsExclusive /\ (\A b \in Bookings : booking[b] \in Live => CanRelease(b))
        => \A b \in Bookings : reservation[b] = "ACTIVE" =>
              booking[b] \in Live /\ SlotsReleasable(b) /\ CanRelease(b)
  <2> SUFFICES ASSUME TypeOK, Agreement, SlotsExclusive, NEW b \in Bookings,
                      booking[b] \in Live => CanRelease(b), reservation[b] = "ACTIVE"
               PROVE  booking[b] \in Live /\ SlotsReleasable(b) /\ CanRelease(b)
    OBVIOUS
  <2>1. booking[b] \in Live
    BY DEF TypeOK, Agreement, FundsFollowBooking, BookingStatus, Live, Terminal, Terminated
  <2>2. \A s \in SlotsOf[b] : s \in Slots
    BY DomainAssumption
  <2> QED BY <2>1, <2>2 DEF SlotsExclusive, SlotsReleasable, Live
<1>2. Spec => []SlotsExclusive
  BY SlotsAreExclusive
<1> QED BY <1>1, <1>2, TypeCorrect, AlwaysAgree, ReservationsAreCovered, PTL
=============================================================================
