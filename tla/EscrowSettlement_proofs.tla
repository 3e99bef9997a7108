---------------------- MODULE EscrowSettlement_proofs ----------------------
(* Proofs about EscrowSettlement, for any set of bookings, creators and       *)
(* administrators, any prices, windows and number of crashes.                 *)
EXTENDS EscrowSettlement, PriceList, FiniteSums_proofs, TLAPS

\* What a release knows of its booking at each step.  The conflicts that make
\* open transactions start over are what keeps it true.
Knows(c) ==
    LET b == call[c].booking
    IN  /\ call[c].step = "allocating" => Completed(b) /\ allocation[b] = "NONE"
        /\ call[c].step \in {"settle", "settling"} => allocation[b] = "ALLOCATED"
        /\ call[c].step = "settling" => settlement[b] = "NONE"

CallsKnow == \A c \in Callers : Knows(c)

\* Whatever the job has to release, or is releasing, is past its hold, so no
\* dispute opens on it any more.
JobWaits ==
    /\ \A b \in due : age[b] >= Hold
    /\ call[Job].step # "idle" => age[call[Job].booking] >= Hold
    /\ call[Job].step = "settling" => dispute[call[Job].booking] # "OPEN"

-----------------------------------------------------------------------------
(* Lemmas *)

\* The amounts of a booking are integers, add up to its price, and the
\* creator's part is positive.
LEMMA Amounts ==
  ASSUME NEW b \in Bookings
  PROVE  /\ Total(Service[b]) \in Int /\ Commission(Service[b]) \in Int
         /\ PlatformFee(Service[b]) \in Int /\ Earning(b) \in Nat
         /\ Total(Service[b])
              = PlatformFee(Service[b]) + Commission(Service[b]) + Earning(b)
<1>1. Service[b] \in Nat /\ Priceable(Service[b])
  BY DomainAssumption
<1>2. PlatformFee(Service[b]) \in Int /\ Commission(Service[b]) \in Int
  BY <1>1, RateAssumption DEF PlatformFee, Commission, CalculateBps
<1> QED
  BY <1>1, <1>2 DEF Priceable, Total, Earning, CreatorAmount

\* Entries change the accounts of one booking, each by its amount.
LEMMA PostEffect ==
  ASSUME money \in [Bookings -> [Accounts -> Int]], NEW b \in Bookings,
         NEW change \in [Accounts -> Int], Post(b, change)
  PROVE  /\ money' \in [Bookings -> [Accounts -> Int]]
         /\ \A a \in Accounts : money'[b][a] = money[b][a] + change[a]
         /\ \A d \in Bookings \ {b} : money'[d] = money[d]
<1> DEFINE new == [a \in Accounts |-> money[b][a] + change[a]]
<1>1. money' = [money EXCEPT ![b] = new]
  BY DEF Post
<1>2. new \in [Accounts -> Int]
  OBVIOUS
<1> QED BY <1>1, <1>2

\* The entries of the three stages, as changes of the accounts.
CaptureEntries(b) == [NoChange EXCEPT !["escrow"] = Total(Service[b])]
AllocationEntries(b) ==
    [NoChange EXCEPT !["escrow"] = -Total(Service[b]),
                     !["commission"] = Commission(Service[b]),
                     !["fee"] = PlatformFee(Service[b]),
                     !["payable"] = Earning(b)]
SettlementEntries(b) ==
    [NoChange EXCEPT !["payable"] = -Earning(b), !["wallet"] = Earning(b)]

LEMMA Entries ==
  ASSUME NEW b \in Bookings
  PROVE  /\ CaptureEntries(b) \in [Accounts -> Int]
         /\ AllocationEntries(b) \in [Accounts -> Int]
         /\ SettlementEntries(b) \in [Accounts -> Int]
<1>1. NoChange \in [Accounts -> Int]
  BY DEF NoChange
<1>2. /\ Total(Service[b]) \in Int /\ -Total(Service[b]) \in Int
      /\ Commission(Service[b]) \in Int /\ PlatformFee(Service[b]) \in Int
      /\ Earning(b) \in Int /\ -Earning(b) \in Int
  BY Amounts
<1>3. ASSUME NEW f \in [Accounts -> Int], NEW a, NEW n \in Int
      PROVE  [f EXCEPT ![a] = n] \in [Accounts -> Int]
  OBVIOUS
<1>4. CaptureEntries(b) \in [Accounts -> Int]
  BY <1>1, <1>2, <1>3 DEF CaptureEntries
<1>5. AllocationEntries(b) \in [Accounts -> Int]
  BY <1>1, <1>2 DEF AllocationEntries
<1>6. SettlementEntries(b) \in [Accounts -> Int]
  BY <1>1, <1>2 DEF SettlementEntries
<1> QED BY <1>4, <1>5, <1>6

\* A release that is under way has a booking.
LEMMA CallFields ==
  ASSUME TypeOK, NEW c \in Callers, call[c].step # "idle"
  PROVE  /\ call[c].booking \in Bookings
         /\ call[c] \in [step : {"allocate", "allocating", "settle", "settling"},
                         booking : Bookings]
  BY DEF TypeOK, CallState, Idle

\* A step of c moves its release on and leaves the others alone.
LEMMA GotoEffect ==
  ASSUME TypeOK, NEW c \in Callers, call[c].step # "idle",
         NEW s \in {"allocate", "allocating", "settle", "settling"}, Goto(c, s)
  PROVE  call' = [call EXCEPT ![c] = [step |-> s, booking |-> call[c].booking]]
<1>1. [call[c] EXCEPT !.step = s] = [step |-> s, booking |-> call[c].booking]
  BY CallFields
<1> QED BY <1>1 DEF Goto, TypeOK

\* An open allocation commits, and those of the same booking start over.
LEMMA RetryAllocationEffect ==
  ASSUME TypeOK, NEW c \in Callers, call[c].step = "allocating",
         RetryAllocation(c, call[c].booking)
  PROVE  LET b == call[c].booking
         IN  /\ call' \in [Callers -> CallState]
             /\ call'[c] = [step |-> "settle", booking |-> b]
             /\ \A d \in Callers \ {c} :
                   \/ call'[d] = call[d] /\ ~(call[d].step = "allocating" /\ call[d].booking = b)
                   \/ /\ call[d].step = "allocating" /\ call[d].booking = b
                      /\ call'[d] = [step |-> "allocate", booking |-> b]
<1> DEFINE b == call[c].booking
<1>1. b \in Bookings
  BY CallFields
<1>2. [call[c] EXCEPT !.step = "settle"] = [step |-> "settle", booking |-> b]
  BY CallFields
<1>3. \A d \in Callers : call[d].step = "allocating" /\ call[d].booking = b
                          <=> call[d] = [step |-> "allocating", booking |-> b]
  BY CallFields
<1> HIDE DEF b
<1>4. call' = [d \in Callers |->
        IF d = c THEN [step |-> "settle", booking |-> b]
        ELSE IF call[d] = [step |-> "allocating", booking |-> b]
             THEN [step |-> "allocate", booking |-> b] ELSE call[d]]
  BY <1>2 DEF RetryAllocation, b
<1>5. call' \in [Callers -> CallState]
  BY <1>1, <1>4 DEF TypeOK, CallState
<1> QED BY <1>3, <1>4, <1>5 DEF b

\* A write of a wallet makes the open settlements into it start over.
LEMMA ReopenedEffect ==
  ASSUME TypeOK, NEW d \in Callers, NEW w
  PROVE  /\ Reopened(d, w) \in CallState
         /\ \/ /\ Reopened(d, w) = call[d]
               /\ ~(call[d].step = "settling" /\ CreatorOf[call[d].booking] = w)
            \/ /\ call[d].step = "settling"
               /\ Reopened(d, w) = [step |-> "settle", booking |-> call[d].booking]
<1>1. CASE call[d].step = "settling" /\ CreatorOf[call[d].booking] = w
  <2>1. call[d].booking \in Bookings
    BY <1>1, CallFields
  <2>2. [call[d] EXCEPT !.step = "settle"] = [step |-> "settle", booking |-> call[d].booking]
    BY <1>1, CallFields
  <2> QED BY <1>1, <2>1, <2>2 DEF Reopened, CallState
<1>2. CASE ~(call[d].step = "settling" /\ CreatorOf[call[d].booking] = w)
  BY <1>2 DEF Reopened, TypeOK
<1> QED BY <1>1, <1>2

\* An open settlement commits, and those into the same wallet start over.
LEMMA RetrySettlementEffect ==
  ASSUME TypeOK, NEW c \in Callers, call[c].step = "settling",
         RetrySettlement(c, call[c].booking)
  PROVE  LET b == call[c].booking
         IN  /\ call' \in [Callers -> CallState]
             /\ call'[c] = Idle
             /\ \A d \in Callers \ {c} :
                   \/ /\ call'[d] = call[d]
                      /\ ~(call[d].step = "settling" /\ CreatorOf[call[d].booking] = CreatorOf[b])
                   \/ /\ call[d].step = "settling"
                      /\ call'[d] = [step |-> "settle", booking |-> call[d].booking]
<1> DEFINE w == CreatorOf[call[c].booking]
<1>1. call' = [d \in Callers |-> IF d = c THEN Idle ELSE Reopened(d, w)]
  BY DEF RetrySettlement
<1> HIDE DEF w
<1>2. call' \in [Callers -> CallState] /\ call'[c] = Idle
  BY <1>1, ReopenedEffect DEF CallState
<1>3. ASSUME NEW d \in Callers \ {c} PROVE call'[d] = Reopened(d, w)
  BY <1>1
<1> QED BY <1>2, <1>3, ReopenedEffect DEF w

\* A use of the wallet makes the open settlements into it start over.
LEMMA UseEffect ==
  ASSUME TypeOK, NEW w \in Creators, NEW n \in Uses, UseWallet(w, n)
  PROVE  /\ call' \in [Callers -> CallState]
         /\ \A d \in Callers :
               \/ /\ call'[d] = call[d]
                  /\ ~(call[d].step = "settling" /\ CreatorOf[call[d].booking] = w)
               \/ /\ call[d].step = "settling"
                  /\ call'[d] = [step |-> "settle", booking |-> call[d].booking]
<1>1. call' = [d \in Callers |-> Reopened(d, w)]
  BY DEF UseWallet
<1>2. call' \in [Callers -> CallState]
  BY <1>1, ReopenedEffect
<1>3. ASSUME NEW d \in Callers PROVE call'[d] = Reopened(d, w)
  BY <1>1
<1> QED BY <1>2, <1>3, ReopenedEffect

-----------------------------------------------------------------------------
(* Types *)

\* Every variable keeps its type; in particular no wallet becomes negative.
THEOREM EscrowTypes == Spec => []TypeOK
<1>1. Init => TypeOK
  BY DomainAssumption DEF Init, TypeOK, CallState, Accounts, Idle
<1>2. TypeOK /\ [Next]_vars => TypeOK'
  <2> SUFFICES ASSUME TypeOK, [Next]_vars PROVE TypeOK'
    OBVIOUS
  <2> USE DomainAssumption
  <2>1. ASSUME NEW b \in Bookings, Complete(b) PROVE TypeOK'
    <3>1. Cardinality({d \in Bookings : Completed(d)}) \in Nat
      BY FS_Subset, FS_CardinalityType
    <3>4. rank' \in [Bookings -> Nat]
      BY <2>1, <3>1 DEF Complete, TypeOK
    <3>2. Post(b, CaptureEntries(b))
      BY <2>1 DEF Complete, CaptureEntries
    <3>3. money' \in [Bookings -> [Accounts -> Int]]
      BY <3>2, Entries, PostEffect DEF TypeOK
    <3> QED BY <2>1, <3>3, <3>4 DEF Complete, TypeOK
  <2>2. ASSUME NEW b \in Bookings, OpenDispute(b) \/ ResolveDispute(b) PROVE TypeOK'
    BY <2>2 DEF OpenDispute, ResolveDispute, TypeOK
  <2>3. ASSUME Tick PROVE TypeOK'
    BY <2>3 DEF Tick, TypeOK
  <2>4. ASSUME BeginPass PROVE TypeOK'
    BY <2>4 DEF BeginPass, FirstDue, TypeOK
  <2>5. ASSUME NEW b \in Bookings, ReleaseNext(b) PROVE TypeOK'
    BY <2>5 DEF ReleaseNext, Begin, TypeOK, CallState
  <2>6. ASSUME NEW c \in Admins, NEW b \in Bookings, ReleaseEarly(c, b) PROVE TypeOK'
    BY <2>6 DEF ReleaseEarly, Begin, TypeOK, CallState
  <2>7. ASSUME NEW c \in Callers, OpenAllocate(c) \/ OpenSettle(c) PROVE TypeOK'
    <3>0. call[c].step # "idle" /\ call[c].booking \in Bookings
      BY <2>7, CallFields DEF OpenAllocate, OpenSettle
    <3>1. CASE End(c)
      BY <2>7, <3>1 DEF OpenAllocate, OpenSettle, End, TypeOK, CallState
    <3>2. ASSUME NEW s \in {"allocating", "settle", "settling"}, Goto(c, s)
          PROVE call' \in [Callers -> CallState]
      BY <3>0, <3>2, GotoEffect DEF TypeOK, CallState
    <3> QED BY <2>7, <3>1, <3>2 DEF OpenAllocate, OpenSettle, TypeOK
  <2>8. ASSUME NEW c \in Callers, CommitAllocate(c) PROVE TypeOK'
    <3> DEFINE b == call[c].booking
    <3>1. b \in Bookings
      BY <2>8, CallFields DEF CommitAllocate
    <3>2. Post(b, AllocationEntries(b))
      BY <2>8 DEF CommitAllocate, AllocationEntries
    <3>3. money' \in [Bookings -> [Accounts -> Int]]
      BY <3>1, <3>2, Entries, PostEffect DEF TypeOK
    <3>4. call' \in [Callers -> CallState]
      BY <2>8, RetryAllocationEffect DEF CommitAllocate
    <3> QED BY <2>8, <3>1, <3>3, <3>4 DEF CommitAllocate, TypeOK
  <2>9. ASSUME NEW c \in Callers, CommitSettle(c) PROVE TypeOK'
    <3> DEFINE b == call[c].booking
    <3>1. b \in Bookings
      BY <2>9, CallFields DEF CommitSettle
    <3>2. Post(b, SettlementEntries(b))
      BY <2>9 DEF CommitSettle, SettlementEntries
    <3>3. money' \in [Bookings -> [Accounts -> Int]]
      BY <3>1, <3>2, Entries, PostEffect DEF TypeOK
    <3>4. call' \in [Callers -> CallState]
      BY <2>9, RetrySettlementEffect DEF CommitSettle
    <3>5. wallet' \in [Creators -> Nat]
      BY <2>9, <3>1, Amounts DEF CommitSettle, Credit, TypeOK
    <3> QED BY <2>9, <3>1, <3>3, <3>4, <3>5 DEF CommitSettle, TypeOK
  <2>12. ASSUME NEW w \in Creators, NEW n \in Uses, UseWallet(w, n) PROVE TypeOK'
    <3>1. n \in Nat /\ wallet[w] - n \in Nat /\ spent[w] + n \in Nat
      BY <2>12 DEF UseWallet, TypeOK
    <3>2. wallet' \in [Creators -> Nat] /\ spent' \in [Creators -> Nat]
      BY <2>12, <3>1 DEF UseWallet, TypeOK
    <3> QED BY <2>12, <3>2, UseEffect DEF UseWallet, TypeOK
  <2>10. ASSUME Crash PROVE TypeOK'
    BY <2>10 DEF Crash, TypeOK, CallState
  <2>11. CASE UNCHANGED vars
    BY <2>11 DEF vars, TypeOK
  <2> QED
    BY <2>1, <2>2, <2>3, <2>4, <2>5, <2>6, <2>7, <2>8, <2>9, <2>10, <2>11, <2>12 DEF Next, Proceed
<1> QED BY <1>1, <1>2, PTL DEF Spec

-----------------------------------------------------------------------------
(* The ledger follows the records *)

\* What the records of booking b say, and what it has on each account.
Staged(b) ==
    /\ settlement[b] = "SETTLED" => allocation[b] = "ALLOCATED"
    /\ allocation[b] = "ALLOCATED" => Completed(b)

Has(b, escrow, commission, fee, payable, paid) ==
    /\ money[b]["escrow"] = escrow /\ money[b]["commission"] = commission
    /\ money[b]["fee"] = fee /\ money[b]["payable"] = payable /\ money[b]["wallet"] = paid

HasNothing(b) == Has(b, 0, 0, 0, 0, 0)
HasHeld(b) == Has(b, Total(Service[b]), 0, 0, 0, 0)
HasSplit(b) == Has(b, 0, Commission(Service[b]), PlatformFee(Service[b]), Earning(b), 0)
HasPaid(b) == Has(b, 0, Commission(Service[b]), PlatformFee(Service[b]), 0, Earning(b))

Agreed(b) ==
    /\ Staged(b)
    /\ ~Completed(b) => HasNothing(b)
    /\ Completed(b) /\ allocation[b] # "ALLOCATED" => HasHeld(b)
    /\ allocation[b] = "ALLOCATED" /\ settlement[b] # "SETTLED" => HasSplit(b)
    /\ settlement[b] = "SETTLED" => HasPaid(b)

LEMMA LedgerIsAgreed == LedgerFollowsRecords <=> \A b \in Bookings : Agreed(b)
  BY DEF LedgerFollowsRecords, Agreed, Staged, Has, HasNothing, HasHeld, HasSplit, HasPaid

\* A step that leaves the records and the money of booking b alone.
LEMMA AgreedKept ==
  ASSUME NEW b \in Bookings, Agreed(b), rank'[b] = rank[b], allocation'[b] = allocation[b],
         settlement'[b] = settlement[b], money'[b] = money[b]
  PROVE  Agreed(b)'
  BY DEF Agreed, Staged, Has, HasNothing, HasHeld, HasSplit, HasPaid, Completed, Earning

Consistent == LedgerFollowsRecords /\ CallsKnow

LEMMA ConsistentNext == TypeOK /\ Consistent /\ [Next]_vars => Consistent'
<1> SUFFICES ASSUME TypeOK, Consistent, [Next]_vars PROVE (\A b \in Bookings : Agreed(b))' /\ CallsKnow'
  BY LedgerIsAgreed, PTL DEF Consistent
<1> USE DomainAssumption
<1>0. (\A b \in Bookings : Agreed(b)) /\ CallsKnow
  BY LedgerIsAgreed DEF Consistent
<1>1. ASSUME NEW b \in Bookings, Complete(b)
      PROVE (\A d \in Bookings : Agreed(d))' /\ CallsKnow'
  <2>1. Cardinality({d \in Bookings : Completed(d)}) \in Nat
    BY FS_Subset, FS_CardinalityType
  <2>2. Completed(b)' /\ \A d \in Bookings : Completed(d) => Completed(d)'
    BY <1>1, <2>1 DEF Complete, Completed, TypeOK
  <2>3. Post(b, CaptureEntries(b))
    BY <1>1 DEF Complete, CaptureEntries
  <2>4. /\ \A a \in Accounts : money'[b][a] = money[b][a] + CaptureEntries(b)[a]
        /\ \A d \in Bookings \ {b} : money'[d] = money[d]
    BY <2>3, Entries, PostEffect DEF TypeOK
  <2>5. Agreed(b)'
    <3>1. /\ allocation'[b] = "NONE" /\ settlement'[b] = "NONE"
          /\ allocation[b] = "NONE" /\ settlement[b] = "NONE"
      BY <1>0, <1>1 DEF Complete, Agreed, Staged, TypeOK
    <3>2. HasNothing(b)
      BY <1>0, <1>1 DEF Complete, Agreed
    <3>3. HasHeld(b)'
      BY <2>4, <3>2, Amounts
         DEF CaptureEntries, NoChange, Accounts, Has, HasNothing, HasHeld
    <3> QED BY <2>2, <3>1, <3>3 DEF Agreed, Staged
  <2>6. \A d \in Bookings \ {b} : Agreed(d)'
    BY <1>0, <1>1, <2>4, AgreedKept DEF Complete, TypeOK
  <2>7. CallsKnow'
    BY <1>0, <1>1, <2>2 DEF Complete, CallsKnow, Knows, TypeOK, CallState, Idle
  <2> QED BY <2>5, <2>6, <2>7
<1>2. ASSUME NEW c \in Callers, CommitAllocate(c)
      PROVE (\A b \in Bookings : Agreed(b))' /\ CallsKnow'
  <2>0. PICK b \in Bookings : b = call[c].booking
    BY <1>2, CallFields DEF CommitAllocate
  <2>1. allocation[b] = "NONE" /\ Completed(b) /\ settlement[b] = "NONE"
    BY <1>0, <1>2, <2>0 DEF CommitAllocate, CallsKnow, Knows, Agreed, Staged, TypeOK
  <2>2. Post(b, AllocationEntries(b))
    BY <1>2, <2>0 DEF CommitAllocate, AllocationEntries
  <2>3. /\ \A a \in Accounts : money'[b][a] = money[b][a] + AllocationEntries(b)[a]
        /\ \A d \in Bookings \ {b} : money'[d] = money[d]
    BY <2>1, <2>2, Entries, PostEffect DEF TypeOK
  <2>4. /\ allocation' = [allocation EXCEPT ![b] = "ALLOCATED"]
        /\ rank' = rank /\ settlement' = settlement
    BY <1>2, <2>0 DEF CommitAllocate
  <2>5. Agreed(b)'
    <3>1. HasHeld(b)
      BY <1>0, <2>1 DEF Agreed
    <3>2. HasSplit(b)'
      BY <2>1, <2>3, <3>1, Amounts
         DEF AllocationEntries, NoChange, Accounts, Has, HasHeld, HasSplit, Earning
    <3> QED BY <2>1, <2>4, <3>2 DEF Agreed, Staged, Completed, TypeOK
  <2>6. \A d \in Bookings \ {b} : Agreed(d)'
    BY <1>0, <2>3, <2>4, AgreedKept DEF TypeOK
  <2>7. CallsKnow'
    <3>1. /\ call'[c] = [step |-> "settle", booking |-> b]
          /\ \A d \in Callers \ {c} :
                \/ call'[d] = call[d] /\ ~(call[d].step = "allocating" /\ call[d].booking = b)
                \/ call'[d] = [step |-> "allocate", booking |-> b]
      BY <1>2, <2>0, RetryAllocationEffect DEF CommitAllocate
    <3>2. \A d \in Callers : call[d].step # "idle" => call[d].booking \in Bookings
      BY CallFields
    <3>3. Knows(c)'
      BY <2>4, <3>1 DEF Knows, TypeOK
    <3>4. ASSUME NEW d \in Callers \ {c} PROVE Knows(d)'
      <4>1. CASE call'[d] = [step |-> "allocate", booking |-> b]
        BY <4>1 DEF Knows
      <4>2. CASE call'[d] = call[d] /\ ~(call[d].step = "allocating" /\ call[d].booking = b)
        BY <1>0, <2>4, <3>2, <4>2 DEF CallsKnow, Knows, Completed, TypeOK
      <4> QED BY <3>1, <4>1, <4>2
    <3> QED BY <3>3, <3>4 DEF CallsKnow
  <2> QED BY <2>5, <2>6, <2>7
<1>3. ASSUME NEW c \in Callers, CommitSettle(c)
      PROVE (\A b \in Bookings : Agreed(b))' /\ CallsKnow'
  <2>0. PICK b \in Bookings : b = call[c].booking
    BY <1>3, CallFields DEF CommitSettle
  <2>1. allocation[b] = "ALLOCATED" /\ settlement[b] = "NONE" /\ Completed(b)
    BY <1>0, <1>3, <2>0 DEF CommitSettle, CallsKnow, Knows, Agreed, Staged
  <2>2. Post(b, SettlementEntries(b))
    BY <1>3, <2>0 DEF CommitSettle, SettlementEntries
  <2>3. /\ \A a \in Accounts : money'[b][a] = money[b][a] + SettlementEntries(b)[a]
        /\ \A d \in Bookings \ {b} : money'[d] = money[d]
    BY <2>1, <2>2, Entries, PostEffect DEF TypeOK
  <2>4. /\ settlement' = [settlement EXCEPT ![b] = "SETTLED"]
        /\ rank' = rank /\ allocation' = allocation
    BY <1>3, <2>0 DEF CommitSettle
  <2>5. Agreed(b)'
    <3>1. HasSplit(b)
      BY <1>0, <2>1 DEF Agreed
    <3>2. HasPaid(b)'
      BY <2>1, <2>3, <3>1, Amounts
         DEF SettlementEntries, NoChange, Accounts, Has, HasSplit, HasPaid, Earning
    <3> QED BY <2>1, <2>4, <3>2 DEF Agreed, Staged, Completed, TypeOK
  <2>6. \A d \in Bookings \ {b} : Agreed(d)'
    BY <1>0, <2>3, <2>4, AgreedKept DEF TypeOK
  <2>7. CallsKnow'
    <3>1. /\ call'[c] = Idle
          /\ \A d \in Callers \ {c} :
                \/ call'[d] = call[d] /\ ~(call[d].step = "settling" /\ call[d].booking = b)
                \/ /\ call[d].step = "settling"
                   /\ call'[d] = [step |-> "settle", booking |-> call[d].booking]
      <4>1. call[c].step = "settling" /\ RetrySettlement(c, b)
        BY <1>3, <2>0 DEF CommitSettle
      <4> QED BY <2>0, <4>1, RetrySettlementEffect
    <3>2. \A d \in Callers : call[d].step # "idle" => call[d].booking \in Bookings
      BY CallFields
    <3>3. Knows(c)'
      BY <3>1 DEF Knows, Idle
    <3>4. ASSUME NEW d \in Callers \ {c} PROVE Knows(d)'
      <4>1. CASE /\ call[d].step = "settling"
                 /\ call'[d] = [step |-> "settle", booking |-> call[d].booking]
        BY <1>0, <2>4, <4>1 DEF CallsKnow, Knows
      <4>2. CASE call'[d] = call[d] /\ ~(call[d].step = "settling" /\ call[d].booking = b)
        BY <1>0, <2>4, <3>2, <4>2 DEF CallsKnow, Knows, Completed, TypeOK
      <4> QED BY <3>1, <4>1, <4>2
    <3> QED BY <3>3, <3>4 DEF CallsKnow
  <2> QED BY <2>5, <2>6, <2>7
<1>4. ASSUME UNCHANGED <<rank, allocation, settlement, money>>
      PROVE  (\A b \in Bookings : Agreed(b))'
  BY <1>0, <1>4, AgreedKept
<1>5. ASSUME NEW c \in Callers, OpenAllocate(c) \/ OpenSettle(c) PROVE CallsKnow'
  <2>1. call[c].step # "idle" /\ call[c].booking \in Bookings
    BY <1>5, CallFields DEF OpenAllocate, OpenSettle
  <2>2. CASE End(c)
    BY <1>0, <1>5, <2>2 DEF OpenAllocate, OpenSettle, End, CallsKnow, Knows, Idle, Completed, TypeOK
  <2>3. ASSUME NEW s \in {"allocating", "settle", "settling"}, Goto(c, s)
        PROVE call' = [call EXCEPT ![c] = [step |-> s, booking |-> call[c].booking]]
    BY <2>1, <2>3, GotoEffect
  <2>4. CASE OpenAllocate(c) /\ allocation[call[c].booking] = "ALLOCATED" /\ Goto(c, "settle")
    BY <1>0, <2>1, <2>3, <2>4 DEF OpenAllocate, CallsKnow, Knows, Completed, TypeOK
  <2>5. CASE OpenAllocate(c) /\ allocation[call[c].booking] # "ALLOCATED"
             /\ Allocatable(call[c].booking) /\ Goto(c, "allocating")
    BY <1>0, <2>1, <2>3, <2>5 DEF OpenAllocate, Allocatable, CallsKnow, Knows, Completed, TypeOK
  <2>6. CASE OpenSettle(c) /\ settlement[call[c].booking] # "SETTLED"
             /\ Settleable(call[c].booking) /\ Fits(call[c].booking) /\ Goto(c, "settling")
    BY <1>0, <2>1, <2>3, <2>6 DEF OpenSettle, Settleable, CallsKnow, Knows, Completed, TypeOK
  <2> QED BY <1>5, <2>2, <2>4, <2>5, <2>6 DEF OpenAllocate, OpenSettle
<1>6. ASSUME NEW c \in Callers, NEW b \in Bookings, Begin(c, b),
             UNCHANGED <<rank, allocation, settlement>>
      PROVE  CallsKnow'
  BY <1>0, <1>6 DEF Begin, CallsKnow, Knows, Completed, TypeOK
<1>7. ASSUME Crash PROVE CallsKnow'
  BY <1>7 DEF Crash, CallsKnow, Knows, Idle
<1>8. ASSUME UNCHANGED <<rank, allocation, settlement, call>> PROVE CallsKnow'
  BY <1>0, <1>8 DEF CallsKnow, Knows, Completed
<1>9. ASSUME NEW w \in Creators, NEW n \in Uses, UseWallet(w, n) PROVE CallsKnow'
  <2>1. UNCHANGED <<rank, allocation, settlement>>
    BY <1>9 DEF UseWallet
  <2> SUFFICES ASSUME NEW d \in Callers PROVE Knows(d)'
    BY DEF CallsKnow
  <2>2. CASE /\ call[d].step = "settling"
             /\ call'[d] = [step |-> "settle", booking |-> call[d].booking]
    BY <1>0, <2>1, <2>2 DEF CallsKnow, Knows
  <2>3. CASE call'[d] = call[d]
    BY <1>0, <2>1, <2>3 DEF CallsKnow, Knows, Completed
  <2> QED BY <1>9, <2>2, <2>3, UseEffect
<1> QED
  BY <1>1, <1>2, <1>3, <1>4, <1>5, <1>6, <1>7, <1>8, <1>9
     DEF Next, Proceed, OpenDispute, ResolveDispute, Tick, BeginPass, ReleaseNext,
         ReleaseEarly, OpenAllocate, OpenSettle, UseWallet, Crash, Callers, vars

\* The agreement of records, accounts and open transactions, of every reachable
\* state.
LEMMA AlwaysConsistent == Spec => []Consistent
<1>1. Init => Consistent
  BY DEF Init, Consistent, LedgerFollowsRecords, CallsKnow, Knows, Completed, Idle, Accounts
<1> QED BY <1>1, ConsistentNext, EscrowTypes, PTL DEF Spec

\* Every stage posts its entries exactly once: in every reachable state the
\* accounts hold, for each booking, what its two records say.
THEOREM LedgerAgrees == Spec => []LedgerFollowsRecords
<1>1. Consistent => LedgerFollowsRecords
  BY DEF Consistent
<1> QED BY <1>1, AlwaysConsistent, PTL

-----------------------------------------------------------------------------
(* The wallet *)

\* A settlement that commits pays one booking more, and only its creator: the
\* conflict of the open settlements is what makes the booking a new one.
LEMMA SettlementPays ==
  ASSUME TypeOK, CallsKnow, WalletIsSumOfSettled, NEW c \in Callers, CommitSettle(c)
  PROVE  WalletIsSumOfSettled'
<1>0. PICK b \in Bookings : b = call[c].booking
  BY CallFields DEF CommitSettle
<1>1. /\ settlement[b] = "NONE" /\ settlement' = [settlement EXCEPT ![b] = "SETTLED"]
      /\ wallet' = [wallet EXCEPT ![CreatorOf[b]] = @ + Earning(b)] /\ spent' = spent
      /\ wallet[CreatorOf[b]] + Earning(b) <= MaxAmount
  BY <1>0 DEF Fits, CommitSettle, Credit, CallsKnow, Knows
<1>2. IsFiniteSet(Bookings) /\ Earnings \in [Bookings -> Int] /\ Earnings' = Earnings
  BY DomainAssumption, Amounts DEF Earnings, Earning
<1>3. ASSUME NEW w \in Creators
      PROVE  wallet'[w] + spent'[w] = SumOf(Earnings, SettledFor(w)') /\ wallet'[w] <= MaxAmount
  <2>1. CASE w # CreatorOf[b]
    <3>1. wallet'[w] = wallet[w] /\ spent'[w] = spent[w] /\ SettledFor(w)' = SettledFor(w)
      BY <1>1, <2>1 DEF SettledFor, TypeOK
    <3> QED BY <3>1 DEF WalletIsSumOfSettled
  <2>2. CASE w = CreatorOf[b]
    <3>1. SettledFor(w)' = SettledFor(w) \cup {b} /\ b \in Bookings \ SettledFor(w)
      BY <1>1, <2>2 DEF SettledFor, TypeOK
    <3>2. SumOf(Earnings, SettledFor(w) \cup {b}) = Earnings[b] + SumOf(Earnings, SettledFor(w))
      <4>1. SettledFor(w) \in SUBSET Bookings
        BY DEF SettledFor
      <4> QED BY <1>2, <3>1, <4>1, SumWith
    <3>3. SumOf(Earnings, SettledFor(w)) \in Int
      BY <1>2, SumType DEF SettledFor
    <3>4. Earnings[b] = Earning(b) /\ Earning(b) \in Int
      BY Amounts DEF Earnings
    <3>5. wallet'[w] = wallet[w] + Earning(b) /\ wallet'[w] <= MaxAmount
      BY <1>1, <2>2 DEF TypeOK
    <3>6. wallet[w] \in Int /\ spent[w] \in Int /\ spent'[w] = spent[w]
      BY <1>1 DEF TypeOK
    <3>7. wallet[w] + spent[w] = SumOf(Earnings, SettledFor(w))
      BY DEF WalletIsSumOfSettled
    <3> QED BY <3>1, <3>2, <3>3, <3>4, <3>5, <3>6, <3>7
  <2> QED BY <2>1, <2>2
<1> QED BY <1>2, <1>3 DEF WalletIsSumOfSettled

\* A use of the wallet moves money out of it and settles nothing.
LEMMA UsePays ==
  ASSUME TypeOK, WalletIsSumOfSettled, NEW u \in Creators, NEW n \in Uses, UseWallet(u, n)
  PROVE  WalletIsSumOfSettled'
<1>1. n \in Nat /\ MaxAmount \in Nat
  BY DomainAssumption, RateAssumption
<1>2. \A w \in Creators :
         /\ wallet[w] \in Nat /\ spent[w] \in Nat
         /\ wallet'[w] = (IF w = u THEN wallet[w] - n ELSE wallet[w])
         /\ spent'[w] = (IF w = u THEN spent[w] + n ELSE spent[w])
  BY DEF UseWallet, TypeOK
<1>3. \A w \in Creators : wallet'[w] + spent'[w] = wallet[w] + spent[w] /\ wallet'[w] <= wallet[w]
  BY <1>1, <1>2
<1>4. \A w \in Creators : SettledFor(w)' = SettledFor(w)
  BY DEF UseWallet, SettledFor
<1>5. Earnings' = Earnings
  BY DEF Earnings, Earning
<1>6. \A w \in Creators : wallet'[w] \in Int
  BY <1>1, <1>2
<1>7. \A w \in Creators : wallet'[w] <= MaxAmount
  BY <1>1, <1>2, <1>3, <1>6 DEF WalletIsSumOfSettled
<1> QED BY <1>3, <1>4, <1>5, <1>7 DEF WalletIsSumOfSettled

\* A creator's balance, with what was taken out of it, is the sum of the earnings
\* of the settled bookings, and never above the maximum of a wallet.
THEOREM WalletIsExact == Spec => []WalletIsSumOfSettled
<1>1. Init => WalletIsSumOfSettled
  <2> SUFFICES ASSUME Init PROVE WalletIsSumOfSettled
    OBVIOUS
  <2>1. \A w \in Creators : SettledFor(w) = {} /\ wallet[w] = 0 /\ spent[w] = 0
    BY DEF Init, SettledFor
  <2>2. SumOf(Earnings, {}) = 0
    BY DomainAssumption, Amounts, SumOfNone DEF Earnings
  <2> QED BY <2>1, <2>2, RateAssumption DEF WalletIsSumOfSettled
<1>2. TypeOK /\ Consistent /\ WalletIsSumOfSettled /\ [Next]_vars => WalletIsSumOfSettled'
  <2> SUFFICES ASSUME TypeOK, Consistent, WalletIsSumOfSettled, [Next]_vars
               PROVE  WalletIsSumOfSettled'
    OBVIOUS
  <2>1. ASSUME NEW c \in Callers, CommitSettle(c) PROVE WalletIsSumOfSettled'
    BY <2>1, SettlementPays DEF Consistent
  <2>2. ASSUME UNCHANGED <<wallet, spent, settlement>> PROVE WalletIsSumOfSettled'
    BY <2>2 DEF WalletIsSumOfSettled, SettledFor, Earnings, Earning
  <2> QED
    BY <2>1, <2>2, UsePays
       DEF Next, Proceed, Complete, OpenDispute, ResolveDispute, Tick, BeginPass, ReleaseNext,
           ReleaseEarly, OpenAllocate, CommitAllocate, OpenSettle, Crash, vars
<1> QED BY <1>1, <1>2, EscrowTypes, AlwaysConsistent, PTL DEF Spec

-----------------------------------------------------------------------------
(* The job and disputes *)

LEMMA JobWaitsNext == TypeOK /\ JobWaits /\ [Next]_vars => JobWaits'
<1> SUFFICES ASSUME TypeOK, JobWaits, [Next]_vars PROVE JobWaits'
  OBVIOUS
<1> USE DomainAssumption
<1>0. /\ Job \in Callers
      /\ \A d \in Callers : call[d].step # "idle" => call[d].booking \in Bookings
  BY CallFields DEF Callers
<1>1. ASSUME NEW b \in Bookings, Complete(b) PROVE JobWaits'
  BY <1>1 DEF Complete, JobWaits
<1>2. ASSUME NEW b \in Bookings, OpenDispute(b) PROVE JobWaits'
  <2>1. age[b] <= DisputeWindow /\ age[b] \in Nat
    BY <1>2 DEF OpenDispute, MayDispute, TypeOK
  <2>2. call[Job].step # "idle" => call[Job].booking # b
    BY <2>1 DEF JobWaits
  <2> QED BY <1>0, <1>2, <2>2 DEF OpenDispute, JobWaits, TypeOK, Idle
<1>3. ASSUME NEW b \in Bookings, ResolveDispute(b) PROVE JobWaits'
  BY <1>0, <1>3 DEF ResolveDispute, JobWaits, TypeOK, Idle
<1>4. ASSUME Tick PROVE JobWaits'
  <2>1. \A b \in Bookings : age[b] >= Hold => age'[b] >= Hold
    BY <1>4 DEF Tick, TypeOK
  <2> QED BY <1>0, <1>4, <2>1 DEF Tick, JobWaits, TypeOK
<1>5. ASSUME BeginPass PROVE JobWaits'
  BY <1>5 DEF BeginPass, FirstDue, Eligible, JobWaits
<1>6. ASSUME NEW b \in Bookings, ReleaseNext(b) PROVE JobWaits'
  BY <1>0, <1>6 DEF ReleaseNext, Begin, JobWaits, TypeOK
<1>7. ASSUME NEW c \in Admins, NEW b \in Bookings, ReleaseEarly(c, b) PROVE JobWaits'
  BY <1>0, <1>7 DEF ReleaseEarly, Begin, JobWaits, TypeOK, Callers
<1>8. ASSUME NEW c \in Callers, OpenAllocate(c) \/ OpenSettle(c) PROVE JobWaits'
  <2>1. call[c].step # "idle" /\ due' = due /\ age' = age /\ dispute' = dispute
    BY <1>8 DEF OpenAllocate, OpenSettle, Idle
  <2>2. CASE End(c)
    BY <1>0, <2>1, <2>2 DEF End, JobWaits, TypeOK, Idle
  <2>3. ASSUME NEW s \in {"allocating", "settle", "settling"}, Goto(c, s),
               s = "settling" => dispute[call[c].booking] # "OPEN"
        PROVE  JobWaits'
    <3>1. call' = [call EXCEPT ![c] = [step |-> s, booking |-> call[c].booking]]
      BY <2>1, <2>3, GotoEffect
    <3> QED BY <1>0, <2>1, <2>3, <3>1 DEF JobWaits, TypeOK, Idle
  <2> QED BY <1>8, <2>2, <2>3 DEF OpenAllocate, OpenSettle, Settleable
<1>9. ASSUME NEW c \in Callers, CommitAllocate(c) PROVE JobWaits'
  <2>0. PICK b \in Bookings : b = call[c].booking /\ call[c].step = "allocating"
    BY <1>9, CallFields DEF CommitAllocate
  <2>1. /\ call'[c] = [step |-> "settle", booking |-> b]
        /\ \A d \in Callers \ {c} :
              \/ call'[d] = call[d]
              \/ /\ call[d].step = "allocating" /\ call[d].booking = b
                 /\ call'[d] = [step |-> "allocate", booking |-> b]
    BY <1>9, <2>0, RetryAllocationEffect DEF CommitAllocate
  <2>2. CASE call'[Job] = call[Job]
    BY <1>9, <2>2 DEF CommitAllocate, JobWaits
  <2>3. CASE /\ call[Job].step = "allocating" /\ call[Job].booking = b
             /\ call'[Job].step # "settling" /\ call'[Job].booking = b
    BY <1>9, <2>3 DEF CommitAllocate, JobWaits
  <2> QED BY <1>0, <2>0, <2>1, <2>2, <2>3
<1>10. ASSUME NEW c \in Callers, CommitSettle(c) PROVE JobWaits'
  <2>0. PICK b \in Bookings : b = call[c].booking /\ call[c].step = "settling"
    BY <1>10, CallFields DEF CommitSettle
  <2>1. /\ call'[c] = Idle
        /\ \A d \in Callers \ {c} :
              \/ call'[d] = call[d]
              \/ /\ call[d].step = "settling"
                 /\ call'[d] = [step |-> "settle", booking |-> call[d].booking]
    BY <1>10, <2>0, RetrySettlementEffect DEF CommitSettle
  <2>2. CASE call'[Job] = call[Job]
    BY <1>10, <2>2 DEF CommitSettle, JobWaits
  <2>3. CASE call'[Job] = Idle
    BY <1>10, <2>3 DEF CommitSettle, JobWaits, Idle
  <2>4. CASE /\ call[Job].step = "settling"
             /\ call'[Job] = [step |-> "settle", booking |-> call[Job].booking]
    BY <1>10, <2>4 DEF CommitSettle, JobWaits
  <2>5. Job = c \/ Job \in Callers \ {c}
    BY <1>0
  <2> QED BY <2>1, <2>2, <2>3, <2>4, <2>5
<1>11. ASSUME Crash PROVE JobWaits'
  BY <1>0, <1>11 DEF Crash, JobWaits, Idle
<1>12. CASE UNCHANGED vars
  BY <1>12 DEF vars, JobWaits
<1>13. ASSUME NEW w \in Creators, NEW n \in Uses, UseWallet(w, n) PROVE JobWaits'
  <2>1. CASE call'[Job] = call[Job]
    BY <1>13, <2>1 DEF UseWallet, JobWaits
  <2>2. CASE /\ call[Job].step = "settling"
             /\ call'[Job] = [step |-> "settle", booking |-> call[Job].booking]
    BY <1>13, <2>2 DEF UseWallet, JobWaits
  <2> QED BY <1>0, <1>13, <2>1, <2>2, UseEffect
<1> QED
  BY <1>1, <1>2, <1>3, <1>4, <1>5, <1>6, <1>7, <1>8, <1>9, <1>10, <1>11, <1>12, <1>13
     DEF Next, Proceed

\* The scheduled settlement and a dispute exclude each other, for every window
\* that is shorter than the hold: no lock is needed between the two.
THEOREM JobLeavesDisputes == Spec => JobRespectsDisputes
<1>1. Init => JobWaits
  BY DEF Init, JobWaits, Idle, Callers
<1>2. TypeOK /\ JobWaits /\ [Next]_vars => JobWaits'
  BY JobWaitsNext
<1>3. JobWaits => \A b \in Bookings :
        dispute[b] = "OPEN" /\ settlement'[b] # settlement[b] => ~ JobSettles(b)
  BY DEF JobWaits, JobSettles
<1> QED BY <1>1, <1>2, <1>3, EscrowTypes, PTL DEF Spec, JobRespectsDisputes

-----------------------------------------------------------------------------
(* The room in the wallet *)

\* What an open settlement found in its snapshot still holds when it commits: the
\* earning fits the creator's wallet.
RoomIsKept ==
    \A c \in Callers : call[c].step = "settling" => Fits(call[c].booking)

LEMMA RoomNext ==
  ASSUME TypeOK, RoomIsKept, [Next]_vars PROVE RoomIsKept'
<1> DEFINE HasRoom(b) == wallet'[CreatorOf[b]] + Earning(b) <= MaxAmount
<1> SUFFICES ASSUME NEW c \in Callers, call'[c].step = "settling" PROVE HasRoom(call'[c].booking)
  BY DEF RoomIsKept, Fits, Earning
<1> USE DEF Fits
<1>1. ASSUME wallet' = wallet, call'[c] = call[c] PROVE HasRoom(call'[c].booking)
  BY <1>1 DEF RoomIsKept
<1>2. ASSUME NEW d \in Callers, CommitSettle(d) PROVE HasRoom(call'[c].booking)
  <2>0. PICK b \in Bookings : b = call[d].booking /\ call[d].step = "settling"
    BY <1>2, CallFields DEF CommitSettle
  <2>1. /\ call'[d] = Idle
        /\ \A o \in Callers \ {d} :
              \/ /\ call'[o] = call[o]
                 /\ ~(call[o].step = "settling" /\ CreatorOf[call[o].booking] = CreatorOf[b])
              \/ call'[o] = [step |-> "settle", booking |-> call[o].booking]
    <3>1. RetrySettlement(d, call[d].booking)
      BY <1>2 DEF CommitSettle
    <3> QED BY <2>0, <3>1, RetrySettlementEffect
  <2>2. c # d /\ call'[c] = call[c] /\ CreatorOf[call[c].booking] # CreatorOf[b]
    <3>1. c # d
      BY <2>1 DEF Idle
    <3>2. ASSUME call'[c] = [step |-> "settle", booking |-> call[c].booking] PROVE FALSE
      <4>1. call'[c].step = "settle"
        BY <3>2
      <4> QED BY <4>1
    <3>3. call'[c] = call[c]
      BY <2>1, <3>1, <3>2
    <3>4. call[c].step = "settling"
      BY <3>3
    <3> QED BY <2>1, <3>1, <3>2, <3>3, <3>4
  <2>3. call[c].booking \in Bookings
    BY <2>2, CallFields
  <2>4. wallet' = [wallet EXCEPT ![CreatorOf[b]] = @ + Earning(b)]
    BY <1>2, <2>0 DEF CommitSettle, Credit
  <2>5. wallet'[CreatorOf[call[c].booking]] = wallet[CreatorOf[call[c].booking]]
    BY <2>2, <2>3, <2>4, DomainAssumption DEF TypeOK
  <2> QED BY <2>2, <2>5 DEF RoomIsKept
<1>3. ASSUME NEW w \in Creators, NEW n \in Uses, UseWallet(w, n) PROVE HasRoom(call'[c].booking)
  <2>1. call'[c] = call[c] /\ CreatorOf[call[c].booking] # w
    <3>1. call'[c] # [step |-> "settle", booking |-> call[c].booking]
      OBVIOUS
    <3> QED BY <1>3, <3>1, UseEffect
  <2>2. call[c].booking \in Bookings
    BY <2>1, CallFields
  <2>3. wallet'[CreatorOf[call[c].booking]] = wallet[CreatorOf[call[c].booking]]
    BY <1>3, <2>1, <2>2, DomainAssumption DEF UseWallet, TypeOK
  <2> QED BY <2>1, <2>3 DEF RoomIsKept
<1>4. ASSUME NEW d \in Callers, CommitAllocate(d) PROVE HasRoom(call'[c].booking)
  <2>1. call[d].step = "allocating" /\ RetryAllocation(d, call[d].booking)
    BY <1>4 DEF CommitAllocate
  <2>2. call'[c] = call[c]
    <3> DEFINE e == call[d].booking
    <3>1. /\ call'[d] = [step |-> "settle", booking |-> e]
          /\ \A o \in Callers \ {d} :
                call'[o] = call[o] \/ call'[o] = [step |-> "allocate", booking |-> e]
      BY <2>1, RetryAllocationEffect
    <3> HIDE DEF e
    <3> QED BY <3>1
  <2> QED BY <1>1, <1>4, <2>2 DEF CommitAllocate
<1>5. ASSUME NEW d \in Callers, OpenAllocate(d) \/ OpenSettle(d) PROVE HasRoom(call'[c].booking)
  <2>1. wallet' = wallet /\ call[d].step # "idle"
    BY <1>5 DEF OpenAllocate, OpenSettle
  <2>2. CASE End(d)
    BY <1>1, <2>1, <2>2 DEF End, TypeOK, Idle
  <2>3. ASSUME NEW s \in {"allocating", "settle", "settling"}, Goto(d, s),
               s = "settling" => Fits(call[d].booking)
        PROVE  HasRoom(call'[c].booking)
    <3>1. call' = [call EXCEPT ![d] = [step |-> s, booking |-> call[d].booking]]
      BY <2>1, <2>3, GotoEffect
    <3> QED BY <1>1, <2>1, <2>3, <3>1 DEF TypeOK
  <2> QED BY <1>5, <2>2, <2>3 DEF OpenAllocate, OpenSettle
<1>6. ASSUME NEW d \in Callers, NEW e \in Bookings, Begin(d, e), wallet' = wallet
      PROVE  HasRoom(call'[c].booking)
  BY <1>1, <1>6 DEF Begin, TypeOK
<1>7. CASE Crash
  BY <1>7 DEF Crash, Idle
<1>8. ASSUME UNCHANGED <<wallet, call>> PROVE HasRoom(call'[c].booking)
  BY <1>1, <1>8
<1> QED
  BY <1>2, <1>3, <1>4, <1>5, <1>6, <1>7, <1>8
     DEF Next, Proceed, Complete, OpenDispute, ResolveDispute, Tick, BeginPass, ReleaseNext,
         ReleaseEarly, Callers, vars

-----------------------------------------------------------------------------
(* The safety half of HeldMoneyIsPaid.  Fairness makes the job come back and a *)
(* release go on; what it cannot do is make them succeed.                     *)

\* Nothing stands in the way of paying booking b out, but for the creator's wallet.
Releasable(b) == Eligible(b) /\ dispute[b] # "OPEN" /\ Postable(Service[b])

\* In this step the release of b by c is over.
Ends(c, b) == call[c].step # "idle" /\ call[c].booking = b /\ call'[c] = Idle

\* A booking that can be paid out can be until it is, and no release of it gives
\* up on it: it ends with the booking settled, or it finds the creator's wallet
\* full, or the process stops.  Once it found room it is not held up any more.
ReleasesSucceed ==
    /\ []RoomIsKept
    /\ [][\A b \in Bookings : Releasable(b) =>
             /\ settlement'[b] = "SETTLED" \/ Releasable(b)'
             /\ \A c \in Callers : Ends(c, b) =>
                   settlement'[b] = "SETTLED" \/ ~Fits(b) \/ crashes' # crashes]_vars

\* What can be paid out stays so: its hold outlasts the dispute window.
LEMMA ReleasableStays ==
  ASSUME TypeOK, [Next]_vars, NEW b \in Bookings, Releasable(b)
  PROVE  settlement'[b] = "SETTLED" \/ Releasable(b)'
<1> USE DomainAssumption DEF Releasable, Eligible, Completed, Postable, ValidAmount
<1>1. ASSUME NEW d \in Bookings, Complete(d) PROVE Releasable(b)'
  BY <1>1 DEF Complete, TypeOK
<1>2. ASSUME NEW d \in Bookings, OpenDispute(d) PROVE Releasable(b)'
  <2>1. d # b
    BY <1>2 DEF OpenDispute, MayDispute, TypeOK
  <2> QED BY <1>2, <2>1 DEF OpenDispute, TypeOK
<1>3. ASSUME NEW d \in Bookings, ResolveDispute(d) PROVE Releasable(b)'
  BY <1>3 DEF ResolveDispute, TypeOK
<1>4. CASE Tick
  BY <1>4 DEF Tick, TypeOK
<1>5. ASSUME NEW c \in Callers, CommitSettle(c)
      PROVE  settlement'[b] = "SETTLED" \/ Releasable(b)'
  BY <1>5 DEF CommitSettle, TypeOK
<1>6. ASSUME UNCHANGED <<rank, age, dispute, settlement>> PROVE Releasable(b)'
  BY <1>6
<1> QED
  BY <1>1, <1>2, <1>3, <1>4, <1>5, <1>6
     DEF Next, Proceed, BeginPass, ReleaseNext, ReleaseEarly, OpenAllocate, CommitAllocate,
         OpenSettle, UseWallet, Crash, vars

\* A release of it finds nothing to object to, at either stage, but a full wallet.
LEMMA ReleaseGoesThrough ==
  ASSUME TypeOK, CallsKnow, [Next]_vars, NEW b \in Bookings, Releasable(b),
         NEW c \in Callers, Ends(c, b)
  PROVE  settlement'[b] = "SETTLED" \/ ~Fits(b) \/ crashes' # crashes
<1>0. /\ call[c].step # "idle" /\ call[c].booking = b /\ call'[c] = Idle
      /\ Completed(b) /\ settlement[b] # "SETTLED" /\ dispute[b] # "OPEN" /\ Postable(Service[b])
      /\ call[c] # Idle
  BY DEF Ends, Releasable, Eligible, Idle
<1>1. ASSUME NEW d \in Callers, NEW e \in Bookings, Begin(d, e) PROVE FALSE
  BY <1>0, <1>1 DEF Begin, TypeOK, Idle
<1>2. ASSUME NEW d \in Callers, OpenAllocate(d) \/ OpenSettle(d) PROVE ~Fits(b)
  <2>1. call[d].step # "idle"
    BY <1>2 DEF OpenAllocate, OpenSettle
  <2>2. ASSUME NEW s \in {"allocating", "settle", "settling"}, Goto(d, s) PROVE FALSE
    <3>1. call' = [call EXCEPT ![d] = [step |-> s, booking |-> call[d].booking]]
      BY <2>1, <2>2, GotoEffect
    <3> QED BY <1>0, <3>1 DEF TypeOK, Idle
  <2>3. CASE End(d)
    <3>1. d = c
      BY <1>0, <2>3 DEF End, TypeOK
    <3>2. call[c].step = "settle" => allocation[b] = "ALLOCATED"
      BY <1>0 DEF CallsKnow, Knows
    <3>3. ~ (OpenAllocate(c) /\ ~Allocatable(b)) /\ ~ (OpenSettle(c) /\ ~Settleable(b))
      BY <1>0, <3>2 DEF OpenSettle, Allocatable, Settleable
    <3>4. CASE OpenAllocate(c)
      BY <1>0, <2>2, <3>1, <3>3, <3>4 DEF OpenAllocate
    <3>5. CASE OpenSettle(c)
      BY <1>0, <2>2, <3>1, <3>3, <3>5 DEF OpenSettle
    <3> QED BY <1>2, <3>1, <3>4, <3>5
  <2> QED BY <1>2, <2>2, <2>3 DEF OpenAllocate, OpenSettle
<1>3. ASSUME NEW d \in Callers, CommitAllocate(d) PROVE FALSE
  <2> DEFINE e == call[d].booking
  <2>1. /\ call'[d] = [step |-> "settle", booking |-> e]
        /\ \A o \in Callers \ {d} :
              call'[o] = call[o] \/ call'[o] = [step |-> "allocate", booking |-> e]
    BY <1>3, RetryAllocationEffect DEF CommitAllocate
  <2> HIDE DEF e
  <2> QED BY <1>0, <2>1 DEF Idle
<1>4. ASSUME NEW d \in Callers, CommitSettle(d) PROVE settlement'[b] = "SETTLED"
  <2>1. \A o \in Callers \ {d} :
          call'[o] = call[o] \/ call'[o] = [step |-> "settle", booking |-> call[o].booking]
    <3>1. call[d].step = "settling" /\ RetrySettlement(d, call[d].booking)
      BY <1>4 DEF CommitSettle
    <3> QED BY <3>1, RetrySettlementEffect
  <2>2. c = d
    <3> SUFFICES ASSUME c # d PROVE FALSE
      OBVIOUS
    <3>1. call'[c] = call[c] \/ call'[c] = [step |-> "settle", booking |-> call[c].booking]
      BY <2>1, Zenon
    <3>2. CASE call'[c] = [step |-> "settle", booking |-> call[c].booking]
      BY <1>0, <3>2 DEF Idle
    <3> QED BY <1>0, <3>1, <3>2
  <2> QED BY <1>0, <1>4, <2>2 DEF CommitSettle, TypeOK
<1>5. CASE Crash
  BY <1>5 DEF Crash, TypeOK
<1>6. ASSUME UNCHANGED call PROVE FALSE
  BY <1>0, <1>6
<1>7. ASSUME NEW w \in Creators, NEW n \in Uses, UseWallet(w, n) PROVE FALSE
  <2>1. call'[c] = call[c] \/ call'[c] = [step |-> "settle", booking |-> call[c].booking]
    BY <1>7, UseEffect
  <2>2. CASE call'[c] = [step |-> "settle", booking |-> call[c].booking]
    BY <1>0, <2>2 DEF Idle
  <2> QED BY <1>0, <2>1, <2>2
<1> QED
  BY <1>1, <1>2, <1>3, <1>4, <1>5, <1>6, <1>7
     DEF Next, Proceed, Complete, OpenDispute, ResolveDispute, Tick, BeginPass, ReleaseNext,
         ReleaseEarly, Callers, vars

\* Once its hold is over, a completed booking that is not in dispute stays payable
\* until it is paid, and each release of it pays it or finds the wallet full: no race
\* between the job and the administrators, no use of the wallet and no crash leaves
\* its money where no later pass can reach it.
THEOREM ReleasesAlwaysSucceed == Spec => ReleasesSucceed
<1>1. TypeOK /\ CallsKnow /\ [Next]_vars =>
        [\A b \in Bookings : Releasable(b) =>
            /\ settlement'[b] = "SETTLED" \/ Releasable(b)'
            /\ \A c \in Callers : Ends(c, b) =>
                  settlement'[b] = "SETTLED" \/ ~Fits(b) \/ crashes' # crashes]_vars
  BY ReleasableStays, ReleaseGoesThrough
<1>2. Consistent => CallsKnow
  BY DEF Consistent
<1>3. Init => RoomIsKept
  BY DEF Init, RoomIsKept, Idle
<1>4. TypeOK /\ RoomIsKept /\ [Next]_vars => RoomIsKept'
  BY RoomNext
<1> QED BY <1>1, <1>2, <1>3, <1>4, EscrowTypes, AlwaysConsistent, PTL DEF Spec, ReleasesSucceed

-----------------------------------------------------------------------------
(* Refinement of EscrowFlow: Complete takes the price in, CommitAllocate splits *)
(* it, CommitSettle pays it out, and every other step leaves the money alone.   *)

\* A booking's accounts are one function.
HasIs(b) ==
    /\ HasNothing(b) <=> money[b] = Flow!Nothing
    /\ HasHeld(b) <=> money[b] = Flow!Held(b)
    /\ HasSplit(b) <=> money[b] = Flow!Split(b)
    /\ HasPaid(b) <=> money[b] = Flow!Paid(b)

LEMMA MoneyIs == TypeOK => \A b \in Bookings : HasIs(b)
<1> SUFFICES ASSUME TypeOK, NEW b \in Bookings PROVE HasIs(b)
  OBVIOUS
<1> USE Amounts DEF Flow!Nothing, Flow!Accounts, Accounts, Has
<1>1. money[b] \in [Accounts -> Int]
  BY DEF TypeOK
<1>2. HasNothing(b) <=> money[b] = Flow!Nothing
  BY <1>1 DEF HasNothing
<1>3. HasHeld(b) <=> money[b] = Flow!Held(b)
  BY <1>1 DEF HasHeld, Flow!Held
<1>4. HasSplit(b) <=> money[b] = Flow!Split(b)
  BY <1>1 DEF HasSplit, Flow!Split
<1>5. HasPaid(b) <=> money[b] = Flow!Paid(b)
  BY <1>1 DEF HasPaid, Flow!Paid, Flow!Split
<1> QED BY <1>2, <1>3, <1>4, <1>5 DEF HasIs

LEMMA PostIsMove ==
  ASSUME TypeOK, NEW b \in Bookings, NEW change \in [Accounts -> Int], Post(b, change)
  PROVE  money' = [money EXCEPT ![b] = money'[b]]
BY DEF Post, TypeOK

\* No interleaving of releases, disputes, jobs and crashes creates or loses
\* money, splits a price twice or pays a creator twice.
THEOREM FlowRefinement == Spec => FlowSpec
<1>1. Init => Flow!Init
  BY DEF Init, Flow!Init, Flow!Nothing, Flow!Accounts, Accounts
<1>2. TypeOK /\ TypeOK' /\ Consistent /\ Consistent' /\ [Next]_vars => [Flow!Next]_money
  <2> SUFFICES ASSUME TypeOK, TypeOK', Consistent, Consistent', [Next]_vars, money' # money
               PROVE  Flow!Next
    OBVIOUS
  <2> USE DomainAssumption
  <2>0. /\ \A b \in Bookings : Agreed(b) /\ HasIs(b)
        /\ \A b \in Bookings : Agreed(b)' /\ HasIs(b)'
        /\ CallsKnow /\ CallsKnow'
    <3>1. (\A b \in Bookings : Agreed(b)) /\ (\A b \in Bookings : Agreed(b))'
          /\ CallsKnow /\ CallsKnow'
      BY LedgerIsAgreed, PTL DEF Consistent
    <3>2. (\A b \in Bookings : HasIs(b)) /\ (\A b \in Bookings : HasIs(b))'
      BY MoneyIs, PTL
    <3> QED BY <3>1, <3>2
  <2>1. ASSUME NEW b \in Bookings, Complete(b) PROVE Flow!Next
    <3>1. Post(b, CaptureEntries(b)) /\ CaptureEntries(b) \in [Accounts -> Int]
      BY <2>1, Entries DEF Complete, CaptureEntries
    <3>2. HasNothing(b)
      BY <2>0, <2>1 DEF Complete, Agreed
    <3>3. HasHeld(b)'
      <4>1. Cardinality({d \in Bookings : Completed(d)}) \in Nat
        BY FS_Subset, FS_CardinalityType
      <4>2. Completed(b)' /\ allocation'[b] # "ALLOCATED"
        BY <2>0, <2>1, <4>1 DEF Complete, Completed, Agreed, Staged, TypeOK
      <4> QED BY <2>0, <4>2 DEF Agreed
    <3> QED BY <2>0, <3>1, <3>2, <3>3, PostIsMove DEF HasIs, Flow!Next, Flow!Becomes
  <2>2. ASSUME NEW c \in Callers, CommitAllocate(c) PROVE Flow!Next
    <3>0. PICK b \in Bookings : b = call[c].booking
      BY <2>2, CallFields DEF CommitAllocate
    <3>1. Post(b, AllocationEntries(b)) /\ AllocationEntries(b) \in [Accounts -> Int]
      BY <2>2, <3>0, Entries DEF CommitAllocate, AllocationEntries
    <3>2. Completed(b) /\ allocation[b] = "NONE" /\ settlement[b] # "SETTLED"
      BY <2>0, <2>2, <3>0 DEF CommitAllocate, CallsKnow, Knows, Agreed, Staged
    <3>3. allocation'[b] = "ALLOCATED" /\ settlement'[b] # "SETTLED"
      BY <2>2, <3>0, <3>2 DEF CommitAllocate, TypeOK
    <3>4. HasHeld(b) /\ HasSplit(b)'
      BY <2>0, <3>2, <3>3 DEF Agreed
    <3> QED BY <2>0, <3>1, <3>4, PostIsMove DEF HasIs, Flow!Next, Flow!Becomes
  <2>3. ASSUME NEW c \in Callers, CommitSettle(c) PROVE Flow!Next
    <3>0. PICK b \in Bookings : b = call[c].booking
      BY <2>3, CallFields DEF CommitSettle
    <3>1. Post(b, SettlementEntries(b)) /\ SettlementEntries(b) \in [Accounts -> Int]
      BY <2>3, <3>0, Entries DEF CommitSettle, SettlementEntries
    <3>2. allocation[b] = "ALLOCATED" /\ settlement[b] = "NONE"
      BY <2>0, <2>3, <3>0 DEF CommitSettle, CallsKnow, Knows
    <3>3. settlement'[b] = "SETTLED"
      BY <2>3, <3>0 DEF CommitSettle, TypeOK
    <3>4. HasSplit(b) /\ HasPaid(b)'
      BY <2>0, <3>2, <3>3 DEF Agreed
    <3> QED BY <2>0, <3>1, <3>4, PostIsMove DEF HasIs, Flow!Next, Flow!Becomes
  <2> QED
    BY <2>1, <2>2, <2>3
       DEF Next, Proceed, OpenDispute, ResolveDispute, Tick, BeginPass, ReleaseNext,
           ReleaseEarly, OpenAllocate, OpenSettle, UseWallet, Crash, vars
<1>3. Init => Consistent
  BY DEF Init, Consistent, LedgerFollowsRecords, CallsKnow, Knows, Completed, Idle, Accounts
<1>4. TypeOK /\ Consistent /\ [Next]_vars => Consistent'
  BY ConsistentNext
<1> QED BY <1>1, <1>2, <1>3, <1>4, EscrowTypes, PTL DEF Spec, FlowSpec, Flow!Spec
-----------------------------------------------------------------------------
(* Pricing: what the formulas guarantee for every service amount, at the     *)
(* rates and limits of the code.  TLC compares them with exact rounding on a *)
(* range; its integers are too narrow for these limits.                      *)

\* The rates of marketplacePricing.service.ts and the smallest amount of
\* financialLimits.ts; the largest, 999999999999, and Number.MAX_SAFE_INTEGER,
\* 9007199254740991, are far enough apart.
CodeConstants ==
    /\ FeeBps = 500 /\ CommissionBps = 2000 /\ MinAmount = 1
    /\ 2000 * MaxAmount + 5000 <= MaxSafe

\* Fee and commission are within half a unit of the exact percentage.
LEMMA Rounding ==
  ASSUME CodeConstants, NEW s \in Nat
  PROVE  /\ PlatformFee(s) \in Nat /\ Commission(s) \in Nat
         /\ 10000 * PlatformFee(s) <= 500 * s + 5000
         /\ 500 * s + 5000 < 10000 * PlatformFee(s) + 10000
         /\ 10000 * Commission(s) <= 2000 * s + 5000
         /\ 2000 * s + 5000 < 10000 * Commission(s) + 10000
  BY SMTT(60) DEF CodeConstants, PlatformFee, Commission, CalculateBps

\* The whole price is accounted for: fee, commission and the creator's amount
\* add up to what the customer pays, and the creator always earns something.
THEOREM PriceIsSplit ==
  ASSUME CodeConstants, NEW s \in Nat \ {0}
  PROVE  /\ PlatformFee(s) + Commission(s) + CreatorAmount(s) = Total(s)
         /\ CreatorAmount(s) \in Nat \ {0}
         /\ CreatorAmount(s) <= Total(s)
<1>1. /\ PlatformFee(s) \in Nat /\ Commission(s) \in Nat
      /\ 10000 * Commission(s) <= 2000 * s + 5000
  BY Rounding, SMTT(60)
<1>2. Commission(s) < s
  BY <1>1, SMTT(60)
<1> QED BY <1>1, <1>2, SMTT(60) DEF CreatorAmount, Total

\* A service amount is refused only for the smallest and largest amount: the
\* safe-integer and creator-amount checks of calculate() never decide.
THEOREM LimitsDecide ==
  ASSUME CodeConstants, NEW s \in Nat
  PROVE  RefusedByLimitsOnly(s)
<1> SUFFICES ASSUME s >= 1, Total(s) <= MaxAmount PROVE Priceable(s)
  BY SMTT(60) DEF CodeConstants, RefusedByLimitsOnly
<1>1. s <= MaxAmount /\ MaxAmount \in Nat /\ MaxSafe \in Nat
  BY Rounding, RateAssumption, SMTT(60) DEF Total
<1>2. Computable(s)
  BY <1>1, SMTT(60) DEF CodeConstants, Computable
<1>3. CreatorAmount(s) >= 1
  BY PriceIsSplit, SMTT(60)
<1> QED BY <1>2, <1>3, SMTT(60) DEF CodeConstants, Priceable

\* calculateBps rounds to the nearest unit, halves up, whatever the amount and
\* the rate: adding half of 10000 before the division is exact.
THEOREM RoundsToNearest ==
  ASSUME NEW amount \in Nat, NEW rate \in Nat
  PROVE  IsNearest(CalculateBps(amount, rate), amount, rate)
<1> DEFINE x == amount * rate
<1>1. x \in Nat
  BY SMTT(60)
<1>2. CalculateBps(amount, rate) = (x + 5000) \div 10000
  BY DEF CalculateBps
<1> HIDE DEF x
<1>3. LET n == (x + 5000) \div 10000 IN 20000 * n - 10000 <= 2 * x /\ 2 * x < 20000 * n + 10000
  BY <1>1, SMTT(60)
<1> QED BY <1>2, <1>3 DEF IsNearest, x

\* The price of every service amount there is, however large, is the exact one,
\* and it is refused by the two limits only.
LEMMA PriceIsExact ==
  ASSUME CodeConstants, NEW s \in Nat PROVE IsExact(s)
<1>1. FeeBps \in Nat /\ CommissionBps \in Nat
  BY RateAssumption DEF CodeConstants
<1> QED BY <1>1, RoundsToNearest, LimitsDecide DEF IsExact, PlatformFee, Commission

\* So whatever service amount is asked for, whenever the price list ends, the
\* price is exact: the safe-integer arithmetic of calculate() loses nothing.
THEOREM PricesExact ==
  ASSUME CodeConstants PROVE Quotes => []PricesAreExact
<1>1. FirstQuote => quote \in Nat
  BY RateAssumption DEF FirstQuote
<1>2. quote \in Nat /\ [Quote]_quote => (quote \in Nat)'
  BY DEF Quote
<1>3. quote \in Nat => PricesAreExact
  BY PriceIsExact DEF PricesAreExact
<1> QED BY <1>1, <1>2, <1>3, PTL DEF Quotes

\* Exactly the service amounts of ten minor units and more can be paid out:
\* below, the fee rounds to zero, which the ledger does not accept.
THEOREM TenIsTheSmallest ==
  ASSUME CodeConstants, NEW s \in Nat, Priceable(s)
  PROVE  Postable(s) <=> s >= 10
<1>1. s >= 1 /\ PlatformFee(s) \in Nat /\ Commission(s) \in Nat
  BY Rounding, SMTT(60) DEF CodeConstants, Priceable, Total
<1>2. PlatformFee(s) >= 1 <=> s >= 10
  <2>1. /\ 10000 * PlatformFee(s) <= 500 * s + 5000
        /\ 500 * s + 5000 < 10000 * PlatformFee(s) + 10000
    BY Rounding, SMTT(60)
  <2>2. CASE s >= 10
    BY <1>1, <2>1, <2>2, SMTT(60)
  <2>3. CASE s <= 9
    BY <1>1, <2>1, <2>3, SMTT(60)
  <2> QED BY <2>2, <2>3, SMTT(60)
<1>3. s >= 10 => Commission(s) >= 1
  BY Rounding, <1>1, SMTT(60)
<1>4. CreatorAmount(s) >= 1 /\ CreatorAmount(s) <= s /\ Commission(s) <= s
  BY <1>1, PriceIsSplit, SMTT(60) DEF CreatorAmount
<1>5. s + PlatformFee(s) <= MaxAmount /\ MaxAmount \in Nat /\ MinAmount = 1
  BY RateAssumption, SMTT(60) DEF CodeConstants, Priceable, Total
<1>6. CreatorAmount(s) \in Nat
  BY <1>1, <1>4 DEF CreatorAmount
<1>7. PlatformFee(s) <= MaxAmount /\ Commission(s) <= MaxAmount /\ CreatorAmount(s) <= MaxAmount
  BY <1>1, <1>4, <1>5, <1>6, SMTT(60)
<1> QED BY <1>1, <1>2, <1>3, <1>4, <1>5, <1>6, <1>7, SMTT(60) DEF Postable, ValidAmount
=============================================================================
