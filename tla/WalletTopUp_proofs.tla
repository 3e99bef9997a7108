------------------------- MODULE WalletTopUp_proofs -------------------------
(* Proofs about WalletTopUp, for any top-ups, wallets, amounts and balances, *)
(* and any number of callers, retries, crashes and administrators.           *)
EXTENDS WalletTopUp, TLAPS

LinkedStatuses == {"PROCESSING", "COMPLETED", "FAILED"}
Paid(t) == funding[t] = "SUCCEEDED" /\ request[t] \in {"PROCESSING", "COMPLETED"}

\* What was once read of a top-up may be old, but is not contradicted.
Lags(s, t) ==
    /\ s.request = "COMPLETED" => request[t] = "COMPLETED"
    /\ s.request \in LinkedStatuses => request[t] \in LinkedStatuses
    /\ s.funding \in {"SUCCEEDED", "FAILED"} => funding[t] = s.funding

\* Each document of a top-up is there only on the strength of the one before.
BooksAgree ==
    \A t \in TopUps :
        /\ posted[t] \in {0, 1} /\ projected[t] \in {0, 1}
        /\ projected[t] = 1 => posted[t] = 1
        /\ posted[t] = 1 => Paid(t)
        /\ request[t] = "COMPLETED" => projected[t] = 1
        /\ request[t] = "FAILED" => funding[t] = "FAILED"
        /\ request[t] \in {"NONE", "PENDING", "REJECTED"} => funding[t] = "NONE"
        /\ request[t] = "APPROVED" => funding[t] \in {"NONE", "PROCESSING"}

\* What a call that is not idle may rely on.
Knows(c) ==
    /\ Lags(c.seen, c.topUp)
    /\ c.at \in {"account", "operation", "post", "project", "complete"} => Paid(c.topUp)
    /\ c.at \in {"project", "complete"} => posted[c.topUp] = 1
    /\ c.at = "complete" => projected[c.topUp] = 1
    /\ c.at = "finalize" => funding[c.topUp] = "FAILED"
    /\ c.at = "claim" => Class(c.seen) = "RETRYABLE"
    /\ c.at = "resolve" => Class(c.seen) = "COMPLETED_VALID"
    /\ c.at = "record" /\ c.store = "RESOLVED" => Class(c.seen) = "COMPLETED_VALID"
    /\ c.at = "record" /\ c.store = "ACKNOWLEDGED" => Class(c.seen) = "CRITICAL"

CallsKnow == \A p \in Callers : call[p] # Idle => Knows(call[p])

CasesSound ==
    \A t \in TopUps :
        /\ Lags(review[t].seen, t)
        /\ review[t].status = "RESOLVED" => Class(review[t].seen) = "COMPLETED_VALID"
        /\ review[t].status = "ACKNOWLEDGED" => Class(review[t].seen) = "CRITICAL"

IInv == TypeOK /\ BooksAgree /\ CallsKnow /\ CasesSound

\* How the documents of a top-up may change.
Advance ==
    \A t \in TopUps :
        /\ request[t] = "COMPLETED" => request'[t] = "COMPLETED"
        /\ request[t] \in LinkedStatuses => request'[t] \in LinkedStatuses
        /\ funding[t] \in {"SUCCEEDED", "FAILED"} => funding'[t] = funding[t]
        /\ Paid(t) => Paid(t)'
        /\ posted[t] = 1 => posted'[t] = 1
        /\ projected[t] = 1 => projected'[t] = 1

-----------------------------------------------------------------------------
(* Lemmas *)

LEMMA ClassMeans ==
  ASSUME NEW s
  PROVE  /\ Class(s) = "RETRYABLE" => s.funding = "SUCCEEDED" /\ s.request \in LinkedStatuses
         /\ Class(s) = "COMPLETED_VALID" => s.request = "COMPLETED"
         /\ Class(s) = "PROVIDER_FAILED" => s.funding = "FAILED"
  BY DEF Class, Linked, LinkedStatuses

LEMMA CallFields ==
  ASSUME TypeOK, NEW p \in Callers, call[p] # Idle
  PROVE  /\ call[p] \in Calls
         /\ call[p].topUp \in TopUps /\ call[p].op \in Operations /\ call[p].at \in Steps
         /\ call[p].seen \in Snapshot /\ call[p].loaded \in Snapshot
         /\ call[p].store \in ReviewStatuses /\ call[p].tries \in 0..MaxRetries
  BY DEF TypeOK, CallState, Calls

LEMMA CallsAreNotIdle ==
  ASSUME NEW c \in Calls PROVE c # Idle
  BY DEF Calls, Idle

LEMMA NewCallIs ==
  ASSUME NEW op \in Operations, NEW at \in Steps, NEW t \in TopUps
  PROVE  /\ NewCall(op, at, t) \in Calls
         /\ NewCall(op, at, t).op = op /\ NewCall(op, at, t).at = at
         /\ NewCall(op, at, t).topUp = t /\ NewCall(op, at, t).seen = Unread
         /\ NewCall(op, at, t).tries = 0
<1>1. Unread \in Snapshot /\ "NONE" \in ReviewStatuses /\ 0 \in 0..MaxRetries
  BY TopUpAssumption DEF Unread, Snapshot, RequestStatuses, FundingStatuses, ReviewStatuses
<1> QED BY <1>1 DEF NewCall, Calls

LEMMA UnreadLags ==
  ASSUME NEW t PROVE Lags(Unread, t)
  BY DEF Lags, Unread, LinkedStatuses

\* What is known of a top-up stays known as its documents advance.
LEMMA KnownStays ==
  ASSUME Advance, NEW t \in TopUps
  PROVE  /\ \A s : Lags(s, t) => Lags(s, t)'
         /\ \A c : c.topUp = t /\ Knows(c) => Knows(c)'
<1>1. ASSUME NEW s, Lags(s, t) PROVE Lags(s, t)'
  BY <1>1 DEF Advance, Lags
<1>2. ASSUME NEW c, c.topUp = t, Knows(c) PROVE Knows(c)'
  BY <1>1, <1>2 DEF Advance, Knows, Paid
<1> QED BY <1>1, <1>2

\* A step of the call p to next.
LEMMA CallStep ==
  ASSUME IInv, Advance, NEW p \in Callers, NEW next \in CallState,
         call' = [call EXCEPT ![p] = next], next # Idle => Knows(next)'
  PROVE  call' \in [Callers -> CallState] /\ CallsKnow'
<1>1. call' \in [Callers -> CallState] /\ call'[p] = next
      /\ \A q \in Callers \ {p} : call'[q] = call[q]
  BY DEF IInv, TypeOK
<1>2. ASSUME NEW q \in Callers, call'[q] # Idle PROVE Knows(call[q])'
  <2>1. CASE q = p
    BY <1>1, <1>2, <2>1
  <2>2. CASE q # p
    <3>1. PICK c : c = call[q]
      OBVIOUS
    <3>2. Knows(c) /\ c.topUp \in TopUps
      BY <1>1, <1>2, <2>2, <3>1, CallFields DEF IInv, CallsKnow
    <3>3. Knows(c)'
      BY <3>2, KnownStays
    <3> QED BY <1>1, <2>2, <3>1, <3>3
  <2> QED BY <2>1, <2>2
<1> QED BY <1>1, <1>2 DEF CallsKnow

LEMMA NoCallStep ==
  ASSUME IInv, Advance, UNCHANGED call
  PROVE  CallsKnow'
<1>1. ASSUME NEW q \in Callers, call'[q] # Idle PROVE Knows(call[q])'
  <2>1. PICK c : c = call[q]
    OBVIOUS
  <2>2. Knows(c) /\ c.topUp \in TopUps
    BY <1>1, <2>1, CallFields DEF IInv, CallsKnow
  <2>3. Knows(c)'
    BY <2>2, KnownStays
  <2> QED BY <2>1, <2>3
<1> QED BY <1>1 DEF CallsKnow

LEMMA CasesStay ==
  ASSUME IInv, Advance, UNCHANGED review
  PROVE  CasesSound'
<1>1. ASSUME NEW t \in TopUps PROVE Lags(review[t].seen, t)'
  <2>1. PICK s : s = review[t].seen
    OBVIOUS
  <2>2. Lags(s, t)
    BY <2>1 DEF IInv, CasesSound
  <2>3. Lags(s, t)'
    BY <2>2, KnownStays
  <2> QED BY <2>1, <2>3
<1> QED BY <1>1 DEF IInv, CasesSound

LEMMA DocumentsStay ==
  ASSUME IInv, UNCHANGED <<request, funding, money>>
  PROVE  Advance /\ BooksAgree'
  BY DEF IInv, Advance, BooksAgree, Paid, money

\* A step of one call and nothing else.
LEMMA OnlyCallStep ==
  ASSUME IInv, UNCHANGED <<request, funding, money, review>>,
         NEW p \in Callers, NEW next \in CallState,
         call' = [call EXCEPT ![p] = next], next # Idle => Knows(next)'
  PROVE  IInv'
<1>1. Advance /\ BooksAgree'
  BY DocumentsStay
<1>2. call' \in [Callers -> CallState] /\ CallsKnow'
  BY <1>1, CallStep
<1>3. TypeOK'
  BY <1>2 DEF IInv, TypeOK, money
<1>4. CasesSound'
  BY <1>1, CasesStay
<1> QED BY <1>1, <1>2, <1>3, <1>4 DEF IInv

LEMMA Ending ==
  ASSUME IInv, NEW p \in Callers, End(p), UNCHANGED <<request, funding, money, review>>
  PROVE  IInv'
  BY OnlyCallStep DEF End, CallState

-----------------------------------------------------------------------------
(* Steps of the documents alone *)

LEMMA RequestSteps ==
  ASSUME IInv, NEW t \in TopUps,
         \/ RequestTopUp(t) \/ Decide(t, "APPROVED") \/ Decide(t, "REJECTED")
         \/ CreateFunding(t) \/ LinkFunding(t)
         \/ Simulate(t, "SUCCEEDED") \/ Simulate(t, "FAILED")
  PROVE  IInv'
<1> USE DEF money
<1>0. TypeOK /\ BooksAgree
  BY DEF IInv
<1>1. /\ request' \in [TopUps -> RequestStatuses] /\ funding' \in [TopUps -> FundingStatuses]
      /\ UNCHANGED <<posted, projected, balance, review, call>>
  BY <1>0 DEF TypeOK, RequestTopUp, Decide, CreateFunding, LinkFunding, Simulate, Answered,
     RequestStatuses, FundingStatuses
<1>2. \A u \in TopUps \ {t} : request'[u] = request[u] /\ funding'[u] = funding[u]
  BY <1>0 DEF TypeOK, RequestTopUp, Decide, CreateFunding, LinkFunding, Simulate
<1>3. \/ request[t] = "NONE" /\ request'[t] = "PENDING" /\ funding'[t] = funding[t]
      \/ request[t] = "PENDING" /\ request'[t] \in {"APPROVED", "REJECTED"} /\ funding'[t] = funding[t]
      \/ /\ request[t] = "APPROVED" /\ request'[t] = request[t]
         /\ funding[t] = "NONE" /\ funding'[t] = "PROCESSING"
      \/ /\ request[t] = "APPROVED" /\ request'[t] = "PROCESSING"
         /\ funding[t] # "NONE" /\ funding'[t] = funding[t]
      \/ /\ request[t] = "PROCESSING" /\ request'[t] = request[t]
         /\ \/ funding'[t] = funding[t]
            \/ funding[t] = "PROCESSING" /\ funding'[t] \in {"SUCCEEDED", "FAILED"}
  BY <1>0 DEF TypeOK, RequestTopUp, Decide, CreateFunding, LinkFunding, Simulate, Answered
<1>4. Advance /\ BooksAgree'
  BY <1>0, <1>1, <1>2, <1>3 DEF Advance, BooksAgree, Paid, LinkedStatuses
<1>5. TypeOK'
  BY <1>0, <1>1 DEF TypeOK
<1>6. CallsKnow' /\ CasesSound'
  BY <1>1, <1>4, NoCallStep, CasesStay
<1> QED BY <1>4, <1>5, <1>6 DEF IInv

LEMMA SpendStep ==
  ASSUME IInv, NEW w \in Wallets, NEW amount \in 1..MaxBalance, Spend(w, amount)
  PROVE  IInv'
<1>1. Advance /\ BooksAgree'
  BY DEF IInv, Spend, Advance, BooksAgree, Paid
<1>2. TypeOK'
  <2>1. balance[w] \in 0..MaxBalance /\ MaxBalance \in Nat
    BY TopUpAssumption DEF IInv, TypeOK
  <2>2. balance[w] - amount \in 0..MaxBalance
    BY <2>1 DEF Spend
  <2> QED BY <2>2 DEF IInv, TypeOK, Spend
<1>3. CallsKnow' /\ CasesSound'
  BY <1>1, NoCallStep, CasesStay DEF Spend
<1> QED BY <1>1, <1>2, <1>3 DEF IInv

-----------------------------------------------------------------------------
(* Beginnings *)

LEMMA UnreadIs == Unread \in Snapshot /\ Unread.request = "NONE" /\ Unread.funding = "NONE"
  BY DEF Unread, Snapshot, RequestStatuses, FundingStatuses

\* A call that begins, having read s of its top-up.
LEMMA BeginningStep ==
  ASSUME IInv, UNCHANGED <<request, funding, money, review>>, NEW p \in Callers,
         NEW c \in Calls, call' = [call EXCEPT ![p] = c],
         c.at \in {"operation", "request", "funding"},
         c.seen.request \in {"NONE", request[c.topUp]}, c.seen.funding = "NONE",
         c.at = "operation" => Paid(c.topUp)
  PROVE  IInv'
<1>1. Knows(c)'
  BY DEF Knows, Lags, Paid, LinkedStatuses
<1> QED BY <1>1, OnlyCallStep DEF CallState

LEMMA Beginnings ==
  ASSUME IInv, NEW p \in Callers, NEW t \in TopUps, Begin(p, t)
  PROVE  IInv'
<1>0. TypeOK /\ Unread \in Snapshot
  BY UnreadIs DEF IInv
<1>1. CASE Account(p, t)
  <2>1. (posted[t] > 0) \in BOOLEAN /\ NewCall("account", "operation", t) \in Calls
    BY NewCallIs DEF Operations, Steps
  <2>2. PICK c : c = [NewCall("account", "operation", t) EXCEPT !.seen.posted = posted[t] > 0]
    OBVIOUS
  <2>3. /\ c \in Calls /\ c.at = "operation" /\ c.topUp = t
        /\ c.seen.request = "NONE" /\ c.seen.funding = "NONE"
    <3> DEFINE n == NewCall("account", "operation", t)
    <3>1. n \in Calls /\ n.at = "operation" /\ n.topUp = t
          /\ n.seen.request = "NONE" /\ n.seen.funding = "NONE"
      BY NewCallIs, UnreadIs DEF Operations, Steps
    <3> HIDE DEF n
    <3> QED BY <2>1, <2>2, <3>1 DEF Calls, Snapshot, n
  <2> QED BY <1>1, <2>2, <2>3, BeginningStep DEF Account, Start, Paid
<1>2. ASSUME NEW op \in {"inspect", "fail"}, Start(p, Looking(op, t)) PROVE IInv'
  <2> DEFINE n == NewCall(op, "funding", t)
  <2>1. n \in Calls /\ n.at = "funding" /\ n.topUp = t /\ n.seen.funding = "NONE"
    BY NewCallIs, UnreadIs DEF Operations, Steps
  <2>2. PICK c : c = Looking(op, t)
    OBVIOUS
  <2>3. /\ c \in Calls /\ c.at = "funding" /\ c.topUp = t
        /\ c.seen.request = request[t] /\ c.seen.funding = "NONE"
    <3>1. c = [n EXCEPT !.seen.request = request[t]] /\ request[t] \in RequestStatuses
      BY <1>0, <2>2 DEF Looking, TypeOK
    <3> HIDE DEF n
    <3> QED BY <2>1, <3>1 DEF Calls, Snapshot
  <2> QED BY <1>2, <2>2, <2>3, BeginningStep DEF Start
<1>3. ASSUME NEW op \in {"claim", "close"}, NEW c,
             \E k \in 0..MaxRetries :
                c = [NewCall(op, "request", t) EXCEPT !.loaded = review[t].seen, !.tries = k],
             call' = [call EXCEPT ![p] = c], UNCHANGED <<request, funding, money, review>>
      PROVE  IInv'
  <2> DEFINE n == NewCall(op, "request", t)
  <2>1. n \in Calls /\ n.at = "request" /\ n.topUp = t /\ n.seen = Unread
    BY NewCallIs DEF Operations, Steps
  <2>2. c \in Calls /\ c.at = "request" /\ c.topUp = t /\ c.seen = Unread
    <3>1. review[t].seen \in Snapshot
      BY <1>0 DEF TypeOK, Review
    <3> HIDE DEF n
    <3> QED BY <1>3, <2>1, <3>1 DEF Calls, n
  <2> QED BY <1>3, <2>2, UnreadIs, BeginningStep
<1>4. CASE Retry(p, t)
  <2>1. PICK k \in 0..MaxRetries : k = review[t].tries + 1
    BY <1>0, <1>4, TopUpAssumption DEF TypeOK, Review, Retry
  <2>2. PICK c : c = [NewCall("claim", "request", t) EXCEPT
                         !.loaded = review[t].seen, !.tries = k]
    OBVIOUS
  <2> QED BY <1>3, <1>4, <2>1, <2>2 DEF Retry, Start
<1>5. CASE BeginClosing(p, t)
  <2> DEFINE n == NewCall("close", "request", t)
  <2>1. n \in Calls /\ n.tries = 0 /\ 0 \in 0..MaxRetries
    BY NewCallIs, TopUpAssumption DEF Operations, Steps
  <2>2. PICK c : c = [n EXCEPT !.loaded = review[t].seen]
    OBVIOUS
  <2>3. c = [n EXCEPT !.loaded = review[t].seen, !.tries = 0]
    <3> HIDE DEF n
    <3> QED BY <2>1, <2>2 DEF Calls
  <2> QED BY <1>3, <1>5, <2>1, <2>2, <2>3 DEF BeginClosing, Start
<1> QED BY <1>1, <1>2, <1>4, <1>5 DEF Begin, Inspect, FinalizeFailure

-----------------------------------------------------------------------------
(* Accounting *)

\* Where an accounting ends, for a plain call and for a retry.
LEMMA AccountingEnds ==
  ASSUME IInv, Advance, NEW p \in Callers, call[p] # Idle, Accounted(p) \/ Failed(p)
  PROVE  call' \in [Callers -> CallState] /\ CallsKnow'
<1>1. PICK c : c = call[p]
  OBVIOUS
<1>2. PICK at \in {"request", "report"} :
          call' = [call EXCEPT ![p] =
              IF c.op = "retry" THEN [c EXCEPT !.at = at, !.seen = Unread] ELSE Idle]
  BY <1>1 DEF Accounted, Failed, IInv, TypeOK
<1>3. CASE c.op = "retry"
  <2>1. PICK k : k = [c EXCEPT !.at = at, !.seen = Unread]
    OBVIOUS
  <2>2. k \in Calls /\ k.seen = Unread /\ k.at = at
    BY <1>1, <2>1, CallFields, UnreadIs DEF IInv, Calls, Steps
  <2>3. Knows(k)'
    BY <2>2, UnreadIs DEF Knows, Lags, LinkedStatuses
  <2> QED BY <1>2, <1>3, <2>1, <2>2, <2>3, CallStep DEF CallState
<1>4. CASE c.op # "retry"
  <2>1. call' = [call EXCEPT ![p] = Idle]
    BY <1>2, <1>4
  <2> QED BY <2>1, CallStep DEF CallState
<1> QED BY <1>3, <1>4

\* A call that moves on to at, with s as its view of the top-up.
LEMMA MoveStep ==
  ASSUME IInv, Advance, NEW p \in Callers, NEW c \in Calls, c = call[p],
         NEW at \in Steps \ {"claim", "resolve", "record", "finalize"}, NEW s \in Snapshot,
         call' = [call EXCEPT ![p] = [c EXCEPT !.at = at, !.seen = s]],
         Lags(s, c.topUp)',
         at \in {"account", "operation", "post", "project", "complete"} => Paid(c.topUp)',
         at \in {"project", "complete"} => posted'[c.topUp] = 1,
         at = "complete" => projected'[c.topUp] = 1
  PROVE  call' \in [Callers -> CallState] /\ CallsKnow'
<1>1. PICK k : k = [c EXCEPT !.at = at, !.seen = s]
  OBVIOUS
<1>2. k \in Calls /\ k.at = at /\ k.seen = s /\ k.topUp = c.topUp
  BY <1>1 DEF Calls
<1>3. Knows(k)'
  BY <1>2 DEF Knows
<1> QED BY <1>1, <1>2, <1>3, CallStep DEF CallState

LEMMA AccountingReads ==
  ASSUME IInv, NEW p \in Callers, AccountAgain(p) \/ ReadOperation(p)
  PROVE  IInv'
<1>0. TypeOK /\ BooksAgree /\ UNCHANGED <<request, funding, money, review>> /\ call[p] # Idle
  BY DEF IInv, AccountAgain, ReadOperation, At
<1>1. Advance /\ BooksAgree'
  BY <1>0, DocumentsStay
<1>2. PICK c \in Calls : c = call[p]
  BY <1>0, CallFields
<1>3. c.topUp \in TopUps /\ Knows(c) /\ c.seen \in Snapshot
  BY <1>0, <1>2, CallFields DEF IInv, CallsKnow
<1>4. CASE Accounted(p) \/ Failed(p)
  <2>1. call' \in [Callers -> CallState] /\ CallsKnow'
    BY <1>0, <1>1, <1>4, AccountingEnds
  <2>2. TypeOK' /\ CasesSound'
    BY <1>0, <1>1, <2>1, CasesStay DEF TypeOK, money
  <2> QED BY <1>1, <2>1, <2>2 DEF IInv
<1>5. CASE ~(Accounted(p) \/ Failed(p))
  <2>1. PICK at \in {"operation", "post"}, s \in Snapshot :
           /\ call' = [call EXCEPT ![p] = [c EXCEPT !.at = at, !.seen = s]]
           /\ Lags(s, c.topUp)
    <3>1. CASE AccountAgain(p)
      <4> DEFINE found == posted[c.topUp] > 0
                 s == [c.seen EXCEPT !.posted = found]
      <4>1. call' = [call EXCEPT ![p].at = "operation", ![p].seen.posted = found]
        BY <1>2, <1>5, <3>1 DEF AccountAgain
      <4>2. call' = [call EXCEPT ![p] = [c EXCEPT !.at = "operation", !.seen = s]]
        BY <1>0, <1>2, <4>1 DEF TypeOK, Calls
      <4>3. s \in Snapshot /\ s.request = c.seen.request /\ s.funding = c.seen.funding
        <5>1. found \in BOOLEAN
          OBVIOUS
        <5> HIDE DEF found
        <5> QED BY <1>3, <5>1 DEF Snapshot
      <4>4. Lags(s, c.topUp)
        BY <1>3, <4>3 DEF Knows, Lags
      <4> HIDE DEF s, found
      <4> QED BY <4>2, <4>3, <4>4
    <3>2. CASE ReadOperation(p)
      <4>1. call' = [call EXCEPT ![p].at = "post", ![p].seen = Unread]
        BY <1>5, <3>2 DEF ReadOperation
      <4>2. call' = [call EXCEPT ![p] = [c EXCEPT !.at = "post", !.seen = Unread]]
        BY <1>0, <1>2, <4>1 DEF TypeOK, Calls
      <4> QED BY <4>2, UnreadIs, UnreadLags
    <3> QED BY <3>1, <3>2
  <2>2. Paid(c.topUp)
    BY <1>2, <1>3 DEF Knows, AccountAgain, ReadOperation, At
  <2>3. call' \in [Callers -> CallState] /\ CallsKnow'
    <3>1. Lags(s, c.topUp)' /\ Paid(c.topUp)'
      BY <1>0, <2>1, <2>2 DEF Lags, Paid
    <3> QED BY <1>1, <1>2, <2>1, <3>1, MoveStep DEF Steps
  <2>4. TypeOK' /\ CasesSound'
    BY <1>0, <1>1, <2>3, CasesStay DEF TypeOK, money
  <2> QED BY <1>1, <2>3, <2>4 DEF IInv
<1> QED BY <1>4, <1>5

\* What each write of an accounting does to the documents.
LEMMA AccountingWrites ==
  ASSUME IInv, NEW p \in Callers, NEW c \in Calls, c = call[p], c # Idle,
         PostEntry(p) \/ Project(p) \/ Complete(p)
  PROVE  /\ Advance /\ BooksAgree' /\ Paid(c.topUp)'
         /\ request' \in [TopUps -> RequestStatuses] /\ UNCHANGED <<funding, review>>
         /\ posted' \in [TopUps -> Nat] /\ projected' \in [TopUps -> Nat]
         /\ balance' \in [Wallets -> 0..MaxBalance]
         /\ posted'[c.topUp] = 1
         /\ Project(p) /\ ~Failed(p) => projected'[c.topUp] = 1
<1> USE DEF money
<1> DEFINE t == c.topUp
<1>0. /\ TypeOK /\ BooksAgree /\ t \in TopUps /\ Knows(c)
      /\ Amount[t] \in Nat /\ WalletOf[t] \in Wallets /\ MaxBalance \in Nat
  BY CallFields, TopUpAssumption DEF IInv, CallsKnow
<1>1. CASE PostEntry(p)
  <2>1. c.at = "post" /\ Paid(t) /\ posted[t] \in {0, 1}
    BY <1>0, <1>1 DEF PostEntry, At, Knows, BooksAgree
  <2>2. /\ UNCHANGED <<request, funding, projected, balance, review>>
        /\ posted' = [posted EXCEPT ![t] = 1]
    BY <1>0, <1>1, <2>1 DEF PostEntry, Entries, TypeOK
  <2>3. Advance /\ BooksAgree' /\ Paid(t)'
    BY <1>0, <2>1, <2>2 DEF Advance, BooksAgree, Paid, TypeOK
  <2>4. ~Complete(p) /\ ~Project(p)
    BY <1>1 DEF PostEntry, Complete, Project, At
  <2> QED BY <1>0, <1>1, <2>2, <2>3, <2>4 DEF TypeOK
<1>2. CASE Project(p)
  <2>1. c.at = "project" /\ Paid(t) /\ posted[t] = 1 /\ projected[t] \in {0, 1}
        /\ ~PostEntry(p) /\ ~Complete(p)
    BY <1>0, <1>2 DEF PostEntry, Complete, Project, At, Knows, BooksAgree
  <2>2. UNCHANGED <<request, funding, posted, review>>
    BY <1>2 DEF Project
  <2>3. \/ UNCHANGED <<projected, balance>> /\ (Failed(p) \/ projected[t] = 1)
        \/ /\ projected' = [projected EXCEPT ![t] = 1]
           /\ balance' = [balance EXCEPT ![WalletOf[t]] = @ + Amount[t]]
           /\ Fits(WalletOf[t], Amount[t])
    BY <1>0, <1>2, <2>1 DEF Project, TypeOK
  <2>4. balance' \in [Wallets -> 0..MaxBalance]
    BY <1>0, <2>3 DEF Fits, TypeOK
  <2>5. projected' \in [TopUps -> Nat] /\ (~Failed(p) => projected'[t] = 1)
    BY <1>0, <2>3 DEF TypeOK
  <2>6. Advance /\ BooksAgree' /\ Paid(t)'
    BY <1>0, <2>1, <2>2, <2>3 DEF Advance, BooksAgree, Paid, TypeOK
  <2> QED BY <1>0, <2>1, <2>2, <2>4, <2>5, <2>6 DEF TypeOK
<1>3. CASE Complete(p)
  <2>1. c.at = "complete" /\ Paid(t) /\ posted[t] = 1 /\ projected[t] = 1
        /\ ~PostEntry(p) /\ ~Project(p)
    BY <1>0, <1>3 DEF PostEntry, Complete, Project, At, Knows
  <2>2. /\ UNCHANGED <<funding, posted, projected, balance, review>>
        /\ request' = [request EXCEPT ![t] = "COMPLETED"]
    BY <1>0, <1>3, <2>1 DEF Complete, Paid, TypeOK
  <2>3. Advance /\ BooksAgree' /\ Paid(t)'
    BY <1>0, <2>1, <2>2 DEF Advance, BooksAgree, Paid, TypeOK, LinkedStatuses
  <2>4. request' \in [TopUps -> RequestStatuses]
    BY <1>0, <2>2 DEF TypeOK, RequestStatuses
  <2> QED BY <1>0, <1>3, <2>1, <2>2, <2>3, <2>4 DEF TypeOK
<1> QED BY <1>1, <1>2, <1>3

LEMMA AccountingSteps ==
  ASSUME IInv, NEW p \in Callers, PostEntry(p) \/ Project(p) \/ Complete(p)
  PROVE  IInv'
<1>0. TypeOK /\ call[p] # Idle
  BY DEF IInv, PostEntry, Project, Complete, At
<1>1. PICK c \in Calls : c = call[p]
  BY <1>0, CallFields
<1>2. c.topUp \in TopUps /\ Knows(c) /\ c.seen \in Snapshot
  BY <1>0, <1>1, CallFields DEF IInv, CallsKnow
<1>3. /\ Advance /\ BooksAgree' /\ Paid(c.topUp)'
      /\ UNCHANGED review /\ posted'[c.topUp] = 1
      /\ Project(p) /\ ~Failed(p) => projected'[c.topUp] = 1
  BY <1>0, <1>1, AccountingWrites
<1>4. call' \in [Callers -> CallState] /\ CallsKnow'
  <2>1. CASE Accounted(p) \/ Failed(p)
    BY <1>0, <1>3, <2>1, AccountingEnds
  <2>2. CASE ~(Accounted(p) \/ Failed(p))
    <3>1. PICK at \in {"project", "complete"} :
             /\ call' = [call EXCEPT ![p].at = at]
             /\ at = "complete" => Project(p)
      BY <2>2 DEF PostEntry, Project, Complete, Goto
    <3>2. call' = [call EXCEPT ![p] = [c EXCEPT !.at = at, !.seen = c.seen]]
      BY <1>0, <1>1, <3>1 DEF TypeOK, Calls
    <3>3. Lags(c.seen, c.topUp)'
      BY <1>2, <1>3, KnownStays DEF Knows
    <3>4. /\ at \in Steps \ {"claim", "resolve", "record", "finalize"}
          /\ at = "complete" => projected'[c.topUp] = 1
      BY <1>3, <2>2, <3>1 DEF Steps
    <3>5. PICK s \in Snapshot : s = c.seen
      BY <1>2
    <3> QED BY <1>1, <1>3, <3>2, <3>3, <3>4, <3>5, MoveStep
  <2> QED BY <2>1, <2>2
<1>5. TypeOK' /\ CasesSound'
  BY <1>0, <1>1, <1>3, <1>4, AccountingWrites, CasesStay DEF TypeOK
<1> QED BY <1>3, <1>4, <1>5 DEF IInv

-----------------------------------------------------------------------------
(* Inspections *)

LEMMA ReadStep ==
  ASSUME IInv, NEW p \in Callers, Read(p)
  PROVE  IInv'
<1>0. TypeOK /\ call[p] # Idle /\ UNCHANGED <<request, funding, money, review>>
  BY DEF IInv, Read, Saw, At
<1>1. PICK c \in Calls : c = call[p]
  BY <1>0, CallFields
<1>2. /\ c.topUp \in TopUps /\ Knows(c) /\ c.seen \in Snapshot /\ c.loaded \in Snapshot
      /\ c.op \in Operations
  BY <1>0, <1>1, CallFields DEF IInv, CallsKnow
<1>3. ASSUME NEW document \in {"request", "funding", "posted", "projected"}, NEW value,
             NEW next \in {"funding", "posted", "projected", "case"},
             Saw(p, document, value, next),
             [c.seen EXCEPT ![document] = value] \in Snapshot,
             Lags([c.seen EXCEPT ![document] = value], c.topUp)
      PROVE  IInv'
  <2>1. PICK s \in Snapshot : s = [c.seen EXCEPT ![document] = value]
    BY <1>3
  <2>2. PICK k : /\ k \in Calls /\ k.at = next /\ k.seen = s /\ k.topUp = c.topUp
                 /\ call' = [call EXCEPT ![p] = k]
    <3>1. CASE Refused(c, document, value)
      <4>1. PICK n : n = [NewCall("inspect", next, c.topUp) EXCEPT !.seen = c.seen]
        OBVIOUS
      <4>2. n \in Calls /\ n.at = next /\ n.seen = c.seen /\ n.topUp = c.topUp
        <5>1. PICK m \in Calls : /\ m = NewCall("inspect", next, c.topUp)
                                 /\ m.at = next /\ m.topUp = c.topUp
          BY <1>2, NewCallIs DEF Operations, Steps
        <5> QED BY <1>2, <4>1, <5>1 DEF Calls
      <4>3. call' = [call EXCEPT ![p] = [n EXCEPT !.seen[document] = value]]
        BY <1>1, <1>3, <3>1, <4>1 DEF Saw
      <4> QED BY <2>1, <4>2, <4>3 DEF Calls
    <3>2. CASE ~Refused(c, document, value)
      <4>1. PICK n : n = [c EXCEPT !.at = next]
        OBVIOUS
      <4>2. n \in Calls /\ n.at = next /\ n.seen = c.seen /\ n.topUp = c.topUp
        BY <4>1 DEF Calls, Steps
      <4>3. call' = [call EXCEPT ![p] = [n EXCEPT !.seen[document] = value]]
        BY <1>1, <1>3, <3>2, <4>1 DEF Saw
      <4> QED BY <2>1, <4>2, <4>3 DEF Calls
    <3> QED BY <3>1, <3>2
  <2>3. Knows(k)'
    BY <1>0, <1>3, <2>1, <2>2 DEF Knows, Lags
  <2> QED BY <1>0, <2>2, <2>3, OnlyCallStep DEF CallState
<1>4. CASE Saw(p, "request", request[c.topUp], "funding")
  <2>1. request[c.topUp] \in RequestStatuses
    BY <1>0, <1>2 DEF TypeOK
  <2>2. [c.seen EXCEPT !["request"] = request[c.topUp]] \in Snapshot
    BY <1>2, <2>1 DEF Snapshot
  <2>3. Lags([c.seen EXCEPT !["request"] = request[c.topUp]], c.topUp)
    BY <1>2 DEF Lags, Knows, Snapshot
  <2> QED BY <1>3, <1>4, <2>2, <2>3
<1>5. CASE Saw(p, "funding", funding[c.topUp], "posted")
  <2>1. funding[c.topUp] \in FundingStatuses
    BY <1>0, <1>2 DEF TypeOK
  <2>2. [c.seen EXCEPT !["funding"] = funding[c.topUp]] \in Snapshot
    BY <1>2, <2>1 DEF Snapshot
  <2>3. Lags([c.seen EXCEPT !["funding"] = funding[c.topUp]], c.topUp)
    BY <1>2 DEF Lags, Knows, Snapshot
  <2> QED BY <1>3, <1>5, <2>2, <2>3
<1>6. ASSUME NEW document \in {"posted", "projected"}, NEW found \in BOOLEAN,
             NEW next \in {"projected", "case"}, Saw(p, document, found, next)
      PROVE  IInv'
  <2>1. [c.seen EXCEPT ![document] = found] \in Snapshot
    BY <1>2 DEF Snapshot
  <2>2. Lags([c.seen EXCEPT ![document] = found], c.topUp)
    BY <1>2 DEF Lags, Knows, Snapshot
  <2> QED BY <1>3, <1>6, <2>1, <2>2
<1>7. CASE /\ At(p, "case")
           /\ call' = [call EXCEPT ![p].at = "record",
                                   ![p].store = NewStatus(review[c.topUp], call[p].seen)]
  <2>1. PICK status \in ReviewStatuses : status = NewStatus(review[c.topUp], c.seen)
    BY <1>0, <1>2 DEF NewStatus, TypeOK, Review, ReviewStatuses
  <2>2. PICK k : k = [c EXCEPT !.at = "record", !.store = status]
    OBVIOUS
  <2>3. /\ k \in Calls /\ k.at = "record" /\ k.store = status
        /\ k.seen = c.seen /\ k.topUp = c.topUp
    BY <2>1, <2>2 DEF Calls, Steps
  <2>4. call' = [call EXCEPT ![p] = k]
    BY <1>0, <1>1, <1>7, <2>1, <2>2 DEF TypeOK
  <2>5. /\ status = "RESOLVED" => Class(c.seen) = "COMPLETED_VALID"
        /\ status = "ACKNOWLEDGED" => Class(c.seen) = "CRITICAL"
    BY <1>2, <2>1 DEF IInv, CasesSound, NewStatus
  <2>6. Knows(k)'
    <3>1. Lags(c.seen, c.topUp)'
      BY <1>0, <1>2 DEF Knows, Lags
    <3> QED BY <2>3, <2>5, <3>1 DEF Knows
  <2> QED BY <1>0, <2>3, <2>4, <2>6, OnlyCallStep DEF CallState
<1>8. ASSUME NEW b PROVE (c.seen.funding # "NONE" /\ b > 0) \in BOOLEAN
  OBVIOUS
<1> QED
  <2>1. \/ Saw(p, "request", request[c.topUp], "funding")
        \/ Saw(p, "funding", funding[c.topUp], "posted")
        \/ Saw(p, "posted", c.seen.funding # "NONE" /\ posted[c.topUp] > 0, "projected")
        \/ Saw(p, "projected", c.seen.funding # "NONE" /\ projected[c.topUp] > 0, "case")
        \/ /\ At(p, "case")
           /\ call' = [call EXCEPT ![p].at = "record",
                                   ![p].store = NewStatus(review[c.topUp], call[p].seen)]
    BY <1>1 DEF Read
  <2> QED BY <1>4, <1>5, <1>6, <1>7, <1>8, <2>1

-----------------------------------------------------------------------------
(* Cases *)

\* A step that writes one case and moves one call.
LEMMA CaseStep ==
  ASSUME IInv, UNCHANGED <<request, funding, money>>,
         NEW p \in Callers, NEW next \in CallState,
         call' = [call EXCEPT ![p] = next], next # Idle => Knows(next)',
         NEW t \in TopUps, NEW r \in Review, review' = [review EXCEPT ![t] = r],
         Lags(r.seen, t),
         r.status = "RESOLVED" => Class(r.seen) = "COMPLETED_VALID",
         r.status = "ACKNOWLEDGED" => Class(r.seen) = "CRITICAL"
  PROVE  IInv'
<1>1. Advance /\ BooksAgree'
  BY DocumentsStay
<1>2. call' \in [Callers -> CallState] /\ CallsKnow'
  BY <1>1, CallStep
<1>3. TypeOK'
  BY <1>2 DEF IInv, TypeOK, money
<1>4. CasesSound'
  BY DEF IInv, TypeOK, CasesSound, Lags
<1> QED BY <1>1, <1>2, <1>3, <1>4 DEF IInv

LEMMA RecordStep ==
  ASSUME IInv, NEW p \in Callers, Record(p)
  PROVE  IInv'
<1>0. TypeOK /\ call[p] # Idle /\ UNCHANGED <<request, funding, money>>
  BY DEF IInv, Record, At
<1>1. PICK c \in Calls : c = call[p]
  BY <1>0, CallFields
<1>2. /\ c.topUp \in TopUps /\ Knows(c) /\ c.seen \in Snapshot /\ c.store \in ReviewStatuses
      /\ c.at = "record" /\ review[c.topUp] \in Review
  BY <1>0, <1>1, CallFields DEF IInv, CallsKnow, Record, At, TypeOK
<1>3. PICK r : r = [review[c.topUp] EXCEPT !.status = c.store, !.seen = c.seen]
  OBVIOUS
<1>4. /\ r \in Review /\ r.status = c.store /\ r.seen = c.seen
      /\ review' = [review EXCEPT ![c.topUp] = r]
  BY <1>0, <1>1, <1>2, <1>3 DEF Review, Record, TypeOK
<1>5. PICK k : k = Afterwards(c)
  OBVIOUS
<1>6. call' = [call EXCEPT ![p] = k]
  BY <1>1, <1>5 DEF Record
<1>7. PICK n : n = [c EXCEPT !.loaded = Unread, !.store = "NONE"]
  OBVIOUS
<1>8. n \in Calls /\ n.seen = c.seen /\ n.topUp = c.topUp
  BY <1>7, UnreadIs DEF Calls, ReviewStatuses
<1>9. \/ k = Idle
      \/ Class(c.seen) = "RETRYABLE" /\ k = [n EXCEPT !.at = "claim"]
      \/ Class(c.seen) = "COMPLETED_VALID" /\ k = [n EXCEPT !.at = "resolve"]
      \/ k = [n EXCEPT !.at = "report"] \/ k = [n EXCEPT !.at = "update"]
      \/ Class(c.seen) = "PROVIDER_FAILED" /\ k = [n EXCEPT !.at = "finalize", !.seen = Unread]
  BY <1>5, <1>7 DEF Afterwards
<1>10. k \in CallState /\ (k # Idle => Knows(k)')
  <2>1. Lags(c.seen, c.topUp)'
    BY <1>0, <1>2 DEF Knows, Lags
  <2>2. CASE k = [n EXCEPT !.at = "finalize", !.seen = Unread]
             /\ Class(c.seen) = "PROVIDER_FAILED"
    <3>1. k \in Calls /\ k.at = "finalize" /\ k.seen = Unread /\ k.topUp = c.topUp
      BY <1>8, <2>2, UnreadIs DEF Calls, Steps
    <3>2. funding'[c.topUp] = "FAILED"
      BY <1>0, <1>2, <2>2, ClassMeans DEF Knows, Lags
    <3> QED BY <3>1, <3>2, UnreadIs DEF Knows, Lags, LinkedStatuses, CallState
  <2>3. ASSUME NEW at \in {"claim", "resolve", "report", "update"}, k = [n EXCEPT !.at = at],
               at = "claim" => Class(c.seen) = "RETRYABLE",
               at = "resolve" => Class(c.seen) = "COMPLETED_VALID"
        PROVE  k \in CallState /\ Knows(k)'
    <3>1. k \in Calls /\ k.at = at /\ k.seen = c.seen /\ k.topUp = c.topUp
      BY <1>8, <2>3 DEF Calls, Steps
    <3> QED BY <2>1, <2>3, <3>1 DEF Knows, CallState
  <2> QED BY <1>9, <2>2, <2>3 DEF CallState
<1> QED BY <1>0, <1>2, <1>4, <1>6, <1>10, CaseStep DEF Knows

\* A case whose status alone is written, by a call that ends.
LEMMA StatusStep ==
  ASSUME IInv, UNCHANGED <<request, funding, money>>, NEW p \in Callers, End(p),
         NEW t \in TopUps, NEW status \in ReviewStatuses,
         review' = [review EXCEPT ![t].status = status],
         status = "RESOLVED" => Class(review[t].seen) = "COMPLETED_VALID",
         status = "ACKNOWLEDGED" => Class(review[t].seen) = "CRITICAL"
  PROVE  IInv'
<1>1. PICK r : r = [review[t] EXCEPT !.status = status]
  OBVIOUS
<1>2. /\ r \in Review /\ r.status = status /\ r.seen = review[t].seen
      /\ review' = [review EXCEPT ![t] = r]
  BY <1>1 DEF IInv, TypeOK, Review
<1>3. Lags(r.seen, t)
  BY <1>2 DEF IInv, CasesSound
<1> QED BY <1>2, <1>3, CaseStep DEF End, CallState

LEMMA ClaimStep ==
  ASSUME IInv, NEW p \in Callers, Claim(p)
  PROVE  IInv'
<1>0. TypeOK /\ BooksAgree /\ call[p] # Idle /\ UNCHANGED <<request, funding, money>>
  BY DEF IInv, Claim, At
<1>1. PICK c \in Calls : c = call[p]
  BY <1>0, CallFields
<1>2. /\ c.topUp \in TopUps /\ Knows(c) /\ c.at = "claim" /\ review[c.topUp] \in Review
      /\ c.tries \in 0..MaxRetries
  BY <1>0, <1>1, CallFields DEF IInv, CallsKnow, Claim, At, TypeOK
<1>3. CASE ~Claimable(c, review[c.topUp])
  BY <1>0, <1>1, <1>3, Ending DEF Claim
<1>4. CASE Claimable(c, review[c.topUp])
  <2>1. PICK r : r = [review[c.topUp] EXCEPT !.status = "IN_PROGRESS", !.tries = @ + 1]
    OBVIOUS
  <2>2. /\ r \in Review /\ r.status = "IN_PROGRESS" /\ r.seen = review[c.topUp].seen
        /\ review' = [review EXCEPT ![c.topUp] = r]
    <3>1. review[c.topUp].tries + 1 = c.tries
      BY <1>2, <1>4, TopUpAssumption DEF Claimable, Review
    <3> QED BY <1>0, <1>1, <1>2, <1>4, <2>1, <3>1 DEF Review, ReviewStatuses, Claim, TypeOK
  <2>3. PICK n \in Calls : /\ n = NewCall("retry", "account", c.topUp)
                           /\ n.at = "account" /\ n.topUp = c.topUp /\ n.seen = Unread
    BY <1>2, NewCallIs DEF Operations, Steps
  <2>4. PICK k : k = [n EXCEPT !.tries = c.tries]
    OBVIOUS
  <2>5. /\ k \in Calls /\ k.at = "account" /\ k.topUp = c.topUp /\ k.seen = Unread
        /\ call' = [call EXCEPT ![p] = k]
    BY <1>1, <1>2, <1>4, <2>3, <2>4 DEF Calls, Claim
  <2>6. Paid(c.topUp)
    BY <1>0, <1>2, ClassMeans DEF Knows, Lags, BooksAgree, Paid, LinkedStatuses
  <2>7. Knows(k)'
    BY <1>0, <2>5, <2>6, UnreadIs DEF Knows, Lags, Paid, LinkedStatuses
  <2>8. Lags(r.seen, c.topUp)
    BY <1>2, <2>2 DEF IInv, CasesSound
  <2> QED BY <1>0, <1>2, <2>2, <2>5, <2>7, <2>8, CaseStep DEF CallState
<1> QED BY <1>3, <1>4

LEMMA ClosingSteps ==
  ASSUME IInv, NEW p \in Callers, Resolve(p) \/ UpdateStatus(p)
  PROVE  IInv'
<1>0. TypeOK /\ call[p] # Idle /\ UNCHANGED <<request, funding, money>> /\ End(p)
  BY DEF IInv, Resolve, UpdateStatus, Close, At
<1>1. PICK c \in Calls : c = call[p]
  BY <1>0, CallFields
<1>2. c.topUp \in TopUps /\ Knows(c) /\ review[c.topUp] \in Review
  BY <1>0, <1>1, CallFields DEF IInv, CallsKnow, TypeOK
<1>3. PICK from, to : /\ Close(p, from, to)
                      /\ \/ to = "RESOLVED" /\ Class(c.seen) = "COMPLETED_VALID"
                         \/ to = "ACKNOWLEDGED" /\ Class(c.seen) = "CRITICAL"
  BY <1>1, <1>2 DEF Resolve, UpdateStatus, At, Knows
<1>4. PICK status : status = IF review[c.topUp].seen = c.seen
                                /\ review[c.topUp].status \in from
                             THEN to ELSE review[c.topUp].status
  OBVIOUS
<1>5. review' = [review EXCEPT ![c.topUp].status = status] /\ status \in ReviewStatuses
  BY <1>0, <1>1, <1>2, <1>3, <1>4 DEF Close, Review, ReviewStatuses, TypeOK
<1>6. /\ status = "RESOLVED" => Class(review[c.topUp].seen) = "COMPLETED_VALID"
      /\ status = "ACKNOWLEDGED" => Class(review[c.topUp].seen) = "CRITICAL"
  BY <1>2, <1>3, <1>4 DEF IInv, CasesSound
<1> QED BY <1>0, <1>2, <1>5, <1>6, StatusStep

LEMMA ReportStep ==
  ASSUME IInv, NEW p \in Callers, Report(p)
  PROVE  IInv'
<1>0. TypeOK /\ call[p] # Idle /\ UNCHANGED <<request, funding, money>> /\ End(p)
  BY DEF IInv, Report, At
<1>1. PICK c \in Calls : c = call[p]
  BY <1>0, CallFields
<1>2. c.topUp \in TopUps /\ review[c.topUp] \in Review
  BY <1>0, <1>1, CallFields DEF TypeOK
<1>3. PICK status \in ReviewStatuses :
         /\ review' = [review EXCEPT ![c.topUp].status = status]
         /\ status \in {"RETRY_SCHEDULED", "FAILED", review[c.topUp].status}
  BY <1>0, <1>1, <1>2 DEF Report, Review, ReviewStatuses, TypeOK
<1> QED BY <1>0, <1>2, <1>3, StatusStep DEF IInv, CasesSound

LEMMA FailureStep ==
  ASSUME IInv, NEW p \in Callers, CommitFailure(p)
  PROVE  IInv'
<1>0. TypeOK /\ BooksAgree /\ call[p] # Idle /\ UNCHANGED <<funding, money, review>>
  BY DEF IInv, CommitFailure, At
<1>1. PICK c \in Calls : c = call[p]
  BY <1>0, CallFields
<1>2. /\ c.topUp \in TopUps /\ Knows(c) /\ funding[c.topUp] = "FAILED"
  BY <1>0, <1>1, CallFields DEF IInv, CallsKnow, CommitFailure, At, Knows
<1>3. request' = [request EXCEPT ![c.topUp] = IF @ = "PROCESSING" THEN "FAILED" ELSE @]
  BY <1>1 DEF CommitFailure
<1>4. Advance /\ BooksAgree' /\ request' \in [TopUps -> RequestStatuses]
  BY <1>0, <1>2, <1>3
  DEF Advance, BooksAgree, Paid, TypeOK, RequestStatuses, LinkedStatuses, money
<1>5. PICK k \in Calls : /\ k = NewCall("inspect", "request", c.topUp)
                         /\ k.at = "request" /\ k.seen = Unread /\ k.topUp = c.topUp
  BY <1>2, NewCallIs DEF Operations, Steps
<1>6. Knows(k)'
  BY <1>5, UnreadIs DEF Knows, Lags, LinkedStatuses
<1>7. call' \in [Callers -> CallState] /\ CallsKnow'
  BY <1>1, <1>4, <1>5, <1>6, CallStep DEF CommitFailure, CallState
<1>8. TypeOK' /\ CasesSound'
  BY <1>0, <1>4, <1>7, CasesStay DEF TypeOK, money
<1> QED BY <1>4, <1>7, <1>8 DEF IInv

-----------------------------------------------------------------------------
(* The theorems *)

LEMMA Initially == Init => IInv
<1> SUFFICES ASSUME Init PROVE IInv
  OBVIOUS
<1>1. TypeOK
  BY TopUpAssumption, UnreadIs
  DEF Init, TypeOK, CallState, RequestStatuses, FundingStatuses, Review, NoReview, ReviewStatuses
<1>2. BooksAgree
  BY DEF Init, BooksAgree
<1>3. CallsKnow
  BY DEF Init, CallsKnow
<1>4. CasesSound
  BY UnreadIs DEF Init, CasesSound, NoReview, Lags, LinkedStatuses
<1> QED BY <1>1, <1>2, <1>3, <1>4 DEF IInv

LEMMA StepsKeep == IInv /\ [Next]_vars => IInv'
<1> SUFFICES ASSUME IInv, [Next]_vars PROVE IInv'
  OBVIOUS
<1>1. ASSUME NEW t \in TopUps,
             \/ RequestTopUp(t) \/ (\E d \in {"APPROVED", "REJECTED"} : Decide(t, d))
             \/ CreateFunding(t) \/ LinkFunding(t)
             \/ \E answer \in {"SUCCEEDED", "FAILED"} : Simulate(t, answer)
      PROVE  IInv'
  BY <1>1, RequestSteps
<1>2. ASSUME NEW p \in Callers, Proceed(p) PROVE IInv'
  BY <1>2, AccountingReads, AccountingSteps, ReadStep, RecordStep, ClaimStep,
     ClosingSteps, ReportStep, FailureStep DEF Proceed
<1>3. ASSUME NEW p \in Callers, Crash(p) PROVE IInv'
  BY <1>3, Ending DEF Crash
<1>4. ASSUME NEW p \in Callers, NEW t \in TopUps, Begin(p, t) PROVE IInv'
  BY <1>4, Beginnings
<1>5. ASSUME NEW w \in Wallets, NEW amount \in 1..MaxBalance, Spend(w, amount) PROVE IInv'
  BY <1>5, SpendStep
<1>6. CASE UNCHANGED vars
  BY <1>6 DEF vars, IInv, TypeOK, BooksAgree, CallsKnow, CasesSound, Knows, Lags, Paid
<1> QED BY <1>1, <1>2, <1>3, <1>4, <1>5, <1>6 DEF Next

\* What calls, documents and cases know of one another holds at all times.
THEOREM TopUpInvariant == Spec => []IInv
  BY Initially, StepsKeep, PTL DEF Spec

\* Every variable keeps its type: no wallet ever holds more than the maximum,
\* and no top-up is retried more often than allowed.
THEOREM TopUpTypes == Spec => []TypeOK
  BY TopUpInvariant, PTL DEF IInv

\* A closed case shows what it was closed on, whoever inspects it meanwhile.
THEOREM CasesCloseOnWhatTheyShow == Spec => []ClosedOnWhatItShows
<1>1. IInv => ClosedOnWhatItShows
  BY ClassMeans DEF IInv, CasesSound, ClosedOnWhatItShows, Lags
<1> QED BY <1>1, TopUpInvariant, PTL

\* A top-up keeps its promise: credited once, only when paid, and told so after.
THEOREM PromiseRefinement == Spec => PromiseSpec
<1> DEFINE bank == [t \in TopUps |-> IF funding[t] = "PROCESSING" THEN "NONE" ELSE funding[t]]
           told == [t \in TopUps |-> Told(request[t])]
           seen == <<bank, posted, projected, balance, told>>
<1>1. Init => Promise!Init
  BY DEF Init, Promise!Init, Promise!Nothing, Told
<1>2. IInv /\ [Next]_vars => [Promise!Next]_seen
  <2> SUFFICES ASSUME IInv, [Next]_vars PROVE [Promise!Next]_seen
    OBVIOUS
  <2>0. TypeOK /\ BooksAgree
    BY DEF IInv
  <2>1. ASSUME UNCHANGED <<request, funding, money>> PROVE UNCHANGED seen
    BY <2>1 DEF money
  <2>2. ASSUME NEW t \in TopUps, RequestTopUp(t) \/ CreateFunding(t) \/ LinkFunding(t)
        PROVE  UNCHANGED seen
    <3>1. UNCHANGED <<posted, projected, balance>>
      BY <2>2 DEF RequestTopUp, CreateFunding, LinkFunding, money
    <3>2. bank' = bank
      BY <2>0, <2>2 DEF RequestTopUp, CreateFunding, LinkFunding, TypeOK
    <3>3. \A u \in TopUps : Told(request'[u]) = Told(request[u])
      BY <2>0, <2>2 DEF RequestTopUp, CreateFunding, LinkFunding, TypeOK, Told
    <3>4. told' = told
      BY <3>3 DEF Told
    <3> QED BY <3>1, <3>2, <3>4
  <2>3. ASSUME NEW t \in TopUps, NEW d \in {"APPROVED", "REJECTED"}, Decide(t, d)
        PROVE  [Promise!Next]_seen
    <3>1. UNCHANGED <<posted, projected, balance>> /\ bank' = bank /\ request[t] = "PENDING"
      BY <2>3 DEF Decide, money
    <3>2. told' = [told EXCEPT ![t] = Told(d)] /\ told[t] = "OPEN"
      BY <2>0, <2>3 DEF Decide, TypeOK, Told
    <3>3. CASE d = "APPROVED"
      <4>1. Told(d) = told[t]
        BY <3>2, <3>3 DEF Told
      <4>2. told' = told
        BY <3>2, <4>1
      <4> QED BY <3>1, <4>2
    <3>4. CASE d = "REJECTED"
      <4>1. Told(d) = "REJECTED" /\ bank[t] = "NONE"
        BY <2>0, <3>1, <3>4 DEF Told, BooksAgree
      <4>2. Promise!Tell(t)
        BY <3>1, <3>2, <4>1 DEF Promise!Tell
      <4> QED BY <4>2 DEF Promise!Next
    <3> QED BY <3>3, <3>4
  <2>4. ASSUME NEW t \in TopUps, NEW answer \in {"SUCCEEDED", "FAILED"}, Simulate(t, answer)
        PROVE  [Promise!Next]_seen
    <3>1. UNCHANGED <<posted, projected, balance>> /\ told' = told /\ told[t] = "OPEN"
      BY <2>4 DEF Simulate, money, Told
    <3>2. CASE funding[t] = "PROCESSING"
      <4>1. bank[t] = "NONE" /\ bank' = [bank EXCEPT ![t] = answer]
        BY <2>0, <2>4, <3>2 DEF Simulate, Answered, TypeOK
      <4>2. Promise!Answer(t)
        BY <3>1, <4>1 DEF Promise!Answer
      <4> QED BY <4>2 DEF Promise!Next
    <3>3. CASE funding[t] # "PROCESSING"
      <4>1. bank' = bank
        BY <2>0, <2>4, <3>3 DEF Simulate, Answered, TypeOK
      <4> QED BY <3>1, <4>1
    <3> QED BY <3>2, <3>3
  <2>5. ASSUME NEW p \in Callers, PostEntry(p) \/ Project(p) \/ Complete(p) \/ CommitFailure(p)
        PROVE  [Promise!Next]_seen
    <3>0. call[p] # Idle
      BY <2>5 DEF PostEntry, Project, Complete, CommitFailure, At
    <3>1. PICK t \in TopUps : t = call[p].topUp
      BY <2>0, <3>0, CallFields
    <3>2. Knows(call[p])
      BY <3>0 DEF IInv, CallsKnow
    <3>3. CASE PostEntry(p)
      <4>1. UNCHANGED <<projected, balance>> /\ bank' = bank /\ told' = told
        BY <3>3 DEF PostEntry
      <4>2. bank[t] = "SUCCEEDED" /\ posted[t] \in {0, 1} /\ posted' = [posted EXCEPT ![t] = 1]
        BY <2>0, <3>1, <3>2, <3>3 DEF PostEntry, Entries, Knows, Paid, At, BooksAgree, TypeOK
      <4>3. CASE posted[t] = 0
        <5>1. Promise!Enter(t)
          BY <4>1, <4>2, <4>3 DEF Promise!Enter
        <5> QED BY <5>1 DEF Promise!Next
      <4>4. CASE posted[t] = 1
        <5>1. posted' = posted
          BY <2>0, <4>2, <4>4 DEF TypeOK
        <5> QED BY <4>1, <5>1
      <4> QED BY <4>2, <4>3, <4>4
    <3>4. CASE Project(p)
      <4>1. UNCHANGED posted /\ bank' = bank /\ told' = told /\ posted[t] = 1
        BY <3>1, <3>2, <3>4 DEF Project, Knows, At
      <4>2. \/ UNCHANGED <<projected, balance>>
            \/ /\ projected[t] = 0 /\ projected' = [projected EXCEPT ![t] = 1]
               /\ balance' = [balance EXCEPT ![WalletOf[t]] = @ + Amount[t]]
        BY <2>0, <3>1, <3>4 DEF Project, TypeOK
      <4>3. CASE UNCHANGED <<projected, balance>>
        BY <4>1, <4>3
      <4>4. CASE ~UNCHANGED <<projected, balance>>
        <5>1. Promise!Credit(t)
          BY <4>1, <4>2, <4>4 DEF Promise!Credit
        <5> QED BY <5>1 DEF Promise!Next
      <4> QED BY <4>3, <4>4
    <3>5. CASE Complete(p)
      <4>1. UNCHANGED <<posted, projected, balance>> /\ bank' = bank /\ projected[t] = 1
            /\ request[t] \in {"PROCESSING", "COMPLETED"}
        BY <3>1, <3>2, <3>5 DEF Complete, money, Knows, Paid, At
      <4>2. told' = [told EXCEPT ![t] = "COMPLETED"] /\ told[t] \in {"OPEN", "COMPLETED"}
        BY <2>0, <3>1, <3>5, <4>1 DEF Complete, TypeOK, Told
      <4>3. CASE told[t] = "OPEN"
        <5>1. Promise!Tell(t)
          BY <4>1, <4>2, <4>3 DEF Promise!Tell
        <5> QED BY <5>1 DEF Promise!Next
      <4>4. CASE told[t] = "COMPLETED"
        <5>1. told' = told
          BY <4>2, <4>4
        <5> QED BY <4>1, <5>1
      <4> QED BY <4>2, <4>3, <4>4
    <3>6. CASE CommitFailure(p)
      <4>1. UNCHANGED <<posted, projected, balance>> /\ bank' = bank /\ bank[t] = "FAILED"
        BY <3>1, <3>2, <3>6 DEF CommitFailure, money, Knows, At
      <4>2. request' = [request EXCEPT ![t] = IF @ = "PROCESSING" THEN "FAILED" ELSE @]
        BY <3>1, <3>6 DEF CommitFailure
      <4>3. CASE request[t] = "PROCESSING"
        <5>1. told' = [told EXCEPT ![t] = "FAILED"] /\ told[t] = "OPEN"
          BY <2>0, <4>2, <4>3 DEF TypeOK, Told
        <5>2. Promise!Tell(t)
          BY <4>1, <5>1 DEF Promise!Tell
        <5> QED BY <5>2 DEF Promise!Next
      <4>4. CASE request[t] # "PROCESSING"
        <5>1. told' = told
          BY <2>0, <4>2, <4>4 DEF TypeOK
        <5> QED BY <4>1, <5>1
      <4> QED BY <4>3, <4>4
    <3> QED BY <2>5, <3>3, <3>4, <3>5, <3>6
  <2>6. ASSUME NEW w \in Wallets, NEW amount \in 1..MaxBalance, Spend(w, amount)
        PROVE  Promise!Next
    <3>1. UNCHANGED <<posted, projected>> /\ bank' = bank /\ told' = told
      BY <2>6 DEF Spend
    <3>2. amount \in 1..balance[w] /\ balance' = [balance EXCEPT ![w] = @ - amount]
      BY <2>0, <2>6, TopUpAssumption DEF Spend, TypeOK
    <3>3. Promise!Spend(w)
      BY <3>1, <3>2 DEF Promise!Spend
    <3> QED BY <3>3 DEF Promise!Next
  <2>7. ASSUME NEW p \in Callers, NEW t \in TopUps, Begin(p, t)
        PROVE  UNCHANGED <<request, funding, money>>
    BY <2>7 DEF Begin, Account, Inspect, Retry, FinalizeFailure, BeginClosing, Start
  <2>8. ASSUME NEW p \in Callers,
               \/ AccountAgain(p) \/ ReadOperation(p) \/ Read(p) \/ Record(p)
               \/ Claim(p) \/ Resolve(p) \/ Report(p) \/ UpdateStatus(p) \/ Crash(p)
        PROVE  UNCHANGED <<request, funding, money>>
    BY <2>8 DEF AccountAgain, ReadOperation, Read, Record, Claim, Resolve, Report,
       UpdateStatus, Close, Crash
  <2>9. CASE UNCHANGED vars
    BY <2>1, <2>9 DEF vars, money
  <2> HIDE DEF seen
  <2> QED BY <2>1, <2>2, <2>3, <2>4, <2>5, <2>6, <2>7, <2>8, <2>9 DEF Next, Proceed
<1> QED BY <1>1, <1>2, TopUpInvariant, PTL DEF Spec, PromiseSpec, Promise!Spec
=============================================================================
