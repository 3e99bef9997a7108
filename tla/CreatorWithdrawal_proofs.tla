---------------------- MODULE CreatorWithdrawal_proofs ----------------------
(* Proofs about CreatorWithdrawal, for any creators, withdrawals, amounts and *)
(* balances, and any number of callers, retries and crashes.                  *)
EXTENDS CreatorWithdrawal, FiniteSums_proofs, TLAPS

\* What a call in state k knows of its withdrawal.  The conflicts that make
\* open transactions start over are what keeps it true until the commit.
Knows(k) ==
    LET w == k.withdrawal
        c == CreatorOf[w]
    IN  /\ k.op = "reserve" =>
              status[w] = "NONE" /\ available[c] >= Amount[w] /\ ~HasObligation(c)
        /\ k.op = "initialize" => status[w] = "RESERVED" /\ provider[w] = "NONE"
        /\ k.op = "execute" => status[w] = "RESERVED" /\ provider[w] = "INITIALIZED"
        /\ k.op \in {"finalize", "settle"} => Answered(w)
        /\ k.op = "settle" => status[w] = "RESERVED"
        /\ k.op \in {"observe", "applied", "failed"} => k.tries > 0

CallsKnow == \A p \in Callers : Knows(call[p])

\* The entries of a withdrawal are what its status says, and a final status is
\* what the provider answered.
BooksAgree ==
    \A w \in Withdrawals :
        /\ status[w] = "NONE" => provider[w] = "NONE"
        /\ status[w] \in {"NONE", "FAILED"} => money[w] = Promise!Untouched
        /\ status[w] = "RESERVED" => money[w] = Promise!Held(w)
        /\ status[w] = "COMPLETED" => money[w] = Promise!PaidOut(w)
        /\ status[w] = "COMPLETED" => provider[w] = "SUCCEEDED"
        /\ status[w] = "FAILED" => provider[w] = "FAILED"

\* The reserved part of a wallet is exactly the withdrawal under way, nothing
\* when there is none: no finalization ever finds too little reserved.
ReservedIsUnderWay ==
    /\ \A w \in Withdrawals :
          status[w] = "RESERVED" => reserved[CreatorOf[w]] = Amount[w]
    /\ \A c \in Creators : ~HasObligation(c) => reserved[c] = 0

IInv ==
    /\ TypeOK /\ OneObligation /\ CallsKnow /\ BooksAgree
    /\ ReservedIsUnderWay /\ RetriesAreSerial

-----------------------------------------------------------------------------
(* Lemmas *)

LEMMA CallFields ==
  ASSUME TypeOK, NEW p \in Callers, call[p] # Idle
  PROVE  /\ call[p].withdrawal \in Withdrawals
         /\ call[p].tries \in 0..MaxRetries
         /\ call[p] = [op |-> call[p].op, withdrawal |-> call[p].withdrawal,
                       tries |-> call[p].tries]
         /\ call[p].op \in Transactions \cup OperatorSteps \cup FinalSteps
  BY DEF TypeOK, CallState

LEMMA AtFields ==
  ASSUME TypeOK, NEW p \in Callers, call[p].op # "idle"
  PROVE  /\ call[p].withdrawal \in Withdrawals
         /\ call[p].tries \in 0..MaxRetries
         /\ call[p] = [op |-> call[p].op, withdrawal |-> call[p].withdrawal,
                       tries |-> call[p].tries]
  BY CallFields DEF Idle

\* A step that changes only what one call is doing keeps the invariant when
\* the call knows what it should and does not join a retry.
LEMMA CallStep ==
  ASSUME IInv, NEW p \in Callers, NEW next \in CallState,
         call' = [call EXCEPT ![p] = next],
         UNCHANGED <<status, provider, funds, cases, world>>,
         Knows(next),
         next.op \in FinalSteps /\ next.tries > 0 =>
            /\ call[p].op \in FinalSteps
            /\ next.withdrawal = call[p].withdrawal /\ next.tries = call[p].tries
  PROVE  IInv'
<1> USE DEF funds, cases, world
<1>1. /\ call' \in [Callers -> CallState] /\ call'[p] = next
      /\ \A d \in Callers \ {p} : call'[d] = call[d]
  BY DEF IInv, TypeOK
<1>2. TypeOK'
  BY <1>1 DEF IInv, TypeOK
<1>3. OneObligation'
  BY DEF IInv, OneObligation
<1>4. BooksAgree'
  BY DEF IInv, BooksAgree
<1>5. ReservedIsUnderWay'
  BY DEF IInv, ReservedIsUnderWay, HasObligation
<1>6. CallsKnow'
  <2> SUFFICES ASSUME NEW d \in Callers PROVE Knows(call[d])'
    BY DEF CallsKnow
  <2>1. Knows(call'[d])
    BY <1>1 DEF IInv, CallsKnow
  <2> QED BY <2>1 DEF Knows, HasObligation, Answered
<1>7. RetriesAreSerial'
  <2>1. \A d \in Callers, w \in Withdrawals : Retrying(d, w)' => Retrying(d, w)
    BY <1>1 DEF Retrying
  <2>2. \A d \in Callers, w \in Withdrawals : Retrying(d, w)' => call'[d].tries = call[d].tries
    BY <1>1 DEF Retrying
  <2> QED BY <2>1, <2>2 DEF IInv, RetriesAreSerial
<1> QED BY <1>2, <1>3, <1>4, <1>5, <1>6, <1>7 DEF IInv

LEMMA GotoIs ==
  ASSUME TypeOK, NEW p \in Callers, call[p].op # "idle", NEW op \in FinalSteps, Goto(p, op)
  PROVE  LET next == [op |-> op, withdrawal |-> call[p].withdrawal, tries |-> call[p].tries]
         IN  next \in CallState /\ call' = [call EXCEPT ![p] = next]
<1> DEFINE next == [op |-> op, withdrawal |-> call[p].withdrawal, tries |-> call[p].tries]
<1>1. call[p] \in [op : Transactions \cup OperatorSteps \cup FinalSteps,
                   withdrawal : Withdrawals, tries : 0..MaxRetries]
  BY DEF TypeOK, CallState, Idle
<1>2. [call[p] EXCEPT !.op = op] = next
  BY <1>1
<1>3. next \in CallState
  BY AtFields DEF CallState
<1> QED BY <1>2, <1>3 DEF Goto

\* A finalization moves on to a step it is entitled to.
LEMMA GotoStep ==
  ASSUME IInv, NEW p \in Callers, call[p].op \in FinalSteps, NEW op \in FinalSteps, Goto(p, op),
         UNCHANGED <<status, provider, funds, cases, world>>,
         op \in {"finalize", "settle"} => Answered(call[p].withdrawal),
         op = "settle" => status[call[p].withdrawal] = "RESERVED",
         op \in {"observe", "applied", "failed"} => call[p].tries > 0
  PROVE  IInv'
<1> DEFINE next == [op |-> op, withdrawal |-> call[p].withdrawal, tries |-> call[p].tries]
<1>1. call[p].op # "idle"
  BY DEF FinalSteps
<1>2. next \in CallState /\ call' = [call EXCEPT ![p] = next]
  BY <1>1, GotoIs DEF IInv
<1>3. Knows(next)
  BY DEF Knows, FinalSteps
<1> QED BY <1>2, <1>3, CallStep

LEMMA EndStep ==
  ASSUME IInv, NEW p \in Callers, End(p),
         UNCHANGED <<status, provider, funds, cases, world>>
  PROVE  IInv'
<1>1. Idle \in CallState /\ Knows(Idle) /\ Idle.op \notin FinalSteps
  BY DEF CallState, Idle, Knows, FinalSteps
<1> QED BY <1>1, CallStep DEF End

LEMMA StartStep ==
  ASSUME IInv, NEW p \in Callers, NEW w \in Withdrawals,
         NEW op \in Transactions \cup OperatorSteps \cup FinalSteps,
         Start(p, op, w), Knows([op |-> op, withdrawal |-> w, tries |-> 0])
  PROVE  IInv'
<1> DEFINE next == [op |-> op, withdrawal |-> w, tries |-> 0]
<1>1. next \in CallState /\ next.tries = 0
  BY WithdrawalAssumption DEF CallState
<1>2. call' = [call EXCEPT ![p] = next]
  BY DEF Start
<1>3. UNCHANGED <<status, provider, funds, cases, world>> /\ Knows(next)
  BY DEF Start
<1>4. ~(next.op \in FinalSteps /\ next.tries > 0)
  BY <1>1
<1> HIDE DEF next
<1> QED BY <1>1, <1>2, <1>3, <1>4, CallStep

\* The steps that only move a call.
LEMMA Beginnings ==
  ASSUME IInv, NEW p \in Callers, NEW w \in Withdrawals, Begin(p, w)
  PROVE  IInv'
<1> USE DEF Transactions, OperatorSteps, FinalSteps
<1>1. CASE RequestWithdrawal(p, w)
  <2>1. Knows([op |-> "reserve", withdrawal |-> w, tries |-> 0])
    BY <1>1 DEF RequestWithdrawal, Reservable, Knows
  <2> QED BY <1>1, <2>1, StartStep DEF RequestWithdrawal
<1>2. CASE InitializeProvider(p, w)
  <2>1. Knows([op |-> "initialize", withdrawal |-> w, tries |-> 0])
    BY <1>2 DEF InitializeProvider, Knows
  <2> QED BY <1>2, <2>1, StartStep DEF InitializeProvider
<1>3. CASE ExecuteProvider(p, w)
  <2>1. Knows([op |-> "execute", withdrawal |-> w, tries |-> 0])
    BY <1>3 DEF ExecuteProvider, Knows
  <2> QED BY <1>3, <2>1, StartStep DEF ExecuteProvider
<1>4. CASE Finalize(p, w)
  <2>1. Knows([op |-> "check", withdrawal |-> w, tries |-> 0])
    BY DEF Knows
  <2> QED BY <1>4, <2>1, StartStep DEF Finalize
<1>5. CASE Inspect(p, w)
  <2>1. \A op \in {"recordPending", "recordOther"} :
            Knows([op |-> op, withdrawal |-> w, tries |-> 0])
    BY DEF Knows
  <2> QED BY <1>5, <2>1, StartStep DEF Inspect
<1>6. CASE Retry(p, w)
  <2> DEFINE next == [op |-> "claim", withdrawal |-> w, tries |-> review[w].tries]
  <2>1. next \in CallState /\ Knows(next)
    BY DEF IInv, TypeOK, CallState, Knows
  <2>2. call' = [call EXCEPT ![p] = next] /\ next.op \notin FinalSteps
    BY <1>6 DEF Retry
  <2> QED BY <1>6, <2>1, <2>2, CallStep DEF Retry
<1> QED BY <1>1, <1>2, <1>3, <1>4, <1>5, <1>6 DEF Begin

LEMMA Checks ==
  ASSUME IInv, NEW p \in Callers,
         \/ CheckFinalization(p) \/ OpenFinalization(p)
         \/ VerifyFinalization(p) \/ ObserveRetry(p)
  PROVE  IInv'
<1> DEFINE w == call[p].withdrawal
<1> USE DEF FinalSteps, At
<1>0. Knows(call[p]) /\ TypeOK
  BY DEF IInv, CallsKnow
<1>1. ASSUME Fail(p), call[p].op \in FinalSteps,
             UNCHANGED <<status, provider, funds, cases, world>>
      PROVE IInv'
  BY <1>1, GotoStep, EndStep DEF Fail
<1>2. CASE CheckFinalization(p)
  BY <1>1, <1>2, GotoStep DEF CheckFinalization, Pending
<1>3. CASE OpenFinalization(p)
  BY <1>0, <1>1, <1>3, GotoStep DEF OpenFinalization, Finalizable, Knows
<1>4. CASE VerifyFinalization(p)
  BY <1>1, <1>4, GotoStep, EndStep DEF VerifyFinalization
<1>5. CASE ObserveRetry(p)
  BY <1>0, <1>5, GotoStep, EndStep DEF ObserveRetry, Knows
<1> QED BY <1>2, <1>3, <1>4, <1>5

-----------------------------------------------------------------------------
(* The transactions *)

\* A commit ends or moves on the committing call; the transactions it
\* conflicts with start over, the other calls do not notice.
LEMMA CommitEffect ==
  ASSUME TypeOK, NEW p \in Callers, NEW next \in CallState, CommitCall(p, next)
  PROVE  /\ call' \in [Callers -> CallState] /\ call'[p] = next
         /\ \A d \in Callers \ {p} :
               \/ ~Conflicts(d, call[p].op, call[p].withdrawal) /\ call'[d] = call[d]
               \/ /\ Conflicts(d, call[p].op, call[p].withdrawal)
                  /\ \/ call'[d] = Idle
                     \/ /\ call[d].op = "settle"
                        /\ call'[d] = [op |-> "finalize", withdrawal |-> call[d].withdrawal,
                                       tries |-> call[d].tries]
<1>1. ASSUME NEW d \in Callers, call[d].op = "settle"
      PROVE  LET over == [op |-> "finalize", withdrawal |-> call[d].withdrawal,
                          tries |-> call[d].tries]
             IN  [call[d] EXCEPT !.op = "finalize"] = over /\ over \in CallState
  <2>1. call[d] \in [op : Transactions \cup OperatorSteps \cup FinalSteps,
                     withdrawal : Withdrawals, tries : 0..MaxRetries]
    BY <1>1 DEF TypeOK, CallState, Idle
  <2> QED BY <2>1 DEF CallState, FinalSteps
<1>2. \A d \in Callers : StartOver(call[d]) = Idle \/
         /\ call[d].op = "settle"
         /\ StartOver(call[d]) = [op |-> "finalize", withdrawal |-> call[d].withdrawal,
                                  tries |-> call[d].tries]
  BY <1>1 DEF StartOver
<1>3. \A d \in Callers : StartOver(call[d]) \in CallState
  BY <1>1 DEF StartOver, CallState
<1>4. call' \in [Callers -> CallState]
  BY <1>3 DEF CommitCall, TypeOK
<1> QED BY <1>2, <1>4 DEF CommitCall

\* Whoever retries after a commit retried before, in the same retry.
LEMMA CommitKeepsRetries ==
  ASSUME IInv, NEW p \in Callers, NEW next \in CallState, CommitCall(p, next),
         UNCHANGED cases,
         next = Idle \/ /\ call[p].op = "settle"
                        /\ next = [op |-> "verify", withdrawal |-> call[p].withdrawal,
                                   tries |-> call[p].tries]
  PROVE  RetriesAreSerial'
<1>1. \A d \in Callers, w \in Withdrawals :
         Retrying(d, w)' => Retrying(d, w) /\ call'[d].tries = call[d].tries
  <2>1. TypeOK
    BY DEF IInv
  <2>2. call'[p] = next
    BY <2>1, CommitEffect
  <2>3. \A w \in Withdrawals : Retrying(p, w)' => Retrying(p, w) /\ call'[p].tries = call[p].tries
    BY <2>2 DEF Retrying, Idle, FinalSteps
  <2>4. ASSUME NEW d \in Callers \ {p}, NEW w \in Withdrawals, Retrying(d, w)'
        PROVE  Retrying(d, w) /\ call'[d].tries = call[d].tries
    <3>1. CASE call'[d] = call[d]
      BY <2>4, <3>1 DEF Retrying
    <3>2. CASE call'[d] # call[d]
      <4>1. call'[d] # Idle
        BY <2>4 DEF Retrying, Idle, FinalSteps
      <4>2. /\ call[d].op = "settle"
            /\ call'[d] = [op |-> "finalize", withdrawal |-> call[d].withdrawal,
                           tries |-> call[d].tries]
        BY <2>1, <3>2, <4>1, CommitEffect
      <4> QED BY <2>4, <4>2 DEF Retrying, FinalSteps
    <3> QED BY <3>1, <3>2
  <2> QED BY <2>3, <2>4
<1> QED BY <1>1 DEF IInv, RetriesAreSerial, cases

\* To know what the calls know after a commit it is enough to look at those
\* that did not notice it, and at the one that committed.
LEMMA CommitKeepsKnowledge ==
  ASSUME TypeOK, CallsKnow, NEW p \in Callers, NEW next \in CallState, CommitCall(p, next),
         \A w \in Withdrawals : Answered(w) => Answered(w)',
         Knows(call[p])',
         \A d \in Callers \ {p} :
            ~Conflicts(d, call[p].op, call[p].withdrawal) /\ call[d] # Idle => Knows(call[d])'
  PROVE  CallsKnow'
<1> SUFFICES ASSUME NEW d \in Callers PROVE Knows(call[d])'
  BY DEF CallsKnow
<1>1. CASE call'[d] = Idle
  BY <1>1 DEF Knows, Idle
<1>2. CASE d = p
  BY <1>2
<1>3. CASE d # p /\ call'[d] # Idle /\ Conflicts(d, call[p].op, call[p].withdrawal)
  <2>1. /\ call[d].op = "settle"
        /\ call'[d] = [op |-> "finalize", withdrawal |-> call[d].withdrawal,
                       tries |-> call[d].tries]
    BY <1>3, CommitEffect
  <2>2. call[d].withdrawal \in Withdrawals /\ Answered(call[d].withdrawal)
    BY <2>1, AtFields DEF CallsKnow, Knows
  <2>3. call'[d].op = "finalize" /\ call'[d].withdrawal = call[d].withdrawal
    BY <2>1
  <2>4. provider'[call[d].withdrawal] \in Answers
    BY <2>2 DEF Answered
  <2> QED BY <2>3, <2>4 DEF Knows, Answered
<1>4. CASE d # p /\ call'[d] # Idle /\ ~Conflicts(d, call[p].op, call[p].withdrawal)
  <2>1. call'[d] = call[d]
    BY <1>4, CommitEffect
  <2> QED BY <1>4, <2>1
<1> QED BY <1>1, <1>2, <1>3, <1>4

LEMMA ReservationCommits ==
  ASSUME IInv, NEW p \in Callers, CommitReservation(p)
  PROVE  IInv'
<1> DEFINE w == call[p].withdrawal
           c == CreatorOf[w]
<1>0. /\ TypeOK /\ w \in Withdrawals /\ c \in Creators /\ Amount[w] \in Nat \ {0}
      /\ call[p].op = "reserve" /\ Knows(call[p]) /\ Idle \in CallState
  BY AtFields, WithdrawalAssumption DEF CommitReservation, At, IInv, CallsKnow, CallState
<1>1. /\ status[w] = "NONE" /\ available[c] >= Amount[w]
      /\ available[c] \in Nat /\ reserved[c] = 0
      /\ \A v \in Withdrawals : CreatorOf[v] = c => status[v] # "RESERVED"
  BY <1>0 DEF Knows, HasObligation, IInv, ReservedIsUnderWay, TypeOK
<1>2. /\ status' = [status EXCEPT ![w] = "RESERVED"]
      /\ available' = [available EXCEPT ![c] = @ + -Amount[w]]
      /\ reserved' = [reserved EXCEPT ![c] = @ + Amount[w]]
      /\ CommitCall(p, Idle)
      /\ UNCHANGED <<provider, review, attempts, payable, crashes>>
  BY DEF CommitReservation, Project, cases, world
<1>3. money' = [money EXCEPT ![w] = Promise!Held(w)]
  <2>1. money[w] = Promise!Untouched
    BY <1>0, <1>1 DEF IInv, BooksAgree
  <2>2. [available |-> money[w].available + -Amount[w], reserved |-> money[w].reserved + Amount[w],
         clearing |-> money[w].clearing + 0] = Promise!Held(w)
    BY <1>0, <2>1 DEF Promise!Untouched, Promise!Held, Promise!Entries
  <2> QED BY <2>2 DEF CommitReservation, Post
<1> HIDE DEF w, c
<1>4. TypeOK'
  <2>1. call' \in [Callers -> CallState]
    BY <1>0, <1>2, CommitEffect
  <2>2. Promise!Held(w) \in [available : Int, reserved : Int, clearing : Int]
    BY <1>0 DEF Promise!Held, Promise!Entries
  <2>3. available[c] + -Amount[w] \in Nat /\ reserved[c] + Amount[w] \in Nat
    BY <1>0, <1>1
  <2> QED BY <1>0, <1>2, <1>3, <2>1, <2>2, <2>3 DEF TypeOK, Statuses
<1>5. OneObligation'
  BY <1>0, <1>1, <1>2 DEF IInv, OneObligation, TypeOK, c
<1>6. BooksAgree'
  BY <1>0, <1>1, <1>2, <1>3 DEF IInv, BooksAgree, TypeOK
<1>7. ReservedIsUnderWay'
  <2>1. \A v \in Withdrawals : status'[v] = IF v = w THEN "RESERVED" ELSE status[v]
    BY <1>0, <1>2 DEF TypeOK
  <2>2. \A e \in Creators : reserved'[e] = IF e = c THEN Amount[w] ELSE reserved[e]
    BY <1>0, <1>1, <1>2 DEF TypeOK
  <2>3. \A v \in Withdrawals : CreatorOf[v] \in Creators
    BY WithdrawalAssumption
  <2>4. ASSUME NEW v \in Withdrawals, status'[v] = "RESERVED"
        PROVE  reserved'[CreatorOf[v]] = Amount[v]
    BY <1>0, <1>1, <2>1, <2>2, <2>3, <2>4 DEF IInv, ReservedIsUnderWay, c
  <2>5. ASSUME NEW e \in Creators, ~HasObligation(e)' PROVE reserved'[e] = 0
    BY <1>0, <2>1, <2>2, <2>5 DEF IInv, ReservedIsUnderWay, HasObligation, c
  <2> QED BY <2>4, <2>5 DEF ReservedIsUnderWay
<1>8. CallsKnow'
  <2>1. ASSUME NEW d \in Callers \ {p}, ~Conflicts(d, "reserve", w), call[d] # Idle
        PROVE  Knows(call[d])'
    <3>1. call'[d] = call[d] /\ Knows(call[d]) /\ call[d].withdrawal \in Withdrawals
      BY <1>0, <1>2, <2>1, CommitEffect, CallFields DEF IInv, CallsKnow, w
    <3>2. call[d].op \in Transactions => call[d].withdrawal # w
      BY <2>1 DEF Conflicts
    <3>3. call[d].op = "reserve" => CreatorOf[call[d].withdrawal] # c
      BY <2>1 DEF Conflicts, WritesWallet, Transactions, c
    <3>4. \A v \in Withdrawals \ {w} : status'[v] = status[v]
      BY <1>2 DEF IInv, TypeOK
    <3>5. CreatorOf[call[d].withdrawal] \in Creators
      BY <3>1, WithdrawalAssumption
    <3>6. \A e \in Creators \ {c} : available'[e] = available[e]
                                    /\ (~HasObligation(e) => ~HasObligation(e)')
      BY <1>2, <3>4 DEF IInv, TypeOK, HasObligation, c
    <3>7. provider' = provider
      BY <1>2
    <3> QED BY <3>1, <3>2, <3>3, <3>4, <3>5, <3>6, <3>7 DEF Knows, Answered, Transactions
  <2>2. Knows(call[p])'
    <3>1. call'[p] = Idle
      BY <1>0, <1>2, CommitEffect
    <3> QED BY <3>1 DEF Knows, Idle
  <2>3. \A v \in Withdrawals : Answered(v) => Answered(v)'
    BY <1>2 DEF Answered
  <2> QED BY <1>0, <1>2, <2>1, <2>2, <2>3, CommitKeepsKnowledge DEF IInv, w
<1>9. RetriesAreSerial'
  BY <1>0, <1>2, CommitKeepsRetries DEF cases
<1> QED BY <1>4, <1>5, <1>6, <1>7, <1>8, <1>9 DEF IInv

\* The two commits that move the provider on, for a withdrawal under way.
LEMMA ProviderCommits ==
  ASSUME IInv, NEW p \in Callers, NEW new \in ProviderStatuses \ {"NONE"},
         \/ call[p].op = "initialize" /\ new = "INITIALIZED"
         \/ call[p].op = "execute" /\ new \in Answers,
         provider' = [provider EXCEPT ![call[p].withdrawal] = new],
         CommitCall(p, Idle),
         UNCHANGED <<status, funds, cases, world>>
  PROVE  IInv'
<1> DEFINE w == call[p].withdrawal
<1> USE DEF funds, cases, world
<1>0. /\ TypeOK /\ w \in Withdrawals /\ Knows(call[p]) /\ Idle \in CallState
      /\ status[w] = "RESERVED" /\ ~Answered(w) /\ call[p].op \in Transactions
  BY AtFields DEF IInv, CallsKnow, CallState, Knows, Answered, Answers, Transactions
<1>1. \A v \in Withdrawals : provider'[v] = IF v = w THEN new ELSE provider[v]
  BY <1>0 DEF TypeOK
<1>2. TypeOK'
  BY <1>0, CommitEffect DEF TypeOK
<1>3. OneObligation' /\ ReservedIsUnderWay'
  BY DEF IInv, OneObligation, ReservedIsUnderWay, HasObligation
<1>4. BooksAgree'
  BY <1>0, <1>1 DEF IInv, BooksAgree
<1>5. CallsKnow'
  <2>1. ASSUME NEW d \in Callers \ {p}, ~Conflicts(d, call[p].op, w), call[d] # Idle
        PROVE  Knows(call[d])'
    <3>1. call'[d] = call[d] /\ Knows(call[d]) /\ call[d].withdrawal \in Withdrawals
      BY <1>0, <2>1, CommitEffect, CallFields DEF IInv, CallsKnow
    <3>2. call[d].op \in Transactions => call[d].withdrawal # w
      BY <2>1 DEF Conflicts
    <3>3. call[d].op \in {"finalize", "settle"} => call[d].withdrawal # w
      BY <1>0, <3>1 DEF Knows
    <3>4. status' = status /\ available' = available
      OBVIOUS
    <3> HIDE DEF w
    <3> QED BY <1>1, <3>1, <3>2, <3>3, <3>4 DEF Knows, Answered, Transactions, HasObligation
  <2>2. Knows(call[p])'
    <3>1. call'[p] = Idle
      BY <1>0, CommitEffect
    <3> QED BY <3>1 DEF Knows, Idle
  <2>3. \A v \in Withdrawals : Answered(v) => Answered(v)'
    BY <1>0, <1>1 DEF Answered
  <2> QED BY <1>0, <2>1, <2>2, <2>3, CommitKeepsKnowledge DEF IInv
<1>6. RetriesAreSerial'
  BY <1>0, CommitKeepsRetries
<1> QED BY <1>2, <1>3, <1>4, <1>5, <1>6 DEF IInv

LEMMA FinalizationCommits ==
  ASSUME IInv, NEW p \in Callers, CommitFinalization(p)
  PROVE  IInv'
<1> DEFINE w == call[p].withdrawal
           c == CreatorOf[w]
           paid == provider[w] = "SUCCEEDED"
           back == IF paid THEN 0 ELSE Amount[w]
           next == [op |-> "verify", withdrawal |-> w, tries |-> call[p].tries]
           outcome == IF paid THEN "COMPLETED" ELSE "FAILED"
           booked == IF paid THEN Promise!PaidOut(w) ELSE Promise!Untouched
<1>0. /\ TypeOK /\ w \in Withdrawals /\ c \in Creators /\ Amount[w] \in Nat \ {0}
      /\ call[p].op = "settle" /\ Knows(call[p]) /\ back \in Nat
      /\ status[w] = "RESERVED" /\ Answered(w) /\ reserved[c] = Amount[w]
      /\ call[p].tries \in 0..MaxRetries
  BY AtFields, WithdrawalAssumption
  DEF CommitFinalization, At, IInv, CallsKnow, Knows, ReservedIsUnderWay
<1>1. \A v \in Withdrawals : CreatorOf[v] = c /\ status[v] = "RESERVED" => v = w
  BY <1>0 DEF IInv, OneObligation
<1>2. /\ status' = [status EXCEPT ![w] = outcome]
      /\ available' = [available EXCEPT ![c] = @ + back]
      /\ reserved' = [reserved EXCEPT ![c] = @ + -Amount[w]]
      /\ CommitCall(p, [call[p] EXCEPT !.op = "verify"])
      /\ UNCHANGED <<provider, review, attempts, payable, crashes>>
  BY DEF CommitFinalization, SettleReservation, Project, cases, world
<1>3. money' = [money EXCEPT ![w] = booked]
  <2>1. money[w] = Promise!Held(w)
    BY <1>0 DEF IInv, BooksAgree
  <2>2. [available |-> money[w].available + back, reserved |-> money[w].reserved + -Amount[w],
         clearing |-> money[w].clearing + IF paid THEN Amount[w] ELSE 0] = booked
    BY <1>0, <2>1 DEF Promise!Untouched, Promise!Held, Promise!PaidOut, Promise!Entries
  <2> QED BY <2>2 DEF CommitFinalization, Post
<1>4. next \in CallState /\ CommitCall(p, next)
  <2>1. call[p] \in [op : Transactions \cup OperatorSteps \cup FinalSteps,
                     withdrawal : Withdrawals, tries : 0..MaxRetries]
    BY <1>0 DEF TypeOK, CallState, Idle
  <2>2. [call[p] EXCEPT !.op = "verify"] = next
    BY <2>1
  <2>3. next \in CallState
    BY <1>0 DEF CallState, FinalSteps
  <2> QED BY <1>2, <2>2, <2>3
<1>5. RetriesAreSerial'
  BY <1>0, <1>2, <1>4, CommitKeepsRetries DEF cases
<1>6. TypeOK'
  <2>1. call' \in [Callers -> CallState]
    BY <1>0, <1>4, CommitEffect
  <2>2. booked \in [available : Int, reserved : Int, clearing : Int]
    BY <1>0 DEF Promise!PaidOut, Promise!Untouched, Promise!Entries
  <2>3. reserved[c] + -Amount[w] \in Nat /\ available[c] + back \in Nat
    BY <1>0 DEF TypeOK
  <2>4. outcome \in Statuses
    BY DEF Statuses
  <2> HIDE DEF w, c, back, outcome, booked
  <2> QED BY <1>0, <1>2, <1>3, <2>1, <2>2, <2>3, <2>4 DEF TypeOK
<1>7. \A v \in Withdrawals : status'[v] = IF v = w THEN outcome ELSE status[v]
  BY <1>0, <1>2 DEF TypeOK
<1>8. OneObligation'
  BY <1>7 DEF IInv, OneObligation
<1>9. BooksAgree'
  <2>1. outcome = "COMPLETED" => provider[w] = "SUCCEEDED" /\ booked = Promise!PaidOut(w)
    OBVIOUS
  <2>2. outcome = "FAILED" => provider[w] = "FAILED" /\ booked = Promise!Untouched
    BY <1>0 DEF Answered, Answers
  <2>3. outcome \in {"COMPLETED", "FAILED"}
    OBVIOUS
  <2>4. \A v \in Withdrawals : money'[v] = IF v = w THEN booked ELSE money[v]
    BY <1>0, <1>3 DEF TypeOK
  <2>5. provider' = provider
    BY <1>2
  <2> HIDE DEF outcome, booked, w
  <2> QED BY <1>7, <2>1, <2>2, <2>3, <2>4, <2>5 DEF IInv, BooksAgree
<1>10. ReservedIsUnderWay'
  <2>1. \A e \in Creators : reserved'[e] = IF e = c THEN 0 ELSE reserved[e]
    BY <1>0, <1>2 DEF TypeOK
  <2>2. \A v \in Withdrawals : CreatorOf[v] \in Creators
    BY WithdrawalAssumption
  <2>3. outcome # "RESERVED"
    OBVIOUS
  <2> HIDE DEF outcome
  <2>4. ASSUME NEW v \in Withdrawals, status'[v] = "RESERVED"
        PROVE  reserved'[CreatorOf[v]] = Amount[v]
    BY <1>1, <1>7, <2>1, <2>2, <2>3, <2>4 DEF IInv, ReservedIsUnderWay
  <2>5. ASSUME NEW e \in Creators, ~HasObligation(e)' PROVE reserved'[e] = 0
    BY <1>7, <2>1, <2>5 DEF IInv, ReservedIsUnderWay, HasObligation
  <2> QED BY <2>4, <2>5 DEF ReservedIsUnderWay
<1>11. CallsKnow'
  <2>1. ASSUME NEW d \in Callers \ {p}, ~Conflicts(d, call[p].op, w), call[d] # Idle
        PROVE  Knows(call[d])'
    <3>1. call'[d] = call[d] /\ Knows(call[d]) /\ call[d].withdrawal \in Withdrawals
      BY <1>0, <1>4, <2>1, CommitEffect, CallFields DEF IInv, CallsKnow
    <3>2. call[d].op \in Transactions => call[d].withdrawal # w
      BY <2>1 DEF Conflicts
    <3>3. call[d].op = "reserve" => CreatorOf[call[d].withdrawal] # c
      BY <1>0, <2>1 DEF Conflicts, WritesWallet, Transactions
    <3>4. CreatorOf[call[d].withdrawal] \in Creators
      BY <3>1, WithdrawalAssumption
    <3>5. outcome # "RESERVED"
      OBVIOUS
    <3>6. \A e \in Creators \ {c} : available'[e] = available[e]
      BY <1>0, <1>2 DEF TypeOK
    <3>7. \A e \in Creators : ~HasObligation(e) => ~HasObligation(e)'
      BY <1>7, <3>5 DEF HasObligation
    <3>8. provider' = provider
      BY <1>2
    <3> HIDE DEF w, c, outcome
    <3> QED BY <1>7, <3>1, <3>2, <3>3, <3>4, <3>6, <3>7, <3>8 DEF Knows, Answered, Transactions
  <2>2. Knows(call[p])'
    <3>1. call'[p] = next
      BY <1>0, <1>4, CommitEffect
    <3> QED BY <3>1 DEF Knows
  <2>3. \A v \in Withdrawals : Answered(v) => Answered(v)'
    BY <1>2 DEF Answered
  <2> QED BY <1>0, <1>4, <2>1, <2>2, <2>3, CommitKeepsKnowledge DEF IInv
<1> QED BY <1>5, <1>6, <1>8, <1>9, <1>10, <1>11 DEF IInv

-----------------------------------------------------------------------------
(* Inspection, retries and the case's status *)

\* Steps that touch neither the money nor the withdrawals only have to keep
\* the retries in order.
LEMMA CaseStep ==
  ASSUME IInv, TypeOK', RetriesAreSerial',
         UNCHANGED <<status, provider, funds>>,
         \A p \in Callers : call'[p].op # call[p].op => Knows(call[p])',
         \A p \in Callers : call'[p].op = call[p].op => call'[p] = call[p]
  PROVE  IInv'
<1> USE DEF funds
<1>1. OneObligation' /\ BooksAgree' /\ ReservedIsUnderWay'
  BY DEF IInv, OneObligation, BooksAgree, ReservedIsUnderWay, HasObligation
<1>2. CallsKnow'
  <2> SUFFICES ASSUME NEW p \in Callers PROVE Knows(call[p])'
    BY DEF CallsKnow
  <2>1. CASE call'[p] = call[p]
    BY <2>1 DEF IInv, CallsKnow, Knows, HasObligation, Answered
  <2> QED BY <2>1
<1> QED BY <1>1, <1>2 DEF IInv

LEMMA RecordStep ==
  ASSUME IInv, NEW p \in Callers, Record(p)
  PROVE  IInv'
<1> DEFINE w == call[p].withdrawal
           new == [status |-> IF review[w].status = "NONE" THEN "OPEN" ELSE review[w].status,
                   pending |-> (call[p].op = "recordPending"), tries |-> review[w].tries]
<1>0. TypeOK /\ w \in Withdrawals /\ call[p].op \notin FinalSteps \cup {"idle"}
  BY AtFields DEF Record, IInv, FinalSteps
<1>1. review[w] \in [status : ReviewStatuses, pending : BOOLEAN, tries : 0..MaxRetries]
  BY <1>0 DEF TypeOK
<1>2. /\ review' = [review EXCEPT ![w] = new]
      /\ new \in [status : ReviewStatuses, pending : BOOLEAN, tries : 0..MaxRetries]
  <2> DEFINE flag == call[p].op = "recordPending"
  <2>1. flag \in BOOLEAN
    OBVIOUS
  <2>2. review' = [review EXCEPT ![w].pending = flag,
                                 ![w].status = IF @ = "NONE" THEN "OPEN" ELSE @]
    BY DEF Record
  <2> HIDE DEF flag, w
  <2>3. [[review[w] EXCEPT !.pending = flag]
           EXCEPT !.status = IF @ = "NONE" THEN "OPEN" ELSE @]
          = [status |-> IF review[w].status = "NONE" THEN "OPEN" ELSE review[w].status,
             pending |-> flag, tries |-> review[w].tries]
    <3> DEFINE r == [status |-> review[w].status, pending |-> flag, tries |-> review[w].tries]
    <3>1. [review[w] EXCEPT !.pending = flag] = r
      BY <1>1
    <3>2. r.status = review[w].status
      OBVIOUS
    <3>3. [r EXCEPT !.status = IF r.status = "NONE" THEN "OPEN" ELSE r.status]
            = [status |-> IF r.status = "NONE" THEN "OPEN" ELSE r.status,
               pending |-> flag, tries |-> review[w].tries]
      OBVIOUS
    <3> HIDE DEF r
    <3> QED BY <3>1, <3>2, <3>3
  <2>4. review' = [review EXCEPT ![w] =
            [status |-> IF review[w].status = "NONE" THEN "OPEN" ELSE review[w].status,
             pending |-> flag, tries |-> review[w].tries]]
    BY <1>0, <1>1, <2>2, <2>3 DEF TypeOK
  <2> QED BY <1>1, <2>1, <2>4 DEF flag, ReviewStatuses
<1>3. /\ call' \in [Callers -> CallState] /\ call'[p] = Idle
      /\ \A d \in Callers \ {p} : call'[d] = call[d]
  BY <1>0 DEF Record, End, TypeOK, CallState
<1>4. attempts' = attempts /\ UNCHANGED <<status, provider, funds, world>>
  BY DEF Record
<1>5. TypeOK'
  <2> HIDE DEF new, w
  <2> QED BY <1>0, <1>2, <1>3, <1>4 DEF TypeOK, funds, world
<1>6. /\ new.status = "IN_PROGRESS" <=> review[w].status = "IN_PROGRESS"
      /\ new.tries = review[w].tries
  OBVIOUS
<1>7. RetriesAreSerial'
  <2> HIDE DEF new, w
  <2>1. \A v \in Withdrawals :
           /\ review'[v].status = "IN_PROGRESS" <=> review[v].status = "IN_PROGRESS"
           /\ review'[v].tries = review[v].tries
    BY <1>0, <1>2, <1>6 DEF TypeOK
  <2>2. \A d \in Callers, v \in Withdrawals :
           Retrying(d, v)' => Retrying(d, v) /\ call'[d].tries = call[d].tries
    BY <1>3 DEF Retrying, Idle, FinalSteps
  <2> QED BY <1>4, <2>1, <2>2 DEF IInv, RetriesAreSerial
<1>8. Knows(call[p])'
  BY <1>3 DEF Knows, Idle
<1>9. call'[p].op # call[p].op
  BY <1>0, <1>3 DEF Idle
<1> HIDE DEF new, w
<1> QED BY <1>3, <1>4, <1>5, <1>7, <1>8, <1>9, CaseStep

LEMMA ClaimStep ==
  ASSUME IInv, NEW p \in Callers, Claim(p)
  PROVE  IInv'
<1> DEFINE w == call[p].withdrawal
           n == review[w].tries + 1
           new == [status |-> "IN_PROGRESS", pending |-> review[w].pending, tries |-> n]
           next == [op |-> "check", withdrawal |-> w, tries |-> n]
<1>0. /\ TypeOK /\ w \in Withdrawals /\ call[p].op = "claim" /\ review[w].tries \in 0..MaxRetries
      /\ MaxRetries \in Nat
  BY AtFields, WithdrawalAssumption DEF Claim, At, IInv, TypeOK
<1>1. CASE ~Claimable(p, w)
  BY <1>1, EndStep DEF Claim
<1>2. CASE Claimable(p, w)
  <2>1. n \in 1..MaxRetries /\ review[w].status # "IN_PROGRESS"
    BY <1>0, <1>2 DEF Claimable
  <2>2. /\ review' = [review EXCEPT ![w] = new]
        /\ new \in [status : ReviewStatuses, pending : BOOLEAN, tries : 0..MaxRetries]
    <3>1. review[w] \in [status : ReviewStatuses, pending : BOOLEAN, tries : 0..MaxRetries]
      BY <1>0 DEF TypeOK
    <3> QED BY <1>0, <1>2, <2>1, <3>1 DEF Claim, ReviewStatuses, TypeOK
  <2>3. next \in CallState
    BY <1>0, <2>1 DEF CallState, FinalSteps
  <2>4. /\ attempts' = [attempts EXCEPT ![w][n] = "STARTED"]
        /\ call' = [call EXCEPT ![p] = next]
        /\ UNCHANGED <<status, provider, funds, world>>
    BY <1>2 DEF Claim
  <2>5. /\ call' \in [Callers -> CallState] /\ call'[p] = next
        /\ \A d \in Callers \ {p} : call'[d] = call[d]
    BY <1>0, <2>3, <2>4 DEF TypeOK
  <2>6. attempts' \in [Withdrawals -> [1..MaxRetries -> {"NONE", "STARTED", "APPLIED", "FAILED"}]]
    BY <1>0, <2>4 DEF TypeOK
  <2>7. TypeOK'
    BY <1>0, <2>2, <2>4, <2>5, <2>6 DEF TypeOK, funds, world
  <2>8. RetriesAreSerial'
    <3>1. \A d \in Callers : ~Retrying(d, w)
      BY <1>0, <2>1 DEF IInv, RetriesAreSerial
    <3>2. \A m \in 1..MaxRetries : attempts[w][m] # "STARTED"
      BY <1>0, <2>1 DEF IInv, RetriesAreSerial
    <3>3. \A v \in Withdrawals \ {w} : review'[v] = review[v] /\ attempts'[v] = attempts[v]
      BY <1>0, <2>2, <2>4 DEF TypeOK
    <3>4. review'[w].status = "IN_PROGRESS" /\ review'[w].tries = n
      BY <1>0, <2>2 DEF TypeOK
    <3>5. \A m \in 1..MaxRetries :
             attempts'[w][m] = IF m = n THEN "STARTED" ELSE attempts[w][m]
      BY <1>0, <2>1, <2>4 DEF TypeOK
    <3>6. \A d \in Callers, v \in Withdrawals :
             Retrying(d, v)' => \/ d # p /\ v # w /\ Retrying(d, v) /\ call'[d] = call[d]
                                \/ d = p /\ v = w /\ call'[d].tries = n
      <4>1. \A d \in Callers \ {p}, v \in Withdrawals : Retrying(d, v)' => Retrying(d, v)
        BY <2>5 DEF Retrying
      <4>2. \A v \in Withdrawals : Retrying(p, v)' => v = w /\ call'[p].tries = n
        BY <2>5 DEF Retrying
      <4> QED BY <2>5, <3>1, <4>1, <4>2
    <3> HIDE DEF w, n, new, next
    <3>7. ASSUME NEW v \in Withdrawals
          PROVE  /\ \A m \in 1..MaxRetries : attempts'[v][m] = "STARTED" <=>
                       review'[v].status = "IN_PROGRESS" /\ m = review'[v].tries
                 /\ \A d \in Callers : Retrying(d, v)' =>
                       review'[v].status = "IN_PROGRESS" /\ call'[d].tries = review'[v].tries
                 /\ \A d, e \in Callers : Retrying(d, v)' /\ Retrying(e, v)' => d = e
      <4>1. CASE v = w
        BY <3>2, <3>4, <3>5, <3>6, <4>1
      <4>2. CASE v # w
        BY <3>3, <3>6, <4>2 DEF IInv, RetriesAreSerial
      <4> QED BY <4>1, <4>2
    <3> QED BY <3>7 DEF RetriesAreSerial
  <2>9. Knows(call[p])'
    BY <2>5 DEF Knows
  <2> QED BY <1>0, <2>4, <2>5, <2>7, <2>8, <2>9, CaseStep
<1> QED BY <1>1, <1>2

Case == [status : ReviewStatuses, pending : BOOLEAN, tries : 0..MaxRetries]

\* A report takes the case out of its retry, which nobody else is working on.
LEMMA ReportStep ==
  ASSUME IInv, NEW p \in Callers, call[p].op \in {"applied", "failed"},
         NEW outcome \in {"APPLIED", "FAILED"}, NEW after \in Case,
         after.status # "IN_PROGRESS", after.tries = review[call[p].withdrawal].tries,
         Report(p, outcome, after)
  PROVE  IInv'
<1> DEFINE w == call[p].withdrawal
           n == call[p].tries
<1>0. /\ TypeOK /\ w \in Withdrawals /\ n \in 0..MaxRetries
      /\ call[p].op \in FinalSteps /\ Knows(call[p]) /\ MaxRetries \in Nat
  BY AtFields, WithdrawalAssumption DEF IInv, CallsKnow, FinalSteps
<1>1. CASE ~Reportable(p, w)
  BY <1>1, EndStep DEF Report
<1>2. CASE Reportable(p, w)
  <2>1. n \in 1..MaxRetries /\ Retrying(p, w) /\ review[w].tries = n
    BY <1>0, <1>2 DEF Knows, Retrying, Reportable
  <2>2. /\ attempts' = [attempts EXCEPT ![w][n] = outcome]
        /\ review' = [review EXCEPT ![w] = after]
        /\ call' = [call EXCEPT ![p] = Idle]
        /\ UNCHANGED <<status, provider, funds, world>>
    BY <1>2 DEF Report, End
  <2>3. /\ call' \in [Callers -> CallState] /\ call'[p] = Idle
        /\ \A d \in Callers \ {p} : call'[d] = call[d]
    BY <1>0, <2>2 DEF TypeOK, CallState
  <2>4. attempts' \in [Withdrawals -> [1..MaxRetries -> {"NONE", "STARTED", "APPLIED", "FAILED"}]]
    BY <1>0, <2>2 DEF TypeOK
  <2>5. TypeOK'
    BY <1>0, <2>2, <2>3, <2>4 DEF TypeOK, Case, funds, world
  <2>6. RetriesAreSerial'
    <3>1. \A v \in Withdrawals \ {w} : review'[v] = review[v] /\ attempts'[v] = attempts[v]
      BY <1>0, <2>2 DEF TypeOK
    <3>2. review'[w].status # "IN_PROGRESS"
      BY <1>0, <2>2 DEF TypeOK
    <3>3. \A m \in 1..MaxRetries : attempts'[w][m] # "STARTED"
      <4>1. \A m \in 1..MaxRetries : attempts'[w][m] = IF m = n THEN outcome ELSE attempts[w][m]
        BY <1>0, <2>2 DEF TypeOK
      <4>2. \A m \in 1..MaxRetries : attempts[w][m] = "STARTED" => m = n
        BY <1>0, <2>1 DEF IInv, RetriesAreSerial
      <4> QED BY <4>1, <4>2
    <3>4. \A d \in Callers, v \in Withdrawals :
             Retrying(d, v)' => v # w /\ Retrying(d, v) /\ call'[d] = call[d]
      <4>1. \A v \in Withdrawals : ~Retrying(p, v)'
        BY <2>3 DEF Retrying, Idle, FinalSteps
      <4>2. \A d \in Callers \ {p}, v \in Withdrawals : Retrying(d, v)' => Retrying(d, v)
        BY <2>3 DEF Retrying
      <4>3. \A d \in Callers \ {p} : ~Retrying(d, w)
        BY <1>0, <2>1 DEF IInv, RetriesAreSerial
      <4> QED BY <2>3, <4>1, <4>2, <4>3
    <3> HIDE DEF w, n
    <3> QED BY <3>1, <3>2, <3>3, <3>4 DEF IInv, RetriesAreSerial
  <2>7. Knows(call[p])' /\ call'[p].op # call[p].op
    BY <1>0, <2>3 DEF Knows, Idle, FinalSteps
  <2> HIDE DEF w, n
  <2> QED BY <2>2, <2>3, <2>5, <2>6, <2>7, CaseStep
<1> QED BY <1>1, <1>2

LEMMA Reports ==
  ASSUME IInv, NEW p \in Callers, CompleteRetry(p) \/ FailRetry(p)
  PROVE  IInv'
<1> DEFINE w == call[p].withdrawal
<1>1. call[p].op \in {"applied", "failed"} /\ w \in Withdrawals /\ review[w] \in Case
  BY AtFields DEF CompleteRetry, FailRetry, At, IInv, TypeOK, Case
<1>2. CASE CompleteRetry(p)
  <2> DEFINE after == [review[w] EXCEPT !.status = "OPEN", !.pending = FALSE]
  <2>2. after \in Case /\ after.status # "IN_PROGRESS" /\ after.tries = review[w].tries
    BY <1>1 DEF Case, ReviewStatuses
  <2>3. Report(p, "APPLIED", after)
    BY <1>2 DEF CompleteRetry
  <2> HIDE DEF after
  <2> QED BY <1>1, <2>2, <2>3, ReportStep
<1>3. CASE FailRetry(p)
  <2> DEFINE next == IF call[p].tries < MaxRetries THEN "RETRY_SCHEDULED" ELSE "FAILED"
             after == [review[w] EXCEPT !.status = next]
  <2>0. next \in ReviewStatuses \ {"IN_PROGRESS"}
    BY DEF ReviewStatuses
  <2>3. Report(p, "FAILED", after)
    BY <1>3 DEF FailRetry
  <2> HIDE DEF next
  <2>1. after = [status |-> next, pending |-> review[w].pending, tries |-> review[w].tries]
    BY <1>1 DEF Case
  <2>2. after \in Case /\ after.status # "IN_PROGRESS" /\ after.tries = review[w].tries
    BY <1>1, <2>0, <2>1 DEF Case
  <2> HIDE DEF after
  <2> QED BY <1>1, <2>2, <2>3, ReportStep
<1> QED BY <1>2, <1>3

\* An administrator never closes a case that is being retried.
LEMMA StatusUpdates ==
  ASSUME IInv, NEW w \in Withdrawals, Acknowledge(w) \/ Resolve(w)
  PROVE  IInv'
<1>0. TypeOK /\ review[w] \in Case
  BY DEF IInv, TypeOK, Case
<1>1. PICK to \in {"ACKNOWLEDGED", "RESOLVED"} : review' = [review EXCEPT ![w].status = to]
  BY DEF Acknowledge, Resolve, UpdateStatus
<1>2. /\ review[w].status # "IN_PROGRESS" /\ call' = call /\ attempts' = attempts
      /\ UNCHANGED <<status, provider, funds, world>>
  BY DEF Acknowledge, Resolve, UpdateStatus
<1>3. review' = [review EXCEPT ![w] = [status |-> to, pending |-> review[w].pending,
                                       tries |-> review[w].tries]]
  <2>1. [review[w] EXCEPT !.status = to]
          = [status |-> to, pending |-> review[w].pending, tries |-> review[w].tries]
    BY <1>0 DEF Case
  <2> QED BY <1>0, <1>1, <2>1 DEF TypeOK
<1>4. \A v \in Withdrawals : \/ v # w /\ review'[v] = review[v]
                             \/ v = w /\ review'[v].status # "IN_PROGRESS"
  BY <1>0, <1>3 DEF TypeOK
<1>5. RetriesAreSerial'
  <2>1. \A d \in Callers, v \in Withdrawals : Retrying(d, v)' => Retrying(d, v)
    BY <1>2 DEF Retrying
  <2> QED BY <1>2, <1>4, <2>1 DEF IInv, RetriesAreSerial
<1>6. TypeOK'
  BY <1>0, <1>2, <1>3 DEF TypeOK, Case, ReviewStatuses, funds, world
<1> QED BY <1>2, <1>5, <1>6, CaseStep

LEMMA Surroundings ==
  ASSUME IInv, (\E c \in Creators : SetPayable(c)) \/ Crash
  PROVE  IInv'
<1> USE DEF funds, cases, world
<1>0. TypeOK
  BY DEF IInv
<1>1. CASE \E c \in Creators : SetPayable(c)
  <2>1. TypeOK'
    BY <1>0, <1>1 DEF TypeOK, SetPayable
  <2>2. RetriesAreSerial'
    BY <1>1 DEF IInv, RetriesAreSerial, Retrying, SetPayable
  <2> QED BY <1>1, <2>1, <2>2, CaseStep DEF SetPayable
<1>2. CASE Crash
  <2>1. \A p \in Callers : call'[p] = Idle
    BY <1>2 DEF Crash
  <2>2. TypeOK'
    BY <1>0, <1>2 DEF TypeOK, Crash, CallState
  <2>3. RetriesAreSerial'
    <3>1. \A p \in Callers, w \in Withdrawals : ~Retrying(p, w)'
      BY <2>1 DEF Retrying, Idle, FinalSteps
    <3> QED BY <1>2, <3>1 DEF IInv, RetriesAreSerial, Crash
  <2>4. \A p \in Callers : Knows(call[p])'
    BY <2>1 DEF Knows, Idle
  <2>5. OneObligation' /\ BooksAgree' /\ ReservedIsUnderWay'
    BY <1>2 DEF IInv, OneObligation, BooksAgree, ReservedIsUnderWay, HasObligation, Crash
  <2> QED BY <2>2, <2>3, <2>4, <2>5 DEF IInv, CallsKnow
<1> QED BY <1>1, <1>2

-----------------------------------------------------------------------------
(* The theorems *)

LEMMA Initially == Init => IInv
<1> SUFFICES ASSUME Init PROVE IInv
  OBVIOUS
<1>1. TypeOK
  BY WithdrawalAssumption
  DEF Init, TypeOK, CallState, Statuses, ProviderStatuses, ReviewStatuses
<1>2. OneObligation
  BY DEF Init, OneObligation
<1>3. CallsKnow
  BY DEF Init, CallsKnow, Knows, Idle
<1>4. BooksAgree
  BY DEF Init, BooksAgree, Promise!Untouched, Promise!Entries
<1>5. ReservedIsUnderWay
  BY DEF Init, ReservedIsUnderWay
<1>6. RetriesAreSerial
  BY DEF Init, RetriesAreSerial, Retrying, Idle, FinalSteps
<1> QED BY <1>1, <1>2, <1>3, <1>4, <1>5, <1>6 DEF IInv

LEMMA Steps == IInv /\ [Next]_vars => IInv'
<1> SUFFICES ASSUME IInv, [Next]_vars PROVE IInv'
  OBVIOUS
<1>1. ASSUME NEW p \in Callers, NEW w \in Withdrawals, Begin(p, w) PROVE IInv'
  BY <1>1, Beginnings
<1>2. ASSUME NEW p \in Callers, Proceed(p) PROVE IInv'
  <2>1. CASE CommitReservation(p)
    BY <2>1, ReservationCommits
  <2>2. CASE CommitInitialization(p)
    BY <2>2, ProviderCommits DEF CommitInitialization, At, ProviderStatuses
  <2>3. ASSUME NEW answer \in Answers, CommitExecution(p, answer) PROVE IInv'
    <3>1. answer \in ProviderStatuses \ {"NONE"}
      BY DEF ProviderStatuses, Answers
    <3> QED BY <2>3, <3>1, ProviderCommits DEF CommitExecution, At
  <2>4. CASE CheckFinalization(p) \/ OpenFinalization(p)
             \/ VerifyFinalization(p) \/ ObserveRetry(p)
    BY <2>4, Checks
  <2>5. CASE CommitFinalization(p)
    BY <2>5, FinalizationCommits
  <2>6. CASE Record(p)
    BY <2>6, RecordStep
  <2>7. CASE Claim(p)
    BY <2>7, ClaimStep
  <2>8. CASE CompleteRetry(p) \/ FailRetry(p)
    BY <2>8, Reports
  <2> QED BY <1>2, <2>1, <2>2, <2>3, <2>4, <2>5, <2>6, <2>7, <2>8 DEF Proceed
<1>3. ASSUME NEW w \in Withdrawals, Acknowledge(w) \/ Resolve(w) PROVE IInv'
  BY <1>3, StatusUpdates
<1>4. CASE (\E c \in Creators : SetPayable(c)) \/ Crash
  BY <1>4, Surroundings
<1>5. CASE UNCHANGED vars
  BY <1>5 DEF vars, IInv, TypeOK, OneObligation, CallsKnow, Knows, BooksAgree, Answered,
     ReservedIsUnderWay, HasObligation, RetriesAreSerial, Retrying
<1> QED BY <1>1, <1>2, <1>3, <1>4, <1>5 DEF Next

\* Everything the calls know, the books and the retries hold at all times.
THEOREM WithdrawalInvariant == Spec => []IInv
  BY Initially, Steps, PTL DEF Spec

\* Every variable keeps its type, whatever requests and finalizations race.
THEOREM WithdrawalTypes == Spec => []TypeOK
  BY WithdrawalInvariant, PTL DEF IInv

\* Of a creator's requests only one is under way, however many callers race.
THEOREM WithdrawalsAreSingle == Spec => []OneObligation
  BY WithdrawalInvariant, PTL DEF IInv

\* What is reserved is the withdrawal under way, to the unit.
THEOREM ReservationsAreExact == Spec => []ReservedIsUnderWay
  BY WithdrawalInvariant, PTL DEF IInv

\* Retries of a withdrawal follow one another, for any number of callers.
THEOREM RetriesFollowOneAnother == Spec => []RetriesAreSerial
  BY WithdrawalInvariant, PTL DEF IInv

-----------------------------------------------------------------------------
(* The wallet *)

\* Entries of a withdrawal and a projection by the same amounts: both parts of
\* the creator's wallet change as their sums do, nobody else's wallet changes.
LEMMA WalletMove ==
  ASSUME TypeOK, \A c \in Creators : available'[c] >= 0 /\ reserved'[c] >= 0,
         WalletFollowsLedger, NEW w \in Withdrawals,
         NEW a \in Int, NEW r \in Int, NEW k \in Int, Post(w, a, r, k), Project(w, a, r)
  PROVE  WalletFollowsLedger'
<1>1. /\ IsFiniteSet(Withdrawals) /\ CreatorOf \in [Withdrawals -> Creators]
      /\ Balance \in [Creators -> Nat]
  BY WithdrawalAssumption
<1>2. money \in [Withdrawals -> [available : Int, reserved : Int, clearing : Int]]
  BY DEF TypeOK
<1>3. /\ money'[w].available = money[w].available + a
      /\ money'[w].reserved = money[w].reserved + r
      /\ \A v \in Withdrawals \ {w} : money'[v] = money[v]
      /\ money' \in [Withdrawals -> [available : Int, reserved : Int, clearing : Int]]
  BY <1>2 DEF Post
<1>4. ASSUME NEW account \in {"available", "reserved"}, NEW n \in Int,
             money'[w][account] = money[w][account] + n, NEW c \in Creators
      PROVE  /\ SumOf(Posted(account), WithdrawalsOf(c)) \in Int
             /\ SumOf(Posted(account)', WithdrawalsOf(c)) =
                  SumOf(Posted(account), WithdrawalsOf(c)) + (IF c = CreatorOf[w] THEN n ELSE 0)
  <2> DEFINE old == Posted(account)
             new == Posted(account)'
             own == WithdrawalsOf(c)
  <2>1. old \in [Withdrawals -> Int] /\ new \in [Withdrawals -> Int] /\ own \in SUBSET Withdrawals
    BY <1>2, <1>3 DEF Posted, WithdrawalsOf
  <2>2. /\ old[w] \in Int /\ new[w] = old[w] + n
        /\ \A v \in Withdrawals \ {w} : new[v] = old[v]
    BY <1>2, <1>3, <1>4 DEF Posted
  <2>3. w \in own <=> c = CreatorOf[w]
    BY DEF WithdrawalsOf
  <2> HIDE DEF old, new, own
  <2>4. SumOf(old, own) \in Int
    BY <1>1, <2>1, SumType
  <2>5. CASE w \in own
    <3>1. SumOf(new, own) = SumOf(old, own) + (new[w] - old[w])
      BY <1>1, <2>1, <2>2, <2>5, SumChange
    <3> QED BY <2>2, <2>3, <2>4, <2>5, <3>1 DEF old, new, own
  <2>6. CASE w \notin own
    <3>1. SumOf(new, own) = SumOf(old, own)
      BY <1>1, <2>1, <2>2, <2>6, SumSame
    <3> QED BY <2>3, <2>4, <2>6, <3>1 DEF old, new, own
  <2> QED BY <2>5, <2>6
<1>5. ASSUME NEW c \in Creators
      PROVE  /\ available'[c] = available[c] + (IF c = CreatorOf[w] THEN a ELSE 0)
             /\ reserved'[c] = reserved[c] + (IF c = CreatorOf[w] THEN r ELSE 0)
  BY <1>1 DEF Project, TypeOK
<1>6. ASSUME NEW c \in Creators
      PROVE  /\ available'[c] = Balance[c] + SumOf(Posted("available")', WithdrawalsOf(c))
             /\ reserved'[c] = SumOf(Posted("reserved")', WithdrawalsOf(c))
  <2>1. /\ SumOf(Posted("available"), WithdrawalsOf(c)) \in Int
        /\ SumOf(Posted("available")', WithdrawalsOf(c)) =
             SumOf(Posted("available"), WithdrawalsOf(c)) + (IF c = CreatorOf[w] THEN a ELSE 0)
    BY <1>3, <1>4
  <2>2. /\ SumOf(Posted("reserved"), WithdrawalsOf(c)) \in Int
        /\ SumOf(Posted("reserved")', WithdrawalsOf(c)) =
             SumOf(Posted("reserved"), WithdrawalsOf(c)) + (IF c = CreatorOf[w] THEN r ELSE 0)
    BY <1>3, <1>4
  <2>3. Balance[c] \in Nat /\ available[c] \in Nat /\ reserved[c] \in Nat
    BY <1>1 DEF TypeOK
  <2> QED BY <1>5, <2>1, <2>2, <2>3 DEF WalletFollowsLedger
<1> QED BY <1>6 DEF WalletFollowsLedger, WithdrawalsOf

\* Both parts of a wallet are, at all times, the sums of what its withdrawals
\* have posted there, and neither is ever negative.
THEOREM WalletsFollowLedger == Spec => []WalletFollowsLedger
<1>1. Init => WalletFollowsLedger
  <2> SUFFICES ASSUME Init PROVE WalletFollowsLedger
    OBVIOUS
  <2> DEFINE zero == [w \in Withdrawals |-> 0]
  <2>1. Posted("available") = zero /\ Posted("reserved") = zero
    BY DEF Init, Posted
  <2>2. IsFiniteSet(Withdrawals) /\ zero \in [Withdrawals -> Int]
    BY WithdrawalAssumption
  <2>3. ASSUME NEW c \in Creators PROVE SumOf(zero, WithdrawalsOf(c)) = 0
    <3>1. WithdrawalsOf(c) \in SUBSET Withdrawals
      BY DEF WithdrawalsOf
    <3> QED BY <2>2, <3>1, SumOfZeros
  <2>4. \A c \in Creators : available[c] = Balance[c] /\ reserved[c] = 0 /\ Balance[c] \in Nat
    BY WithdrawalAssumption DEF Init
  <2> QED BY <2>1, <2>3, <2>4 DEF WalletFollowsLedger
<1>2. IInv /\ WalletFollowsLedger /\ [Next]_vars => WalletFollowsLedger'
  <2> SUFFICES ASSUME IInv, WalletFollowsLedger, [Next]_vars PROVE WalletFollowsLedger'
    OBVIOUS
  <2>0. /\ TypeOK /\ Amount \in [Withdrawals -> Nat \ {0}]
        /\ \A c \in Creators : available'[c] >= 0 /\ reserved'[c] >= 0
    BY Steps, WithdrawalAssumption DEF IInv, TypeOK
  <2>1. ASSUME NEW p \in Callers, CommitReservation(p) PROVE WalletFollowsLedger'
    <3>1. call[p].withdrawal \in Withdrawals
      BY <2>0, <2>1, AtFields DEF CommitReservation, At
    <3>2. Amount[call[p].withdrawal] \in Int /\ -Amount[call[p].withdrawal] \in Int /\ 0 \in Int
      BY <2>0, <3>1
    <3> QED BY <2>0, <2>1, <3>1, <3>2, WalletMove DEF CommitReservation
  <2>2. ASSUME NEW p \in Callers, CommitFinalization(p) PROVE WalletFollowsLedger'
    <3> DEFINE w == call[p].withdrawal
               back == IF provider[w] = "SUCCEEDED" THEN 0 ELSE Amount[w]
               out == IF provider[w] = "SUCCEEDED" THEN Amount[w] ELSE 0
    <3>1. w \in Withdrawals
      BY <2>0, <2>2, AtFields DEF CommitFinalization, At
    <3>2. back \in Int /\ out \in Int /\ -Amount[w] \in Int
      BY <2>0, <3>1
    <3>3. Post(w, back, -Amount[w], out) /\ Project(w, back, -Amount[w])
      BY <2>2 DEF CommitFinalization, SettleReservation
    <3> HIDE DEF w, back, out
    <3> QED BY <2>0, <3>1, <3>2, <3>3, WalletMove
  <2>3. ASSUME UNCHANGED <<available, reserved, money>> PROVE WalletFollowsLedger'
    BY <2>3 DEF WalletFollowsLedger, Posted, WithdrawalsOf
  <2>4. ASSUME NEW p \in Callers, NEW w \in Withdrawals, Begin(p, w)
        PROVE  WalletFollowsLedger'
    BY <2>3, <2>4 DEF Begin, RequestWithdrawal, InitializeProvider, ExecuteProvider, Finalize,
       Inspect, Retry, Start, funds
  <2>5. ASSUME NEW p \in Callers, NEW answer \in Answers, CommitExecution(p, answer)
        PROVE  WalletFollowsLedger'
    BY <2>3, <2>5 DEF CommitExecution, funds
  <2>6. ASSUME NEW p \in Callers,
               \/ CommitInitialization(p) \/ CheckFinalization(p) \/ OpenFinalization(p) \/ VerifyFinalization(p)
               \/ Record(p) \/ Claim(p) \/ ObserveRetry(p) \/ CompleteRetry(p) \/ FailRetry(p)
        PROVE  WalletFollowsLedger'
    BY <2>3, <2>6 DEF CommitInitialization, CheckFinalization, OpenFinalization,
       VerifyFinalization, Record, Claim, ObserveRetry, CompleteRetry, FailRetry, Report, funds
  <2>7. CASE \/ \E w \in Withdrawals : Acknowledge(w) \/ Resolve(w)
             \/ \E c \in Creators : SetPayable(c)
             \/ Crash
             \/ UNCHANGED vars
    BY <2>3, <2>7 DEF Acknowledge, Resolve, UpdateStatus, SetPayable, Crash, vars, funds
  <2> QED BY <2>1, <2>2, <2>4, <2>5, <2>6, <2>7 DEF Next, Proceed
<1> QED BY <1>1, <1>2, WithdrawalInvariant, PTL DEF Spec

-----------------------------------------------------------------------------
(* A retry is never walked away from *)

\* A call that has verified a finalization works on a withdrawal that is over.
ObservedIsFinal ==
    \A p \in Callers : call[p].op \in {"observe", "applied"} => Final(call[p].withdrawal)

\* A withdrawal that is over stays as it is.
LEMMA FinalStays ==
  ASSUME IInv, [Next]_vars, NEW w \in Withdrawals, Final(w)
  PROVE  Final(w)'
<1>0. TypeOK /\ CallsKnow
  BY DEF IInv
<1>1. ASSUME NEW p \in Callers, CommitReservation(p) PROVE Final(w)'
  <2>1. call[p].withdrawal # w
    BY <1>0, <1>1 DEF CommitReservation, At, CallsKnow, Knows, Final
  <2> QED BY <1>0, <1>1, <2>1 DEF CommitReservation, TypeOK, Final
<1>2. ASSUME NEW p \in Callers, CommitFinalization(p) PROVE Final(w)'
  <2>1. call[p].withdrawal # w
    BY <1>0, <1>2 DEF CommitFinalization, At, CallsKnow, Knows, Final
  <2> QED BY <1>0, <1>2, <2>1 DEF CommitFinalization, TypeOK, Final
<1>3. ASSUME UNCHANGED status PROVE Final(w)'
  BY <1>3 DEF Final
<1>4. ASSUME NEW p \in Callers, NEW v \in Withdrawals, Begin(p, v) PROVE Final(w)'
  BY <1>3, <1>4 DEF Begin, RequestWithdrawal, InitializeProvider, ExecuteProvider, Finalize,
     Inspect, Retry, Start
<1>5. ASSUME NEW p \in Callers,
             \/ CommitInitialization(p) \/ \E answer \in Answers : CommitExecution(p, answer)
             \/ CheckFinalization(p) \/ OpenFinalization(p) \/ VerifyFinalization(p)
             \/ Record(p) \/ Claim(p) \/ ObserveRetry(p) \/ CompleteRetry(p) \/ FailRetry(p)
      PROVE  Final(w)'
  BY <1>3, <1>5 DEF CommitInitialization, CommitExecution, CheckFinalization,
     OpenFinalization, VerifyFinalization, Record, Claim, ObserveRetry, CompleteRetry,
     FailRetry, Report
<1>6. CASE \/ \E v \in Withdrawals : Acknowledge(v) \/ Resolve(v)
           \/ \E c \in Creators : SetPayable(c)
           \/ Crash
           \/ UNCHANGED vars
  BY <1>3, <1>6 DEF Acknowledge, Resolve, UpdateStatus, SetPayable, Crash, vars
<1> QED BY <1>1, <1>2, <1>4, <1>5, <1>6 DEF Next, Proceed

\* Only a verification that found a healthy outcome lets a call observe it.
LEMMA ObservedStays ==
  ASSUME IInv, ObservedIsFinal, [Next]_vars
  PROVE  ObservedIsFinal'
<1> SUFFICES ASSUME NEW d \in Callers, call'[d].op \in {"observe", "applied"}
             PROVE  Final(call[d].withdrawal)'
  BY DEF ObservedIsFinal
<1>0. TypeOK /\ TypeOK' /\ Idle.op = "idle"
  BY Steps DEF IInv, Idle
<1>1. call'[d].withdrawal \in Withdrawals
  BY <1>0 DEF TypeOK, CallState, Idle
<1>2. ASSUME call'[d] = call[d] PROVE Final(call'[d].withdrawal)
  BY <1>2 DEF ObservedIsFinal
<1>3. ASSUME NEW p \in Callers, NEW next, call' = [call EXCEPT ![p] = next],
             next.op \in {"observe", "applied"} => Final(next.withdrawal)
      PROVE  Final(call'[d].withdrawal)
  BY <1>0, <1>2, <1>3 DEF TypeOK
<1>4. ASSUME NEW p \in Callers, NEW next \in CallState, CommitCall(p, next),
             next.op \notin {"observe", "applied"}
      PROVE  Final(call'[d].withdrawal)
  <2>1. CASE d = p
    BY <1>0, <1>4, <2>1, CommitEffect
  <2>2. CASE d # p
    <3>1. \A e \in Callers \ {p} :
             \/ call'[e] = call[e] \/ call'[e] = Idle
             \/ call'[e] = [op |-> "finalize", withdrawal |-> call[e].withdrawal,
                            tries |-> call[e].tries]
      BY <1>0, <1>4, CommitEffect
    <3>2. d \in Callers \ {p}
      BY <2>2
    <3>3. CASE call'[d] = call[d]
      BY <1>2, <3>3
    <3>4. CASE call'[d] = Idle
      BY <1>0, <3>4
    <3>5. CASE call'[d] = [op |-> "finalize", withdrawal |-> call[d].withdrawal,
                           tries |-> call[d].tries]
      BY <3>5
    <3> QED BY <3>1, <3>2, <3>3, <3>4, <3>5
  <2> QED BY <2>1, <2>2
<1>5. ASSUME NEW p \in Callers, NEW op \in FinalSteps, Goto(p, op), call[p].op # "idle",
             op \in {"observe", "applied"} => Final(call[p].withdrawal)
      PROVE  Final(call'[d].withdrawal)
  <2> DEFINE next == [op |-> op, withdrawal |-> call[p].withdrawal, tries |-> call[p].tries]
  <2>1. call' = [call EXCEPT ![p] = next]
    BY <1>0, <1>5, GotoIs
  <2> QED BY <1>3, <1>5, <2>1
<1>6. ASSUME NEW p \in Callers, End(p) PROVE Final(call'[d].withdrawal)
  BY <1>0, <1>3, <1>6 DEF End
<1>7. ASSUME NEW p \in Callers, Fail(p), call[p].op # "idle" PROVE Final(call'[d].withdrawal)
  BY <1>5, <1>6, <1>7 DEF Fail, FinalSteps
<1>8. ASSUME NEW p \in Callers, NEW w \in Withdrawals, Begin(p, w)
      PROVE  Final(call'[d].withdrawal)
  <2>1. \A op \in {"reserve", "initialize", "execute", "check", "recordPending", "recordOther"} :
           Start(p, op, w) => Final(call'[d].withdrawal)
    BY <1>3 DEF Start
  <2>2. CASE Retry(p, w)
    BY <1>3, <2>2 DEF Retry
  <2> QED BY <1>8, <2>1, <2>2 DEF Begin, RequestWithdrawal, InitializeProvider,
         ExecuteProvider, Finalize, Inspect
<1>9. ASSUME NEW p \in Callers,
             \/ CommitReservation(p) \/ CommitInitialization(p)
             \/ \E answer \in Answers : CommitExecution(p, answer)
      PROVE  Final(call'[d].withdrawal)
  BY <1>0, <1>4, <1>9 DEF CommitReservation, CommitInitialization, CommitExecution, CallState
<1>10. ASSUME NEW p \in Callers, CommitFinalization(p) PROVE Final(call'[d].withdrawal)
  <2> DEFINE next == [call[p] EXCEPT !.op = "verify"]
  <2>1. call[p] \in [op : Transactions \cup OperatorSteps \cup FinalSteps,
                     withdrawal : Withdrawals, tries : 0..MaxRetries]
    BY <1>0, <1>10 DEF CommitFinalization, At, TypeOK, CallState
  <2>2. next \in CallState /\ next.op = "verify"
    BY <2>1 DEF CallState, FinalSteps
  <2>3. CommitCall(p, next)
    BY <1>10 DEF CommitFinalization
  <2> HIDE DEF next
  <2> QED BY <1>4, <2>2, <2>3
<1>11. ASSUME NEW p \in Callers,
              \/ CheckFinalization(p) \/ OpenFinalization(p)
              \/ VerifyFinalization(p) \/ ObserveRetry(p)
       PROVE  Final(call'[d].withdrawal)
  BY <1>5, <1>6, <1>7, <1>11 DEF CheckFinalization, OpenFinalization, VerifyFinalization,
     ObserveRetry, At, Healthy, FinalSteps
<1>12. ASSUME NEW p \in Callers, Record(p) \/ CompleteRetry(p) \/ FailRetry(p)
       PROVE  Final(call'[d].withdrawal)
  BY <1>6, <1>12 DEF Record, CompleteRetry, FailRetry, Report
<1>13. ASSUME NEW p \in Callers, Claim(p) PROVE Final(call'[d].withdrawal)
  BY <1>3, <1>6, <1>13 DEF Claim
<1>14. ASSUME Crash PROVE Final(call'[d].withdrawal)
  BY <1>0, <1>14 DEF Crash
<1>15. ASSUME \/ \E v \in Withdrawals : Acknowledge(v) \/ Resolve(v)
              \/ \E c \in Creators : SetPayable(c)
              \/ UNCHANGED vars
       PROVE  Final(call'[d].withdrawal)
  <2>1. call' = call
    BY <1>15 DEF Acknowledge, Resolve, UpdateStatus, SetPayable, vars
  <2> QED BY <1>2, <2>1
<1>16. Final(call'[d].withdrawal)
  <2>1. ASSUME NEW p \in Callers, Proceed(p) PROVE Final(call'[d].withdrawal)
    BY <1>9, <1>10, <1>11, <1>12, <1>13, <2>1 DEF Proceed
  <2> QED BY <1>8, <1>14, <1>15, <2>1 DEF Next
<1>17. \A w \in Withdrawals : Final(w) => Final(w)'
  BY FinalStays
<1> QED BY <1>1, <1>16, <1>17 DEF Final

\* What one step makes of a retry.
LEMMA RetryStep ==
  ASSUME IInv, ObservedIsFinal, [Next]_vars,
         NEW p \in Callers, NEW w \in Withdrawals, Retrying(p, w)
  PROVE  \/ Retrying(p, w)'
         \/ review'[w].status # "IN_PROGRESS"
         \/ At(p, "observe") /\ ~Payable(w)
         \/ crashes' # crashes
<1> DEFINE Kept == \/ Retrying(p, w)'
                   \/ review'[w].status # "IN_PROGRESS"
                   \/ At(p, "observe") /\ ~Payable(w)
                   \/ crashes' # crashes
<1>0. /\ TypeOK /\ call[p].op \in FinalSteps /\ call[p].withdrawal = w /\ call[p].tries > 0
      /\ call[p] # Idle /\ call[p].op \notin {"idle", "reserve", "initialize", "execute"}
  BY DEF IInv, Retrying, FinalSteps, Idle
<1>1. call[p] \in [op : Transactions \cup OperatorSteps \cup FinalSteps,
                   withdrawal : Withdrawals, tries : 0..MaxRetries]
  BY <1>0 DEF TypeOK, CallState
<1>2. ASSUME call'[p] = call[p] PROVE Kept
  BY <1>2 DEF Retrying
<1>3. ASSUME NEW op \in FinalSteps, Goto(p, op) PROVE Kept
  <2> DEFINE next == [op |-> op, withdrawal |-> call[p].withdrawal, tries |-> call[p].tries]
  <2>1. next \in CallState /\ call' = [call EXCEPT ![p] = next]
    BY <1>0, <1>3, GotoIs
  <2>2. call'[p] = next
    BY <1>0, <2>1 DEF TypeOK
  <2> QED BY <1>0, <2>2 DEF Retrying
<1>4. ASSUME NEW q \in Callers \ {p}, NEW next, CommitCall(q, next) PROVE Kept
  <2>1. CASE call[p].op \in Transactions
    <3>1. call[p].op = "settle"
      BY <1>0, <2>1 DEF Transactions
    <3>2. CASE call'[p] = call[p]
      BY <1>2, <3>2
    <3>3. CASE call'[p] # call[p]
      <4>1. call'[p] = [call[p] EXCEPT !.op = "finalize"]
        BY <1>4, <3>1, <3>3 DEF CommitCall, StartOver
      <4> QED BY <1>0, <1>1, <4>1 DEF Retrying, FinalSteps
    <3> QED BY <3>2, <3>3
  <2>2. CASE call[p].op \notin Transactions
    <3>1. call'[p] = call[p]
      BY <1>4, <2>2 DEF CommitCall, Conflicts
    <3> QED BY <1>2, <3>1
  <2> QED BY <2>1, <2>2
<1>5. ASSUME NEW q \in Callers \ {p}, NEW next, call' = [call EXCEPT ![q] = next] PROVE Kept
  BY <1>2, <1>5
<1>6. ASSUME NEW q \in Callers, NEW v \in Withdrawals, Begin(q, v) PROVE Kept
  <2>1. call[q] = Idle /\ \E next : call' = [call EXCEPT ![q] = next]
    BY <1>6 DEF Begin, RequestWithdrawal, InitializeProvider, ExecuteProvider, Finalize,
       Inspect, Retry, Start
  <2> QED BY <1>0, <1>5, <2>1
<1>7. ASSUME NEW q \in Callers \ {p}, Proceed(q) PROVE Kept
  <2>1. CASE \/ CommitReservation(q) \/ CommitInitialization(q)
             \/ \E answer \in Answers : CommitExecution(q, answer)
             \/ CommitFinalization(q)
    BY <1>4, <2>1 DEF CommitReservation, CommitInitialization, CommitExecution,
       CommitFinalization
  <2>2. CASE \/ CheckFinalization(q) \/ OpenFinalization(q) \/ VerifyFinalization(q)
             \/ ObserveRetry(q)
    BY <1>5, <2>2 DEF CheckFinalization, OpenFinalization, VerifyFinalization, ObserveRetry,
       Fail, Goto, End
  <2>3. CASE Record(q) \/ Claim(q) \/ CompleteRetry(q) \/ FailRetry(q)
    BY <1>5, <2>3 DEF Record, Claim, CompleteRetry, FailRetry, Report, End
  <2> QED BY <1>7, <2>1, <2>2, <2>3 DEF Proceed
<1>8. ASSUME Proceed(p) PROVE Kept
  <2>1. ASSUME \/ CommitReservation(p) \/ CommitInitialization(p)
               \/ \E answer \in Answers : CommitExecution(p, answer)
               \/ Record(p) \/ Claim(p)
        PROVE  FALSE
    BY <1>0, <2>1 DEF CommitReservation, CommitInitialization, CommitExecution, Record, Claim,
       At, FinalSteps
  <2>2. CASE CheckFinalization(p) \/ OpenFinalization(p)
    BY <1>0, <1>3, <2>2 DEF CheckFinalization, OpenFinalization, Fail, FinalSteps
  <2>3. CASE CommitFinalization(p)
    <3>1. call'[p] = [call[p] EXCEPT !.op = "verify"]
      BY <2>3 DEF CommitFinalization, CommitCall
    <3> QED BY <1>0, <1>1, <3>1 DEF Retrying, FinalSteps
  <2>4. CASE VerifyFinalization(p)
    BY <1>0, <1>3, <2>4 DEF VerifyFinalization, Fail, FinalSteps
  <2>5. CASE ObserveRetry(p)
    <3>1. Final(w) /\ At(p, "observe")
      BY <1>0, <2>5 DEF ObserveRetry, At, ObservedIsFinal
    <3>2. CASE Healthy(w)
      BY <1>0, <1>3, <2>5, <3>2 DEF ObserveRetry, FinalSteps
    <3>3. CASE ~Healthy(w)
      BY <3>1, <3>3 DEF Healthy
    <3> QED BY <3>2, <3>3
  <2>6. CASE CompleteRetry(p) \/ FailRetry(p)
    <3>1. Reportable(p, w) /\ w \in Withdrawals
      BY DEF IInv, RetriesAreSerial, Reportable
    <3>2. review[w] \in Case
      BY <1>0 DEF TypeOK, Case
    <3>3. PICK after \in Case : after.status # "IN_PROGRESS"
                                /\ review' = [review EXCEPT ![w] = after]
      <4>1. CASE CompleteRetry(p)
        <5> DEFINE after == [review[w] EXCEPT !.status = "OPEN", !.pending = FALSE]
        <5>1. after \in Case /\ after.status # "IN_PROGRESS"
          BY <3>2 DEF Case, ReviewStatuses
        <5>2. review' = [review EXCEPT ![w] = after]
          BY <1>0, <3>1, <4>1 DEF CompleteRetry, Report
        <5> QED BY <5>1, <5>2
      <4>2. CASE FailRetry(p)
        <5> DEFINE after == [review[w] EXCEPT !.status =
                               IF call[p].tries < MaxRetries THEN "RETRY_SCHEDULED" ELSE "FAILED"]
        <5>1. after \in Case /\ after.status # "IN_PROGRESS"
          BY <3>2 DEF Case, ReviewStatuses
        <5>2. review' = [review EXCEPT ![w] = after]
          BY <1>0, <3>1, <4>2 DEF FailRetry, Report
        <5> QED BY <5>1, <5>2
      <4> QED BY <2>6, <4>1, <4>2
    <3>4. review'[w].status # "IN_PROGRESS"
      BY <1>0, <3>1, <3>3 DEF TypeOK
    <3> QED BY <3>4
  <2> QED BY <1>8, <2>1, <2>2, <2>3, <2>4, <2>5, <2>6 DEF Proceed
<1>9. ASSUME Crash PROVE Kept
  BY <1>0, <1>9 DEF Crash, TypeOK
<1>10. ASSUME \/ \E v \in Withdrawals : Acknowledge(v) \/ Resolve(v)
              \/ \E c \in Creators : SetPayable(c)
              \/ UNCHANGED vars
       PROVE  Kept
  BY <1>2, <1>10 DEF Acknowledge, Resolve, UpdateStatus, SetPayable, vars
<1> QED BY <1>6, <1>7, <1>8, <1>9, <1>10 DEF Next

\* No call walks away from a retry it has claimed: the safety half of
\* RetryReports, for any number of callers, retries and crashes.
THEOREM RetriesReport == Spec => RetriesStayOwned
<1>1. Init => ObservedIsFinal
  BY DEF Init, ObservedIsFinal, Idle
<1>2. IInv /\ ObservedIsFinal /\ [Next]_vars => ObservedIsFinal'
  BY ObservedStays
<1>3. IInv /\ ObservedIsFinal /\ [Next]_vars =>
         [\A p \in Callers, w \in Withdrawals : Retrying(p, w) =>
            \/ Retrying(p, w)'
            \/ review'[w].status # "IN_PROGRESS"
            \/ At(p, "observe") /\ ~Payable(w)
            \/ crashes' # crashes]_vars
  BY RetryStep
<1> QED BY <1>1, <1>2, <1>3, WithdrawalInvariant, PTL DEF Spec, RetriesStayOwned

-----------------------------------------------------------------------------
(* The refinement *)

\* The withdrawal implements its promise: set aside once, answered once, and
\* then paid out or given back as the provider answered.
THEOREM PromiseRefinement == Spec => PromiseSpec
<1> DEFINE bank == [w \in Withdrawals |-> IF Answered(w) THEN provider[w] ELSE "NONE"]
<1>1. Init => Promise!Init
  BY DEF Init, Promise!Init, Promise!Untouched, Promise!Entries, Answered, Answers
<1>2. IInv /\ [Next]_vars => [Promise!Next]_<<bank, money>>
  <2> SUFFICES ASSUME IInv, [Next]_vars PROVE [Promise!Next]_<<bank, money>>
    OBVIOUS
  <2>0. TypeOK /\ CallsKnow /\ BooksAgree
    BY DEF IInv
  <2>1. ASSUME UNCHANGED <<provider, money>> PROVE UNCHANGED <<bank, money>>
    BY <2>1 DEF Answered
  <2>2. ASSUME NEW p \in Callers, CommitReservation(p) PROVE Promise!Next
    <3> DEFINE w == call[p].withdrawal
    <3>1. /\ w \in Withdrawals /\ status[w] = "NONE" /\ provider[w] = "NONE"
          /\ money[w] = Promise!Untouched /\ Amount[w] \in Nat
      BY <2>0, <2>2, AtFields, WithdrawalAssumption
      DEF CommitReservation, At, CallsKnow, Knows, BooksAgree
    <3>2. money' = [money EXCEPT ![w] = Promise!Held(w)]
      <4>1. [available |-> money[w].available + -Amount[w],
             reserved |-> money[w].reserved + Amount[w],
             clearing |-> money[w].clearing + 0] = Promise!Held(w)
        BY <3>1 DEF Promise!Untouched, Promise!Held, Promise!Entries
      <4> QED BY <2>2, <4>1 DEF CommitReservation, Post
    <3>3. bank[w] = "NONE" /\ bank' = bank
      BY <2>2, <3>1 DEF CommitReservation, Answered, Answers
    <3> QED BY <3>1, <3>2, <3>3 DEF Promise!Next, Promise!Move
  <2>3. ASSUME NEW p \in Callers, CommitInitialization(p) PROVE UNCHANGED <<bank, money>>
    <3>1. /\ call[p].withdrawal \in Withdrawals
          /\ provider[call[p].withdrawal] = "NONE"
      BY <2>0, <2>3, AtFields DEF CommitInitialization, At, CallsKnow, Knows
    <3>2. \A w \in Withdrawals :
             /\ Answered(w)' <=> Answered(w)
             /\ Answered(w) => provider'[w] = provider[w]
      BY <2>0, <2>3, <3>1 DEF CommitInitialization, TypeOK, Answered, Answers
    <3>3. bank' = bank
      BY <3>2
    <3> QED BY <2>3, <3>3 DEF CommitInitialization, funds
  <2>4. ASSUME NEW p \in Callers, NEW answer \in Answers, CommitExecution(p, answer)
        PROVE  Promise!Next
    <3> DEFINE w == call[p].withdrawal
    <3>1. /\ w \in Withdrawals /\ ~Answered(w) /\ money[w] = Promise!Held(w)
      BY <2>0, <2>4, AtFields
      DEF CommitExecution, At, CallsKnow, Knows, BooksAgree, Answered, Answers
    <3>2. provider' = [provider EXCEPT ![w] = answer] /\ money' = money
      BY <2>4 DEF CommitExecution, funds
    <3>3. bank' = [bank EXCEPT ![w] = answer]
      BY <2>0, <3>1, <3>2 DEF TypeOK, Answered
    <3>4. bank[w] = "NONE"
      BY <3>1
    <3> QED BY <3>1, <3>2, <3>3, <3>4 DEF Promise!Next, Promise!Answer, Answers
  <2>5. ASSUME NEW p \in Callers, CommitFinalization(p) PROVE Promise!Next
    <3> DEFINE w == call[p].withdrawal
               paid == provider[w] = "SUCCEEDED"
               booked == IF paid THEN Promise!PaidOut(w) ELSE Promise!Untouched
    <3>1. /\ w \in Withdrawals /\ Answered(w) /\ money[w] = Promise!Held(w)
          /\ Amount[w] \in Nat
      BY <2>0, <2>5, AtFields, WithdrawalAssumption
      DEF CommitFinalization, At, CallsKnow, Knows, BooksAgree
    <3>2. money' = [money EXCEPT ![w] = booked]
      <4>1. [available |-> money[w].available + IF paid THEN 0 ELSE Amount[w],
             reserved |-> money[w].reserved + -Amount[w],
             clearing |-> money[w].clearing + IF paid THEN Amount[w] ELSE 0] = booked
        BY <3>1 DEF Promise!Untouched, Promise!Held, Promise!PaidOut, Promise!Entries
      <4> QED BY <2>5, <4>1 DEF CommitFinalization, Post
    <3>3. bank[w] = provider[w] /\ bank' = bank
      BY <2>5, <3>1 DEF CommitFinalization, Answered
    <3>4. Promise!Move(w, Promise!Held(w), booked)
      <4> HIDE DEF booked, w
      <4> QED BY <3>1, <3>2, <3>3 DEF Promise!Move
    <3>5. CASE provider[w] = "SUCCEEDED"
      <4>1. booked = Promise!PaidOut(w)
        BY <3>5
      <4>2. bank[w] = "SUCCEEDED"
        BY <3>3, <3>5
      <4> HIDE DEF booked, w
      <4> QED BY <3>1, <3>4, <4>1, <4>2 DEF Promise!Next
    <3>6. CASE provider[w] = "FAILED"
      <4>1. booked = Promise!Untouched
        BY <3>6
      <4>2. bank[w] = "FAILED"
        BY <3>3, <3>6
      <4> HIDE DEF booked, w
      <4> QED BY <3>1, <3>4, <4>1, <4>2 DEF Promise!Next
    <3> QED BY <3>1, <3>5, <3>6 DEF Answered, Answers
  <2>6. ASSUME NEW p \in Callers, NEW w \in Withdrawals, Begin(p, w)
        PROVE  UNCHANGED <<provider, money>>
    BY <2>6 DEF Begin, RequestWithdrawal, InitializeProvider, ExecuteProvider, Finalize,
       Inspect, Retry, Start, funds
  <2>7. ASSUME NEW p \in Callers,
               \/ CheckFinalization(p) \/ OpenFinalization(p) \/ VerifyFinalization(p)
               \/ Record(p) \/ Claim(p) \/ ObserveRetry(p) \/ CompleteRetry(p) \/ FailRetry(p)
        PROVE  UNCHANGED <<provider, money>>
    BY <2>7 DEF CheckFinalization, OpenFinalization, VerifyFinalization, Record, Claim,
       ObserveRetry, CompleteRetry, FailRetry, Report, funds
  <2>8. CASE \/ \E w \in Withdrawals : Acknowledge(w) \/ Resolve(w)
             \/ \E c \in Creators : SetPayable(c)
             \/ Crash
             \/ UNCHANGED vars
    BY <2>1, <2>8 DEF Acknowledge, Resolve, UpdateStatus, SetPayable, Crash, vars, funds
  <2> QED BY <2>1, <2>2, <2>3, <2>4, <2>5, <2>6, <2>7, <2>8 DEF Next, Proceed
<1> QED BY <1>1, <1>2, WithdrawalInvariant, PTL DEF Spec, PromiseSpec, Promise!Spec

=============================================================================
