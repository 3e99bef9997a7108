----------------------- MODULE WalletConversion_proofs -----------------------
(* Proofs about WalletConversion, for any conversions, wallets, quotes,      *)
(* balances and number of callers.                                           *)
EXTENDS WalletConversion, TLAPS

\* Both legs follow the status, the status follows the provider.
LegsFollow ==
    \A c \in Conversions :
        /\ debits[c] = (IF request[c] = "COMPLETED" THEN 1 ELSE 0)
        /\ credits[c] = (IF request[c] = "COMPLETED" THEN 1 ELSE 0)

ProviderFollows ==
    \A c \in Conversions :
        /\ request[c] \in {"NONE", "PENDING", "REJECTED"} => provider[c] = "NONE"
        /\ request[c] = "COMPLETED" => provider[c] = "SUCCEEDED"
        /\ request[c] = "FAILED" => provider[c] = "FAILED"

Final(c) == request[c] \in {"COMPLETED", "FAILED"}

\* What a call has read or found stays true of its conversion.
Knows(k) ==
    /\ k.read = "COMPLETED" => request[k.conversion] = "COMPLETED"
    /\ k.found = "HEALTHY" => Final(k.conversion)
CallsKnow == \A p \in Callers : call[p] # Idle => Knows(call[p])

FindingsSound == \A c \in Conversions : finding[c] = "HEALTHY" => Final(c)

IInv == TypeOK /\ LegsFollow /\ ProviderFollows /\ CallsKnow /\ FindingsSound

\* A conversion that is over stays as it is.
Advance == \A c \in Conversions : Final(c) => request'[c] = request[c]

documents == <<request, provider, legs>>

-----------------------------------------------------------------------------
(* Lemmas *)

LEMMA CallFields ==
  ASSUME TypeOK, NEW p \in Callers, call[p] # Idle
  PROVE  /\ call[p] \in Calls
         /\ call[p].conversion \in Conversions /\ call[p].at \in Steps
         /\ call[p].read \in RequestStatuses /\ call[p].found \in Classifications
  BY DEF TypeOK, Calls

LEMMA KnownStays ==
  ASSUME Advance, NEW k, k.conversion \in Conversions, Knows(k)
  PROVE  Knows(k)'
  BY DEF Advance, Knows, Final

\* A step of the call p to next.
LEMMA CallStep ==
  ASSUME IInv, Advance, NEW p \in Callers, NEW next \in {Idle} \cup Calls,
         call' = [call EXCEPT ![p] = next], next # Idle => Knows(next)'
  PROVE  call' \in [Callers -> {Idle} \cup Calls] /\ CallsKnow'
<1>1. call' \in [Callers -> {Idle} \cup Calls] /\ call'[p] = next
      /\ \A q \in Callers \ {p} : call'[q] = call[q]
  BY DEF IInv, TypeOK
<1>2. ASSUME NEW q \in Callers, call'[q] # Idle PROVE Knows(call[q])'
  <2>1. CASE q = p
    BY <1>1, <1>2, <2>1
  <2>2. CASE q # p
    <3>1. PICK k : k = call[q]
      OBVIOUS
    <3>2. Knows(k) /\ k.conversion \in Conversions
      BY <1>1, <1>2, <2>2, <3>1, CallFields DEF IInv, CallsKnow
    <3>3. Knows(k)'
      BY <3>2, KnownStays
    <3> QED BY <1>1, <2>2, <3>1, <3>3
  <2> QED BY <2>1, <2>2
<1> QED BY <1>1, <1>2 DEF CallsKnow

LEMMA NoCallStep ==
  ASSUME IInv, Advance, UNCHANGED call
  PROVE  call' \in [Callers -> {Idle} \cup Calls] /\ CallsKnow'
<1>1. ASSUME NEW q \in Callers, call'[q] # Idle PROVE Knows(call[q])'
  <2>1. PICK k : k = call[q]
    OBVIOUS
  <2>2. Knows(k) /\ k.conversion \in Conversions
    BY <1>1, <2>1, CallFields DEF IInv, CallsKnow
  <2>3. Knows(k)'
    BY <2>2, KnownStays
  <2> QED BY <2>1, <2>3
<1> QED BY <1>1 DEF CallsKnow, IInv, TypeOK

\* The steps that leave the documents alone.
LEMMA DocumentsStay ==
  ASSUME UNCHANGED documents
  PROVE  Advance
  BY DEF documents, Advance

\* The invariant, from its parts.
LEMMA Together ==
  ASSUME IInv, UNCHANGED documents, UNCHANGED finding, expired' \subseteq Conversions,
         open' \subseteq Wallets, balance' \in [Wallets -> 0..MaxBalance],
         \A w \in Wallets \ open' : balance'[w] = 0,
         call' \in [Callers -> {Idle} \cup Calls], CallsKnow'
  PROVE  IInv'
  BY DEF IInv, documents, legs, TypeOK, LegsFollow, ProviderFollows, FindingsSound, Final

-----------------------------------------------------------------------------
(* The invariant *)

THEOREM Initially == Init => IInv
  BY ConversionAssumption
  DEF Init, IInv, TypeOK, LegsFollow, ProviderFollows, CallsKnow, FindingsSound,
      RequestStatuses, ProviderStatuses, Classifications, Final

\* A step of one conversion, by one guarded transaction.
LEMMA ProcessKeeps ==
  ASSUME IInv, NEW c \in Conversions, Process(c)
  PROVE  IInv'
<1>1. CASE RequestConversion(c) \/ Reject(c) \/ FinalizeFailed(c)
  <2>1. Advance /\ UNCHANGED <<expired, provider, legs, wallets, finding, call>>
    BY <1>1 DEF IInv, TypeOK, Advance, Final, RequestConversion, Reject, FinalizeFailed,
                Pending, Accountable
  <2>2. /\ request' \in [Conversions -> RequestStatuses]
        /\ \A d \in Conversions \ {c} : request'[d] = request[d]
        /\ request[c] # "COMPLETED" /\ request'[c] # "COMPLETED"
        /\ \/ request[c] \in {"NONE", "PENDING"} /\ request'[c] \in {"PENDING", "REJECTED"}
           \/ provider[c] = "FAILED" /\ request'[c] = "FAILED"
    BY <1>1 DEF IInv, TypeOK, RequestStatuses, RequestConversion, Reject, FinalizeFailed,
                Pending, Accountable
  <2>3. LegsFollow' /\ ProviderFollows'
    BY <2>1, <2>2 DEF IInv, LegsFollow, ProviderFollows, legs
  <2>4. FindingsSound'
    BY <2>1 DEF IInv, FindingsSound, Final, Advance
  <2> QED BY <2>1, <2>2, <2>3, <2>4, NoCallStep DEF IInv, TypeOK, legs, wallets
<1>2. CASE Expire(c)
  <2>1. UNCHANGED documents /\ UNCHANGED <<finding, wallets, call>> /\ expired' \subseteq Conversions
    BY <1>2 DEF Expire, documents, IInv, TypeOK
  <2> QED BY <2>1, DocumentsStay, NoCallStep, Together DEF IInv, TypeOK, wallets
<1>3. CASE InitializeProvider(c) \/ \E answer \in {"SUCCEEDED", "FAILED"} : Execute(c, answer)
  <2>1. Advance /\ UNCHANGED <<request, expired, legs, wallets, finding, call>>
    BY <1>3 DEF Advance, InitializeProvider, Execute, Executable, Final
  <2>2. /\ provider' \in [Conversions -> ProviderStatuses]
        /\ \A d \in Conversions \ {c} : provider'[d] = provider[d]
        /\ request[c] = "APPROVED"
    BY <1>3 DEF IInv, TypeOK, ProviderStatuses, InitializeProvider, Execute, Executable
  <2>3. LegsFollow' /\ ProviderFollows' /\ FindingsSound'
    BY <2>1, <2>2 DEF IInv, LegsFollow, ProviderFollows, FindingsSound, Final, legs
  <2> QED BY <2>1, <2>2, <2>3, NoCallStep DEF IInv, TypeOK, legs, wallets
<1>4. CASE Complete(c)
  <2>1. Advance /\ UNCHANGED <<expired, provider, finding, call>>
    BY <1>4 DEF IInv, TypeOK, Advance, Final, Complete, Accountable
  <2>2. /\ request' \in [Conversions -> RequestStatuses] /\ request'[c] = "COMPLETED"
        /\ debits' \in [Conversions -> Nat] /\ credits' \in [Conversions -> Nat]
        /\ debits'[c] = 1 /\ credits'[c] = 1 /\ provider[c] = "SUCCEEDED"
        /\ \A d \in Conversions \ {c} :
              request'[d] = request[d] /\ debits'[d] = debits[d] /\ credits'[d] = credits[d]
    BY <1>4 DEF IInv, TypeOK, RequestStatuses, Complete, Accountable
  <2>3. LegsFollow' /\ ProviderFollows' /\ FindingsSound'
    BY <2>1, <2>2 DEF IInv, LegsFollow, ProviderFollows, FindingsSound, Final, Advance
  <2>4. /\ open' \subseteq Wallets
        /\ balance' \in [Wallets -> 0..MaxBalance]
        /\ \A w \in Wallets \ open' : balance'[w] = 0
    <3> DEFINE s == Source[c]
               t == Target[c]
    <3>1. /\ s \in Wallets /\ t \in Wallets /\ s # t
          /\ Amount[c] \in Nat /\ Bought[c] \in Nat /\ MaxBalance \in Nat
      BY ConversionAssumption
    <3>2. /\ s \in open /\ open' = open \cup {t}
          /\ Amount[c] <= balance[s] /\ balance[t] + Bought[c] <= MaxBalance
          /\ balance' = [balance EXCEPT ![s] = @ - Amount[c], ![t] = @ + Bought[c]]
      BY <1>4 DEF Complete, Payable, Covered
    <3>3. balance \in [Wallets -> 0..MaxBalance] /\ open \subseteq Wallets
          /\ \A w \in Wallets \ open : balance[w] = 0
      BY DEF IInv, TypeOK
    <3>4. balance[s] - Amount[c] \in 0..MaxBalance /\ balance[t] + Bought[c] \in 0..MaxBalance
      BY <3>1, <3>2, <3>3
    <3> HIDE DEF s, t
    <3> QED BY <3>1, <3>2, <3>3, <3>4
  <2> QED BY <2>1, <2>2, <2>3, <2>4, NoCallStep DEF IInv, TypeOK
<1> QED BY <1>1, <1>2, <1>3, <1>4 DEF Process

LEMMA CommitApprovalKeeps ==
  ASSUME IInv, NEW p \in Callers, CommitApproval(p)
  PROVE  IInv'
<1>1. PICK c : c = call[p].conversion
  OBVIOUS
<1>2. c \in Conversions
  BY <1>1, CallFields DEF CommitApproval, At, IInv
<1>3. /\ request' = [request EXCEPT ![c] = IF Pending(c) THEN "APPROVED" ELSE @]
      /\ call' = [call EXCEPT ![p] = Idle]
      /\ UNCHANGED <<expired, provider, legs, wallets, finding>>
  BY <1>1 DEF CommitApproval, End
<1>4. /\ request' \in [Conversions -> RequestStatuses] /\ Advance
      /\ \A d \in Conversions :
            \/ request'[d] = request[d]
            \/ request[d] = "PENDING" /\ request'[d] = "APPROVED"
  BY <1>2, <1>3 DEF IInv, TypeOK, RequestStatuses, Pending, Advance, Final
<1>5. LegsFollow' /\ ProviderFollows' /\ FindingsSound'
  BY <1>3, <1>4 DEF IInv, LegsFollow, ProviderFollows, FindingsSound, Final, legs, Advance
<1>6. call' \in [Callers -> {Idle} \cup Calls] /\ CallsKnow'
  BY <1>3, <1>4, CallStep
<1> QED BY <1>3, <1>4, <1>5, <1>6 DEF IInv, TypeOK, legs, wallets

\* A call that begins with reading the request.
LEMMA StartKeeps ==
  ASSUME IInv, NEW p \in Callers, NEW c \in Conversions,
         NEW at \in Steps, NEW found \in Classifications,
         found = "HEALTHY" => Final(c), Start(p, c, at, found),
         UNCHANGED <<request, expired, provider, legs, wallets, finding>>
  PROVE  IInv'
<1>0. PICK read : read = request[c]
  OBVIOUS
<1> DEFINE next == [at |-> at, conversion |-> c, read |-> read, found |-> found]
<1>1. next \in Calls
  BY <1>0 DEF IInv, TypeOK, Calls
<1>2. Advance /\ UNCHANGED documents
  BY DEF Advance, documents
<1>3. Knows(next)'
  BY <1>0 DEF Knows, Final
<1>4. call' = [call EXCEPT ![p] = next]
  BY <1>0 DEF Start
<1> HIDE DEF next
<1>5. call' \in [Callers -> {Idle} \cup Calls] /\ CallsKnow'
  BY <1>1, <1>2, <1>3, <1>4, CallStep
<1> QED BY <1>2, <1>5, Together DEF IInv, TypeOK, wallets

LEMMA BeginKeeps ==
  ASSUME IInv, NEW p \in Callers, NEW c \in Conversions, BeginApproval(p, c) \/ Inspect(p, c)
  PROVE  IInv'
<1>1. CASE BeginApproval(p, c)
  <2>1. "approve" \in Steps /\ "NONE" \in Classifications
    BY DEF Steps, Classifications
  <2> QED BY <1>1, <2>1, StartKeeps DEF BeginApproval
<1>2. CASE Inspect(p, c)
  <2>1. PICK at : at = IF ByRequest(c) = "NONE" THEN "wallets" ELSE "compare"
    OBVIOUS
  <2>2. at \in Steps
    BY <2>1 DEF Steps
  <2>3. ByRequest(c) \in Classifications /\ (ByRequest(c) = "HEALTHY" => Final(c))
    BY DEF ByRequest, Classifications, Final
  <2> QED BY <1>2, <2>1, <2>2, <2>3, StartKeeps DEF Inspect
<1> QED BY <1>1, <1>2

\* A call that found something, and goes on.
LEMMA FoundKeeps ==
  ASSUME IInv, NEW p \in Callers, call[p] # Idle, NEW at \in Steps, NEW found \in Classifications,
         found = "HEALTHY" => Final(call[p].conversion),
         call' = [call EXCEPT ![p] = [@ EXCEPT !.at = at, !.found = found]],
         UNCHANGED <<request, expired, provider, legs, wallets, finding>>
  PROVE  IInv'
<1>1. PICK k : k = call[p]
  OBVIOUS
<1>2. k \in Calls /\ Knows(k)
  BY <1>1, CallFields DEF IInv, CallsKnow
<1> DEFINE next == [k EXCEPT !.at = at, !.found = found]
<1>3. next \in Calls /\ next.conversion = k.conversion /\ next.read = k.read
      /\ next.found = found
  BY <1>2 DEF Calls
<1>4. call' = [call EXCEPT ![p] = next]
  BY <1>1
<1> HIDE DEF next
<1>5. Advance /\ UNCHANGED documents
  BY DEF Advance, documents
<1>6. Knows(next)
  BY <1>1, <1>2, <1>3 DEF Knows
<1>7. Knows(next)'
  BY <1>3, <1>5, <1>6, KnownStays DEF Calls
<1>8. call' \in [Callers -> {Idle} \cup Calls] /\ CallsKnow'
  BY <1>3, <1>4, <1>5, <1>7, CallStep
<1> QED BY <1>5, <1>8, Together DEF IInv, TypeOK, wallets

LEMMA EndKeeps ==
  ASSUME IInv, NEW p \in Callers, End(p), UNCHANGED documents, UNCHANGED <<expired, wallets>>,
         FindingsSound', finding' \in [Conversions -> Classifications]
  PROVE  IInv'
<1>1. Advance
  BY DocumentsStay
<1>2. call' \in [Callers -> {Idle} \cup Calls] /\ CallsKnow'
  BY <1>1, CallStep DEF End
<1> QED BY <1>2 DEF IInv, documents, legs, wallets, TypeOK, LegsFollow, ProviderFollows

LEMMA ProceedKeeps ==
  ASSUME IInv, NEW p \in Callers, Proceed(p)
  PROVE  IInv'
<1>1. PICK k : k = call[p]
  OBVIOUS
<1>2. k # Idle => /\ k \in Calls /\ Knows(k)
                  /\ k.conversion \in Conversions /\ k.found \in Classifications
  BY <1>1, CallFields DEF IInv, CallsKnow
<1>3. CASE CommitApproval(p)
  BY <1>3, CommitApprovalKeeps
<1>4. CASE ProveWallets(p)
  <2> DEFINE found == IF Target[k.conversion] \in open THEN "NONE" ELSE "INTEGRITY_FAILURE"
             at == IF found = "NONE" THEN "ledger" ELSE "compare"
  <2>1. found \in Classifications /\ found # "HEALTHY" /\ at \in Steps
    BY DEF Classifications, Steps
  <2>2. /\ call[p] # Idle
        /\ call' = [call EXCEPT ![p] = [@ EXCEPT !.at = at, !.found = found]]
        /\ UNCHANGED <<request, expired, provider, legs, wallets, finding>>
    BY <1>1, <1>4 DEF ProveWallets, Goes, At
  <2> HIDE DEF found, at
  <2> QED BY <2>1, <2>2, FoundKeeps
<1>5. CASE ProveLedger(p)
  <2> DEFINE found == Proved(k.conversion, k.read)
  <2>1. found \in Classifications /\ "compare" \in Steps /\ found # "NONE"
    BY DEF Proved, Classifications, Steps
  <2>2. /\ call[p] # Idle
        /\ call' = [call EXCEPT ![p] = [@ EXCEPT !.at = "compare", !.found = found]]
        /\ UNCHANGED <<request, expired, provider, legs, wallets, finding>>
    BY <1>1, <1>5, <2>1 DEF ProveLedger, Goes, At
  <2>3. found = "HEALTHY" => Final(k.conversion)
    BY <1>1, <1>2, <2>2 DEF Proved, Knows, Final
  <2> HIDE DEF found
  <2> QED BY <1>1, <2>1, <2>2, <2>3, FoundKeeps
<1>6. CASE Compare(p)
  <2>1. UNCHANGED <<request, expired, provider, legs, wallets, finding>> /\ call[p] # Idle
    BY <1>6 DEF Compare, At
  <2>2. CASE End(p)
    <3>1. UNCHANGED documents /\ FindingsSound' /\ finding' \in [Conversions -> Classifications]
      BY <2>1 DEF documents, IInv, TypeOK, FindingsSound, Final
    <3> QED BY <2>1, <2>2, <3>1, EndKeeps
  <2>3. CASE call' = [call EXCEPT ![p].at = "record"]
    <3>1. [k EXCEPT !.at = "record"] = [k EXCEPT !.at = "record", !.found = k.found]
      BY <1>1, <1>2, <2>1 DEF Calls
    <3>2. call' = [call EXCEPT ![p] = [@ EXCEPT !.at = "record", !.found = k.found]]
      BY <1>1, <2>3, <3>1
    <3>3. k.found = "HEALTHY" => Final(k.conversion)
      BY <1>1, <1>2, <2>1 DEF Knows
    <3>4. "record" \in Steps /\ k.found \in Classifications
      BY <1>1, <1>2, <2>1 DEF Steps
    <3> QED BY <1>1, <2>1, <3>2, <3>3, <3>4, FoundKeeps
  <2> QED BY <1>6, <2>2, <2>3 DEF Compare
<1>7. CASE Record(p)
  <2>1. /\ call[p] # Idle /\ End(p) /\ UNCHANGED <<request, expired, provider, legs, wallets>>
        /\ finding' = [finding EXCEPT ![k.conversion] = k.found]
    BY <1>1, <1>7 DEF Record, At
  <2>2. finding' \in [Conversions -> Classifications]
    BY <1>1, <1>2, <2>1 DEF IInv, TypeOK
  <2>3. FindingsSound'
    BY <1>1, <1>2, <2>1 DEF IInv, TypeOK, FindingsSound, Final, Knows
  <2>4. UNCHANGED documents
    BY <2>1 DEF documents
  <2> QED BY <2>1, <2>2, <2>3, <2>4, EndKeeps
<1> QED BY <1>3, <1>4, <1>5, <1>6, <1>7 DEF Proceed

LEMMA WorldKeeps ==
  ASSUME IInv, NEW w \in Wallets, NEW amount \in 1..MaxBalance,
         Spend(w, amount) \/ Receive(w, amount)
  PROVE  IInv'
<1>1. MaxBalance \in Nat /\ balance \in [Wallets -> 0..MaxBalance] /\ open \subseteq Wallets
      /\ \A v \in Wallets \ open : balance[v] = 0
  BY ConversionAssumption DEF IInv, TypeOK
<1>2. /\ open' \subseteq Wallets /\ balance' \in [Wallets -> 0..MaxBalance]
      /\ \A v \in Wallets \ open' : balance'[v] = 0
  <2>1. CASE Spend(w, amount)
    BY <1>1, <2>1 DEF Spend
  <2>2. CASE Receive(w, amount)
    BY <1>1, <2>2 DEF Receive
  <2> QED BY <2>1, <2>2
<1>3. UNCHANGED documents /\ UNCHANGED <<finding, expired, call>>
  BY DEF Spend, Receive, documents
<1> QED BY <1>2, <1>3, DocumentsStay, NoCallStep, Together DEF IInv, TypeOK

THEOREM StepsKeep == IInv /\ [Next]_vars => IInv'
<1> SUFFICES ASSUME IInv, [Next]_vars PROVE IInv'
  OBVIOUS
<1>1. CASE UNCHANGED vars
  <2>1. UNCHANGED documents /\ UNCHANGED <<expired, wallets, finding, call>>
    BY <1>1 DEF vars, documents, legs, wallets
  <2> QED BY <2>1, DocumentsStay, NoCallStep, Together DEF IInv, TypeOK, wallets
<1>2. CASE Next
  BY <1>2, ProcessKeeps, ProceedKeeps, BeginKeeps, WorldKeeps DEF Next
<1> QED BY <1>1, <1>2

\* The inductive invariant holds in every state.
THEOREM ConversionInvariant == Spec => []IInv
  BY Initially, StepsKeep, PTL DEF Spec

\* Every variable keeps its type: no wallet is ever overdrawn, none exceeds
\* the maximum, and a wallet that was not opened is empty.
THEOREM ConversionTypes == Spec => []TypeOK
  BY ConversionInvariant, PTL DEF IInv

\* A conversion that reconciliation calls HEALTHY is exchanged, or failed
\* without a leg.
THEOREM HealthyConversionsAreOver == Spec => []HealthyIsOver
<1>1. IInv => HealthyIsOver
  BY DEF IInv, FindingsSound, LegsFollow, HealthyIsOver, Final
<1> QED BY <1>1, ConversionInvariant, PTL

\* A conversion keeps its promise: both legs or none, once, only when agreed
\* to and carried out, out of what the source wallet holds.
THEOREM PromiseRefinement == Spec => PromiseSpec
<1> DEFINE agreed == {c \in Conversions : request[c] \in {"APPROVED", "COMPLETED", "FAILED"}}
           bank == [c \in Conversions |->
               IF provider[c] \in {"SUCCEEDED", "FAILED"} THEN provider[c] ELSE "NONE"]
           told == [c \in Conversions |-> Told(request[c])]
           seen == <<agreed, bank, debits, credits, balance, told>>
<1>1. Init => Promise!Init
  BY DEF Init, Promise!Init, Promise!Nothing, Told
<1>2. IInv /\ [Next]_vars => [Promise!Next]_seen
  <2> SUFFICES ASSUME IInv, [Next]_vars PROVE [Promise!Next]_seen
    OBVIOUS
  <2>0. TypeOK /\ LegsFollow /\ ProviderFollows
    BY DEF IInv
  <2>1. ASSUME UNCHANGED <<request, provider, legs, balance>> PROVE UNCHANGED seen
    BY <2>1 DEF legs
  <2>2. ASSUME NEW c \in Conversions, RequestConversion(c) \/ InitializeProvider(c)
        PROVE  UNCHANGED seen
    <3>1. UNCHANGED <<debits, credits, balance>>
      BY <2>2 DEF RequestConversion, InitializeProvider, legs, wallets
    <3>2. agreed' = agreed /\ bank' = bank
      BY <2>0, <2>2 DEF RequestConversion, InitializeProvider, Executable, TypeOK
    <3>3. \A d \in Conversions : Told(request'[d]) = Told(request[d])
      BY <2>0, <2>2 DEF RequestConversion, InitializeProvider, Executable, TypeOK, Told
    <3>4. told' = told
      BY <3>3 DEF Told
    <3> QED BY <3>1, <3>2, <3>4
  <2>3. ASSUME NEW c \in Conversions, request[c] = "PENDING",
               request' = [request EXCEPT ![c] = "APPROVED"],
               UNCHANGED <<provider, legs, wallets>>
        PROVE  Promise!Agree(c)
    <3>1. UNCHANGED <<debits, credits, balance>> /\ bank' = bank
      BY <2>3 DEF legs, wallets
    <3>2. agreed' = agreed \cup {c} /\ told[c] = "OPEN"
      BY <2>0, <2>3 DEF TypeOK, Told
    <3>3. \A d \in Conversions : Told(request'[d]) = Told(request[d])
      BY <2>0, <2>3 DEF TypeOK, Told
    <3>4. told' = told
      BY <3>3 DEF Told
    <3> QED BY <3>1, <3>2, <3>4 DEF Promise!Agree
  <2>4. ASSUME NEW p \in Callers, CommitApproval(p) PROVE [Promise!Next]_seen
    <3>1. PICK c : c = call[p].conversion
      OBVIOUS
    <3>2. c \in Conversions
      BY <2>0, <2>4, <3>1, CallFields DEF CommitApproval, At
    <3>3. /\ request' = [request EXCEPT ![c] = IF Pending(c) THEN "APPROVED" ELSE @]
          /\ UNCHANGED <<provider, legs, wallets>>
      BY <2>4, <3>1 DEF CommitApproval
    <3>4. CASE Pending(c)
      <4>1. Promise!Agree(c)
        BY <2>3, <3>2, <3>3, <3>4 DEF Pending
      <4> QED BY <3>2, <4>1 DEF Promise!Next
    <3>5. CASE ~Pending(c)
      <4>1. UNCHANGED <<request, provider, legs, balance>>
        BY <2>0, <3>2, <3>3, <3>5 DEF TypeOK, wallets
      <4> QED BY <2>1, <4>1
    <3> QED BY <3>4, <3>5
  <2>5. ASSUME NEW c \in Conversions, Reject(c) \/ FinalizeFailed(c)
        PROVE  Promise!Refuse(c)
    <3>1. UNCHANGED <<debits, credits, balance>> /\ bank' = bank
      BY <2>5 DEF Reject, FinalizeFailed, legs, wallets
    <3>2. agreed' = agreed /\ told[c] = "OPEN" /\ debits[c] = 0 /\ credits[c] = 0
      BY <2>0, <2>5 DEF TypeOK, Told, LegsFollow, Reject, FinalizeFailed, Pending, Accountable
    <3>3. CASE Reject(c)
      <4>1. c \notin agreed /\ told' = [told EXCEPT ![c] = "REJECTED"]
        BY <2>0, <3>3 DEF Reject, Pending, TypeOK, Told
      <4> QED BY <3>1, <3>2, <4>1 DEF Promise!Refuse
    <3>4. CASE FinalizeFailed(c)
      <4>1. bank[c] = "FAILED" /\ told' = [told EXCEPT ![c] = "FAILED"]
        BY <2>0, <3>4 DEF FinalizeFailed, Accountable, TypeOK, Told
      <4> QED BY <3>1, <3>2, <4>1 DEF Promise!Refuse
    <3> QED BY <2>5, <3>3, <3>4
  <2>6. ASSUME NEW c \in Conversions, NEW answer \in {"SUCCEEDED", "FAILED"}, Execute(c, answer)
        PROVE  Promise!Answer(c)
    <3>1. UNCHANGED <<debits, credits, balance>> /\ agreed' = agreed /\ told' = told
      BY <2>6 DEF Execute, legs, wallets
    <3>2. c \in agreed /\ bank[c] = "NONE" /\ told[c] = "OPEN"
      BY <2>6 DEF Execute, Executable, Told
    <3>3. bank' = [bank EXCEPT ![c] = answer]
      BY <2>0, <2>6 DEF Execute, TypeOK
    <3> QED BY <3>1, <3>2, <3>3 DEF Promise!Answer
  <2>7. ASSUME NEW c \in Conversions, Complete(c) PROVE Promise!Exchange(c)
    <3>1. /\ bank' = bank /\ bank[c] = "SUCCEEDED" /\ told[c] = "OPEN"
          /\ debits[c] = 0 /\ credits[c] = 0
      BY <2>7 DEF Complete, Accountable, Told
    <3>2. agreed' = agreed /\ told' = [told EXCEPT ![c] = "COMPLETED"]
      BY <2>0, <2>7 DEF Complete, Accountable, TypeOK, Told
    <3>3. /\ debits' = [debits EXCEPT ![c] = 1] /\ credits' = [credits EXCEPT ![c] = 1]
          /\ Amount[c] <= balance[Source[c]]
          /\ balance' = [balance EXCEPT ![Source[c]] = @ - Amount[c],
                                        ![Target[c]] = @ + Bought[c]]
      BY <2>0, <2>7, <3>1 DEF Complete, Payable, Covered, TypeOK
    <3> QED BY <3>1, <3>2, <3>3 DEF Promise!Exchange
  <2>8. ASSUME NEW w \in Wallets, NEW amount \in 1..MaxBalance,
               Spend(w, amount) \/ Receive(w, amount)
        PROVE  Promise!Use(w)
    <3>1. UNCHANGED <<agreed, bank, debits, credits, told>>
      BY <2>8 DEF Spend, Receive, legs
    <3>2. balance' = [balance EXCEPT ![w] = balance'[w]] /\ balance'[w] \in Nat
      BY <2>0, <2>8, ConversionAssumption DEF Spend, Receive, TypeOK
    <3> QED BY <3>1, <3>2 DEF Promise!Use
  <2>9. DOMAIN Balance = Wallets
    BY ConversionAssumption
  <2>10. ASSUME NEW c \in Conversions, Process(c) PROVE [Promise!Next]_seen
    <3>1. CASE Expire(c)
      BY <2>1, <3>1 DEF Expire, wallets
    <3> QED BY <2>2, <2>5, <2>6, <2>7, <2>10, <3>1 DEF Process, Promise!Next
  <2>11. ASSUME NEW p \in Callers, Proceed(p) PROVE [Promise!Next]_seen
    <3>1. CASE ProveWallets(p) \/ ProveLedger(p) \/ Compare(p) \/ Record(p)
      BY <2>1, <3>1 DEF ProveWallets, ProveLedger, Compare, Record, wallets
    <3> QED BY <2>4, <2>11, <3>1 DEF Proceed
  <2>12. ASSUME NEW p \in Callers, NEW c \in Conversions, BeginApproval(p, c) \/ Inspect(p, c)
         PROVE  UNCHANGED seen
    BY <2>1, <2>12 DEF BeginApproval, Inspect, wallets
  <2>13. CASE UNCHANGED vars
    BY <2>1, <2>13 DEF vars, legs
  <2>14. ASSUME NEW w \in Wallets, NEW amount \in 1..MaxBalance,
                Spend(w, amount) \/ Receive(w, amount)
         PROVE  [Promise!Next]_seen
    BY <2>8, <2>9, <2>14 DEF Promise!Next
  <2> HIDE DEF seen
  <2> QED BY <2>10, <2>11, <2>12, <2>13, <2>14 DEF Next
<1> QED BY <1>1, <1>2, ConversionInvariant, PTL DEF Spec, PromiseSpec, Promise!Spec
=============================================================================
