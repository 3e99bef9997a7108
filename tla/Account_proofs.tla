--------------------------- MODULE Account_proofs ---------------------------
(* Proofs about an account: the queue its profile is verified in             *)
(* (VerificationQueue), for any number of users' and administrators' calls,  *)
(* workers, attempts, submissions and requests, and what is done to it by    *)
(* others (AccountGovernance), for any number of calls of the dispatcher,    *)
(* reasons and bookings.  Neither uses the other.                            *)
EXTENDS VerificationQueue, AccountGovernance, TLAPS

(* The verification queue *)

RequestRecords == [status : RequestStatuses, version : 0..MaxVersion]
JobRecords == [status : JobStatuses, attempts : 0..MaxAttempts,
               worker : Workers \cup {Gone}, leased : BOOLEAN]
CallRecords == [at : CallSteps, version : 0..MaxVersion, request : 0..MaxRequests]
WorkerRecords == [at : WorkerSteps, request : 0..MaxRequests]

Known == {r \in Requests : request[r].status # "NONE"}

\* Requests are numbered in order, and are of a submission.
TypedRequests ==
    /\ count \in 0..MaxRequests
    /\ request \in [Requests -> RequestRecords]
    /\ \A r \in Requests : r <= count <=> request[r].status # "NONE"
    /\ \A r \in Requests : r \in Known => request[r].version \in Versions

TypedJobs ==
    /\ job \in [Requests -> JobRecords]
    /\ \A r \in Requests : job[r].leased \/ job[r].worker # Gone => job[r].status = "RUNNING"
    /\ \A r \in Requests : job[r].status # "NONE" => r \in Known

TypedProfile ==
    /\ profile \in [status : ProfileStatuses, version : 0..MaxVersion]
    /\ profile.status = "pending_verification" => profile.version \in Versions

\* Whoever works on a request works on one there is.
TypedActors ==
    /\ call \in [Callers -> CallRecords]
    /\ worker \in [Workers -> WorkerRecords]
    /\ keeper \in [at : KeeperSteps, request : 0..MaxRequests]
    /\ \A c \in Callers :
        /\ call[c].at \in {"save", "request", "list"} => call[c].version \in Versions
        /\ call[c].at = "job" => call[c].request \in Known
    /\ \A w \in Workers : worker[w].at # "idle" => worker[w].request \in Known
    /\ keeper.at \in {"check", "escalate", "timeout", "revalidate"} => keeper.request \in Known

TypedRest ==
    /\ result \subseteq Requests
    /\ age \in [Versions -> Fresh..Expired]
    /\ crashes \in 0..MaxCrashes

IInv == TypedRequests /\ TypedJobs /\ TypedProfile /\ TypedActors /\ TypedRest /\ StatusIsGranted

\* A request keeps its submission, never returns to be processed, and stays
\* as it is once it is over.
Forward ==
    \A r \in Requests : r \in Known =>
        /\ request'[r].status # "NONE" /\ request'[r].version = request[r].version
        /\ request'[r].status \in InProcess => request[r].status \in InProcess
        /\ isTerminalRequest(r) => request'[r] = request[r]

-----------------------------------------------------------------------------
(* Lemmas *)

LEMMA Types == IInv => TypeOK
  BY DEF IInv, TypedRequests, TypedJobs, TypedProfile, TypedActors, TypedRest, TypeOK,
         RequestRecords, JobRecords, CallRecords, WorkerRecords

LEMMA Statuses ==
  /\ InProcess = {"PENDING", "PROCESSING"}
  /\ ActiveStatuses = {"PENDING", "PROCESSING", "ADMIN_REVIEW_REQUIRED"}
  /\ RequestStatuses = {"PENDING", "PROCESSING", "ADMIN_REVIEW_REQUIRED", "NONE",
                        "APPROVED", "REJECTED", "EXPIRED"}
  /\ Unfinished = {"PENDING", "RUNNING", "RETRY_WAIT"}
  /\ JobStatuses = {"PENDING", "RUNNING", "RETRY_WAIT", "NONE", "COMPLETED", "FAILED"}
  BY DEF InProcess, ActiveStatuses, RequestStatuses, Unfinished, JobStatuses

\* The request a transaction finds is active, or there is none and it is new.
LEMMA FindsActiveOrNew ==
  ASSUME NEW v
  PROVE  \/ /\ Ensured(v) \in Active /\ EnsuredRequest(v) = request[Ensured(v)]
         \/ /\ Active = {} /\ Ensured(v) = count + 1 /\ EnsuredRequest(v) = NewRequest(v)
  BY DEF Ensured, EnsuredRequest

LEMMA SameRequests ==
  ASSUME IInv, UNCHANGED requests
  PROVE  TypedRequests' /\ Forward /\ Known \subseteq Known'
  BY DEF IInv, TypedRequests, requests, Forward, Known, isTerminalRequest

\* The record put is that of the request found, in a status after its own.
LEMMA PutForward ==
  ASSUME IInv, NEW v \in 0..MaxVersion, NEW r \in Requests, NEW record \in RequestRecords,
         r = Ensured(v), record.version = EnsuredRequest(v).version,
         Active = {} => v \in Versions,
         record.status # "NONE",
         record.status \in InProcess => record = EnsuredRequest(v),
         Put(r, record)
  PROVE  /\ TypedRequests' /\ Forward /\ Known \subseteq Known'
         /\ request'[r] = record /\ r \in Known'
         /\ \A q \in Requests : q # r => request'[q] = request[q]
<1> USE Statuses
<1>1. /\ request \in [Requests -> RequestRecords] /\ count \in 0..MaxRequests
      /\ MaxRequests \in Nat
      /\ \A q \in Requests : q <= count <=> request[q].status # "NONE"
      /\ \A q \in Requests : q \in Known => request[q].version \in Versions
  BY QueueAssumption DEF IInv, TypedRequests
<1>2. /\ request' = [request EXCEPT ![r] = record]
      /\ count' = IF r > count THEN r ELSE count
  BY DEF Put
<1>3. /\ request'[r] = record /\ \A q \in Requests : q # r => request'[q] = request[q]
      /\ request' \in [Requests -> RequestRecords]
  BY <1>1, <1>2
<1>4. CASE r \in Active /\ EnsuredRequest(v) = request[r]
  <2>1. r <= count /\ r \in Known
    BY <1>1, <1>4 DEF Active, Known
  <2>2. count' = count
    BY <1>1, <1>2, <2>1 DEF Requests
  <2>3. TypedRequests'
    BY <1>1, <1>3, <1>4, <2>1, <2>2 DEF TypedRequests, Known
  <2>4. Forward
    BY <1>1, <1>3, <1>4, <2>1 DEF Forward, Known, isTerminalRequest, Active
  <2> QED
    BY <1>3, <2>3, <2>4 DEF Known
<1>5. CASE Active = {} /\ r = count + 1 /\ EnsuredRequest(v) = NewRequest(v)
  <2>1. r \notin Known /\ count' = r /\ record.version = v
    BY <1>1, <1>2, <1>5 DEF Known, NewRequest, Requests
  <2>2. \A q \in Requests : q <= count' <=> (q <= count \/ q = r)
    BY <1>1, <1>5, <2>1 DEF Requests
  <2>3. count' \in 0..MaxRequests
    BY <1>1, <2>1 DEF Requests
  <2>4. \A q \in Requests : q <= count' <=> request'[q].status # "NONE"
    BY <1>1, <1>3, <2>1, <2>2 DEF Known
  <2>5. \A q \in Requests : request'[q].status # "NONE" => request'[q].version \in Versions
    BY <1>1, <1>3, <1>5, <2>1 DEF Known
  <2>6. TypedRequests'
    BY <1>3, <2>3, <2>4, <2>5 DEF TypedRequests, Known
  <2>7. Forward
    BY <1>3, <2>1 DEF Forward, Known, isTerminalRequest
  <2> QED
    BY <1>3, <2>1, <2>6, <2>7 DEF Known
<1> QED
  BY <1>4, <1>5, FindsActiveOrNew

\* A decision, or an escalation.
LEMMA DecideForward ==
  ASSUME IInv, NEW s \in {"APPROVED", "REJECTED", "ADMIN_REVIEW_REQUIRED"},
         NEW t \in Requests, t = Target, TargetExists,
         Put(t, [TargetRequest EXCEPT !.status = s])
  PROVE  /\ TypedRequests' /\ Forward /\ Known \subseteq Known'
         /\ request'[t].status = s /\ t \in Known'
         /\ \A q \in Requests : q # t => request'[q] = request[q]
<1>1. TargetRequest \in RequestRecords
  <2>1. request \in [Requests -> RequestRecords] /\ profile.version \in 0..MaxVersion
    BY DEF IInv, TypedRequests, TypedProfile
  <2>2. CASE Target \in Active /\ TargetRequest = request[Target]
    BY <2>1, <2>2 DEF Active
  <2>3. CASE TargetRequest = NewRequest(profile.version)
    BY <2>1, <2>3, Statuses DEF NewRequest, RequestRecords
  <2> QED
    BY <2>2, <2>3, FindsActiveOrNew DEF Target, TargetRequest
<1> DEFINE record == [TargetRequest EXCEPT !.status = s]
<1>2. record \in RequestRecords /\ record.version = TargetRequest.version /\ record.status = s
  BY <1>1, Statuses DEF RequestRecords
<1>3. Active = {} => profile.version \in Versions
  BY DEF TargetExists, IInv, TypedProfile
<1>4. profile.version \in 0..MaxVersion
  BY DEF IInv, TypedProfile
<1> HIDE DEF record
<1>5. PICK v \in 0..MaxVersion : v = profile.version
  BY <1>4
<1>6. PICK next \in RequestRecords : next = record
  BY <1>2
<1>7. Put(t, next) /\ t = Ensured(v)
  BY <1>5, <1>6 DEF record, Target
<1> QED
  BY <1>2, <1>3, <1>5, <1>6, <1>7, PutForward, Statuses DEF Target, TargetRequest

\* What was granted stays granted.
LEMMA GrantsStay ==
  ASSUME IInv, Forward, UNCHANGED profile
  PROVE  StatusIsGranted'
<1>1. ASSUME NEW r \in Requests, NEW s \in {"APPROVED", "REJECTED"}, request[r].status = s
      PROVE  request'[r].status = s
  BY <1>1, Statuses DEF Forward, Known, isTerminalRequest
<1>2. (\E r \in Requests : request[r].status = "APPROVED")
        => \E r \in Requests : request'[r].status = "APPROVED"
  BY <1>1
<1>3. (\E r \in Requests : request[r].status = "REJECTED")
        => \E r \in Requests : request'[r].status = "REJECTED"
  BY <1>1
<1> QED
  BY <1>2, <1>3 DEF IInv, StatusIsGranted

\* Where only a job changes.
LEMMA JobStep ==
  ASSUME IInv, NEW r \in Requests, NEW next \in JobRecords, r \in Known,
         next.leased \/ next.worker # Gone => next.status = "RUNNING",
         job' = [job EXCEPT ![r] = next], UNCHANGED requests
  PROVE  TypedJobs'
<1>1. /\ job \in [Requests -> JobRecords]
      /\ \A q \in Requests : job[q].leased \/ job[q].worker # Gone => job[q].status = "RUNNING"
      /\ \A q \in Requests : job[q].status # "NONE" => q \in Known
  BY DEF IInv, TypedJobs
<1>2. job'[r] = next /\ \A q \in Requests : q # r => job'[q] = job[q]
  BY <1>1
<1>3. \A q \in Requests : q \in Known => q \in Known'
  BY DEF requests, Known
<1>4. job' \in [Requests -> JobRecords]
  BY <1>1
<1>5. \A q \in Requests : job'[q].leased \/ job'[q].worker # Gone => job'[q].status = "RUNNING"
  BY <1>1, <1>2
<1>6. \A q \in Requests : job'[q].status # "NONE" => q \in Known'
  <2> SUFFICES ASSUME NEW q \in Requests, job'[q].status # "NONE" PROVE q \in Known
    BY <1>3
  <2>1. CASE q = r
    BY <2>1
  <2>2. CASE q # r
    BY <1>1, <1>2, <2>2
  <2> QED
    BY <2>1, <2>2
<1> QED
  BY <1>4, <1>5, <1>6 DEF TypedJobs

LEMMA SameJobs ==
  ASSUME IInv, UNCHANGED job, Known \subseteq Known'
  PROVE  TypedJobs'
  BY DEF IInv, TypedJobs, Known

LEMMA EndedJob ==
  ASSUME NEW j \in JobRecords, NEW s \in JobStatuses
  PROVE  Ended(j, s) \in JobRecords /\ Ended(j, s).status = s
         /\ ~Ended(j, s).leased /\ Ended(j, s).worker = Gone
  BY DEF JobRecords, Ended

LEMMA WithJobTyped ==
  ASSUME IInv, NEW r \in Requests, r \in Known, job' = WithJob(r), UNCHANGED requests
  PROVE  TypedJobs'
<1>1. CASE job[r].status # "NONE"
  BY <1>1, SameJobs DEF WithJob, Known, requests
<1>2. CASE job[r].status = "NONE"
  <2>1. NewJob \in JobRecords /\ ~NewJob.leased /\ NewJob.worker = Gone
    BY QueueAssumption, Statuses DEF NewJob, JobRecords
  <2>2. job' = [job EXCEPT ![r] = NewJob]
    BY <1>2 DEF WithJob
  <2> QED
    BY <2>1, <2>2, JobStep
<1> QED
  BY <1>1, <1>2

LEMMA CompletedTyped ==
  ASSUME IInv, NEW r \in Requests, r \in Known, job' = Completed(r), UNCHANGED requests
  PROVE  TypedJobs'
<1>1. CASE job[r].status \notin Unfinished
  BY <1>1, SameJobs DEF Completed, Known, requests
<1>2. CASE job[r].status \in Unfinished
  <2>1. job[r] \in JobRecords
    BY DEF IInv, TypedJobs
  <2>2. job' = [job EXCEPT ![r] = Ended(job[r], "COMPLETED")]
    BY <1>2 DEF Completed
  <2> QED
    BY <2>1, <2>2, EndedJob, JobStep, Statuses
<1> QED
  BY <1>1, <1>2

\* Where only a worker, or the keeper, goes on with its request.
LEMMA WorkerGoes ==
  ASSUME IInv, NEW w \in Workers, NEW step \in WorkerSteps, worker[w].at # "idle",
         Goes(w, step), UNCHANGED <<call, keeper>>, Known \subseteq Known'
  PROVE  TypedActors'
<1>1. worker \in [Workers -> WorkerRecords] /\ \A v \in Workers : worker[v].at # "idle" => worker[v].request \in Known
  BY DEF IInv, TypedActors
<1>2. worker' \in [Workers -> WorkerRecords]
      /\ worker'[w].request = worker[w].request
      /\ \A v \in Workers : v # w => worker'[v] = worker[v]
  BY <1>1 DEF Goes, WorkerRecords
<1>3. \A v \in Workers : worker'[v].at # "idle" => worker'[v].request \in Known
  BY <1>1, <1>2
<1> QED
  BY <1>2, <1>3 DEF IInv, TypedActors

LEMMA WorkerRests ==
  ASSUME IInv, NEW w \in Workers, Rests(w), UNCHANGED <<call, keeper>>,
         Known \subseteq Known'
  PROVE  TypedActors'
<1>1. worker \in [Workers -> WorkerRecords] /\ \A v \in Workers : worker[v].at # "idle" => worker[v].request \in Known
  BY DEF IInv, TypedActors
<1>2. worker' \in [Workers -> WorkerRecords]
      /\ worker'[w].at = "idle"
      /\ \A v \in Workers : v # w => worker'[v] = worker[v]
  BY <1>1, QueueAssumption DEF Rests, IdleWorker, WorkerRecords, WorkerSteps
<1>3. \A v \in Workers : worker'[v].at # "idle" => worker'[v].request \in Known
  BY <1>1, <1>2
<1> QED
  BY <1>2, <1>3 DEF IInv, TypedActors

LEMMA KeeperStep ==
  ASSUME IInv, NEW step \in KeeperSteps, NEW r \in 0..MaxRequests,
         keeper' = [at |-> step, request |-> r],
         step \in {"check", "escalate", "timeout", "revalidate"} => r \in Known,
         UNCHANGED <<call, worker>>, Known \subseteq Known'
  PROVE  TypedActors'
<1>1. keeper' \in [at : KeeperSteps, request : 0..MaxRequests]
  OBVIOUS
<1> QED
  BY <1>1 DEF IInv, TypedActors, Known

LEMMA CallStep ==
  ASSUME IInv, NEW c \in Callers, NEW next \in CallRecords, call' = [call EXCEPT ![c] = next],
         next.at \in {"save", "request", "list"} => next.version \in Versions,
         next.at = "job" => next.request \in Known',
         UNCHANGED <<worker, keeper>>, Known \subseteq Known'
  PROVE  TypedActors'
<1>1. call \in [Callers -> CallRecords]
      /\ \A d \in Callers : /\ call[d].at \in {"save", "request", "list"} => call[d].version \in Versions
                            /\ call[d].at = "job" => call[d].request \in Known
  BY DEF IInv, TypedActors
<1>2. call' \in [Callers -> CallRecords] /\ call'[c] = next
      /\ \A d \in Callers : d # c => call'[d] = call[d]
  BY <1>1
<1>3. \A d \in Callers : call'[d].at \in {"save", "request", "list"} => call'[d].version \in Versions
  BY <1>1, <1>2
<1>4. \A d \in Callers : call'[d].at = "job" => call'[d].request \in Known'
  <2> SUFFICES ASSUME NEW d \in Callers, call'[d].at = "job" PROVE call'[d].request \in Known'
    OBVIOUS
  <2>1. CASE d = c
    BY <1>2, <2>1 DEF Known
  <2>2. CASE d # c
    BY <1>1, <1>2, <2>2 DEF Known
  <2> QED
    BY <2>1, <2>2
<1> QED
  BY <1>2, <1>3, <1>4 DEF IInv, TypedActors, Known

LEMMA SameActors ==
  ASSUME IInv, UNCHANGED <<call, worker, keeper>>, Known \subseteq Known'
  PROVE  TypedActors'
  BY DEF IInv, TypedActors

LEMMA IdleIsTyped ==
  /\ IdleCall \in CallRecords /\ IdleCall.at = "idle"
  /\ IdleWorker \in WorkerRecords /\ IdleWorker.at = "idle"
  BY QueueAssumption DEF IdleCall, CallRecords, CallSteps, IdleWorker, WorkerRecords, WorkerSteps

LEMMA SameRest == ASSUME IInv, UNCHANGED <<result, age, crashes>> PROVE TypedRest'
  BY DEF IInv, TypedRest

LEMMA SameProfile == ASSUME IInv, UNCHANGED profile PROVE TypedProfile'
  BY DEF IInv, TypedProfile

-----------------------------------------------------------------------------
(* What the requests and the profile keep, whatever was written to them. *)

Kept ==
    /\ TypedRequests' /\ Forward /\ Known \subseteq Known'
    /\ TypedProfile' /\ StatusIsGranted'

LEMMA KeptSame == ASSUME IInv, UNCHANGED <<profile, requests>> PROVE Kept
<1>1. TypedRequests' /\ Forward /\ Known \subseteq Known'
  BY SameRequests
<1> QED
  BY <1>1, GrantsStay, SameProfile DEF Kept

LEMMA KeptRequests ==
  ASSUME IInv, UNCHANGED profile, TypedRequests', Forward, Known \subseteq Known'
  PROVE  Kept
  BY GrantsStay, SameProfile DEF Kept

LEMMA KeptProfile ==
  ASSUME IInv, UNCHANGED requests, TypedProfile',
         profile'.status \notin {"verified", "rejected"}
  PROVE  Kept
<1>1. TypedRequests' /\ Forward /\ Known \subseteq Known'
  BY SameRequests
<1> QED
  BY <1>1 DEF Kept, StatusIsGranted

LEMMA KeptDecide ==
  ASSUME IInv, NEW v \in Decisions, NEW asked \in SUBSET Requests, Decidable(asked), Decide(v)
  PROVE  Kept
<1>1. PICK t \in Requests : t = Target
  BY DEF Decidable
<1>2. TargetExists /\ Put(t, [TargetRequest EXCEPT !.status = v])
  BY <1>1 DEF Decidable, Decide
<1>3. /\ TypedRequests' /\ Forward /\ Known \subseteq Known'
      /\ request'[t].status = v
  BY <1>1, <1>2, DecideForward DEF Decisions
<1>4. /\ profile' = [profile EXCEPT !.status = IF v = "APPROVED" THEN "verified" ELSE "rejected"]
      /\ profile \in [status : ProfileStatuses, version : 0..MaxVersion]
  BY DEF Decide, IInv, TypedProfile
<1>5. /\ profile' \in [status : ProfileStatuses, version : 0..MaxVersion]
      /\ profile'.status = IF v = "APPROVED" THEN "verified" ELSE "rejected"
  BY <1>4 DEF ProfileStatuses
<1>6. TypedProfile'
  BY <1>5 DEF TypedProfile
<1>7. StatusIsGranted'
  BY <1>3, <1>5 DEF StatusIsGranted, Decisions
<1> QED
  BY <1>3, <1>6, <1>7 DEF Kept

LEMMA KeptEscalate ==
  ASSUME IInv, NEW asked \in SUBSET Requests, Escalatable(asked), Escalate
  PROVE  Kept
<1>1. PICK t \in Requests : t = Target
  BY DEF Escalatable
<1>2. TargetExists /\ Put(t, [TargetRequest EXCEPT !.status = "ADMIN_REVIEW_REQUIRED"])
  BY <1>1 DEF Escalatable, Escalate, TargetExists
<1>3. TypedRequests' /\ Forward /\ Known \subseteq Known'
  BY <1>1, <1>2, DecideForward
<1> QED
  BY <1>3, KeptRequests DEF Escalate

LEMMA Together ==
  ASSUME Kept, TypedJobs', TypedActors', TypedRest'
  PROVE  IInv' /\ Forward
  BY DEF Kept, IInv

-----------------------------------------------------------------------------
(* The calls of users and administrators *)

LEMMA BeginSubmissionStep ==
  ASSUME IInv, NEW c \in Submitters, BeginSubmission(c) PROVE IInv' /\ Forward
<1>1. Kept /\ TypedJobs' /\ TypedRest' /\ Known \subseteq Known'
  BY KeptSame, SameJobs, SameRest DEF BeginSubmission, records, Kept
<1>2. PICK next : next = [at |-> "save", version |-> profile.version + 1, request |-> 0]
  OBVIOUS
<1>3. profile.version + 1 \in Versions
  BY QueueAssumption DEF BeginSubmission, IInv, TypedProfile, Versions
<1>4. next \in CallRecords /\ next.at = "save" /\ next.version \in Versions
  BY <1>2, <1>3, QueueAssumption DEF CallRecords, CallSteps, Versions
<1> QED
  BY <1>1, <1>2, <1>4, CallStep, Together DEF BeginSubmission, Callers

LEMMA SaveSubmissionStep ==
  ASSUME IInv, NEW c \in Submitters, SaveSubmission(c) PROVE IInv' /\ Forward
<1>1. call[c] \in CallRecords /\ call[c].version \in Versions
  BY DEF IInv, TypedActors, SaveSubmission, Callers
<1>2. TypedProfile' /\ profile'.status = "pending_verification"
  BY <1>1 DEF SaveSubmission, TypedProfile, ProfileStatuses, CallRecords
<1>3. Kept /\ TypedJobs' /\ TypedRest' /\ Known \subseteq Known'
  BY <1>2, KeptProfile, SameJobs, SameRest DEF SaveSubmission, records, Kept
<1>4. PICK next : next = [call[c] EXCEPT !.at = "request"]
  OBVIOUS
<1>5. next \in CallRecords /\ next.at = "request" /\ next.version \in Versions
  BY <1>1, <1>4 DEF CallRecords, CallSteps
<1> QED
  BY <1>3, <1>4, <1>5, CallStep, Together DEF SaveSubmission, Callers

LEMMA ListQueueStep ==
  ASSUME IInv, NEW c \in Readers, ListQueue(c) PROVE IInv' /\ Forward
<1>1. Kept /\ TypedJobs' /\ TypedRest' /\ Known \subseteq Known'
  BY KeptSame, SameJobs, SameRest DEF ListQueue, records, Kept
<1>2. PICK next : next = [at |-> "list", version |-> profile.version, request |-> 0]
  OBVIOUS
<1>3. profile.version \in Versions
  BY DEF ListQueue, IInv, TypedProfile
<1>4. next \in CallRecords /\ next.at = "list" /\ next.version \in Versions
  BY <1>2, <1>3, QueueAssumption DEF CallRecords, CallSteps, Versions
<1> QED
  BY <1>1, <1>2, <1>4, CallStep, Together DEF ListQueue, Callers

LEMMA EnsureRequestStep ==
  ASSUME IInv, NEW c \in Callers, EnsureRequest(c) PROVE IInv' /\ Forward
<1>1. call[c] \in CallRecords /\ call[c].version \in Versions
  BY DEF IInv, TypedActors, EnsureRequest
<1>2. PICK v \in Versions : v = call[c].version
  BY <1>1
<1>3. PICK r \in Requests : r = Ensured(v)
  BY <1>2 DEF EnsureRequest
<1>4. EnsuredRequest(v) \in RequestRecords /\ EnsuredRequest(v).status \in InProcess \cup ActiveStatuses
  <2>1. request \in [Requests -> RequestRecords] /\ v \in 0..MaxVersion
    BY <1>2 DEF IInv, TypedRequests, Versions
  <2>2. CASE Ensured(v) \in Active /\ EnsuredRequest(v) = request[Ensured(v)]
    BY <2>1, <2>2 DEF Active
  <2>3. CASE EnsuredRequest(v) = NewRequest(v)
    BY <2>1, <2>3, Statuses DEF NewRequest, RequestRecords
  <2> QED
    BY <2>2, <2>3, FindsActiveOrNew
<1>5. PICK record \in RequestRecords : record = EnsuredRequest(v)
  BY <1>4
<1>6. Put(r, record) /\ UNCHANGED profile
  BY <1>2, <1>3, <1>5 DEF EnsureRequest
<1>7. v \in 0..MaxVersion /\ record.status # "NONE"
  BY <1>2, <1>4, <1>5, Statuses DEF Versions
<1>8. TypedRequests' /\ Forward /\ Known \subseteq Known' /\ r \in Known'
  BY <1>2, <1>3, <1>5, <1>6, <1>7, PutForward
<1>9. Kept /\ TypedJobs' /\ TypedRest'
  BY <1>6, <1>8, KeptRequests, SameJobs, SameRest DEF EnsureRequest
<1>10. PICK next : next = IF call[c].at = "list" THEN IdleCall
                          ELSE [at |-> "job", version |-> call[c].version, request |-> r]
  OBVIOUS
<1>11. /\ next \in CallRecords /\ next.at \in {"idle", "job"}
       /\ next.at = "job" => next.request = r
  BY <1>1, <1>10, IdleIsTyped, QueueAssumption DEF CallRecords, CallSteps, Requests
<1>12. call' = [call EXCEPT ![c] = next]
  BY <1>2, <1>3, <1>10 DEF EnsureRequest
<1>13. TypedActors'
  BY <1>8, <1>11, <1>12, CallStep DEF EnsureRequest
<1> QED
  BY <1>9, <1>13, Together

LEMMA EnsureJobStep ==
  ASSUME IInv, NEW c \in Submitters, EnsureJob(c) PROVE IInv' /\ Forward
<1>1. c \in Callers /\ call[c].request \in Known
  BY DEF IInv, TypedActors, EnsureJob, Callers
<1>2. PICK r \in Requests : r = call[c].request /\ r \in Known
  BY <1>1 DEF Known
<1>3. Kept /\ TypedJobs' /\ TypedRest' /\ Known \subseteq Known'
  BY <1>2, KeptSame, WithJobTyped, SameRest DEF EnsureJob, Kept
<1>5. TypedActors'
  BY <1>1, <1>3, IdleIsTyped, CallStep DEF EnsureJob
<1> QED
  BY <1>3, <1>5, Together

LEMMA AdminDecideStep ==
  ASSUME IInv, NEW v \in Decisions, AdminDecide(v) PROVE IInv' /\ Forward
<1>1. Kept /\ Known \subseteq Known'
  BY KeptDecide DEF AdminDecide, Kept
<1> QED
  BY <1>1, SameJobs, SameActors, SameRest, Together DEF AdminDecide

LEMMA CrashCallStep ==
  ASSUME IInv, NEW c \in Callers, CrashCall(c) PROVE IInv' /\ Forward
<1>1. Kept /\ TypedJobs' /\ Known \subseteq Known'
  BY KeptSame, SameJobs DEF CrashCall, records, Kept
<1>3. TypedActors'
  BY <1>1, IdleIsTyped, CallStep DEF CrashCall
<1>4. TypedRest'
  BY QueueAssumption DEF IInv, TypedRest, CrashCall, Crash, records
<1> QED
  BY <1>1, <1>3, <1>4, Together

-----------------------------------------------------------------------------
(* The workers *)

LEMMA WorkerAt ==
  ASSUME IInv, NEW w \in Workers, worker[w].at # "idle"
  PROVE  worker[w].request \in Requests /\ worker[w].request \in Known
  BY DEF IInv, TypedActors, Known

LEMMA AuthorityOf == ASSUME NEW r \in Requests PROVE Authority(r) \in SUBSET Requests
  BY DEF Authority

LEMMA ClaimStep == ASSUME IInv, NEW w \in Workers, Claim(w) PROVE IInv' /\ Forward
<1>1. PICK r \in Requests :
        /\ job[r].status \in {"PENDING", "RETRY_WAIT"} /\ job[r].attempts < MaxAttempts
        /\ job' = [job EXCEPT ![r] = [status |-> "RUNNING", attempts |-> job[r].attempts + 1,
                                      worker |-> w, leased |-> TRUE]]
        /\ worker' = [worker EXCEPT ![w] = [at |-> "read", request |-> r]]
  BY DEF Claim
<1>2. job[r] \in JobRecords /\ r \in Known
  BY <1>1 DEF IInv, TypedJobs
<1>3. PICK next : next = [status |-> "RUNNING", attempts |-> job[r].attempts + 1,
                          worker |-> w, leased |-> TRUE]
  OBVIOUS
<1>4. next \in JobRecords /\ next.status = "RUNNING"
  BY <1>1, <1>2, <1>3, QueueAssumption, Statuses DEF JobRecords
<1>5. TypedJobs'
  BY <1>1, <1>2, <1>3, <1>4, JobStep DEF Claim
<1>6. Kept /\ TypedRest'
  BY KeptSame, SameRest DEF Claim
<1>7. PICK doing : doing = [at |-> "read", request |-> r]
  OBVIOUS
<1>8. doing \in WorkerRecords /\ doing.request \in Known
  BY <1>2, <1>7, QueueAssumption DEF WorkerRecords, WorkerSteps, Requests
<1>9. worker \in [Workers -> WorkerRecords]
      /\ \A v \in Workers : worker[v].at # "idle" => worker[v].request \in Known
  BY DEF IInv, TypedActors
<1>10. worker' = [worker EXCEPT ![w] = doing]
  BY <1>1, <1>7
<1>11. worker' \in [Workers -> WorkerRecords]
       /\ \A v \in Workers : worker'[v].at # "idle" => worker'[v].request \in Known
  BY <1>8, <1>9, <1>10
<1>12. TypedActors'
  BY <1>11 DEF Claim, requests, Known, IInv, TypedActors
<1> QED
  BY <1>5, <1>6, <1>12, Together

LEMMA ReadRequestStep == ASSUME IInv, NEW w \in Workers, ReadRequest(w) PROVE IInv' /\ Forward
<1>1. PICK r \in Requests : r = worker[w].request
  BY WorkerAt DEF ReadRequest
<1>2. ASSUME Known \subseteq Known' PROVE TypedJobs' /\ TypedRest'
  BY <1>2, SameJobs, SameRest DEF ReadRequest
<1>3. CASE isTerminalRequest(r) \/ ~Retained(request[r].version)
  <2>1. UNCHANGED request /\ Goes(w, "complete")
    BY <1>1, <1>3 DEF ReadRequest
  <2>2. Kept /\ Known \subseteq Known'
    BY <2>1, KeptSame DEF ReadRequest, requests, Kept
  <2>3. TypedActors'
    BY <2>1, <2>2, WorkerGoes DEF ReadRequest, WorkerSteps
  <2> QED
    BY <1>2, <2>2, <2>3, Together
<1>4. CASE ~(isTerminalRequest(r) \/ ~Retained(request[r].version))
  <2>1. request' = [request EXCEPT ![r].status = IF request[r].status = "PENDING" THEN "PROCESSING"
                                                 ELSE request[r].status]
        /\ Goes(w, "infer")
    BY <1>1, <1>4 DEF ReadRequest
  <2>2. /\ request \in [Requests -> RequestRecords] /\ request[r].status \in ActiveStatuses
        /\ \A q \in Requests : q <= count <=> request[q].status # "NONE"
        /\ \A q \in Requests : q \in Known => request[q].version \in Versions
    BY <1>4 DEF IInv, TypedRequests, isTerminalRequest
  <2>3. PICK s : s = IF request[r].status = "PENDING" THEN "PROCESSING" ELSE request[r].status
    OBVIOUS
  <2>4. s \in ActiveStatuses /\ (s \in InProcess => request[r].status \in InProcess)
    BY <2>2, <2>3, Statuses
  <2>5. /\ request' \in [Requests -> RequestRecords]
        /\ request'[r].status = s /\ request'[r].version = request[r].version
        /\ \A q \in Requests : q # r => request'[q] = request[q]
    BY <2>1, <2>2, <2>3, <2>4, Statuses DEF RequestRecords
  <2>6. \A q \in Requests : /\ request'[q].status # "NONE" <=> request[q].status # "NONE"
                            /\ request'[q].version = request[q].version
    BY <2>2, <2>4, <2>5, Statuses
  <2>7. TypedRequests' /\ Known \subseteq Known'
    BY <2>2, <2>5, <2>6 DEF IInv, TypedRequests, ReadRequest, Known
  <2>8. Forward
    BY <1>4, <2>4, <2>5, <2>6 DEF Forward, Known
  <2>9. Kept
    BY <2>7, <2>8, KeptRequests DEF ReadRequest
  <2>10. TypedActors'
    BY <2>1, <2>7, WorkerGoes DEF ReadRequest, WorkerSteps
  <2> QED
    BY <1>2, <2>7, <2>9, <2>10, Together
<1> QED
  BY <1>3, <1>4

LEMMA InferStep == ASSUME IInv, NEW w \in Workers, Infer(w) PROVE IInv' /\ Forward
<1>1. Kept /\ TypedJobs' /\ TypedRest' /\ Known \subseteq Known'
  BY KeptSame, SameJobs, SameRest DEF Infer, records, Kept
<1>2. PICK step \in WorkerSteps : Goes(w, step)
  BY DEF Infer, WorkerSteps
<1>3. TypedActors'
  BY <1>1, <1>2, WorkerGoes DEF Infer
<1> QED
  BY <1>1, <1>3, Together

LEMMA StoreResultStep == ASSUME IInv, NEW w \in Workers, StoreResult(w) PROVE IInv' /\ Forward
<1>1. Kept /\ TypedJobs' /\ Known \subseteq Known'
  BY KeptSame, SameJobs DEF StoreResult, Kept
<1>2. PICK step \in WorkerSteps : Goes(w, step)
  BY DEF StoreResult, WorkerSteps
<1>3. TypedActors'
  BY <1>1, <1>2, WorkerGoes DEF StoreResult
<1>4. TypedRest'
  BY WorkerAt DEF IInv, TypedRest, StoreResult
<1> QED
  BY <1>1, <1>3, <1>4, Together

LEMMA ApplyDecisionStep ==
  ASSUME IInv, NEW w \in Workers, ApplyDecision(w) PROVE IInv' /\ Forward
<1>1. PICK asked \in SUBSET Requests : asked = Authority(worker[w].request)
  BY WorkerAt, AuthorityOf DEF ApplyDecision
<1>2. Kept /\ Known \subseteq Known'
  BY <1>1, KeptDecide, KeptSame DEF ApplyDecision, Kept
<1>3. PICK step \in WorkerSteps : Goes(w, step)
  BY DEF ApplyDecision, WorkerSteps
<1>4. TypedActors'
  BY <1>2, <1>3, WorkerGoes DEF ApplyDecision
<1> QED
  BY <1>2, <1>4, SameJobs, SameRest, Together DEF ApplyDecision

LEMMA ApplyReviewStep ==
  ASSUME IInv, NEW w \in Workers, ApplyReview(w) PROVE IInv' /\ Forward
<1>1. PICK asked \in SUBSET Requests : asked = Authority(worker[w].request)
  BY WorkerAt, AuthorityOf DEF ApplyReview
<1>2. Kept /\ Known \subseteq Known'
  BY <1>1, KeptEscalate, KeptSame DEF ApplyReview, Kept
<1>3. PICK step \in WorkerSteps : Goes(w, step)
  BY DEF ApplyReview, WorkerSteps
<1>4. TypedActors'
  BY <1>2, <1>3, WorkerGoes DEF ApplyReview
<1> QED
  BY <1>2, <1>4, SameJobs, SameRest, Together DEF ApplyReview

LEMMA CompleteJobStep ==
  ASSUME IInv, NEW w \in Workers, CompleteJob(w) PROVE IInv' /\ Forward
<1>1. PICK r \in Requests : r = worker[w].request /\ r \in Known
  BY WorkerAt DEF CompleteJob
<1>2. Kept /\ TypedRest' /\ Known \subseteq Known'
  BY KeptSame, SameRest DEF CompleteJob, Kept
<1>3. TypedJobs'
  BY <1>1, CompletedTyped DEF CompleteJob
<1> QED
  BY <1>2, <1>3, WorkerRests, Together DEF CompleteJob

LEMMA RecordFailureStep ==
  ASSUME IInv, NEW w \in Workers, RecordFailure(w) PROVE IInv' /\ Forward
<1>1. PICK r \in Requests : r = worker[w].request /\ r \in Known
  BY WorkerAt DEF RecordFailure
<1>2. Kept /\ TypedRest' /\ Known \subseteq Known'
  BY KeptSame, SameRest DEF RecordFailure, Kept
<1>3. CASE UNCHANGED job /\ Rests(w)
  BY <1>2, <1>3, SameJobs, WorkerRests, Together DEF RecordFailure
<1>4. job[r] \in JobRecords
  BY DEF IInv, TypedJobs
<1>5. CASE job' = [job EXCEPT ![r] = Ended(job[r], "RETRY_WAIT")] /\ Rests(w)
  <2>1. TypedJobs'
    BY <1>1, <1>4, <1>5, EndedJob, JobStep, Statuses DEF RecordFailure
  <2> QED
    BY <1>2, <1>5, <2>1, WorkerRests, Together DEF RecordFailure
<1>6. CASE job' = [job EXCEPT ![r] = Ended(job[r], "FAILED")] /\ Goes(w, "check")
  <2>1. TypedJobs'
    BY <1>1, <1>4, <1>6, EndedJob, JobStep, Statuses DEF RecordFailure
  <2>2. TypedActors'
    BY <1>2, <1>6, WorkerGoes DEF RecordFailure, WorkerSteps
  <2> QED
    BY <1>2, <2>1, <2>2, Together
<1> QED
  BY <1>1, <1>3, <1>5, <1>6 DEF RecordFailure

LEMMA CheckFailedStep ==
  ASSUME IInv, NEW w \in Workers, CheckFailed(w) PROVE IInv' /\ Forward
<1>1. Kept /\ TypedJobs' /\ TypedRest' /\ Known \subseteq Known'
  BY KeptSame, SameJobs, SameRest DEF CheckFailed, records, Kept
<1>2. TypedActors'
  BY <1>1, WorkerGoes, WorkerRests DEF CheckFailed, WorkerSteps
<1> QED
  BY <1>1, <1>2, Together

LEMMA EscalateFailedStep ==
  ASSUME IInv, NEW w \in Workers, EscalateFailed(w) PROVE IInv' /\ Forward
<1>1. Kept /\ Known \subseteq Known'
  BY KeptEscalate, KeptSame DEF EscalateFailed, Kept
<1> QED
  BY <1>1, WorkerRests, SameJobs, SameRest, Together DEF EscalateFailed

LEMMA CrashWorkerStep ==
  ASSUME IInv, NEW w \in Workers, CrashWorker(w) PROVE IInv' /\ Forward
<1>1. Kept /\ Known \subseteq Known'
  BY KeptSame DEF CrashWorker, Kept
<1>2. \A r \in Requests : job[r] \in JobRecords
  BY DEF IInv, TypedJobs
<1>3. /\ job' = [r \in Requests |-> IF job[r].worker = w THEN [job[r] EXCEPT !.worker = Gone]
                                    ELSE job[r]]
      /\ UNCHANGED request
  BY DEF CrashWorker, requests
<1>4. \A r \in Requests : /\ job'[r] \in JobRecords /\ job'[r].status = job[r].status
                          /\ job'[r].leased = job[r].leased
                          /\ job'[r].worker # Gone => job[r].worker # Gone
  BY <1>2, <1>3 DEF JobRecords
<1>5. TypedJobs'
  BY <1>1, <1>3, <1>4 DEF IInv, TypedJobs
<1>6. TypedRest'
  BY QueueAssumption DEF IInv, TypedRest, CrashWorker, Crash
<1> QED
  BY <1>1, <1>5, <1>6, WorkerRests, Together DEF CrashWorker

LEMMA LeaseEndsStep == ASSUME IInv, NEW r \in Requests, LeaseEnds(r) PROVE IInv' /\ Forward
<1>1. Kept /\ TypedRest' /\ Known \subseteq Known'
  BY KeptSame, SameRest DEF LeaseEnds, Kept
<1>2. job[r] \in JobRecords /\ r \in Known
  BY Statuses DEF IInv, TypedJobs, LeaseEnds
<1>3. PICK next : next = [job[r] EXCEPT !.leased = FALSE]
  OBVIOUS
<1>4. next \in JobRecords /\ next.status = "RUNNING"
  BY <1>2, <1>3 DEF JobRecords, LeaseEnds
<1>5. TypedJobs'
  BY <1>2, <1>3, <1>4, JobStep DEF LeaseEnds
<1> QED
  BY <1>1, <1>5, SameActors, Together DEF LeaseEnds

-----------------------------------------------------------------------------
(* The reconciliation, and time *)

LEMMA KeeperAt ==
  ASSUME IInv, keeper.at \in {"check", "escalate", "timeout", "revalidate"}
  PROVE  keeper.request \in Requests /\ keeper.request \in Known
  BY DEF IInv, TypedActors, Known

\* Where the keeper goes on, or is through.
LEMMA KeeperGoesOn ==
  ASSUME IInv, NEW step \in KeeperSteps, KeeperGoes(step) \/ keeper' = IdleKeeper,
         step \in {"check", "escalate", "timeout", "revalidate"} => keeper.request \in Known,
         UNCHANGED <<call, worker>>, Known \subseteq Known'
  PROVE  TypedActors'
<1>1. CASE keeper' = IdleKeeper
  BY <1>1, KeeperStep, QueueAssumption DEF IdleKeeper, KeeperSteps
<1>2. CASE KeeperGoes(step)
  <2>1. keeper \in [at : KeeperSteps, request : 0..MaxRequests]
    BY DEF IInv, TypedActors
  <2>2. PICK r \in 0..MaxRequests : r = keeper.request
    BY <2>1
  <2>3. keeper' = [at |-> step, request |-> r]
    BY <1>2, <2>1, <2>2 DEF KeeperGoes
  <2> QED
    BY <2>2, <2>3, KeeperStep
<1> QED
  BY <1>1, <1>2

LEMMA ExpireRequestStep == ASSUME IInv, ExpireRequest PROVE IInv' /\ Forward
<1>1. CASE UNCHANGED request
  <2>1. Kept /\ Known \subseteq Known'
    BY <1>1, KeptSame DEF ExpireRequest, requests, Kept
  <2>2. TypedActors'
    BY <2>1, KeeperGoesOn DEF ExpireRequest, KeeperSteps
  <2> QED
    BY <2>1, <2>2, SameJobs, SameRest, Together DEF ExpireRequest
<1>2. CASE request' = [r \in Requests |->
                  IF r \in Active THEN [request[r] EXCEPT !.status = "EXPIRED"] ELSE request[r]]
  <2>1. /\ \A r \in Requests : request[r] \in RequestRecords
        /\ \A q \in Requests : q <= count <=> request[q].status # "NONE"
        /\ \A q \in Requests : q \in Known => request[q].version \in Versions
    BY DEF IInv, TypedRequests
  <2>2. \A r \in Requests :
          /\ request'[r] \in RequestRecords /\ request'[r].version = request[r].version
          /\ r \in Active => request'[r].status = "EXPIRED" /\ request[r].status # "NONE"
          /\ r \notin Active => request'[r] = request[r]
    BY <1>2, <2>1, Statuses DEF RequestRecords, Active
  <2>3. /\ request' \in [Requests -> RequestRecords]
        /\ \A q \in Requests : request'[q].status # "NONE" <=> request[q].status # "NONE"
    BY <1>2, <2>2
  <2>4. TypedRequests' /\ Known \subseteq Known'
    BY <2>1, <2>2, <2>3 DEF IInv, TypedRequests, ExpireRequest, Known
  <2>5. Forward
    BY <2>2, <2>3, Statuses DEF Forward, Known, Active, isTerminalRequest
  <2>6. Kept
    BY <2>4, <2>5, KeptRequests DEF ExpireRequest
  <2>7. TypedActors'
    BY <2>4, KeeperGoesOn DEF ExpireRequest, KeeperSteps
  <2> QED
    BY <2>4, <2>6, <2>7, SameJobs, SameRest, Together DEF ExpireRequest
<1> QED
  BY <1>1, <1>2 DEF ExpireRequest

LEMMA ResetProfileStep == ASSUME IInv, ResetProfile PROVE IInv' /\ Forward
<1>1. /\ profile' = [profile EXCEPT !.status = "incomplete"]
      /\ profile \in [status : ProfileStatuses, version : 0..MaxVersion]
  BY DEF ResetProfile, IInv, TypedProfile
<1>2. TypedProfile' /\ profile'.status = "incomplete"
  BY <1>1 DEF TypedProfile, ProfileStatuses
<1>3. Kept /\ TypedJobs' /\ TypedRest' /\ Known \subseteq Known'
  BY <1>2, KeptProfile, SameJobs, SameRest DEF ResetProfile, records, Kept
<1>4. TypedActors'
  BY <1>3, KeeperGoesOn DEF ResetProfile, KeeperSteps
<1> QED
  BY <1>3, <1>4, Together

LEMMA FailAbandonedStep == ASSUME IInv, FailAbandoned PROVE IInv' /\ Forward
<1>1. PICK r \in Requests :
        /\ Abandoned(r) /\ job' = [job EXCEPT ![r] = Ended(job[r], "FAILED")]
        /\ keeper' = [at |-> "check", request |-> r]
  BY DEF FailAbandoned
<1>2. Kept /\ TypedRest' /\ Known \subseteq Known'
  BY KeptSame, SameRest DEF FailAbandoned, Kept
<1>3. job[r] \in JobRecords /\ r \in Known
  BY <1>1 DEF IInv, TypedJobs, Abandoned
<1>4. TypedJobs'
  BY <1>1, <1>3, EndedJob, JobStep, Statuses DEF FailAbandoned
<1>5. r \in 0..MaxRequests /\ UNCHANGED <<call, worker>>
  BY QueueAssumption DEF FailAbandoned, Requests
<1>6. TypedActors'
  BY <1>1, <1>2, <1>3, <1>5, KeeperStep DEF KeeperSteps
<1> QED
  BY <1>2, <1>4, <1>6, Together

LEMMA CheckAbandonedStep == ASSUME IInv, CheckAbandoned PROVE IInv' /\ Forward
<1>1. Kept /\ TypedJobs' /\ TypedRest' /\ Known \subseteq Known'
  BY KeptSame, SameJobs, SameRest DEF CheckAbandoned, records, Kept
<1>2. KeeperGoes("escalate") \/ KeeperGoes("leases")
  BY DEF CheckAbandoned
<1>3. TypedActors'
  BY <1>1, <1>2, KeeperAt, KeeperGoesOn DEF CheckAbandoned, KeeperSteps
<1> QED
  BY <1>1, <1>3, Together

LEMMA EscalateAbandonedStep == ASSUME IInv, EscalateAbandoned PROVE IInv' /\ Forward
<1>1. Kept /\ Known \subseteq Known'
  BY KeptEscalate, KeptSame DEF EscalateAbandoned, Kept
<1>2. TypedActors'
  BY <1>1, KeeperGoesOn DEF EscalateAbandoned, KeeperSteps
<1> QED
  BY <1>1, <1>2, SameJobs, SameRest, Together DEF EscalateAbandoned

LEMMA RecoverAbandonedStep == ASSUME IInv, RecoverAbandoned PROVE IInv' /\ Forward
<1>1. Kept /\ TypedRest' /\ Known \subseteq Known'
  BY KeptSame, SameRest DEF RecoverAbandoned, Kept
<1>2. /\ job' = [r \in Requests |-> IF Abandoned(r) THEN Ended(job[r], "RETRY_WAIT") ELSE job[r]]
      /\ UNCHANGED request
  BY DEF RecoverAbandoned, requests
<1>3. \A r \in Requests :
        /\ job[r] \in JobRecords
        /\ job[r].leased \/ job[r].worker # Gone => job[r].status = "RUNNING"
        /\ job[r].status # "NONE" => r \in Known
  BY DEF IInv, TypedJobs
<1>4. ASSUME NEW r \in Requests
      PROVE  /\ job'[r] \in JobRecords
             /\ job'[r].leased \/ job'[r].worker # Gone => job'[r].status = "RUNNING"
             /\ job'[r].status # "NONE" => r \in Known
  <2>1. CASE Abandoned(r)
    <3>1. job'[r] = Ended(job[r], "RETRY_WAIT") /\ r \in Known
      BY <1>2, <1>3, <2>1 DEF Abandoned
    <3> QED
      BY <1>3, <3>1, EndedJob, Statuses
  <2>2. CASE ~Abandoned(r)
    BY <1>2, <1>3, <2>2
  <2> QED
    BY <2>1, <2>2
<1>5. TypedJobs'
  BY <1>1, <1>2, <1>4 DEF TypedJobs
<1>6. TypedActors'
  BY <1>1, KeeperStep, QueueAssumption DEF RecoverAbandoned, KeeperSteps
<1> QED
  BY <1>1, <1>5, <1>6, Together

LEMMA EnsureListedStep == ASSUME IInv, EnsureListed PROVE IInv' /\ Forward
<1>1. Kept /\ TypedRest' /\ Known \subseteq Known'
  BY KeptSame, SameRest DEF EnsureListed, Kept
<1>2. CASE KeeperGoes("jobs") /\ UNCHANGED job
  <2>1. TypedActors'
    BY <1>1, <1>2, KeeperGoesOn DEF EnsureListed, KeeperSteps
  <2> QED
    BY <1>1, <1>2, <2>1, SameJobs, Together
<1>3. ASSUME NEW r \in Active, job' = WithJob(r),
             keeper' = [at |-> "timeout", request |-> r] \/ KeeperGoes("jobs")
      PROVE  IInv' /\ Forward
  <2>1. r \in Requests /\ r \in Known
    BY Statuses DEF Active, Known
  <2>2. TypedJobs'
    BY <1>3, <2>1, WithJobTyped DEF EnsureListed
  <2>3. TypedActors'
    BY <1>1, <1>3, <2>1, KeeperStep, KeeperGoesOn, QueueAssumption
       DEF EnsureListed, KeeperSteps, Requests
  <2> QED
    BY <1>1, <2>2, <2>3, Together
<1> QED
  BY <1>2, <1>3 DEF EnsureListed, KeeperGoes

LEMMA EscalateLateStep == ASSUME IInv, EscalateLate PROVE IInv' /\ Forward
<1>1. Kept /\ Known \subseteq Known'
  BY KeptEscalate, KeptSame DEF EscalateLate, Kept
<1>2. KeeperGoes("jobs") \/ KeeperGoes("revalidate")
  BY DEF EscalateLate
<1>3. TypedActors'
  BY <1>1, <1>2, KeeperAt, KeeperGoesOn DEF EscalateLate, KeeperSteps
<1> QED
  BY <1>1, <1>3, SameJobs, SameRest, Together DEF EscalateLate

LEMMA RevalidateStep == ASSUME IInv, Revalidate PROVE IInv' /\ Forward
<1>1. Kept /\ TypedJobs' /\ TypedRest' /\ Known \subseteq Known'
  BY KeptSame, SameJobs, SameRest DEF Revalidate, records, Kept
<1>2. TypedActors'
  BY <1>1, KeeperGoesOn DEF Revalidate, KeeperSteps
<1> QED
  BY <1>1, <1>2, Together

LEMMA CompleteListedStep == ASSUME IInv, CompleteListed PROVE IInv' /\ Forward
<1>1. PICK r \in Requests : Idling(r) /\ job' = Completed(r)
  BY DEF CompleteListed
<1>2. Kept /\ TypedRest' /\ Known \subseteq Known'
  BY KeptSame, SameRest DEF CompleteListed, Kept
<1>3. r \in Known
  BY <1>1, Statuses DEF IInv, TypedJobs, Idling
<1>4. TypedJobs'
  BY <1>1, <1>3, CompletedTyped DEF CompleteListed
<1> QED
  BY <1>2, <1>4, SameActors, Together DEF CompleteListed

LEMMA EndRoundStep == ASSUME IInv, EndRound PROVE IInv' /\ Forward
<1>1. Kept /\ TypedJobs' /\ TypedRest' /\ Known \subseteq Known'
  BY KeptSame, SameJobs, SameRest DEF EndRound, records, Kept
<1>2. TypedActors'
  BY <1>1, KeeperGoesOn DEF EndRound, KeeperSteps
<1> QED
  BY <1>1, <1>2, Together

LEMMA CrashKeeperStep == ASSUME IInv, CrashKeeper PROVE IInv' /\ Forward
<1>1. Kept /\ TypedJobs' /\ Known \subseteq Known'
  BY KeptSame, SameJobs DEF CrashKeeper, records, Kept
<1>2. TypedActors'
  BY <1>1, KeeperGoesOn DEF CrashKeeper, KeeperSteps
<1>3. TypedRest'
  BY QueueAssumption DEF IInv, TypedRest, CrashKeeper, Crash, records
<1> QED
  BY <1>1, <1>2, <1>3, Together

LEMMA GrowsStep ==
  ASSUME IInv, NEW v \in Versions, age[v] \in {Fresh, Late}, Grows(v) PROVE IInv' /\ Forward
<1>1. Kept /\ TypedJobs' /\ Known \subseteq Known'
  BY KeptSame, SameJobs DEF Grows, records, Kept
<1>2. TypedRest'
  BY DEF IInv, TypedRest, Grows, records, Fresh, Late, Expired
<1> QED
  BY <1>1, <1>2, SameActors, Together DEF Grows

LEMMA StutterStep == ASSUME IInv, UNCHANGED vars PROVE IInv' /\ Forward
<1>1. Kept /\ TypedJobs' /\ TypedActors' /\ TypedRest'
  BY KeptSame, SameJobs, SameActors, SameRest DEF vars, requests, Kept
<1> QED
  BY <1>1, Together

-----------------------------------------------------------------------------
(* Theorems *)

LEMMA Initially == Init => IInv
<1> SUFFICES ASSUME Init PROVE IInv
  OBVIOUS
<1> USE QueueAssumption
<1>1. TypedRequests
  BY DEF Init, TypedRequests, NoRequest, RequestRecords, RequestStatuses, Known, Requests
<1>2. TypedJobs
  <2>1. NoJob \in JobRecords /\ NoJob.status = "NONE" /\ ~NoJob.leased /\ NoJob.worker = Gone
    BY Statuses DEF NoJob, JobRecords
  <2> QED
    BY <2>1 DEF Init, TypedJobs
<1>3. TypedProfile
  BY DEF Init, TypedProfile, ProfileStatuses
<1>4. TypedActors
  BY IdleIsTyped DEF Init, TypedActors, IdleKeeper, KeeperSteps
<1>5. TypedRest
  BY DEF Init, TypedRest, Fresh, Expired
<1>6. StatusIsGranted
  BY DEF Init, StatusIsGranted
<1> QED
  BY <1>1, <1>2, <1>3, <1>4, <1>5, <1>6 DEF IInv

LEMMA Inductive == IInv /\ [Next]_vars => IInv' /\ Forward
<1> SUFFICES ASSUME IInv, [Next]_vars PROVE IInv' /\ Forward
  OBVIOUS
<1>1. CASE \E c \in Submitters : BeginSubmission(c) \/ SaveSubmission(c) \/ EnsureJob(c)
  BY <1>1, BeginSubmissionStep, SaveSubmissionStep, EnsureJobStep
<1>2. CASE \E c \in Readers : ListQueue(c)
  BY <1>2, ListQueueStep
<1>3. CASE \E c \in Callers : EnsureRequest(c) \/ CrashCall(c)
  BY <1>3, EnsureRequestStep, CrashCallStep
<1>4. CASE \E v \in Decisions : AdminDecide(v)
  BY <1>4, AdminDecideStep
<1>5. CASE \E w \in Workers : Work(w) \/ CrashWorker(w)
  BY <1>5, ClaimStep, ReadRequestStep, InferStep, StoreResultStep, ApplyDecisionStep,
     ApplyReviewStep, CompleteJobStep, RecordFailureStep, CheckFailedStep, EscalateFailedStep,
     CrashWorkerStep DEF Work
<1>6. CASE Reconcile \/ CrashKeeper
  BY <1>6, ExpireRequestStep, ResetProfileStep, FailAbandonedStep, CheckAbandonedStep,
     EscalateAbandonedStep, RecoverAbandonedStep, EnsureListedStep, EscalateLateStep,
     RevalidateStep, CompleteListedStep, EndRoundStep, CrashKeeperStep DEF Reconcile
<1>7. CASE \E v \in Versions : PassDeadline(v) \/ PassRetention(v)
  BY <1>7, GrowsStep DEF PassDeadline, PassRetention
<1>8. CASE \E r \in Requests : LeaseEnds(r)
  BY <1>8, LeaseEndsStep
<1>9. CASE UNCHANGED vars
  BY <1>9, StutterStep
<1> QED
  BY <1>1, <1>2, <1>3, <1>4, <1>5, <1>6, <1>7, <1>8, <1>9 DEF Next

\* Everything keeps its type, and whoever works on a request works on one there is.
THEOREM TypeCorrect == Spec => []TypeOK
<1> QED
  BY Initially, Inductive, Types, PTL DEF Spec

\* Nobody is verified but by an approval, nor rejected but by a rejection,
\* whatever the calls, the workers, the reconciliation and the crashes do.
THEOREM NothingUngranted == Spec => []StatusIsGranted
<1>1. IInv => StatusIsGranted
  BY DEF IInv
<1> QED
  BY <1>1, Initially, Inductive, PTL DEF Spec

\* No request is ever reopened: it keeps its submission, never goes back from
\* review to processing, and stays as it is once it was decided or has expired.
THEOREM NothingReopened == Spec => [][Forward]_vars
<1>1. IInv /\ [Next]_vars => [Forward]_vars
  BY Inductive
<1> QED
  BY <1>1, Initially, Inductive, PTL DEF Spec
LEMMA ClaimsStay ==
  ASSUME IInv, [Next]_vars, NEW r \in Requests, NEW w \in Workers,
         job[r].status = "RUNNING", job[r].worker = w, job[r].leased,
         job'[r].status \notin {"RUNNING", "COMPLETED"}
  PROVE  worker[w].request = r /\ worker'[w] # worker[w]
<1>1. job \in [Requests -> JobRecords] /\ worker \in [Workers -> WorkerRecords]
  BY DEF IInv, TypedJobs, TypedActors
<1>2. job' # job
  OBVIOUS
<1>3. \/ \E v \in Workers : Claim(v) \/ RecordFailure(v) \/ CompleteJob(v) \/ CrashWorker(v)
      \/ EnsureListed \/ FailAbandoned \/ RecoverAbandoned \/ CompleteListed
      \/ \E c \in Submitters : EnsureJob(c)
      \/ \E q \in Requests : LeaseEnds(q)
  <2>1. ASSUME NEW c \in Callers PROVE ~EnsureRequest(c) /\ ~CrashCall(c)
    BY <1>2 DEF EnsureRequest, CrashCall, records
  <2>2. ASSUME NEW c PROVE ~BeginSubmission(c) /\ ~SaveSubmission(c) /\ ~ListQueue(c)
    BY <1>2 DEF BeginSubmission, SaveSubmission, ListQueue, records
  <2>3. ASSUME NEW v PROVE ~AdminDecide(v) /\ ~PassDeadline(v) /\ ~PassRetention(v)
    BY <1>2 DEF AdminDecide, PassDeadline, PassRetention, Grows, records
  <2>4. ASSUME NEW v
        PROVE  /\ ~ReadRequest(v) /\ ~Infer(v) /\ ~StoreResult(v) /\ ~ApplyDecision(v)
               /\ ~ApplyReview(v) /\ ~CheckFailed(v) /\ ~EscalateFailed(v)
    BY <1>2 DEF ReadRequest, Infer, StoreResult, ApplyDecision, ApplyReview, CheckFailed,
                EscalateFailed, records
  <2>5. /\ ~ExpireRequest /\ ~ResetProfile /\ ~CheckAbandoned /\ ~EscalateAbandoned
        /\ ~EscalateLate /\ ~Revalidate /\ ~EndRound /\ ~CrashKeeper
    BY <1>2 DEF ExpireRequest, ResetProfile, CheckAbandoned, EscalateAbandoned, EscalateLate,
                Revalidate, EndRound, CrashKeeper, records
  <2>6. Next
    BY <1>2 DEF vars
  <2> QED
    BY <2>1, <2>2, <2>3, <2>4, <2>5, <2>6 DEF Next, Work, Reconcile
<1>4. ASSUME NEW q \in Requests, job' = Completed(q) PROVE FALSE
  <2>1. Ended(job[q], "COMPLETED").status = "COMPLETED"
    BY <1>1, EndedJob, Statuses
  <2> QED
    BY <1>1, <1>4, <2>1 DEF Completed
<1>5. ASSUME NEW q \in Requests, job' = WithJob(q) PROVE FALSE
  BY <1>1, <1>5 DEF WithJob
<1>6. \A v \in Workers : ~Claim(v)
  BY <1>1 DEF Claim
<1>7. ~RecoverAbandoned /\ \A v \in Workers : ~CrashWorker(v)
  BY <1>1 DEF CrashWorker, RecoverAbandoned, Abandoned, JobRecords
<1>8. ~FailAbandoned
  BY <1>1 DEF FailAbandoned, Abandoned
<1>9. \A q \in Requests : ~LeaseEnds(q)
  BY <1>1 DEF LeaseEnds, JobRecords
<1>10. ~EnsureListed /\ \A c \in Submitters : ~EnsureJob(c)
  <2>1. \A c \in Submitters : EnsureJob(c) => call[c].request \in Requests
    BY DEF EnsureJob, IInv, TypedActors, Known, Callers
  <2> QED
    BY <1>2, <1>5, <2>1 DEF EnsureListed, EnsureJob, Active
<1>11. ~CompleteListed /\ \A v \in Workers : ~CompleteJob(v)
  <2>1. \A v \in Workers : CompleteJob(v) => worker[v].request \in Requests
    BY WorkerAt DEF CompleteJob
  <2> QED
    BY <1>4, <2>1 DEF CompleteListed, CompleteJob
<1>12. PICK v \in Workers : RecordFailure(v)
  BY <1>3, <1>6, <1>7, <1>8, <1>9, <1>10, <1>11
<1>13. PICK q \in Requests : q = worker[v].request
  BY <1>12, WorkerAt DEF RecordFailure
<1>14. Holds(v, q) /\ \A p \in Requests : p # q => job'[p] = job[p]
  BY <1>1, <1>2, <1>12, <1>13 DEF RecordFailure
<1>15. r = q /\ v = w
  BY <1>14 DEF Holds
<1>16. worker'[w].at \in {"idle", "check"} /\ worker[w].at = "fail"
  BY <1>1, <1>12, <1>15, IdleIsTyped DEF RecordFailure, Rests, Goes, WorkerRecords
<1> QED
  BY <1>13, <1>15, <1>16

\* A claim under lease ends by its worker, its lease or its completion only:
\* no worker, late on an earlier attempt, gives it up for another.
THEOREM ClaimsAreRespected == Spec => ClaimIsRespected
<1>1. IInv /\ [Next]_vars => [RespectsClaims]_vars
  BY ClaimsStay DEF RespectsClaims
<1> QED
  BY <1>1, Initially, Inductive, PTL DEF Spec, ClaimIsRespected

-----------------------------------------------------------------------------
(* What a completed job leaves behind, when the user submits one call at a *)
(* time: the versions say which submission a request is of.                *)

OneSubmitter == \A c, d \in Submitters : c = d

\* A submission about to be saved is newer than every request there is.
Ordered ==
    /\ \A r \in Known : request[r].version <= profile.version
    /\ \A c \in Callers :
        /\ call[c].at \in {"request", "list"} => call[c].version <= profile.version
        /\ call[c].at = "save" => c \in Submitters /\ call[c].version > profile.version

Answered == {r \in Requests :
    \/ request[r].status \notin InProcess
    \/ profile.status # "pending_verification" \/ profile.version # request[r].version
    \/ age[request[r].version] = Expired}

Answers ==
    /\ \A r \in Requests : job[r].status = "COMPLETED" => r \in Answered
    /\ \A w \in Workers : worker[w].at = "complete" => worker[w].request \in Answered

AInv == IInv /\ Ordered /\ Answers

\* The requests that are new in a step are of a submission that was saved.
NewOnes == \A r \in Known' : r \notin Known => request'[r].version <= profile.version

LEMMA NoNewOnes == ASSUME Known' = Known PROVE NewOnes
  BY DEF NewOnes

\* The request a transaction makes is of the version in hand.
LEMMA PutNewOnes ==
  ASSUME IInv, NEW v \in Versions, v <= profile.version, NEW t \in Requests, t = Ensured(v),
         NEW record, record.version = EnsuredRequest(v).version, Put(t, record)
  PROVE  NewOnes
<1>1. request \in [Requests -> RequestRecords]
  BY DEF IInv, TypedRequests
<1>2. request'[t] = record /\ \A q \in Requests : q # t => request'[q] = request[q]
  BY <1>1 DEF Put
<1>3. CASE t \in Active
  <2>1. t \in Known
    BY <1>3, Statuses DEF Active, Known
  <2> QED
    BY <1>2, <2>1 DEF NewOnes, Known
<1>4. CASE EnsuredRequest(v) = NewRequest(v)
  <2>1. record.version = v
    BY <1>4 DEF NewRequest
  <2> QED
    BY <1>2, <2>1 DEF NewOnes, Known
<1> QED
  BY <1>3, <1>4, FindsActiveOrNew

\* A decision or an escalation.
LEMMA TargetNewOnes ==
  ASSUME IInv, NEW s, NEW t \in Requests, t = Target, TargetExists,
         Put(t, [TargetRequest EXCEPT !.status = s])
  PROVE  NewOnes
<1>1. request \in [Requests -> RequestRecords] /\ profile.version \in 0..MaxVersion
  BY DEF IInv, TypedRequests, TypedProfile
<1>2. CASE Active = {}
  <2>1. PICK v \in Versions : v = profile.version
    BY <1>2 DEF TargetExists, IInv, TypedProfile
  <2>2. PICK record : record = [TargetRequest EXCEPT !.status = s]
    OBVIOUS
  <2>3. TargetRequest = NewRequest(v) /\ TargetRequest = EnsuredRequest(v) /\ t = Ensured(v)
    BY <1>2, <2>1 DEF TargetRequest, EnsuredRequest, Target
  <2>4. TargetRequest \in [status : {"PENDING"}, version : Versions]
    BY <2>3 DEF NewRequest
  <2>5. record.version = EnsuredRequest(v).version
    BY <2>2, <2>3, <2>4
  <2>6. v <= profile.version
    BY <1>1, <2>1
  <2> QED
    BY <2>1, <2>2, <2>3, <2>5, <2>6, PutNewOnes
<1>3. CASE Active # {}
  <2>1. t \in Active
    BY <1>3 DEF Target, Ensured
  <2>2. t \in Known
    BY <2>1, Statuses DEF Active, Known
  <2>3. \A q \in Requests : q # t => request'[q] = request[q]
    BY <1>1 DEF Put
  <2> QED
    BY <2>2, <2>3 DEF NewOnes, Known
<1> QED
  BY <1>2, <1>3

LEMMA DecideNewOnes ==
  ASSUME IInv, NEW v, NEW asked \in SUBSET Requests, Decidable(asked), Decide(v)
  PROVE  NewOnes
<1>1. PICK t \in Requests : t = Target
  BY DEF Decidable
<1> QED
  BY <1>1, TargetNewOnes DEF Decidable, Decide

LEMMA EscalateNewOnes ==
  ASSUME IInv, NEW asked \in SUBSET Requests, Escalatable(asked), Escalate
  PROVE  NewOnes
<1>1. PICK t \in Requests : t = Target
  BY DEF Escalatable
<1> QED
  BY <1>1, TargetNewOnes DEF Escalatable, Escalate, TargetExists

\* What most steps leave alone, or only settle.
QuietProfile ==
    /\ NewOnes /\ profile'.version = profile.version
    /\ profile'.status = "pending_verification" => profile.status = "pending_verification"
    /\ \A v \in Versions : age[v] = Expired => age'[v] = Expired
QuietCalls == \A c \in Callers : call'[c] = call[c] \/ call'[c].at \in {"idle", "job"}
QuietJobs == \A r \in Requests : job'[r].status = "COMPLETED"
                                   => job[r].status = "COMPLETED" \/ r \in Answered \cap Known
QuietWorkers == \A w \in Workers : worker'[w].at = "complete"
                                     => worker'[w] = worker[w] \/ worker'[w].request \in Answered'

LEMMA AnsweredStays ==
  ASSUME IInv, Forward, QuietProfile PROVE Answered \cap Known \subseteq Answered'
<1> SUFFICES ASSUME NEW r \in Requests, r \in Answered, r \in Known PROVE r \in Answered'
  BY DEF Known
<1>1. /\ request'[r].version = request[r].version /\ request[r].version \in Versions
      /\ request'[r].status \in InProcess => request[r].status \in InProcess
  BY DEF Forward, IInv, TypedRequests
<1> QED
  BY <1>1 DEF QuietProfile, Answered

LEMMA AnswersKept ==
  ASSUME IInv, Answers, Answered \cap Known \subseteq Answered', QuietJobs, QuietWorkers
  PROVE  Answers'
<1>1. ASSUME NEW r \in Requests, job'[r].status = "COMPLETED" PROVE r \in Answered'
  <2>1. CASE job[r].status = "COMPLETED"
    <3>1. r \in Answered /\ r \in Known
      BY <2>1, Statuses DEF Answers, IInv, TypedJobs
    <3> QED
      BY <3>1
  <2> QED
    BY <1>1, <2>1 DEF QuietJobs
<1>2. ASSUME NEW w \in Workers, worker'[w].at = "complete" PROVE worker'[w].request \in Answered'
  <2>1. CASE worker'[w] = worker[w]
    <3>1. worker[w].request \in Answered /\ worker[w].request \in Known
      BY <1>2, <2>1 DEF Answers, IInv, TypedActors
    <3> QED
      BY <2>1, <3>1
  <2> QED
    BY <1>2, <2>1 DEF QuietWorkers
<1> QED
  BY <1>1, <1>2 DEF Answers

LEMMA OrderedKept ==
  ASSUME IInv, Ordered, Forward, QuietProfile, QuietCalls PROVE Ordered'
<1>1. \A r \in Known' : request'[r].version <= profile'.version
  BY DEF Ordered, QuietProfile, NewOnes, Forward, Known
<1>2. \A c \in Callers :
        /\ call'[c].at \in {"request", "list"} => call'[c].version <= profile'.version
        /\ call'[c].at = "save" => c \in Submitters /\ call'[c].version > profile'.version
  BY DEF Ordered, QuietProfile, QuietCalls
<1> QED
  BY <1>1, <1>2 DEF Ordered

\* A step of that kind.
LEMMA QuietStep ==
  ASSUME AInv, [Next]_vars, QuietProfile, QuietCalls, QuietJobs, QuietWorkers PROVE AInv'
<1>1. IInv' /\ Forward
  BY Inductive DEF AInv
<1> QED
  BY <1>1, AnsweredStays, AnswersKept, OrderedKept DEF AInv

LEMMA QuietSame == ASSUME UNCHANGED <<profile, requests, age>> PROVE QuietProfile
  BY DEF requests, QuietProfile, NewOnes, Known

LEMMA QuietDecide ==
  ASSUME IInv, NEW v, NEW asked \in SUBSET Requests, Decidable(asked), Decide(v), UNCHANGED age
  PROVE  QuietProfile
<1>1. NewOnes
  BY DecideNewOnes
<1>2. /\ profile' = [profile EXCEPT !.status = IF v = "APPROVED" THEN "verified" ELSE "rejected"]
      /\ profile \in [status : ProfileStatuses, version : 0..MaxVersion]
  BY DEF Decide, IInv, TypedProfile
<1>3. profile'.version = profile.version /\ profile'.status # "pending_verification"
  BY <1>2
<1> QED
  BY <1>1, <1>3 DEF QuietProfile

LEMMA QuietEscalate ==
  ASSUME IInv, NEW asked \in SUBSET Requests, Escalatable(asked), Escalate, UNCHANGED age
  PROVE  QuietProfile
  BY EscalateNewOnes DEF QuietProfile, Escalate

LEMMA SubmissionAnswers ==
  ASSUME AInv, NEW c \in Submitters, BeginSubmission(c) \/ EnsureJob(c) PROVE AInv'
<1>1. [Next]_vars
  BY DEF Next
<1>2. IInv' /\ Forward /\ IInv /\ Ordered /\ Answers
  BY <1>1, Inductive DEF AInv
<1>3. CASE EnsureJob(c)
  <2>1. QuietProfile /\ QuietWorkers
    BY <1>3, QuietSame DEF EnsureJob, QuietWorkers
  <2>2. QuietCalls
    BY <1>2, <1>3, IdleIsTyped DEF EnsureJob, IInv, TypedActors, QuietCalls
  <2>3. \A r \in Requests : job'[r].status = "COMPLETED" => job[r].status = "COMPLETED"
    BY <1>2, <1>3 DEF EnsureJob, WithJob, NewJob, IInv, TypedJobs
  <2> QED
    BY <1>1, <2>1, <2>2, <2>3, QuietStep DEF QuietJobs
<1>4. CASE BeginSubmission(c)
  <2>1. QuietProfile /\ QuietWorkers /\ QuietJobs
    BY <1>4, QuietSame DEF BeginSubmission, records, QuietWorkers, QuietJobs
  <2>2. Answers'
    BY <1>2, <2>1, AnsweredStays, AnswersKept
  <2>3. \A r \in Known' : request'[r].version <= profile'.version
    BY <1>2, <1>4 DEF BeginSubmission, records, requests, Ordered, Known
  <2>4. /\ call \in [Callers -> CallRecords]
        /\ call' = [call EXCEPT ![c] = [at |-> "save", version |-> profile.version + 1,
                                       request |-> 0]]
        /\ profile'.version = profile.version /\ profile.version \in Nat
    BY <1>2, <1>4, QueueAssumption DEF BeginSubmission, IInv, TypedActors, TypedProfile
  <2>5. \A d \in Callers :
          /\ call'[d].at \in {"request", "list"} => call'[d].version <= profile'.version
          /\ call'[d].at = "save" => d \in Submitters /\ call'[d].version > profile'.version
    BY <1>2, <2>4 DEF Ordered
  <2> QED
    BY <1>2, <2>2, <2>3, <2>5 DEF AInv, Ordered
<1> QED
  BY <1>3, <1>4

\* The save of the only submission there is makes every request an earlier one.
LEMMA SaveAnswers ==
  ASSUME AInv, OneSubmitter, NEW c \in Submitters, SaveSubmission(c) PROVE AInv'
<1>1. [Next]_vars
  BY DEF Next
<1>2. IInv' /\ Forward /\ IInv /\ Ordered /\ Answers
  BY <1>1, Inductive DEF AInv
<1>3. /\ c \in Callers /\ call[c].version > profile.version /\ call[c].version \in 0..MaxVersion
      /\ profile.version \in 0..MaxVersion
      /\ profile'.version = call[c].version
      /\ UNCHANGED <<count, request, job, worker, age>>
  BY <1>2 DEF SaveSubmission, records, requests, Callers, Ordered, IInv, TypedActors, TypedProfile,
              CallRecords
<1>4. \A r \in Known : request[r].version < profile'.version
  <2>1. \A r \in Known : request[r].version <= profile.version /\ request[r].version \in Versions
    BY <1>2 DEF Ordered, IInv, TypedRequests, Known
  <2> QED
    BY <1>3, <2>1 DEF Versions
<1>5. Known' = Known /\ Known \subseteq Answered'
  <2>1. \A r \in Known : request[r].version \in Versions /\ request[r].version # profile'.version
    BY <1>2, <1>3, <1>4 DEF IInv, TypedRequests, Known, Versions
  <2> QED
    BY <1>3, <2>1 DEF Known, Answered
<1>6. Answers'
  BY <1>2, <1>3, <1>5, AnswersKept DEF QuietJobs, QuietWorkers
<1>7. \A r \in Known' : request'[r].version <= profile'.version
  <2>1. \A r \in Known : request[r].version \in Nat /\ profile'.version \in Nat
    BY <1>2, <1>3 DEF IInv, TypedRequests, Known, Versions
  <2> QED
    BY <1>3, <1>4, <1>5, <2>1
<1>8. call \in [Callers -> CallRecords] /\ call' = [call EXCEPT ![c].at = "request"]
  BY <1>2 DEF IInv, TypedActors, SaveSubmission
<1>9. ASSUME NEW d \in Callers
      PROVE  /\ call'[d].at \in {"request", "list"} => call'[d].version <= profile'.version
             /\ call'[d].at = "save" => d \in Submitters /\ call'[d].version > profile'.version
  <2>1. CASE d = c
    BY <1>3, <1>8, <2>1 DEF CallRecords
  <2>2. CASE d # c
    <3>1. call'[d] = call[d] /\ call[d] \in CallRecords /\ call[d].at # "save"
      BY <1>2, <1>8, <2>2 DEF Ordered, OneSubmitter
    <3>2. call[d].at \in {"request", "list"} => call[d].version <= profile.version
      BY <1>2 DEF Ordered
    <3> QED
      BY <1>3, <3>1, <3>2 DEF CallRecords
  <2> QED
    BY <2>1, <2>2
<1> QED
  BY <1>2, <1>6, <1>7, <1>9 DEF AInv, Ordered

LEMMA CallAnswers ==
  ASSUME AInv, NEW c \in Callers,
         (c \in Readers /\ ListQueue(c)) \/ EnsureRequest(c) \/ CrashCall(c)
  PROVE  AInv'
<1>1. [Next]_vars
  BY DEF Next
<1>2. IInv' /\ Forward /\ IInv /\ Ordered /\ Answers
  BY <1>1, Inductive DEF AInv
<1>3. UNCHANGED <<job, worker, profile, age>>
  BY DEF ListQueue, EnsureRequest, CrashCall, records
<1>4. QuietJobs /\ QuietWorkers
  BY <1>3 DEF QuietJobs, QuietWorkers
<1>5. call \in [Callers -> CallRecords]
  BY <1>2 DEF IInv, TypedActors
<1>6. CASE CrashCall(c)
  BY <1>1, <1>4, <1>5, <1>6, QuietStep, QuietSame, IdleIsTyped DEF CrashCall, QuietCalls, records
<1>7. CASE EnsureRequest(c)
  <2>1. PICK v \in Versions : v = call[c].version /\ v <= profile.version
    BY <1>2, <1>7 DEF EnsureRequest, IInv, TypedActors, Ordered
  <2>2. PICK r \in Requests : r = Ensured(v) /\ Put(r, EnsuredRequest(v))
    BY <1>7, <2>1 DEF EnsureRequest
  <2>3. QuietProfile
    BY <1>2, <1>3, <2>1, <2>2, PutNewOnes DEF QuietProfile
  <2>4. call'[c].at \in {"idle", "job"} /\ \A d \in Callers : d # c => call'[d] = call[d]
    BY <1>5, <1>7, IdleIsTyped DEF EnsureRequest
  <2> QED
    BY <1>1, <1>4, <2>3, <2>4, QuietStep DEF QuietCalls
<1>8. CASE ListQueue(c)
  <2>1. QuietProfile
    BY <1>8, QuietSame DEF ListQueue, records
  <2>2. Answers'
    BY <1>2, <1>4, <2>1, AnsweredStays, AnswersKept
  <2>3. \A r \in Known' : request'[r].version <= profile'.version
    BY <1>2, <1>8 DEF ListQueue, records, requests, Ordered, Known
  <2>4. /\ call' = [call EXCEPT ![c] = [at |-> "list", version |-> profile.version,
                                       request |-> 0]]
        /\ profile'.version = profile.version /\ profile.version \in Nat
    BY <1>2, <1>8, QueueAssumption DEF ListQueue, IInv, TypedProfile
  <2>5. \A d \in Callers :
          /\ call'[d].at \in {"request", "list"} => call'[d].version <= profile'.version
          /\ call'[d].at = "save" => d \in Submitters /\ call'[d].version > profile'.version
    BY <1>2, <1>5, <2>4 DEF Ordered
  <2> QED
    BY <1>2, <2>2, <2>3, <2>5 DEF AInv, Ordered
<1> QED
  BY <1>6, <1>7, <1>8
LEMMA WorkAnswers == ASSUME AInv, NEW w \in Workers, Work(w) PROVE AInv'
<1>1. [Next]_vars
  BY DEF Next
<1>2. IInv' /\ Forward /\ IInv /\ Ordered /\ Answers
  BY <1>1, Inductive DEF AInv
<1>3. worker \in [Workers -> WorkerRecords] /\ \A r \in Requests : job[r] \in JobRecords
  BY <1>2 DEF IInv, TypedActors, TypedJobs
<1>4. QuietCalls
  BY DEF Work, Claim, ReadRequest, Infer, StoreResult, ApplyDecision, ApplyReview, CompleteJob,
         RecordFailure, CheckFailed, EscalateFailed, QuietCalls
<1>5. ASSUME NEW step, Goes(w, step), step # "complete" PROVE QuietWorkers
  BY <1>3, <1>5 DEF Goes, WorkerRecords, QuietWorkers
<1>6. ASSUME NEW step, Goes(w, step), worker[w].request \in Answered' PROVE QuietWorkers
  <2>1. /\ worker'[w].request = worker[w].request
        /\ \A v \in Workers : v # w => worker'[v] = worker[v]
    BY <1>3, <1>6 DEF Goes, WorkerRecords
  <2> QED
    BY <1>6, <2>1 DEF QuietWorkers
<1>7. ASSUME Rests(w) PROVE QuietWorkers
  BY <1>3, <1>7, IdleIsTyped DEF Rests, QuietWorkers
<1>8. ASSUME UNCHANGED job PROVE QuietJobs
  BY <1>8 DEF QuietJobs
<1>9. CASE Claim(w)
  <2>1. PICK r \in Requests :
          /\ job' = [job EXCEPT ![r] = [status |-> "RUNNING", attempts |-> job[r].attempts + 1,
                                        worker |-> w, leased |-> TRUE]]
          /\ worker' = [worker EXCEPT ![w] = [at |-> "read", request |-> r]]
    BY <1>9 DEF Claim
  <2>2. QuietJobs
    BY <1>2, <2>1 DEF QuietJobs, IInv, TypedJobs
  <2>3. QuietWorkers
    BY <1>3, <2>1 DEF QuietWorkers
  <2>4. QuietProfile
    BY <1>9, QuietSame DEF Claim
  <2> QED
    BY <1>1, <1>4, <2>2, <2>3, <2>4, QuietStep
<1>10. CASE ReadRequest(w)
  <2>1. PICK r \in Requests : r = worker[w].request /\ r \in Known
    BY <1>2, <1>10, WorkerAt DEF ReadRequest
  <2>2. QuietProfile
    <3>1. Known' = Known
      BY <1>2, <1>10, <2>1, Statuses DEF ReadRequest, Known, IInv, TypedRequests, isTerminalRequest
    <3> QED
      BY <1>10, <3>1, NoNewOnes DEF ReadRequest, QuietProfile
  <2>3. CASE isTerminalRequest(r) \/ ~Retained(request[r].version)
    <3>1. r \in Answered
      BY <2>3, Statuses DEF isTerminalRequest, Retained, Answered
    <3>2. r \in Answered'
      BY <1>2, <2>1, <2>2, <3>1, AnsweredStays
    <3>3. Goes(w, "complete")
      BY <1>10, <2>1, <2>3 DEF ReadRequest
    <3> QED
      BY <1>1, <1>4, <1>6, <1>8, <1>10, <2>1, <2>2, <3>2, <3>3, QuietStep DEF ReadRequest
  <2>4. CASE ~(isTerminalRequest(r) \/ ~Retained(request[r].version))
    <3>1. Goes(w, "infer")
      BY <1>10, <2>1, <2>4 DEF ReadRequest
    <3> QED
      BY <1>1, <1>4, <1>5, <1>8, <1>10, <2>2, <3>1, QuietStep DEF ReadRequest
  <2> QED
    BY <2>3, <2>4
<1>11. CASE Infer(w)
  <2>1. PICK r \in Requests : r = worker[w].request /\ r \in Known
    BY <1>2, <1>11, WorkerAt DEF Infer
  <2>2. QuietProfile /\ UNCHANGED job
    BY <1>11, QuietSame DEF Infer, records
  <2>3. CASE /\ isTerminalRequest(r) \/ request[r].version # profile.version
             /\ Goes(w, "complete")
    <3>1. r \in Answered
      BY <2>3, Statuses DEF isTerminalRequest, Answered
    <3>2. r \in Answered'
      BY <1>2, <2>1, <2>2, <3>1, AnsweredStays
    <3> QED
      BY <1>1, <1>4, <1>6, <1>8, <2>1, <2>2, <2>3, <3>2, QuietStep
  <2>4. CASE Goes(w, "fail") \/ Goes(w, "apply") \/ Goes(w, "store")
    BY <1>1, <1>4, <1>5, <1>8, <2>2, <2>4, QuietStep
  <2> QED
    BY <1>11, <2>1, <2>3, <2>4 DEF Infer
<1>12. CASE StoreResult(w)
  <2>1. QuietProfile /\ UNCHANGED job
    BY <1>12, QuietSame DEF StoreResult
  <2>2. Goes(w, "fail") \/ Goes(w, "apply")
    BY <1>12 DEF StoreResult
  <2> QED
    BY <1>1, <1>4, <1>5, <1>8, <2>1, <2>2, QuietStep
<1>13. CASE ApplyDecision(w)
  <2>1. PICK r \in Requests : r = worker[w].request /\ r \in Known
    BY <1>2, <1>13, WorkerAt DEF ApplyDecision
  <2>2. PICK asked \in SUBSET Requests : asked = Authority(r) /\ asked \subseteq {r}
    BY <2>1, AuthorityOf DEF Authority
  <2>3. PICK v \in Decisions :
          \/ Decidable(asked) /\ Decide(v) /\ Goes(w, "complete")
          \/ /\ ~Decidable(asked) /\ UNCHANGED <<profile, requests>>
             /\ Goes(w, IF DecidedBefore(v) THEN "complete" ELSE "fail")
    BY <1>13, <2>1, <2>2 DEF ApplyDecision
  <2>4. CASE Decidable(asked) /\ Decide(v) /\ Goes(w, "complete")
    <3>1. QuietProfile
      BY <1>2, <1>13, <2>4, QuietDecide DEF ApplyDecision
    <3>2. PICK t \in Requests : t = Target /\ t = r
      BY <2>2, <2>4 DEF Decidable
    <3>3. request'[t].status = v
      BY <1>2, <2>4, <3>2, DecideForward DEF Decidable, Decide, Decisions
    <3>4. r \in Answered'
      BY <3>2, <3>3, Statuses DEF Answered, Decisions
    <3> QED
      BY <1>1, <1>4, <1>6, <1>8, <1>13, <2>1, <2>4, <3>1, <3>4, QuietStep DEF ApplyDecision
  <2>5. CASE UNCHANGED <<profile, requests>> /\ DecidedBefore(v) /\ Goes(w, "complete")
    <3>1. QuietProfile
      BY <1>13, <2>5, QuietSame DEF ApplyDecision
    <3>2. r \in Answered
      BY <2>5, Statuses DEF DecidedBefore, TargetExists, Active, Answered
    <3>3. r \in Answered'
      BY <1>2, <2>1, <3>1, <3>2, AnsweredStays
    <3> QED
      BY <1>1, <1>4, <1>6, <1>8, <1>13, <2>1, <2>5, <3>1, <3>3, QuietStep DEF ApplyDecision
  <2>6. CASE UNCHANGED <<profile, requests>> /\ Goes(w, "fail")
    <3>1. QuietProfile
      BY <1>13, <2>6, QuietSame DEF ApplyDecision
    <3> QED
      BY <1>1, <1>4, <1>5, <1>8, <1>13, <2>6, <3>1, QuietStep DEF ApplyDecision
  <2> QED
    BY <2>3, <2>4, <2>5, <2>6
<1>14. CASE ApplyReview(w)
  <2>1. PICK r \in Requests : r = worker[w].request /\ r \in Known
    BY <1>2, <1>14, WorkerAt DEF ApplyReview
  <2>2. PICK asked \in SUBSET Requests : asked = Authority(r) /\ asked \subseteq {r}
    BY <2>1, AuthorityOf DEF Authority
  <2>3. CASE Escalatable(asked) /\ Escalate /\ Goes(w, "complete")
    <3>1. QuietProfile
      BY <1>2, <1>14, <2>3, QuietEscalate DEF ApplyReview
    <3>2. PICK t \in Requests : t = Target /\ t = r
      BY <2>2, <2>3 DEF Escalatable
    <3>3. request'[t].status = "ADMIN_REVIEW_REQUIRED"
      BY <1>2, <2>3, <3>2, DecideForward DEF Escalatable, Escalate, TargetExists
    <3>4. r \in Answered'
      BY <3>2, <3>3, Statuses DEF Answered
    <3> QED
      BY <1>1, <1>4, <1>6, <1>8, <1>14, <2>1, <2>3, <3>1, <3>4, QuietStep DEF ApplyReview
  <2>4. CASE InReview(asked) /\ UNCHANGED <<profile, requests>> /\ Goes(w, "complete")
    <3>1. QuietProfile
      BY <1>14, <2>4, QuietSame DEF ApplyReview
    <3>2. Target = r /\ TargetRequest.status = "ADMIN_REVIEW_REQUIRED"
      BY <2>2, <2>4 DEF InReview
    <3>3. request[r].status = "ADMIN_REVIEW_REQUIRED"
      BY <3>2, FindsActiveOrNew DEF Target, TargetRequest, NewRequest
    <3>4. r \in Answered
      BY <3>3, Statuses DEF Answered
    <3>5. r \in Answered'
      BY <1>2, <2>1, <3>1, <3>4, AnsweredStays
    <3> QED
      BY <1>1, <1>4, <1>6, <1>8, <1>14, <2>1, <2>4, <3>1, <3>5, QuietStep DEF ApplyReview
  <2>5. CASE UNCHANGED <<profile, requests>> /\ Goes(w, "fail")
    <3>1. QuietProfile
      BY <1>14, <2>5, QuietSame DEF ApplyReview
    <3> QED
      BY <1>1, <1>4, <1>5, <1>8, <1>14, <2>5, <3>1, QuietStep DEF ApplyReview
  <2> QED
    BY <1>14, <2>1, <2>2, <2>3, <2>4, <2>5 DEF ApplyReview
<1>15. CASE CompleteJob(w)
  <2>1. PICK r \in Requests : r = worker[w].request /\ r \in Known /\ r \in Answered
    BY <1>2, <1>15, WorkerAt DEF CompleteJob, Answers
  <2>2. job' = Completed(r) /\ Rests(w)
    BY <1>15, <2>1 DEF CompleteJob
  <2>3. QuietJobs
    BY <1>2, <2>1, <2>2 DEF Completed, QuietJobs, IInv, TypedJobs
  <2> QED
    BY <1>1, <1>4, <1>7, <1>15, <2>2, <2>3, QuietSame, QuietStep DEF CompleteJob
<1>16. CASE RecordFailure(w)
  <2>1. PICK r \in Requests : r = worker[w].request
    BY <1>2, <1>16, WorkerAt DEF RecordFailure
  <2>2. \/ UNCHANGED job
        \/ job' = [job EXCEPT ![r] = Ended(job[r], "RETRY_WAIT")]
        \/ job' = [job EXCEPT ![r] = Ended(job[r], "FAILED")]
    BY <1>16, <2>1 DEF RecordFailure
  <2>3. Ended(job[r], "RETRY_WAIT").status # "COMPLETED" /\ Ended(job[r], "FAILED").status # "COMPLETED"
    BY <1>3, EndedJob, Statuses
  <2>4. QuietJobs
    BY <1>2, <2>2, <2>3 DEF QuietJobs, IInv, TypedJobs
  <2>5. QuietWorkers
    BY <1>5, <1>7, <1>16 DEF RecordFailure
  <2> QED
    BY <1>1, <1>4, <1>16, <2>4, <2>5, QuietSame, QuietStep DEF RecordFailure
<1>17. CASE CheckFailed(w)
  <2>1. QuietProfile /\ UNCHANGED job
    BY <1>17, QuietSame DEF CheckFailed, records
  <2>2. QuietWorkers
    BY <1>5, <1>7, <1>17 DEF CheckFailed
  <2> QED
    BY <1>1, <1>4, <1>8, <2>1, <2>2, QuietStep
<1>18. CASE EscalateFailed(w)
  <2>1. QuietProfile /\ UNCHANGED job /\ Rests(w)
    BY <1>2, <1>18, QuietSame, QuietEscalate DEF EscalateFailed
  <2> QED
    BY <1>1, <1>4, <1>7, <1>8, <2>1, QuietStep
<1> QED
  BY <1>9, <1>10, <1>11, <1>12, <1>13, <1>14, <1>15, <1>16, <1>17, <1>18 DEF Work

LEMMA OtherAnswers ==
  ASSUME AInv,
         \/ \E v \in Decisions : AdminDecide(v)
         \/ \E w \in Workers : CrashWorker(w)
         \/ Reconcile \/ CrashKeeper
         \/ \E v \in Versions : PassDeadline(v) \/ PassRetention(v)
         \/ \E r \in Requests : LeaseEnds(r)
         \/ UNCHANGED vars
  PROVE  AInv'
<1>1. [Next]_vars
  BY DEF Next
<1>2. IInv' /\ Forward /\ IInv /\ Ordered /\ Answers
  BY <1>1, Inductive DEF AInv
<1>3. \A r \in Requests : job[r] \in JobRecords /\ (job[r].status # "NONE" => r \in Known)
  BY <1>2 DEF IInv, TypedJobs
<1>4. ASSUME UNCHANGED <<call, worker, job>>, QuietProfile PROVE AInv'
  BY <1>1, <1>4, QuietStep DEF QuietCalls, QuietWorkers, QuietJobs
<1>5. ASSUME UNCHANGED <<call, worker, profile, requests, age>>, QuietJobs PROVE AInv'
  BY <1>1, <1>5, QuietStep, QuietSame DEF QuietCalls, QuietWorkers
<1>6. CASE \E v \in Decisions : AdminDecide(v)
  BY <1>2, <1>4, <1>6, QuietDecide DEF AdminDecide
<1>7. CASE \E w \in Workers : CrashWorker(w)
  <2>1. PICK w \in Workers : CrashWorker(w)
    BY <1>7
  <2>2. QuietJobs
    BY <1>3, <2>1 DEF CrashWorker, QuietJobs, JobRecords
  <2>3. QuietWorkers
    BY <1>2, <2>1, IdleIsTyped DEF CrashWorker, Rests, QuietWorkers, IInv, TypedActors
  <2> QED
    BY <1>1, <2>1, <2>2, <2>3, QuietStep, QuietSame DEF CrashWorker, QuietCalls
<1>8. CASE ExpireRequest
  <2>1. Known' = Known
    BY <1>2, <1>8, Statuses DEF ExpireRequest, Known, Active, IInv, TypedRequests, RequestRecords
  <2> QED
    BY <1>4, <1>8, <2>1, NoNewOnes DEF ExpireRequest, QuietProfile
<1>9. CASE ResetProfile
  <2>1. profile'.status = "incomplete" /\ profile'.version = profile.version
    BY <1>2, <1>9 DEF ResetProfile, IInv, TypedProfile
  <2>2. Known' = Known
    BY <1>9 DEF ResetProfile, records, requests, Known
  <2> QED
    BY <1>4, <1>9, <2>1, <2>2, NoNewOnes DEF ResetProfile, records, QuietProfile
<1>10. CASE FailAbandoned
  <2>1. PICK r \in Requests : job' = [job EXCEPT ![r] = Ended(job[r], "FAILED")]
    BY <1>10 DEF FailAbandoned
  <2>2. Ended(job[r], "FAILED").status # "COMPLETED"
    BY <1>3, EndedJob, Statuses
  <2>3. QuietJobs
    BY <1>2, <2>1, <2>2 DEF QuietJobs, IInv, TypedJobs
  <2> QED
    BY <1>5, <1>10, <2>3 DEF FailAbandoned
<1>11. CASE CheckAbandoned \/ Revalidate \/ EndRound \/ CrashKeeper
  BY <1>4, <1>11, QuietSame DEF CheckAbandoned, Revalidate, EndRound, CrashKeeper, records
<1>12. CASE EscalateAbandoned \/ EscalateLate
  BY <1>2, <1>4, <1>12, QuietSame, QuietEscalate DEF EscalateAbandoned, EscalateLate
<1>13. CASE RecoverAbandoned
  <2>1. \A r \in Requests : Ended(job[r], "RETRY_WAIT").status # "COMPLETED"
    BY <1>3, EndedJob, Statuses
  <2>2. QuietJobs
    BY <1>13, <2>1 DEF RecoverAbandoned, QuietJobs
  <2> QED
    BY <1>5, <1>13, <2>2 DEF RecoverAbandoned
<1>14. CASE EnsureListed
  <2>1. UNCHANGED job \/ \E r \in Requests : job' = WithJob(r)
    BY <1>14 DEF EnsureListed, Active
  <2>2. QuietJobs
    BY <1>2, <2>1 DEF WithJob, NewJob, QuietJobs, IInv, TypedJobs
  <2> QED
    BY <1>5, <1>14, <2>2 DEF EnsureListed
<1>15. CASE CompleteListed
  <2>1. PICK r \in Requests : Idling(r) /\ job' = Completed(r)
    BY <1>15 DEF CompleteListed
  <2>2. r \in Answered /\ r \in Known
    BY <1>3, <2>1, Statuses DEF Idling, isTerminalRequest, Applicable, Answered
  <2>3. QuietJobs
    BY <1>2, <2>1, <2>2 DEF Completed, QuietJobs, IInv, TypedJobs
  <2> QED
    BY <1>5, <1>15, <2>3 DEF CompleteListed
<1>16. CASE \E v \in Versions : PassDeadline(v) \/ PassRetention(v)
  <2>1. PICK v \in Versions : age[v] # Expired /\ Grows(v)
    BY <1>16 DEF PassDeadline, PassRetention, Fresh, Late, Expired
  <2>2. \A u \in Versions : age[u] = Expired => age'[u] = Expired
    BY <1>2, <2>1 DEF Grows, IInv, TypedRest
  <2>3. Known' = Known
    BY <2>1 DEF Grows, records, requests, Known
  <2> QED
    BY <1>4, <2>1, <2>2, <2>3, NoNewOnes DEF Grows, records, QuietProfile
<1>17. CASE \E r \in Requests : LeaseEnds(r)
  <2>1. PICK r \in Requests : LeaseEnds(r)
    BY <1>17
  <2>2. \A q \in Requests : job'[q].status = job[q].status
    BY <1>2, <1>3, <2>1 DEF LeaseEnds, IInv, TypedJobs, JobRecords
  <2>3. QuietJobs
    BY <2>2 DEF QuietJobs
  <2> QED
    BY <1>5, <2>1, <2>3 DEF LeaseEnds
<1>18. CASE UNCHANGED vars
  BY <1>4, <1>18, QuietSame DEF vars, requests
<1> QED
  BY <1>6, <1>7, <1>8, <1>9, <1>10, <1>11, <1>12, <1>13, <1>14, <1>15, <1>16, <1>17, <1>18
     DEF Reconcile

LEMMA AlwaysAnswered ==
  ASSUME OneSubmitter
  PROVE  Spec => []AInv
<1>1. Init => AInv
  <2> SUFFICES ASSUME Init PROVE AInv
    OBVIOUS
  <2>1. Known = {} /\ \A c \in Callers : call[c] = IdleCall
    BY DEF Init, Known, NoRequest
  <2>2. \A w \in Workers : worker[w].at = "idle"
    BY DEF Init, IdleWorker
  <2>3. \A r \in Requests : job[r].status = "NONE"
    BY DEF Init, NoJob
  <2> QED
    BY <2>1, <2>2, <2>3, Initially, IdleIsTyped DEF AInv, Ordered, Answers
<1>2. AInv /\ [Next]_vars => AInv'
  <2> SUFFICES ASSUME AInv, [Next]_vars PROVE AInv'
    OBVIOUS
  <2>1. CASE \E c \in Submitters : BeginSubmission(c) \/ SaveSubmission(c) \/ EnsureJob(c)
    BY <2>1, SubmissionAnswers, SaveAnswers
  <2>2. CASE \E c \in Readers : ListQueue(c)
    BY <2>2, CallAnswers DEF Callers
  <2>3. CASE \E c \in Callers : EnsureRequest(c) \/ CrashCall(c)
    BY <2>3, CallAnswers
  <2>4. CASE \E w \in Workers : Work(w)
    BY <2>4, WorkAnswers
  <2>5. CASE \/ \E v \in Decisions : AdminDecide(v)
             \/ \E w \in Workers : CrashWorker(w)
             \/ Reconcile \/ CrashKeeper
             \/ \E v \in Versions : PassDeadline(v) \/ PassRetention(v)
             \/ \E r \in Requests : LeaseEnds(r)
             \/ UNCHANGED vars
    BY <2>5, OtherAnswers
  <2> QED
    BY <2>1, <2>2, <2>3, <2>4, <2>5 DEF Next
<1> QED
  BY <1>1, <1>2, PTL DEF Spec

\* A completed job leaves nobody behind, for a user who submits one call at a
\* time, whatever the workers, the administrators and the crashes do.
THEOREM NobodyLeftBehind ==
  ASSUME OneSubmitter
  PROVE  Spec => []CompletedIsAnswered
<1>1. AInv => CompletedIsAnswered
  BY DEF AInv, Answers, Answered, CompletedIsAnswered, Applicable, Retained
<1>2. Spec => []AInv
  BY AlwaysAnswered
<1> QED
  BY <1>1, <1>2, PTL

-----------------------------------------------------------------------------
(* The deadline.  Requests are opened by submissions, by an administrator's  *)
(* list, by decisions and by escalations, and there is still one active at   *)
(* most: what a round of the reconciliation finds is what it escalates.      *)

Alone == \A r, s \in Active : r = s

\* A request is only opened where none is active.
Grown == count' = count \/ (Active = {} /\ count' = count + 1)

LEMMA PutGrows ==
  ASSUME IInv, NEW v, NEW record, Put(Ensured(v), record)
  PROVE  Grown
<1>1. count \in Nat /\ \A r \in Requests : r <= count <=> request[r].status # "NONE"
  BY QueueAssumption DEF IInv, TypedRequests
<1>2. CASE Ensured(v) \in Active
  <2>1. Ensured(v) \in Requests /\ Ensured(v) <= count
    BY <1>1, <1>2, Statuses DEF Active
  <2> QED
    BY <1>1, <2>1 DEF Put, Requests, Grown
<1>3. CASE Active = {} /\ Ensured(v) = count + 1
  BY <1>1, <1>3 DEF Put, Grown
<1> QED
  BY <1>2, <1>3, FindsActiveOrNew

LEMMA NextGrows == ASSUME IInv, [Next]_vars PROVE Grown
<1>1. ASSUME NEW v, Decide(v) PROVE Grown
  BY <1>1, PutGrows DEF Decide, Target
<1>2. ASSUME Escalate PROVE Grown
  BY <1>2, PutGrows DEF Escalate, Target
<1>3. ASSUME NEW c \in Submitters, BeginSubmission(c) \/ SaveSubmission(c) \/ EnsureJob(c)
      PROVE  Grown
  BY <1>3 DEF BeginSubmission, SaveSubmission, EnsureJob, records, requests, Grown
<1>4. ASSUME NEW c \in Readers, ListQueue(c) PROVE Grown
  BY <1>4 DEF ListQueue, records, requests, Grown
<1>5. ASSUME NEW c \in Callers, EnsureRequest(c) PROVE Grown
  BY <1>5, PutGrows DEF EnsureRequest
<1>6. ASSUME NEW c \in Callers, CrashCall(c) PROVE Grown
  BY <1>6 DEF CrashCall, records, requests, Grown
<1>7. ASSUME NEW v \in Decisions, AdminDecide(v) PROVE Grown
  BY <1>1, <1>7 DEF AdminDecide
<1>8. ASSUME NEW w \in Workers, Work(w) PROVE Grown
  <2>1. CASE ApplyDecision(w)
    BY <1>1, <2>1 DEF ApplyDecision, requests, Grown
  <2>2. CASE ApplyReview(w) \/ EscalateFailed(w)
    BY <1>2, <2>2 DEF ApplyReview, EscalateFailed, requests, Grown
  <2>3. CASE \/ Claim(w) \/ ReadRequest(w) \/ Infer(w) \/ StoreResult(w)
             \/ CompleteJob(w) \/ RecordFailure(w) \/ CheckFailed(w)
    BY <2>3 DEF Claim, ReadRequest, Infer, StoreResult, CompleteJob, RecordFailure,
       CheckFailed, records, requests, Grown
  <2> QED
    BY <1>8, <2>1, <2>2, <2>3 DEF Work
<1>9. ASSUME NEW w \in Workers, CrashWorker(w) PROVE Grown
  BY <1>9 DEF CrashWorker, requests, Grown
<1>10. ASSUME Reconcile PROVE Grown
  <2>1. CASE EscalateAbandoned \/ EscalateLate
    BY <1>2, <2>1 DEF EscalateAbandoned, EscalateLate, requests, Grown
  <2>2. CASE ~(EscalateAbandoned \/ EscalateLate)
    BY <1>10, <2>2 DEF Reconcile, ExpireRequest, ResetProfile, FailAbandoned, CheckAbandoned,
       RecoverAbandoned, EnsureListed, Revalidate, CompleteListed, EndRound, records,
       requests, Grown
  <2> QED
    BY <2>1, <2>2
<1>11. CASE CrashKeeper
  BY <1>11 DEF CrashKeeper, records, requests, Grown
<1>12. ASSUME NEW v \in Versions, PassDeadline(v) \/ PassRetention(v) PROVE Grown
  BY <1>12 DEF PassDeadline, PassRetention, Grows, records, requests, Grown
<1>13. ASSUME NEW r \in Requests, LeaseEnds(r) PROVE Grown
  BY <1>13 DEF LeaseEnds, requests, Grown
<1>14. CASE UNCHANGED vars
  BY <1>14 DEF vars, Grown
<1> QED
  BY <1>3, <1>4, <1>5, <1>6, <1>7, <1>8, <1>9, <1>10, <1>11, <1>12, <1>13, <1>14 DEF Next

\* One that is active was so before, or is the only new one.
LEMMA AloneKept ==
  ASSUME IInv, IInv', Forward, Alone, Grown
  PROVE  Alone'
<1>1. ASSUME NEW r \in Active', r \in Known PROVE r \in Active
  BY <1>1 DEF Forward, Active, isTerminalRequest
<1>2. ASSUME NEW r \in Active', r \notin Known PROVE Active = {} /\ r = count + 1
  <2>1. r \in Requests /\ r <= count' /\ ~(r <= count)
    BY <1>2, Statuses DEF IInv, TypedRequests, Active, Known
  <2>2. count \in Nat
    BY QueueAssumption DEF IInv, TypedRequests
  <2> QED
    BY <2>1, <2>2 DEF Grown, Requests
<1> QED
  BY <1>1, <1>2 DEF Alone

\* The step of a round that meets the request of the pending submission, in
\* process after its deadline, turns to it, and its escalation is not refused.
DeadlineStep ==
    \A r \in Requests :
        /\ request[r].status \in InProcess /\ Applicable(r) /\ age[request[r].version] = Late
        => /\ EnsureListed => keeper' = [at |-> "timeout", request |-> r]
           /\ EscalateLate /\ keeper.request = r => request'[r].status = "ADMIN_REVIEW_REQUIRED"

\* The safety half of EveryRequestIsAnswered: whatever became of its worker, of its
\* job and of earlier rounds, the request a user waits for is found past its deadline
\* and goes to an administrator.
THEOREM LateGoesToReview ==
  ASSUME OneSubmitter
  PROVE  Spec => [][DeadlineStep]_vars
<1>1. Init => Alone
  BY Statuses DEF Init, Alone, Active, NoRequest
<1>2. AInv /\ Alone /\ [Next]_vars => Alone'
  BY Inductive, NextGrows, AloneKept DEF AInv
<1>3. AInv /\ Alone => DeadlineStep
  <2> SUFFICES ASSUME AInv, Alone, NEW r \in Requests,
                      request[r].status \in InProcess, Applicable(r),
                      age[request[r].version] = Late
               PROVE  /\ EnsureListed => keeper' = [at |-> "timeout", request |-> r]
                      /\ EscalateLate /\ keeper.request = r
                            => request'[r].status = "ADMIN_REVIEW_REQUIRED"
    BY DEF DeadlineStep
  <2>1. r \in Active /\ \A q \in Active : q = r
    BY Statuses DEF Active, Alone
  <2>2. ~AwaitsDecision(r)
    BY DEF AInv, Answers, Answered, Applicable, AwaitsDecision, Late, Expired
  <2>3. ASSUME EnsureListed PROVE keeper' = [at |-> "timeout", request |-> r]
    BY <2>1, <2>2, <2>3 DEF EnsureListed
  <2>4. Target = r /\ TargetRequest = request[r]
    BY <2>1 DEF Target, TargetRequest, Ensured, EnsuredRequest
  <2>5. Escalatable(Requests)
    BY <2>4 DEF Escalatable, Applicable, Retained, Late, Expired
  <2>6. ASSUME EscalateLate PROVE request'[r].status = "ADMIN_REVIEW_REQUIRED"
    <3>1. request' = [request EXCEPT ![r] = [request[r] EXCEPT !.status = "ADMIN_REVIEW_REQUIRED"]]
      BY <2>4, <2>5, <2>6 DEF EscalateLate, Escalate, Put
    <3> QED
      BY <3>1 DEF AInv, IInv, TypedRequests, RequestRecords
  <2> QED
    BY <2>3, <2>6
<1>4. Spec => []AInv
  BY AlwaysAnswered
<1> QED
  BY <1>1, <1>2, <1>3, <1>4, PTL DEF Spec

-----------------------------------------------------------------------------
(* What is done to an account by others.  A save writes only fields that     *)
(* were read, never the state of the governance, so that only the            *)
(* transactions of suspension, ban and activation move it; and a call whose  *)
(* key is that of a ban gets past its start only through that transaction.   *)

(* What is read and written of an account *)

Fields == {"governanceState"} \cup SavedFields

LEMMA AccountFields ==
  ASSUME NEW u \in Accounts
  PROVE  /\ DOMAIN u = Fields
         /\ u.governanceState \in {"ACTIVE", "SUSPENDED", "BANNED"}
         /\ u.status \in {"pending_profile", "active", "suspended", "banned"}
         /\ u.abuseScore \in 0 .. MaxScore
         /\ \A k \in Kinds \cup {"userCooldownUntil", "creatorCooldownUntil"} : u[k] \in Cooldowns
  BY GovernanceAssumption DEF Accounts, Fields, SavedFields

\* A record with these fields is an account.
LEMMA IsAccount ==
  ASSUME NEW u, DOMAIN u = Fields, u = [f \in Fields |-> u[f]],
         u.governanceState \in {"ACTIVE", "SUSPENDED", "BANNED"},
         u.status \in {"pending_profile", "active", "suspended", "banned"},
         u.abuseScore \in 0 .. MaxScore,
         u.userCooldownUntil \in Cooldowns, u.creatorCooldownUntil \in Cooldowns
  PROVE  u \in Accounts
<1>1. u = [governanceState |-> u.governanceState, status |-> u.status,
           abuseScore |-> u.abuseScore, userCooldownUntil |-> u.userCooldownUntil,
           creatorCooldownUntil |-> u.creatorCooldownUntil]
  BY DEF Fields, SavedFields
<1> QED BY <1>1 DEF Accounts

\* A cooldown written leaves the rest of the account alone.
LEMMA CooldownSet ==
  ASSUME NEW u \in Accounts, NEW k \in Kinds, NEW d \in Cooldowns,
         NEW v, v = [u EXCEPT ![k] = d]
  PROVE  /\ v \in Accounts
         /\ v.governanceState = u.governanceState /\ v.status = u.status
         /\ \A j \in Kinds : v[j] = IF j = k THEN d ELSE u[j]
<1>1. CASE k = "userCooldownUntil"
  BY <1>1, GovernanceAssumption DEF Accounts
<1>2. CASE k = "creatorCooldownUntil"
  BY <1>2, GovernanceAssumption DEF Accounts
<1> QED BY <1>1, <1>2, GovernanceAssumption

LEMMA GovernanceSet ==
  ASSUME NEW u \in Accounts, NEW v, NEW state \in {"ACTIVE", "SUSPENDED", "BANNED"},
         NEW status \in {"active", "suspended", "banned"},
         v = [u EXCEPT !.governanceState = state, !.status = status]
  PROVE  /\ v \in Accounts /\ v.governanceState = state /\ v.status = status
         /\ \A k \in Kinds : v[k] = u[k]
  BY GovernanceAssumption DEF Accounts

LEMMA SavingFields ==
  ASSUME NEW saves \in Savings
  PROVE  \E a \in Accounts, F \in SUBSET SavedFields :
            saves = Restrict(a, F) /\ DOMAIN saves = F /\ \A f \in F : saves[f] = a[f]
  BY DEF Savings, Restrict

\* A save changes only what it has to write, and never the governance.
LEMMA SaveEffect ==
  ASSUME NEW u \in Accounts, NEW saves \in Savings
  PROVE  /\ Saved(saves, u) \in Accounts
         /\ Saved(saves, u).governanceState = u.governanceState
         /\ \A f \in Fields : Saved(saves, u)[f] = IF f \in DOMAIN saves THEN saves[f] ELSE u[f]
<1> DEFINE v == Saved(saves, u)
<1>1. DOMAIN u = Fields
  BY AccountFields
<1>2. /\ v = [f \in Fields |-> v[f]] /\ DOMAIN v = Fields
      /\ \A f \in Fields : v[f] = IF f \in DOMAIN saves THEN saves[f] ELSE u[f]
  BY <1>1 DEF Saved
<1>3. PICK a \in Accounts, F \in SUBSET SavedFields :
         DOMAIN saves = F /\ \A f \in F : saves[f] = a[f]
  BY SavingFields
<1>4. v.governanceState = u.governanceState
  BY <1>2, <1>3 DEF Fields, SavedFields
<1>5. \A f \in Fields : v[f] \in {a[f], u[f]}
  BY <1>2, <1>3
<1>6. /\ v.status \in {a.status, u.status} /\ v.abuseScore \in {a.abuseScore, u.abuseScore}
      /\ v.userCooldownUntil \in {a.userCooldownUntil, u.userCooldownUntil}
      /\ v.creatorCooldownUntil \in {a.creatorCooldownUntil, u.creatorCooldownUntil}
  BY <1>5 DEF Fields, SavedFields
<1> HIDE DEF v
<1>7. v \in Accounts
  BY <1>2, <1>4, <1>6, IsAccount, AccountFields
<1> QED BY <1>2, <1>4, <1>7 DEF v

\* What differs from the account read can be saved, if the governance does not.
LEMMA ChangesEffect ==
  ASSUME NEW read \in Accounts, NEW wanted \in Accounts,
         wanted.governanceState = read.governanceState
  PROVE  /\ Changes(read, wanted) \in Savings
         /\ \A f \in DOMAIN Changes(read, wanted) :
               /\ f \in SavedFields /\ wanted[f] # read[f]
               /\ Changes(read, wanted)[f] = wanted[f]
<1> DEFINE F == {f \in DOMAIN read : wanted[f] # read[f]}
<1>1. F \in SUBSET SavedFields
  BY AccountFields DEF Fields
<1>2. Changes(read, wanted) = Restrict(wanted, F)
  BY DEF Changes
<1> QED BY <1>1, <1>2 DEF Savings, Restrict

LEMMA NewAccount ==
  NewUser \in Accounts /\ Nothing \in Savings /\ DOMAIN Nothing = {}
<1>1. NewUser \in Accounts
  BY GovernanceAssumption DEF NewUser, Accounts, Cooldowns, None, Long
<1>2. Nothing \in Savings
  BY <1>1 DEF Nothing, Savings
<1> QED BY <1>1, <1>2 DEF Nothing, Restrict

LEMMA CooldownSaving ==
  ASSUME NEW u \in Accounts, NEW until \in Cooldowns
  PROVE  LET saves == Restrict([u EXCEPT !.creatorCooldownUntil = until], {"creatorCooldownUntil"})
         IN  /\ saves \in Savings /\ DOMAIN saves = {"creatorCooldownUntil"}
             /\ saves["creatorCooldownUntil"] = until
<1> DEFINE a == [u EXCEPT !.creatorCooldownUntil = until]
<1>1. a \in Accounts /\ a.creatorCooldownUntil = until
  BY DEF Accounts
<1>2. {"creatorCooldownUntil"} \in SUBSET SavedFields
  BY DEF SavedFields
<1> HIDE DEF a
<1>3. Restrict(a, {"creatorCooldownUntil"}) \in Savings
  BY <1>1, <1>2 DEF Savings
<1> QED BY <1>1, <1>3 DEF Restrict, a

-----------------------------------------------------------------------------
(* The invariant *)

\* A call has the key of its action from the preview on.
KeysAreKnown == \A c \in Calls : dispatch[c].step # "idle" => dispatch[c].key \in Keys

\* Once the transaction of a ban has committed the account is banned, and stays so.
BansStand ==
    \A c \in Calls :
        /\ dispatch[c].step \notin {"idle", "confirmed", "run"}
        /\ Action(c) = "BAN_USER"
        => user.governanceState = "BANNED"

\* What is about to be saved of a cooldown: none, or one that outlasts the one seen.
SavesOutlast ==
    \A c \in Calls : dispatch[c].step = "save" =>
        \A k \in Kinds \cap DOMAIN dispatch[c].saves :
            dispatch[c].saves[k] = None \/ dispatch[c].saves[k] >= dispatch[c].seen

AbuseOutlasts ==
    /\ abuse.step \in {"read", "save"} => abuse.kind \in Kinds
    /\ abuse.step = "save" => Automatic(abuse.score, abuse.kind) >= abuse.seen

Governance ==
    /\ GovernanceTypes /\ KeysAreKnown /\ ClaimsAreExclusive /\ BansStand /\ RecordedBanStands
    /\ SweepsFindAll /\ SavesOutlast /\ AbuseOutlasts

\* Of an account whose profile was complete from the start.
StatusIsProjected ==
    /\ user.status = Projected(user.governanceState)
    /\ submission # "activates"
    /\ \A c \in Calls : "status" \notin DOMAIN dispatch[c].saves

\* A ban is final.
BanIsFinal == [][user.governanceState = "BANNED" => user'.governanceState = "BANNED"]_governanceVars

-----------------------------------------------------------------------------
(* Where the calls go *)

\* What each move of a call does to it; the other calls stay as they are.
LEMMA GotoEffect ==
  ASSUME GovernanceTypes, NEW c \in Calls, NEW step \in Steps, Goto(c, step)
  PROVE  /\ dispatch' \in [Calls -> CallStates]
         /\ \A d \in Calls \ {c} : dispatch'[d] = dispatch[d]
         /\ dispatch'[c].step = step /\ dispatch'[c].key = dispatch[c].key
         /\ dispatch'[c].left = dispatch[c].left
         /\ dispatch'[c].saves = Nothing
<1>1. None \in Cooldowns /\ Nothing \in Savings
  BY NewAccount DEF None, Cooldowns, Long
<1>2. dispatch \in [Calls -> CallStates] /\ dispatch[c] \in CallStates
  BY DEF GovernanceTypes
<1> DEFINE new == [dispatch[c] EXCEPT !.step = step, !.saves = Nothing, !.seen = None]
<1>3. /\ new \in CallStates /\ new.step = step /\ new.saves = Nothing
      /\ new.key = dispatch[c].key /\ new.left = dispatch[c].left
  BY <1>1, <1>2 DEF CallStates
<1>4. dispatch' = [dispatch EXCEPT ![c] = new]
  BY <1>2 DEF Goto, CallStates
<1> HIDE DEF new
<1> QED BY <1>2, <1>3, <1>4

LEMMA DropEffect ==
  ASSUME GovernanceTypes, NEW c \in Calls, Drop(c)
  PROVE  /\ dispatch' \in [Calls -> CallStates]
         /\ \A d \in Calls \ {c} : dispatch'[d] = dispatch[d]
         /\ dispatch'[c] = Idle /\ dispatch'[c].step = "idle"
  BY NewAccount DEF GovernanceTypes, CallStates, Drop, Idle, None, Cooldowns, Long, Steps

LEMMA PreviewEffect ==
  ASSUME GovernanceTypes, NEW c \in Calls, Preview(c)
  PROVE  /\ dispatch' \in [Calls -> CallStates]
         /\ \A d \in Calls \ {c} : dispatch'[d] = dispatch[d]
         /\ dispatch'[c].step = "confirmed" /\ dispatch'[c].key \in Keys
         /\ dispatch'[c].saves = dispatch[c].saves
<1>1. dispatch \in [Calls -> CallStates] /\ dispatch[c] \in CallStates
  BY DEF GovernanceTypes
<1>2. PICK k \in Keys : dispatch' = [dispatch EXCEPT ![c].step = "confirmed", ![c].key = k]
  BY DEF Preview
<1> DEFINE new == [dispatch[c] EXCEPT !.step = "confirmed", !.key = k]
<1>3. /\ new \in CallStates /\ new.step = "confirmed" /\ new.key = k
      /\ new.saves = dispatch[c].saves
  BY <1>1 DEF CallStates, Steps
<1>4. dispatch' = [dispatch EXCEPT ![c] = new]
  BY <1>1, <1>2 DEF CallStates
<1> HIDE DEF new
<1> QED BY <1>1, <1>3, <1>4

LEMMA FindEffect ==
  ASSUME GovernanceTypes, NEW c \in Calls, Find(c)
  PROVE  /\ dispatch' \in [Calls -> CallStates]
         /\ \A d \in Calls \ {c} : dispatch'[d] = dispatch[d]
         /\ dispatch'[c].step = "sweep" /\ dispatch'[c].left = Found
         /\ dispatch'[c].key = dispatch[c].key /\ dispatch'[c].saves = dispatch[c].saves
<1>1. Found \in SUBSET Bookings
  BY DEF Found
<1> QED BY <1>1 DEF GovernanceTypes, CallStates, Find, Steps

LEMMA TerminateEffect ==
  ASSUME GovernanceTypes, NEW c \in Calls, NEW b \in dispatch[c].left, 
         dispatch' = [dispatch EXCEPT ![c].left = @ \ {b}]
  PROVE  /\ dispatch' \in [Calls -> CallStates]
         /\ \A d \in Calls \ {c} : dispatch'[d] = dispatch[d]
         /\ dispatch'[c].step = dispatch[c].step /\ dispatch'[c].left = dispatch[c].left \ {b}
         /\ dispatch'[c].key = dispatch[c].key /\ dispatch'[c].saves = dispatch[c].saves
<1>1. dispatch[c] \in CallStates /\ dispatch[c].left \in SUBSET Bookings
  BY DEF GovernanceTypes, CallStates
<1>2. dispatch[c].left \ {b} \in SUBSET Bookings
  BY <1>1
<1> QED BY <1>1, <1>2 DEF GovernanceTypes, CallStates

\* A call reads the account and will save what it wants changed of it.
LEMMA ReadEffect ==
  ASSUME GovernanceTypes, NEW c \in Calls, NEW saves \in Savings,
         dispatch' = [dispatch EXCEPT ![c].step = "save", ![c].saves = saves]
  PROVE  /\ dispatch' \in [Calls -> CallStates]
         /\ \A d \in Calls \ {c} : dispatch'[d] = dispatch[d]
         /\ dispatch'[c].step = "save" /\ dispatch'[c].key = dispatch[c].key
         /\ dispatch'[c].saves = saves
<1>1. dispatch \in [Calls -> CallStates] /\ dispatch[c] \in CallStates
  BY DEF GovernanceTypes
<1> DEFINE new == [dispatch[c] EXCEPT !.step = "save", !.saves = saves]
<1>2. /\ new \in CallStates /\ new.step = "save" /\ new.key = dispatch[c].key
      /\ new.saves = saves
  BY <1>1 DEF CallStates, Steps
<1>3. dispatch' = [dispatch EXCEPT ![c] = new]
  BY <1>1 DEF CallStates
<1> HIDE DEF new
<1> QED BY <1>1, <1>2, <1>3

\* The three ways to begin a save, and what each will write.
LEMMA Readings ==
  ASSUME GovernanceTypes, NEW c \in Calls, ReadForReset(c) \/ ReadForRevoke(c)
  PROVE  /\ dispatch' \in [Calls -> CallStates]
         /\ \A d \in Calls \ {c} : dispatch'[d] = dispatch[d]
         /\ dispatch'[c].step = "save" /\ dispatch'[c].key = dispatch[c].key
         /\ \A k \in Kinds \cap DOMAIN dispatch'[c].saves : dispatch'[c].saves[k] = None
         /\ "status" \in DOMAIN dispatch'[c].saves => user.status # Projected(user.governanceState)
<1>1. user \in Accounts /\ dispatch[c].seen \in Cooldowns
  BY DEF GovernanceTypes, CallStates
<1>2. CASE ReadForReset(c)
  <2> DEFINE wanted == Reset(user)
  <2>1. /\ wanted \in Accounts /\ wanted.governanceState = user.governanceState
        /\ \A k \in Kinds : wanted[k] = None
        /\ wanted.status = Projected(user.governanceState)
    <3> DEFINE status == Projected(user.governanceState)
    <3>1. status \in {"active", "suspended", "banned"}
      BY DEF Projected
    <3>2. None \in Cooldowns /\ 0 \in 0 .. MaxScore
      BY GovernanceAssumption DEF Cooldowns, None, Long
    <3>3. wanted = [user EXCEPT !.abuseScore = 0, !.userCooldownUntil = None,
                                !.creatorCooldownUntil = None, !.status = status]
      BY DEF Reset
    <3> HIDE DEF status
    <3>4. /\ wanted \in Accounts /\ wanted.governanceState = user.governanceState
          /\ wanted.userCooldownUntil = None /\ wanted.creatorCooldownUntil = None
          /\ wanted.status = status
      BY <1>1, <3>1, <3>2, <3>3 DEF Accounts
    <3> QED BY <3>4, GovernanceAssumption DEF status
  <2>2. dispatch' = [dispatch EXCEPT ![c].step = "save", ![c].saves = Changes(user, wanted)]
    BY <1>2 DEF ReadForReset
  <2> HIDE DEF wanted
  <2>3. Changes(user, wanted) \in Savings
    BY <1>1, <2>1, ChangesEffect
  <2>4. \A f \in DOMAIN Changes(user, wanted) :
            wanted[f] # user[f] /\ Changes(user, wanted)[f] = wanted[f]
    BY <1>1, <2>1, ChangesEffect
  <2> DEFINE saves == Changes(user, wanted)
  <2>5. dispatch' = [dispatch EXCEPT ![c].step = "save", ![c].saves = saves] /\ saves \in Savings
    BY <2>2, <2>3
  <2> HIDE DEF saves
  <2>6. /\ dispatch' \in [Calls -> CallStates]
        /\ \A d \in Calls \ {c} : dispatch'[d] = dispatch[d]
        /\ dispatch'[c].step = "save" /\ dispatch'[c].key = dispatch[c].key
        /\ dispatch'[c].saves = saves
    BY <2>5, ReadEffect
  <2> QED BY <2>1, <2>4, <2>6 DEF saves
<1>3. CASE ReadForRevoke(c)
  <2> DEFINE wanted == [user EXCEPT !.creatorCooldownUntil = None]
  <2>1. /\ wanted \in Accounts /\ wanted.governanceState = user.governanceState
        /\ \A k \in Kinds : wanted[k] # user[k] => wanted[k] = None
        /\ wanted.status = user.status
    BY <1>1, GovernanceAssumption DEF Accounts, Cooldowns, None, Long
  <2>2. dispatch' = [dispatch EXCEPT ![c].step = "save", ![c].saves = Changes(user, wanted)]
    BY <1>3 DEF ReadForRevoke
  <2> HIDE DEF wanted
  <2>3. Changes(user, wanted) \in Savings
    BY <1>1, <2>1, ChangesEffect
  <2>4. \A f \in DOMAIN Changes(user, wanted) :
            wanted[f] # user[f] /\ Changes(user, wanted)[f] = wanted[f]
    BY <1>1, <2>1, ChangesEffect
  <2> DEFINE saves == Changes(user, wanted)
  <2>5. dispatch' = [dispatch EXCEPT ![c].step = "save", ![c].saves = saves] /\ saves \in Savings
    BY <2>2, <2>3
  <2> HIDE DEF saves
  <2>6. /\ dispatch' \in [Calls -> CallStates]
        /\ \A d \in Calls \ {c} : dispatch'[d] = dispatch[d]
        /\ dispatch'[c].step = "save" /\ dispatch'[c].key = dispatch[c].key
        /\ dispatch'[c].saves = saves
    BY <2>5, ReadEffect
  <2> QED BY <2>1, <2>4, <2>6 DEF saves
<1> QED BY <1>2, <1>3

LEMMA ApplyReading ==
  ASSUME GovernanceTypes, NEW c \in Calls, ReadForApply(c)
  PROVE  \/ Goto(c, "done")
         \/ /\ dispatch' \in [Calls -> CallStates]
            /\ \A d \in Calls \ {c} : dispatch'[d] = dispatch[d]
            /\ dispatch'[c].step = "save" /\ dispatch'[c].key = dispatch[c].key
            /\ DOMAIN dispatch'[c].saves = {"creatorCooldownUntil"}
            /\ dispatch'[c].saves["creatorCooldownUntil"] >= dispatch'[c].seen
<1>1. user \in Accounts /\ user.creatorCooldownUntil \in Cooldowns
  BY DEF GovernanceTypes, Accounts
<1>2. ASSUME NEW until \in {Short, Long}, until >= user.creatorCooldownUntil,
             dispatch' = [dispatch EXCEPT ![c].step = "save", ![c].seen = user.creatorCooldownUntil,
                 ![c].saves = Restrict([user EXCEPT !.creatorCooldownUntil = until],
                                       {"creatorCooldownUntil"})]
      PROVE  /\ dispatch' \in [Calls -> CallStates]
             /\ \A d \in Calls \ {c} : dispatch'[d] = dispatch[d]
             /\ dispatch'[c].step = "save" /\ dispatch'[c].key = dispatch[c].key
             /\ DOMAIN dispatch'[c].saves = {"creatorCooldownUntil"}
             /\ dispatch'[c].saves["creatorCooldownUntil"] >= dispatch'[c].seen
  <2>1. until \in Cooldowns
    BY DEF Short, Long, Cooldowns, None
  <2> DEFINE saves == Restrict([user EXCEPT !.creatorCooldownUntil = until], {"creatorCooldownUntil"})
  <2>2. /\ saves \in Savings /\ DOMAIN saves = {"creatorCooldownUntil"}
        /\ saves["creatorCooldownUntil"] = until
    BY <1>1, <2>1, CooldownSaving
  <2> DEFINE seen == user.creatorCooldownUntil
  <2>3. dispatch' = [dispatch EXCEPT ![c].step = "save", ![c].seen = seen, ![c].saves = saves]
    BY <1>2
  <2>4. seen \in Cooldowns /\ saves \in Savings
    BY <1>1, <2>2
  <2>6. until >= seen
    BY <1>2
  <2> HIDE DEF saves, seen
  <2>5. /\ dispatch' \in [Calls -> CallStates]
        /\ \A d \in Calls \ {c} : dispatch'[d] = dispatch[d]
        /\ dispatch'[c].step = "save" /\ dispatch'[c].key = dispatch[c].key
        /\ dispatch'[c].saves = saves /\ dispatch'[c].seen = seen
    <3>1. dispatch \in [Calls -> CallStates] /\ dispatch[c] \in CallStates
      BY DEF GovernanceTypes
    <3> DEFINE new == [dispatch[c] EXCEPT !.step = "save", !.seen = seen, !.saves = saves]
    <3>2. /\ new \in CallStates /\ new.step = "save" /\ new.key = dispatch[c].key
          /\ new.saves = saves /\ new.seen = seen
      BY <2>4, <3>1 DEF CallStates, Steps
    <3>3. dispatch' = [dispatch EXCEPT ![c] = new]
      BY <2>3, <3>1 DEF CallStates
    <3> HIDE DEF new
    <3> QED BY <3>1, <3>2, <3>3
  <2> QED BY <2>2, <2>5, <2>6
<1> QED BY <1>2 DEF ReadForApply, Outlasts

\* One step of one call, by what becomes of the call.
Moves(c) ==
    \/ ClaimExecution(c) \/ Suspend(c) \/ Ban(c) \/ Activate(c) \/ CheckCooldown(c) \/ Save(c)
Ends(c) == Answer(c) \/ Fail(c) \/ Finish(c)
Reads(c) == ReadForReset(c) \/ ReadForRevoke(c)
Sweeps(c) == Terminate(c) \/ LeaveAsItIs(c)
Elsewhere ==
    \/ applyAbuseScore \/ applyCooldownIfNeeded \/ ReadAutomatic \/ SaveAutomatic
    \/ ReadForSubmission \/ SaveSubmittedUser
    \/ \E k \in Kinds : Expire(k)
    \/ \E b \in Bookings : Ask(b) \/ Request(b) \/ StartAccept(b) \/ Accept(b) \/ End(b)
    \/ UNCHANGED governanceVars

LEMMA AllSteps ==
  ASSUME [GovernanceNext]_governanceVars
  PROVE  \/ \E c \in Calls : \/ Preview(c) \/ Moves(c) \/ Ends(c) \/ Reads(c)
                             \/ ReadForApply(c) \/ Find(c) \/ Sweeps(c)
         \/ Elsewhere
  BY DEF GovernanceNext, Moves, Ends, Reads, Sweeps, Elsewhere

LEMMA MoveEffect ==
  ASSUME GovernanceTypes, NEW c \in Calls, Moves(c)
  PROVE  \E step \in Steps \ {"idle", "confirmed", "save"} : Goto(c, step)
  BY DEF Moves, ClaimExecution, Suspend, Ban, Activate, CheckCooldown, Save, Steps

LEMMA EndEffect ==
  ASSUME NEW c \in Calls, Ends(c) PROVE Drop(c)
  BY DEF Ends, Answer, Fail, Finish

LEMMA ElsewhereEffect ==
  ASSUME Elsewhere PROVE UNCHANGED <<dispatch, execution>>
  BY DEF Elsewhere, applyAbuseScore, applyCooldownIfNeeded, ReadAutomatic, SaveAutomatic,
     ReadForSubmission, SaveSubmittedUser, Expire, Ask, Request, StartAccept, Accept, End,
     governanceVars

LEMMA DispatchTypes ==
  ASSUME GovernanceTypes, [GovernanceNext]_governanceVars
  PROVE  dispatch' \in [Calls -> CallStates]
<1>1. ASSUME NEW c \in Calls, Preview(c) \/ Find(c) \/ Reads(c)
      PROVE  dispatch' \in [Calls -> CallStates]
  BY <1>1, PreviewEffect, FindEffect, Readings DEF Reads
<1>2. ASSUME NEW c \in Calls, Moves(c) \/ Ends(c) PROVE dispatch' \in [Calls -> CallStates]
  BY <1>2, MoveEffect, EndEffect, GotoEffect, DropEffect
<1>3. ASSUME NEW c \in Calls, ReadForApply(c) PROVE dispatch' \in [Calls -> CallStates]
  BY <1>3, ApplyReading, GotoEffect DEF Steps
<1>4. ASSUME NEW c \in Calls, Sweeps(c) PROVE dispatch' \in [Calls -> CallStates]
  BY <1>4, TerminateEffect DEF Sweeps, Terminate, LeaveAsItIs
<1>5. CASE Elsewhere
  BY <1>5, ElsewhereEffect DEF GovernanceTypes
<1> QED BY <1>1, <1>2, <1>3, <1>4, <1>5, AllSteps

\* What each step makes of the account.
LEMMA UserMoves ==
  ASSUME GovernanceTypes, AbuseOutlasts, [GovernanceNext]_governanceVars
  PROVE  /\ user' \in Accounts
         /\ user.governanceState = "BANNED" => user'.governanceState = "BANNED"
         /\ \/ user'.governanceState = user.governanceState
            \/ \E c \in Calls : Suspend(c) \/ Ban(c) \/ Activate(c)
<1>1. user \in Accounts
  BY DEF GovernanceTypes
<1>2. ASSUME NEW c \in Calls, Suspend(c) \/ Ban(c) \/ Activate(c)
      PROVE  /\ user' \in Accounts
             /\ user.governanceState = "BANNED" => user'.governanceState = "BANNED"
  <2>1. CASE Suspend(c)
    <3>1. user' = [user EXCEPT !.governanceState = "SUSPENDED", !.status = "suspended"]
      BY <2>1 DEF Suspend
    <3> QED BY <1>1, <2>1, <3>1, GovernanceSet DEF Suspend, Suspendable
  <2>2. CASE Ban(c)
    <3>1. \/ user' = [user EXCEPT !.governanceState = "BANNED", !.status = "banned"]
          \/ user' = user
      BY <2>2 DEF Ban
    <3> QED BY <1>1, <3>1, GovernanceSet
  <2>3. CASE Activate(c)
    <3>1. user' = [user EXCEPT !.governanceState = "ACTIVE", !.status = "active"]
      BY <2>3 DEF Activate
    <3> QED BY <1>1, <2>3, <3>1, GovernanceSet DEF Activate
  <2> QED BY <1>2, <2>1, <2>2, <2>3
<1>3. ASSUME NEW c \in Calls, Save(c)
      PROVE  user' \in Accounts /\ user'.governanceState = user.governanceState
  <2>1. dispatch[c].saves \in Savings
    BY DEF GovernanceTypes, CallStates
  <2>2. user' = Saved(dispatch[c].saves, user)
    BY <1>3 DEF Save
  <2> QED BY <1>1, <2>1, <2>2, SaveEffect
<1>4. ASSUME NEW c \in Calls,
             \/ Preview(c) \/ ClaimExecution(c) \/ CheckCooldown(c) \/ Ends(c) \/ Reads(c)
             \/ ReadForApply(c) \/ Find(c) \/ Sweeps(c)
      PROVE  user' = user
  BY <1>4 DEF Preview, ClaimExecution, CheckCooldown, Ends, Answer, Fail, Finish, Reads,
     ReadForReset, ReadForRevoke, ReadForApply, Find, Sweeps,
       Terminate, LeaveAsItIs
<1>5. ASSUME Elsewhere
      PROVE  user' \in Accounts /\ user'.governanceState = user.governanceState
  <2>2. ASSUME NEW k \in Kinds, Expire(k)
        PROVE  user' \in Accounts /\ user'.governanceState = user.governanceState
    <3>1. None \in Cooldowns
      BY DEF None, Cooldowns, Long
    <3>2. user' = [user EXCEPT ![k] = None]
      BY <2>2 DEF Expire
    <3>3. user' \in Accounts
      BY <1>1, <3>1, <3>2, CooldownSet, Zenon
    <3>4. user'.governanceState = user.governanceState
      BY <1>1, <3>1, <3>2, CooldownSet, SMT
    <3> QED BY <3>3, <3>4
  <2>3. CASE SaveAutomatic
    <3>1. abuse.kind \in Kinds /\ Automatic(abuse.score, abuse.kind) \in Cooldowns
      BY <2>3, GovernanceAssumption
      DEF AbuseOutlasts, SaveAutomatic, Automatic, GovernanceTypes, Cooldowns, None, Short, Long
    <3> DEFINE d == Automatic(abuse.score, abuse.kind)
    <3>2. user' = [user EXCEPT ![abuse.kind] = d]
      BY <2>3 DEF SaveAutomatic
    <3>3. d \in Cooldowns
      BY <3>1
    <3> HIDE DEF d
    <3>4. user' \in Accounts
      BY <1>1, <3>1, <3>2, <3>3, CooldownSet, Zenon
    <3>5. user'.governanceState = user.governanceState
      BY <1>1, <3>1, <3>2, <3>3, CooldownSet, SMT
    <3> QED BY <3>4, <3>5
  <2>4. CASE applyAbuseScore
    <3>1. PICK score \in 0 .. MaxScore : user' = [user EXCEPT !.abuseScore = score]
      BY <2>4 DEF applyAbuseScore
    <3> QED BY <1>1, <3>1 DEF Accounts
  <2>5. CASE SaveSubmittedUser
    <3>1. user' = [user EXCEPT !.status = "active"] \/ user' = user
      BY <2>5 DEF SaveSubmittedUser
    <3> QED BY <1>1, <3>1 DEF Accounts
  <2>6. CASE user' = user
    BY <1>1, <2>6
  <2> QED BY <1>5, <2>2, <2>3, <2>4, <2>5, <2>6 DEF Elsewhere, applyCooldownIfNeeded,
          ReadAutomatic, ReadForSubmission, Ask, Request, StartAccept, Accept, End, governanceVars
<1> QED BY <1>1, <1>2, <1>3, <1>4, <1>5, AllSteps DEF Moves

\* A call that goes on keeps its key; the first thing it does is to claim it.
Advances(c) == Moves(c) \/ Reads(c) \/ ReadForApply(c) \/ Find(c) \/ Sweeps(c)

LEMMA AdvanceEffect ==
  ASSUME GovernanceTypes, NEW c \in Calls, Advances(c)
  PROVE  /\ \A d \in Calls \ {c} : dispatch'[d] = dispatch[d]
         /\ dispatch'[c].key = dispatch[c].key
         /\ dispatch[c].step # "idle" /\ dispatch'[c].step \notin {"idle", "confirmed"}
         /\ dispatch[c].step = "confirmed" => ClaimExecution(c)
<1>1. CASE Moves(c)
  <2>1. PICK step \in Steps \ {"idle", "confirmed", "save"} : Goto(c, step)
    BY <1>1, MoveEffect
  <2>2. /\ \A d \in Calls \ {c} : dispatch'[d] = dispatch[d]
        /\ dispatch'[c].key = dispatch[c].key /\ dispatch'[c].step = step
    BY <2>1, GotoEffect
  <2>3. dispatch[c].step # "idle" /\ (dispatch[c].step = "confirmed" => ClaimExecution(c))
    BY <1>1 DEF Moves, ClaimExecution, Suspend, Ban, Activate, CheckCooldown, Save, At
  <2> QED BY <2>2, <2>3
<1>2. CASE Reads(c)
  BY <1>2, Readings DEF Reads, ReadForReset, ReadForRevoke, At
<1>3. CASE ReadForApply(c)
  <2>1. dispatch[c].step = "apply" /\ "done" \in Steps
    BY <1>3 DEF ReadForApply, Steps
  <2>2. CASE Goto(c, "done")
    BY <2>1, <2>2, GotoEffect
  <2> QED BY <1>3, <2>1, <2>2, ApplyReading
<1>4. CASE Find(c)
  BY <1>4, FindEffect DEF Find
<1>5. CASE Sweeps(c)
  <2>1. dispatch[c].step = "sweep"
    BY <1>5 DEF Sweeps, Terminate, LeaveAsItIs
  <2>2. PICK b \in dispatch[c].left : dispatch' = [dispatch EXCEPT ![c].left = @ \ {b}]
    BY <1>5 DEF Sweeps, Terminate, LeaveAsItIs
  <2> QED BY <2>1, <2>2, TerminateEffect
<1> QED BY <1>1, <1>2, <1>3, <1>4, <1>5 DEF Advances

LEMMA DispatchSteps ==
  ASSUME GovernanceTypes, [GovernanceNext]_governanceVars
  PROVE  \/ \E c \in Calls : Preview(c) \/ Ends(c) \/ Advances(c)
         \/ Elsewhere /\ UNCHANGED <<dispatch, execution>>
  BY AllSteps, ElsewhereEffect DEF Advances

LEMMA KeysNext ==
  ASSUME GovernanceTypes, KeysAreKnown, [GovernanceNext]_governanceVars
  PROVE  KeysAreKnown'
<1>1. ASSUME NEW c \in Calls, Preview(c) PROVE KeysAreKnown'
  BY <1>1, PreviewEffect DEF KeysAreKnown
<1>2. ASSUME NEW c \in Calls, Ends(c) PROVE KeysAreKnown'
  BY <1>2, EndEffect, DropEffect DEF KeysAreKnown
<1>3. ASSUME NEW c \in Calls, Advances(c) PROVE KeysAreKnown'
  BY <1>3, AdvanceEffect DEF KeysAreKnown
<1>4. CASE UNCHANGED <<dispatch, execution>>
  BY <1>4 DEF KeysAreKnown
<1> QED BY <1>1, <1>2, <1>3, <1>4, DispatchSteps

LEMMA ExecutionMoves ==
  ASSUME [GovernanceNext]_governanceVars
  PROVE  \/ execution' = execution
         \/ \E c \in Calls : ClaimExecution(c) \/ Finish(c)
<1>1. ASSUME NEW c \in Calls, ~ ClaimExecution(c), ~ Finish(c),
             \/ Preview(c) \/ Moves(c) \/ Ends(c) \/ Reads(c)
             \/ ReadForApply(c) \/ Find(c) \/ Sweeps(c)
      PROVE  execution' = execution
  BY <1>1 DEF Preview, Moves, Suspend, Ban, Activate, CheckCooldown, Save, Ends, Answer, Fail,
     Reads, ReadForReset, ReadForRevoke, ReadForApply, Find, Sweeps,
       Terminate, LeaveAsItIs
<1> QED BY <1>1, AllSteps, ElsewhereEffect

\* A key that is claimed belongs to the call that claimed it, until it ends.
LEMMA ClaimsNext ==
  ASSUME GovernanceTypes, KeysAreKnown, ClaimsAreExclusive, [GovernanceNext]_governanceVars
  PROVE  ClaimsAreExclusive'
<1>0. execution \in [Keys -> {"NONE", "IN_PROGRESS", "EXECUTED"}]
  BY DEF GovernanceTypes
<1>1. ASSUME NEW c \in Calls, Preview(c) PROVE ClaimsAreExclusive'
  <2>1. execution' = execution
    BY <1>1 DEF Preview
  <2> QED BY <1>1, <2>1, PreviewEffect DEF ClaimsAreExclusive, Working
<1>2. ASSUME NEW c \in Calls, Answer(c) \/ Fail(c) PROVE ClaimsAreExclusive'
  <2>1. execution' = execution /\ Drop(c)
    BY <1>2 DEF Answer, Fail
  <2> QED BY <2>1, DropEffect DEF ClaimsAreExclusive, Working
<1>3. ASSUME NEW c \in Calls, Finish(c) PROVE ClaimsAreExclusive'
  <2>1. Working(c) /\ Drop(c) /\ execution' = [execution EXCEPT ![dispatch[c].key] = "EXECUTED"]
    BY <1>3 DEF Finish, Finished, Working
  <2>2. \A d \in Calls \ {c} : Working(d) =>
           dispatch[d].key \in Keys /\ dispatch[d].key # dispatch[c].key
    BY <2>1 DEF ClaimsAreExclusive, KeysAreKnown, Working
  <2>3. \A k \in Keys : k # dispatch[c].key => execution'[k] = execution[k]
    BY <1>0, <2>1
  <2> QED BY <2>1, <2>2, <2>3, DropEffect DEF ClaimsAreExclusive, Working
<1>4. ASSUME NEW c \in Calls, ClaimExecution(c) PROVE ClaimsAreExclusive'
  <2> DEFINE key == dispatch[c].key
  <2>1. /\ dispatch[c].step = "confirmed" /\ execution[key] = "NONE"
        /\ execution' = [execution EXCEPT ![key] = "IN_PROGRESS"]
    BY <1>4 DEF ClaimExecution, Claimable
  <2>2. key \in Keys
    BY <2>1 DEF KeysAreKnown
  <2>3. \A d \in Calls : Working(d) => dispatch[d].key \in Keys /\ dispatch[d].key # key
    BY <2>1 DEF ClaimsAreExclusive, KeysAreKnown, Working
  <2>4. /\ execution'[key] = "IN_PROGRESS"
        /\ \A k \in Keys : k # key => execution'[k] = execution[k]
    BY <1>0, <2>1, <2>2
  <2>5. Advances(c)
    BY <1>4 DEF Advances, Moves
  <2>6. dispatch'[c].key = key /\ \A d \in Calls \ {c} : dispatch'[d] = dispatch[d]
    BY <2>5, AdvanceEffect
  <2> HIDE DEF key
  <2> QED BY <2>3, <2>4, <2>6 DEF ClaimsAreExclusive, Working
<1>5. ASSUME NEW c \in Calls, Advances(c), ~ ClaimExecution(c), execution' = execution
      PROVE  ClaimsAreExclusive'
  <2>1. Working(c)
    BY <1>5, AdvanceEffect DEF Working
  <2> QED BY <1>5, <2>1, AdvanceEffect DEF ClaimsAreExclusive, Working
<1>6. CASE UNCHANGED <<dispatch, execution>>
  BY <1>6 DEF ClaimsAreExclusive, Working
<1>7. ASSUME NEW c \in Calls, Advances(c), ~ ClaimExecution(c) PROVE execution' = execution
  BY <1>7 DEF Advances, Moves, Suspend, Ban, Activate, CheckCooldown, Save,
     Reads, ReadForReset, ReadForRevoke, ReadForApply, Find, Sweeps,
       Terminate, LeaveAsItIs
<1> QED BY <1>1, <1>2, <1>3, <1>4, <1>5, <1>6, <1>7, DispatchSteps DEF Ends

\* Only the transaction of the ban leads a call with the key of one past its start.
LEMMA BansNext ==
  ASSUME GovernanceTypes, AbuseOutlasts, BansStand, [GovernanceNext]_governanceVars
  PROVE  BansStand'
<1>0. user.governanceState = "BANNED" => user'.governanceState = "BANNED"
  BY UserMoves
<1>1. ASSUME NEW c \in Calls, Preview(c) \/ Ends(c) PROVE BansStand'
  BY <1>0, <1>1, PreviewEffect, EndEffect, DropEffect DEF BansStand, Action
<1>2. ASSUME NEW c \in Calls, Advances(c) PROVE BansStand'
  <2>1. ASSUME Action(c) = "BAN_USER", dispatch'[c].step # "run"
        PROVE  user'.governanceState = "BANNED"
    <3>1. CASE dispatch[c].step \notin {"idle", "confirmed", "run"}
      BY <1>0, <2>1, <3>1 DEF BansStand
    <3>2. CASE dispatch[c].step = "confirmed"
      <4>1. Goto(c, "run") /\ "run" \in Steps
        BY <1>2, <3>2, AdvanceEffect DEF ClaimExecution, Steps
      <4> QED BY <2>1, <4>1, GotoEffect
    <3>3. CASE dispatch[c].step = "run"
      <4>1. Ban(c)
        BY <1>2, <2>1, <3>3 DEF Advances, Moves, ClaimExecution, Suspend, Activate, CheckCooldown,
           Save, Reads, ReadForReset, ReadForRevoke, ReadForApply, Find, Sweeps, Terminate, LeaveAsItIs, At
      <4>2. user' = [user EXCEPT !.governanceState = "BANNED", !.status = "banned"] \/ user' = user
        BY <4>1 DEF Ban
      <4>3. user \in Accounts
        BY DEF GovernanceTypes
      <4>4. user' = user => user.governanceState = "BANNED"
        BY <4>1, <4>2, <4>3, GovernanceSet DEF Ban
      <4> QED BY <4>2, <4>3, <4>4, GovernanceSet
    <3> QED BY <1>2, <3>1, <3>2, <3>3, AdvanceEffect
  <2> QED BY <1>0, <1>2, <2>1, AdvanceEffect DEF BansStand, Action
<1>3. CASE UNCHANGED dispatch
  BY <1>0, <1>3 DEF BansStand, Action
<1> QED BY <1>1, <1>2, <1>3, DispatchSteps

LEMMA RecordsNext ==
  ASSUME GovernanceTypes, AbuseOutlasts, BansStand, RecordedBanStands, KeysAreKnown,
         [GovernanceNext]_governanceVars
  PROVE  RecordedBanStands'
<1>0. user.governanceState = "BANNED" => user'.governanceState = "BANNED"
  BY UserMoves
<1>1. ASSUME NEW c \in Calls, ClaimExecution(c) PROVE RecordedBanStands'
  <2>1. \A k \in Keys : execution'[k] = "EXECUTED" => execution[k] = "EXECUTED"
    BY <1>1 DEF ClaimExecution, GovernanceTypes
  <2> QED BY <1>0, <2>1 DEF RecordedBanStands, Keys, Actions
<1>2. ASSUME NEW c \in Calls, Finish(c) PROVE RecordedBanStands'
  <2>1. \A k \in Keys : k # dispatch[c].key => execution'[k] = execution[k]
    BY <1>2 DEF Finish, GovernanceTypes
  <2>2. ASSUME NEW r \in Reasons, dispatch[c].key = <<r, "BAN_USER">>
        PROVE  user.governanceState = "BANNED"
    <3>1. Action(c) = "BAN_USER"
      BY <2>2 DEF Action
    <3> QED BY <1>2, <3>1 DEF Finish, Finished, BansStand
  <2> QED BY <1>0, <2>1, <2>2 DEF RecordedBanStands, Keys, Actions
<1>3. CASE execution' = execution
  BY <1>0, <1>3 DEF RecordedBanStands
<1> QED BY <1>1, <1>2, <1>3, ExecutionMoves

\* What a step makes of the bookings a suspension or ban would end.
LEMMA TerminableMoves ==
  ASSUME GovernanceTypes, [GovernanceNext]_governanceVars, NEW b \in Bookings, Terminable(b)'
  PROVE  Terminable(b) \/ Request(b)
<1>1. booking \in [Bookings -> {"NONE", "REQUESTED", "CONFIRMED", "ENDED"}]
  BY DEF GovernanceTypes
<1>2. CASE booking' = booking
  BY <1>2 DEF Terminable
<1>3. ASSUME NEW a \in Bookings, booking' = [booking EXCEPT ![a] = "ENDED"] PROVE Terminable(b)
  BY <1>1, <1>3 DEF Terminable
<1>4. ASSUME NEW c \in Calls, Sweeps(c) PROVE Terminable(b)
  <2>1. dispatch[c].left \subseteq Bookings
    BY DEF GovernanceTypes, CallStates
  <2>2. PICK a \in dispatch[c].left :
           booking' = booking \/ booking' = [booking EXCEPT ![a] = "ENDED"]
    BY <1>4 DEF Sweeps, Terminate, LeaveAsItIs
  <2>3. a \in Bookings
    BY <2>1
  <2> QED BY <1>1, <2>2, <2>3 DEF Terminable
<1>5. ASSUME NEW a \in Bookings, Request(a) PROVE Terminable(b) \/ Request(b)
  BY <1>1, <1>5 DEF Request, Terminable
<1>6. ASSUME NEW a \in Bookings, Accept(a) PROVE Terminable(b)
  BY <1>1, <1>6 DEF Accept, Terminable
<1>7. ASSUME NEW c \in Calls, Preview(c) \/ Moves(c) \/ Ends(c) \/ Reads(c)
                              \/ ReadForApply(c) \/ Find(c)
      PROVE  booking' = booking
  BY <1>7 DEF Preview, Moves, ClaimExecution, Suspend, Ban, Activate, CheckCooldown, Save,
     Ends, Answer, Fail, Finish, Reads, ReadForReset, ReadForRevoke, ReadForApply, Find
<1>8. CASE Elsewhere
  BY <1>2, <1>3, <1>5, <1>6, <1>8 DEF Elsewhere, applyAbuseScore, applyCooldownIfNeeded,
     ReadAutomatic, SaveAutomatic, ReadForSubmission, SaveSubmittedUser, Expire, Ask, StartAccept,
     End, governanceVars
<1> QED BY <1>2, <1>4, <1>7, <1>8, AllSteps

SweptBy(c, b) == dispatch[c].step = "find" \/ (dispatch[c].step = "sweep" /\ b \in dispatch[c].left)
Swept(b) == b \in unswept \/ \E c \in Calls : SweptBy(c, b)

\* What was to be ended is still to be ended, unless the account was let off.
LEMMA SweptStays ==
  ASSUME GovernanceTypes, [GovernanceNext]_governanceVars, NEW b \in Bookings,
         Terminable(b)', Terminable(b), Swept(b), \A c \in Calls : ~ Activate(c)
  PROVE  Swept(b)'
<1>1. ASSUME NEW c \in Calls, ~ SweptBy(c, b), \A d \in Calls \ {c} : dispatch'[d] = dispatch[d],
             unswept \subseteq unswept'
      PROVE  Swept(b)'
  BY <1>1 DEF Swept, SweptBy
<1>2. ASSUME NEW c \in Calls, Preview(c) PROVE Swept(b)'
  <2>1. unswept' = unswept /\ dispatch[c].step = "idle"
    BY <1>2 DEF Preview
  <2> QED BY <1>1, <1>2, <2>1, PreviewEffect DEF SweptBy
<1>3. ASSUME NEW c \in Calls, Reads(c) \/ ReadForApply(c) \/ Moves(c) PROVE Swept(b)'
  <2>1. unswept' = unswept /\ dispatch[c].step \notin {"find", "sweep"}
    BY <1>3 DEF Reads, ReadForReset, ReadForRevoke, ReadForApply, Moves, ClaimExecution, Suspend,
       Ban, CheckCooldown, Save, At
  <2>2. Advances(c)
    BY <1>3 DEF Advances
  <2> QED BY <1>1, <2>1, <2>2, AdvanceEffect DEF SweptBy
<1>4. ASSUME NEW c \in Calls, Answer(c) \/ Finish(c) PROVE Swept(b)'
  <2>1. unswept' = unswept /\ Drop(c) /\ ~ SweptBy(c, b)
    BY <1>4 DEF Answer, Finish, Finished, SweptBy
  <2> QED BY <1>1, <2>1, DropEffect
<1>5. ASSUME NEW c \in Calls, Fail(c) PROVE Swept(b)'
  <2>1. Drop(c) /\ unswept \subseteq unswept'
    BY <1>5 DEF Fail
  <2>2. CASE SweptBy(c, b)
    <3>1. b \in unswept'
      BY <1>5, <2>2 DEF Fail, SweptBy
    <3> QED BY <3>1 DEF Swept
  <2> QED BY <1>1, <2>1, <2>2, DropEffect
<1>6. ASSUME NEW c \in Calls, Find(c) PROVE Swept(b)'
  <2>1. b \in Found
    BY DEF Found
  <2> QED BY <1>6, <2>1, FindEffect DEF Swept, SweptBy
<1>7. ASSUME NEW c \in Calls, Sweeps(c) PROVE Swept(b)'
  <2>1. PICK a \in dispatch[c].left :
           /\ dispatch' = [dispatch EXCEPT ![c].left = @ \ {a}]
           /\ \/ /\ Open(a) /\ booking' = [booking EXCEPT ![a] = "ENDED"]
                 /\ unswept' = unswept \ {a}
              \/ unswept' = IF Open(a) THEN unswept \cup {a} ELSE unswept \ {a}
    BY <1>7 DEF Sweeps, Terminate, LeaveAsItIs
  <2>2. a \in Bookings /\ Open(b)
    BY <2>1 DEF GovernanceTypes, CallStates, Terminable, Open
  <2>3. CASE a = b
    <3>1. booking' # [booking EXCEPT ![b] = "ENDED"]
      BY DEF Terminable, GovernanceTypes
    <3> QED BY <2>1, <2>2, <2>3, <3>1 DEF Swept
  <2>4. CASE a # b
    BY <2>1, <2>4, TerminateEffect DEF Swept, SweptBy
  <2> QED BY <2>3, <2>4
<1>8. CASE Elsewhere
  <2>1. dispatch' = dispatch /\ unswept \subseteq unswept'
    BY <1>8, ElsewhereEffect DEF Elsewhere, applyAbuseScore, applyCooldownIfNeeded, ReadAutomatic,
       SaveAutomatic, ReadForSubmission, SaveSubmittedUser, Expire, Ask, Request, StartAccept,
       Accept, End, governanceVars
  <2> QED BY <2>1 DEF Swept, SweptBy
<1> QED BY <1>2, <1>3, <1>4, <1>5, <1>6, <1>7, <1>8, AllSteps DEF Ends

LEMMA SweepsNext ==
  ASSUME GovernanceTypes, AbuseOutlasts, SweepsFindAll, [GovernanceNext]_governanceVars
  PROVE  SweepsFindAll'
<1>1. SweepsFindAll <=> (Governed => \A b \in Bookings : Terminable(b) => Swept(b))
  BY DEF SweepsFindAll, Swept, SweptBy
<1>2. SweepsFindAll' <=> (Governed' => \A b \in Bookings : Terminable(b)' => Swept(b)')
  BY DEF SweepsFindAll, Swept, SweptBy
<1>3. ASSUME NEW c \in Calls, Suspend(c) \/ Ban(c) PROVE \A b \in Bookings : Swept(b)'
  <2>1. Goto(c, "find") /\ "find" \in Steps
    BY <1>3 DEF Suspend, Ban, Steps
  <2> QED BY <2>1, GotoEffect DEF Swept, SweptBy
<1>4. ASSUME NEW c \in Calls, Activate(c) PROVE ~ Governed'
  <2>1. user \in Accounts /\ user' = [user EXCEPT !.governanceState = "ACTIVE", !.status = "active"]
    BY <1>4 DEF GovernanceTypes, Activate
  <2>2. user'.governanceState = "ACTIVE"
    BY <2>1 DEF Accounts
  <2> QED BY <2>2 DEF Governed
<1>5. ASSUME user'.governanceState = user.governanceState, \A c \in Calls : ~ Activate(c),
             Governed', NEW b \in Bookings, Terminable(b)'
      PROVE  Swept(b)'
  <2>1. Governed
    BY <1>5 DEF Governed
  <2>2. CASE Terminable(b)
    BY <1>1, <1>5, <2>1, <2>2, SweptStays
  <2>3. CASE Request(b)
    BY <2>1, <2>3 DEF Request, Swept
  <2> QED BY <1>5, <2>2, <2>3, TerminableMoves
<1> QED BY <1>2, <1>3, <1>4, <1>5, UserMoves

\* What is read before a save is what the save will have to outlast.
LEMMA SavesNext ==
  ASSUME GovernanceTypes, SavesOutlast, [GovernanceNext]_governanceVars
  PROVE  SavesOutlast'
<1>1. ASSUME NEW c \in Calls, \A d \in Calls \ {c} : dispatch'[d] = dispatch[d],
             dispatch'[c].step = "save" =>
                \A k \in Kinds \cap DOMAIN dispatch'[c].saves :
                   dispatch'[c].saves[k] = None \/ dispatch'[c].saves[k] >= dispatch'[c].seen
      PROVE  SavesOutlast'
  BY <1>1 DEF SavesOutlast
<1>2. ASSUME NEW c \in Calls, Preview(c) \/ Ends(c) PROVE SavesOutlast'
  BY <1>1, <1>2, PreviewEffect, EndEffect, DropEffect
<1>3. ASSUME NEW c \in Calls, Moves(c) PROVE SavesOutlast'
  BY <1>1, <1>3, MoveEffect, GotoEffect
<1>4. ASSUME NEW c \in Calls, Reads(c) PROVE SavesOutlast'
  BY <1>1, <1>4, Readings DEF Reads
<1>5. ASSUME NEW c \in Calls, ReadForApply(c) PROVE SavesOutlast'
  <2>1. "done" \in Steps
    BY DEF Steps
  <2>2. CASE Goto(c, "done")
    BY <1>1, <2>1, <2>2, GotoEffect
  <2> QED BY <1>1, <1>5, <2>2, ApplyReading
<1>6. ASSUME NEW c \in Calls, Find(c) \/ Sweeps(c) PROVE SavesOutlast'
  <2>1. \A d \in Calls \ {c} : dispatch'[d] = dispatch[d]
    BY <1>6, AdvanceEffect DEF Advances
  <2>2. dispatch'[c].step = "sweep"
    BY <1>6, FindEffect, TerminateEffect DEF Sweeps, Terminate, LeaveAsItIs
  <2> QED BY <1>1, <2>1, <2>2
<1>7. CASE UNCHANGED dispatch
  BY <1>7 DEF SavesOutlast
<1> QED BY <1>2, <1>3, <1>4, <1>5, <1>6, <1>7, DispatchSteps DEF Advances

LEMMA Continuing ==
  ASSUME NEW score \in 0 .. MaxScore, NEW kinds \in SUBSET Kinds
  PROVE  /\ Continue(score, kinds) \in [step : {"idle", "read"}, score : 0 .. MaxScore,
                                        kind : Kinds \cup {"none"}, seen : Cooldowns]
         /\ Continue(score, kinds).step = "read" => Continue(score, kinds).kind \in Kinds
<1>1. None \in Cooldowns /\ 0 \in 0 .. MaxScore
  BY GovernanceAssumption DEF None, Cooldowns, Long
<1> DEFINE due == {k \in kinds : Automatic(score, k) # None}
           kind == IF "userCooldownUntil" \in due THEN "userCooldownUntil" ELSE "creatorCooldownUntil"
<1>2. due # {} => kind \in Kinds
  BY GovernanceAssumption
<1>3. Continue(score, kinds) =
         IF due = {} THEN NoAbuse
         ELSE [step |-> "read", score |-> score, seen |-> None, kind |-> kind]
  BY DEF Continue
<1> HIDE DEF due, kind
<1> QED BY <1>1, <1>2, <1>3 DEF NoAbuse

LEMMA AbuseNext ==
  ASSUME GovernanceTypes, AbuseOutlasts, [GovernanceNext]_governanceVars
  PROVE  /\ AbuseOutlasts'
         /\ abuse' \in [step : {"idle", "score", "read", "save"}, score : 0 .. MaxScore,
                        kind : Kinds \cup {"none"}, seen : Cooldowns]
<1>0. /\ user \in Accounts /\ user.abuseScore \in 0 .. MaxScore
      /\ abuse \in [step : {"idle", "score", "read", "save"}, score : 0 .. MaxScore,
                    kind : Kinds \cup {"none"}, seen : Cooldowns]
  BY DEF GovernanceTypes, Accounts
<1>1. CASE abuse' = abuse
  BY <1>0, <1>1 DEF AbuseOutlasts
<1>2. CASE applyAbuseScore
  BY <1>0, <1>2 DEF applyAbuseScore, AbuseOutlasts
<1>3. CASE applyCooldownIfNeeded
  BY <1>0, <1>3, Continuing DEF applyCooldownIfNeeded, AbuseOutlasts
<1>4. CASE abuse' = NextAbuse
  BY <1>0, <1>4, Continuing DEF NextAbuse, AbuseOutlasts
<1>5. CASE ReadAutomatic
  <2> DEFINE existing == user[abuse.kind]
  <2>1. abuse.kind \in Kinds /\ existing \in Cooldowns
    BY <1>0, <1>5, AccountFields DEF ReadAutomatic, AbuseOutlasts
  <2>2. \/ /\ Automatic(abuse.score, abuse.kind) >= existing
           /\ abuse' = [abuse EXCEPT !.step = "save", !.seen = existing]
        \/ abuse' = NextAbuse
    BY <1>5 DEF ReadAutomatic, Outlasts
  <2> HIDE DEF existing
  <2> QED BY <1>0, <1>4, <2>1, <2>2 DEF AbuseOutlasts
<1>6. CASE SaveAutomatic
  BY <1>4, <1>6 DEF SaveAutomatic
<1>7. ASSUME NEW c \in Calls, Preview(c) \/ Moves(c) \/ Ends(c) \/ Reads(c)
                              \/ ReadForApply(c) \/ Find(c) \/ Sweeps(c)
      PROVE  abuse' = abuse
  BY <1>7 DEF Preview, Moves, ClaimExecution, Suspend, Ban, Activate, CheckCooldown, Save, Ends,
     Answer, Fail, Finish, Reads, ReadForReset, ReadForRevoke, ReadForApply, Find, Sweeps,
       Terminate, LeaveAsItIs
<1>8. CASE Elsewhere
  BY <1>1, <1>2, <1>3, <1>5, <1>6, <1>8 DEF Elsewhere, ReadForSubmission, SaveSubmittedUser,
     Expire, Ask, Request, StartAccept, Accept, End, governanceVars
<1> QED BY <1>1, <1>7, <1>8, AllSteps

LEMMA TypesNext ==
  ASSUME GovernanceTypes, AbuseOutlasts, [GovernanceNext]_governanceVars
  PROVE  GovernanceTypes'
<1>1. user' \in Accounts /\ dispatch' \in [Calls -> CallStates]
  BY UserMoves, DispatchTypes
<1>2. abuse' \in [step : {"idle", "score", "read", "save"}, score : 0 .. MaxScore,
                  kind : Kinds \cup {"none"}, seen : Cooldowns]
  BY AbuseNext
<1>3. execution' \in [Keys -> {"NONE", "IN_PROGRESS", "EXECUTED"}]
  BY ExecutionMoves DEF ClaimExecution, Finish, GovernanceTypes
<1> DEFINE Rest == /\ booking' \in [Bookings -> {"NONE", "REQUESTED", "CONFIRMED", "ENDED"}]
                   /\ ask' \in [Bookings -> {"none", "asked", "accepting"}]
                   /\ submission' \in {"none", "activates", "keeps", "saved"}
                   /\ unswept' \subseteq Bookings
<1>4. UNCHANGED <<booking, ask, submission, unswept>> => Rest
  BY DEF GovernanceTypes
<1>5. ASSUME NEW c \in Calls, Preview(c) \/ Moves(c) \/ Ends(c) \/ Reads(c) \/ ReadForApply(c) \/ Find(c)
      PROVE  Rest
  <2>1. dispatch[c].left \subseteq Bookings
    BY DEF GovernanceTypes, CallStates
  <2>2. unswept' \subseteq Bookings
    BY <1>5, <2>1 DEF Preview, Moves, ClaimExecution, Suspend, Ban, Activate, CheckCooldown, Save,
       Ends, Answer, Fail, Finish, Reads, ReadForReset, ReadForRevoke, ReadForApply, Find,
       GovernanceTypes
  <2>3. UNCHANGED <<booking, ask, submission>>
    BY <1>5 DEF Preview, Moves, ClaimExecution, Suspend, Ban, Activate, CheckCooldown, Save,
       Ends, Answer, Fail, Finish, Reads, ReadForReset, ReadForRevoke, ReadForApply, Find
  <2> QED BY <2>2, <2>3 DEF GovernanceTypes
<1>6. ASSUME NEW c \in Calls, Sweeps(c) PROVE Rest
  <2>1. dispatch[c].left \subseteq Bookings
    BY DEF GovernanceTypes, CallStates
  <2> QED BY <1>6, <2>1 DEF Sweeps, Terminate, LeaveAsItIs, GovernanceTypes
<1>7. ASSUME NEW b \in Bookings, Ask(b) \/ Request(b) \/ StartAccept(b) \/ Accept(b) \/ End(b)
      PROVE  Rest
  BY <1>7 DEF Ask, Request, StartAccept, Accept, End, GovernanceTypes
<1>8. ASSUME Elsewhere PROVE Rest
  <2>1. ASSUME ReadForSubmission \/ SaveSubmittedUser PROVE Rest
    <3>1. submission' \in {"activates", "keeps", "saved"} /\ UNCHANGED <<booking, ask, unswept>>
      BY <2>1 DEF ReadForSubmission, SaveSubmittedUser
    <3> QED BY <3>1 DEF GovernanceTypes
  <2>2. ASSUME UNCHANGED <<booking, ask, submission, unswept>> PROVE Rest
    BY <1>4, <2>2
  <2> HIDE DEF Rest
  <2> QED BY <1>7, <1>8, <2>1, <2>2 DEF Elsewhere, applyAbuseScore, applyCooldownIfNeeded,
          ReadAutomatic, SaveAutomatic, Expire, governanceVars
<1> QED BY <1>1, <1>2, <1>3, <1>5, <1>6, <1>8, AllSteps DEF GovernanceTypes

LEMMA GovernanceStarts == GovernanceInit => Governance
<1> SUFFICES ASSUME GovernanceInit PROVE Governance
  OBVIOUS
<1>1. /\ NewUser \in Accounts /\ Nothing \in Savings /\ None \in Cooldowns
      /\ NewUser.governanceState = "ACTIVE" /\ 0 \in 0 .. MaxScore
  BY NewAccount, GovernanceAssumption DEF NewUser, None, Cooldowns, Long
<1>2. Idle \in CallStates /\ Idle.step = "idle"
  BY <1>1 DEF Idle, CallStates, Steps
<1>3. NoAbuse \in [step : {"idle", "score", "read", "save"}, score : 0 .. MaxScore,
                   kind : Kinds \cup {"none"}, seen : Cooldowns]
  BY <1>1 DEF NoAbuse
<1>4. GovernanceTypes
  BY <1>1, <1>2, <1>3 DEF GovernanceInit, GovernanceTypes
<1>5. \A c \in Calls : dispatch[c].step = "idle"
  BY <1>2 DEF GovernanceInit
<1>6. KeysAreKnown /\ ClaimsAreExclusive /\ BansStand /\ SavesOutlast
  BY <1>5 DEF KeysAreKnown, ClaimsAreExclusive, Working, BansStand, SavesOutlast
<1>7. RecordedBanStands
  BY DEF GovernanceInit, RecordedBanStands, Keys, Actions
<1>8. SweepsFindAll /\ AbuseOutlasts
  BY <1>1 DEF GovernanceInit, SweepsFindAll, Governed, AbuseOutlasts, NoAbuse
<1> QED BY <1>4, <1>6, <1>7, <1>8 DEF Governance

LEMMA GovernanceGoesOn == Governance /\ [GovernanceNext]_governanceVars => Governance'
  BY TypesNext, KeysNext, ClaimsNext, BansNext, RecordsNext, SweepsNext, SavesNext, AbuseNext
  DEF Governance

LEMMA AlwaysGoverned == GovernanceSpec => []Governance
  BY GovernanceStarts, GovernanceGoesOn, PTL DEF GovernanceSpec

\* A cooldown changes when it is over, or when one read before is saved.
LEMMA CooldownMoves ==
  ASSUME Governance, [GovernanceNext]_governanceVars, NEW k \in Kinds, user'[k] # user[k]
  PROVE  \/ user'[k] = None
         \/ \E c \in Calls : Save(c) /\ user'[k] >= dispatch[c].seen
         \/ SaveAutomatic /\ user'[k] >= abuse.seen
<1>0. /\ GovernanceTypes /\ SavesOutlast /\ AbuseOutlasts /\ user \in Accounts
      /\ k \in {"userCooldownUntil", "creatorCooldownUntil"}
  BY GovernanceAssumption DEF Governance, GovernanceTypes
<1>1. ASSUME NEW c \in Calls, Suspend(c) \/ Ban(c) \/ Activate(c) PROVE FALSE
  <2>1. \/ user' = user
        \/ \E state \in {"ACTIVE", "SUSPENDED", "BANNED"}, status \in {"active", "suspended", "banned"} :
              user' = [user EXCEPT !.governanceState = state, !.status = status]
    BY <1>1 DEF Suspend, Ban, Activate
  <2> QED BY <1>0, <2>1 DEF Accounts
<1>2. ASSUME NEW c \in Calls, Save(c) PROVE user'[k] = None \/ user'[k] >= dispatch[c].seen
  <2> DEFINE saves == dispatch[c].saves
  <2>1. saves \in Savings /\ dispatch[c].step = "save" /\ user' = Saved(saves, user)
    BY <1>0, <1>2 DEF Save, GovernanceTypes, CallStates
  <2>2. k \in Fields /\ user'[k] = IF k \in DOMAIN saves THEN saves[k] ELSE user[k]
    BY <1>0, <2>1, SaveEffect DEF Fields, SavedFields
  <2> QED BY <1>0, <2>1, <2>2 DEF SavesOutlast
<1>3. CASE SaveAutomatic
  <2> DEFINE d == Automatic(abuse.score, abuse.kind)
  <2>1. abuse.step = "save" /\ user' = [user EXCEPT ![abuse.kind] = d]
    BY <1>3 DEF SaveAutomatic
  <2>2. abuse.kind \in Kinds /\ d >= abuse.seen
    BY <1>0, <2>1 DEF AbuseOutlasts
  <2> HIDE DEF d
  <2>3. user'[k] = IF k = abuse.kind THEN d ELSE user[k]
    BY <1>0, <2>1, <2>2, AccountFields
  <2> QED BY <1>3, <2>2, <2>3
<1>4. ASSUME NEW j \in Kinds, Expire(j) PROVE user'[k] = None
  BY <1>0, <1>4, AccountFields DEF Expire
<1>5. ASSUME applyAbuseScore \/ SaveSubmittedUser PROVE FALSE
  BY <1>0, <1>5 DEF applyAbuseScore, SaveSubmittedUser, Accounts
<1>6. ASSUME NEW c \in Calls,
             \/ Preview(c) \/ ClaimExecution(c) \/ CheckCooldown(c) \/ Ends(c) \/ Reads(c)
             \/ ReadForApply(c) \/ Find(c) \/ Sweeps(c)
      PROVE  FALSE
  BY <1>6 DEF Preview, ClaimExecution, CheckCooldown, Ends, Answer, Fail, Finish, Reads,
     ReadForReset, ReadForRevoke, ReadForApply, Find, Sweeps,
       Terminate, LeaveAsItIs
<1>7. CASE Elsewhere
  BY <1>3, <1>4, <1>5, <1>7 DEF Elsewhere, applyCooldownIfNeeded, ReadAutomatic,
     ReadForSubmission, Ask, Request, StartAccept, Accept, End, governanceVars
<1> QED BY <1>1, <1>2, <1>6, <1>7, AllSteps DEF Moves

LEMMA StatusNext ==
  ASSUME Governance, StatusIsProjected, [GovernanceNext]_governanceVars
  PROVE  StatusIsProjected'
<1>0. /\ GovernanceTypes /\ user \in Accounts
      /\ user.status = Projected(user.governanceState) /\ submission # "activates"
      /\ \A c \in Calls : "status" \notin DOMAIN dispatch[c].saves
  BY DEF Governance, GovernanceTypes, StatusIsProjected
<1>1. \A c \in Calls : "status" \notin DOMAIN dispatch'[c].saves
  <2>1. ASSUME NEW c \in Calls, \A d \in Calls \ {c} : dispatch'[d] = dispatch[d],
               "status" \notin DOMAIN dispatch'[c].saves
        PROVE  \A d \in Calls : "status" \notin DOMAIN dispatch'[d].saves
    BY <1>0, <2>1
  <2>2. ASSUME NEW c \in Calls, Preview(c) \/ Find(c)
        PROVE  \A d \in Calls : "status" \notin DOMAIN dispatch'[d].saves
    BY <1>0, <2>1, <2>2, PreviewEffect, FindEffect
  <2>3. ASSUME NEW c \in Calls, Moves(c)
        PROVE  \A d \in Calls : "status" \notin DOMAIN dispatch'[d].saves
    BY <1>0, <2>1, <2>3, MoveEffect, GotoEffect, NewAccount
  <2>4. ASSUME NEW c \in Calls, Ends(c)
        PROVE  \A d \in Calls : "status" \notin DOMAIN dispatch'[d].saves
    BY <1>0, <2>1, <2>4, EndEffect, DropEffect, NewAccount DEF Idle
  <2>5. ASSUME NEW c \in Calls, Reads(c)
        PROVE  \A d \in Calls : "status" \notin DOMAIN dispatch'[d].saves
    BY <1>0, <2>1, <2>5, Readings DEF Reads
  <2>6. ASSUME NEW c \in Calls, ReadForApply(c)
        PROVE  \A d \in Calls : "status" \notin DOMAIN dispatch'[d].saves
    <3>1. "done" \in Steps
      BY DEF Steps
    <3>2. CASE Goto(c, "done")
      BY <1>0, <2>1, <3>1, <3>2, GotoEffect, NewAccount
    <3> QED BY <1>0, <2>1, <2>6, <3>2, ApplyReading
  <2>7. ASSUME NEW c \in Calls, Sweeps(c)
        PROVE  \A d \in Calls : "status" \notin DOMAIN dispatch'[d].saves
    BY <1>0, <2>1, <2>7, TerminateEffect DEF Sweeps, Terminate, LeaveAsItIs
  <2> QED BY <1>0, <2>2, <2>3, <2>4, <2>5, <2>6, <2>7, AllSteps, ElsewhereEffect
<1>2. submission' # "activates"
  <2>1. user.status # "pending_profile"
    BY <1>0 DEF Projected
  <2>2. ASSUME NEW c \in Calls, Preview(c) \/ Moves(c) \/ Ends(c) \/ Reads(c)
                                \/ ReadForApply(c) \/ Find(c) \/ Sweeps(c)
        PROVE  submission' = submission
    BY <2>2 DEF Preview, Moves, ClaimExecution, Suspend, Ban, Activate, CheckCooldown, Save, Ends,
       Answer, Fail, Finish, Reads, ReadForReset, ReadForRevoke, ReadForApply, Find, Sweeps,
       Terminate, LeaveAsItIs
  <2>3. CASE Elsewhere
    BY <1>0, <2>1, <2>3 DEF Elsewhere, applyAbuseScore, applyCooldownIfNeeded, ReadAutomatic,
       SaveAutomatic, ReadForSubmission, SaveSubmittedUser, Expire, Ask, Request, StartAccept,
       Accept, End, governanceVars
  <2> QED BY <1>0, <2>2, <2>3, AllSteps
<1>3. user'.status = Projected(user'.governanceState)
  <2>0. CASE user'.status = user.status /\ user'.governanceState = user.governanceState
    BY <1>0, <2>0
  <2>1. ASSUME NEW c \in Calls, Suspend(c) \/ Ban(c) \/ Activate(c)
        PROVE  user'.status = Projected(user'.governanceState)
    <3>1. \/ user' = user
          \/ \E state \in {"ACTIVE", "SUSPENDED", "BANNED"} :
                user' = [user EXCEPT !.governanceState = state, !.status = Projected(state)]
      BY <2>1 DEF Suspend, Ban, Activate, Projected
    <3>2. ASSUME NEW state, user' = [user EXCEPT !.governanceState = state, !.status = Projected(state)]
          PROVE  user'.status = Projected(user'.governanceState)
      <4>1. user'.governanceState = state /\ user'.status = Projected(state)
        BY <1>0, <3>2 DEF Accounts
      <4> QED BY <4>1
    <3> QED BY <1>0, <3>1, <3>2
  <2>2. ASSUME NEW c \in Calls, Save(c)
        PROVE  user'.status = user.status /\ user'.governanceState = user.governanceState
    <3>1. dispatch[c].saves \in Savings /\ user' = Saved(dispatch[c].saves, user)
      BY <1>0, <2>2 DEF Save, GovernanceTypes, CallStates
    <3>2. "status" \in Fields
      BY DEF Fields, SavedFields
    <3>3. user'["status"] = user["status"]
      BY <1>0, <3>1, <3>2, SaveEffect
    <3> QED BY <1>0, <3>1, <3>3, SaveEffect
  <2>3. ASSUME NEW c \in Calls,
               \/ Preview(c) \/ ClaimExecution(c) \/ CheckCooldown(c) \/ Ends(c) \/ Reads(c)
               \/ ReadForApply(c) \/ Find(c) \/ Sweeps(c)
        PROVE  user' = user
    BY <2>3 DEF Preview, ClaimExecution, CheckCooldown, Ends, Answer, Fail, Finish, Reads,
       ReadForReset, ReadForRevoke, ReadForApply, Find, Sweeps,
       Terminate, LeaveAsItIs
  <2>4. ASSUME Elsewhere
        PROVE  user'.status = user.status /\ user'.governanceState = user.governanceState
    <3>1. CASE \E k, d : user' = [user EXCEPT ![k] = d] /\ k \notin {"status", "governanceState"}
      BY <1>0, <3>1 DEF Accounts
    <3>2. SaveAutomatic => abuse.kind \in Kinds
      BY DEF SaveAutomatic, Governance, AbuseOutlasts
    <3>3. CASE applyAbuseScore
      BY <1>0, <3>3 DEF applyAbuseScore, Accounts
    <3>4. CASE user' = user
      BY <3>4
    <3>5. CASE SaveAutomatic \/ \E k \in Kinds : Expire(k)
      BY <3>1, <3>2, <3>5, GovernanceAssumption DEF SaveAutomatic, Expire
    <3> QED BY <1>0, <2>4, <3>3, <3>4, <3>5 DEF Elsewhere, applyCooldownIfNeeded, ReadAutomatic,
            ReadForSubmission, SaveSubmittedUser, Ask, Request, StartAccept, Accept, End,
            governanceVars
  <2> QED BY <2>0, <2>1, <2>2, <2>3, <2>4, AllSteps DEF Moves
<1> QED BY <1>1, <1>2, <1>3 DEF StatusIsProjected

-----------------------------------------------------------------------------
(* The theorems *)

\* The account, the executions, the calls and the bookings keep their types: no
\* save ever writes the state of the governance.
THEOREM GovernanceTyped == GovernanceSpec => []GovernanceTypes
  BY AlwaysGoverned, PTL DEF Governance

\* Of any number of calls only one ever runs under a key, and none once it is
\* recorded as executed.
THEOREM ClaimsExclude == GovernanceSpec => []ClaimsAreExclusive
  BY AlwaysGoverned, PTL DEF Governance

\* A ban the dispatcher recorded as executed stands.
THEOREM BansAreKept == GovernanceSpec => []RecordedBanStands
  BY AlwaysGoverned, PTL DEF Governance

\* A ban is never undone by whatever else was under way: not by the suspension
\* or activation that had begun, nor by the late save of a reset.
THEOREM BansAreFinal == GovernanceSpec => BanIsFinal
<1>1. Governance /\ [GovernanceNext]_governanceVars =>
         [user.governanceState = "BANNED" => user'.governanceState = "BANNED"]_governanceVars
  BY UserMoves DEF Governance
<1> QED BY <1>1, AlwaysGoverned, PTL DEF GovernanceSpec, BanIsFinal

\* A suspension or ban ends every booking it has to, but those whose call had
\* tested the account before, those of a sweep that was cut short, and those it
\* reported as FAILED or FINANCIAL_LOCKED.
THEOREM SweepsAreComplete == GovernanceSpec => []SweepsFindAll
  BY AlwaysGoverned, PTL DEF Governance

\* A cooldown is cut short only by a save that did not see it.
THEOREM ShortenedOnlyUnseen == GovernanceSpec => ShortenedUnseen
<1> DEFINE Step ==
       \A k \in Kinds :
          LET is == user[k]
              will == user'[k]
          IN will > None /\ will < is =>
                \/ abuse' # abuse /\ abuse.seen # is
                \/ \E c \in Calls : dispatch'[c] # dispatch[c] /\ dispatch[c].seen # is
<1>1. ASSUME Governance, [GovernanceNext]_governanceVars PROVE Step
  <2> SUFFICES ASSUME NEW k \in Kinds, user'[k] > None, user'[k] < user[k]
               PROVE  \/ abuse' # abuse /\ abuse.seen # user[k]
                      \/ \E c \in Calls : dispatch'[c] # dispatch[c] /\ dispatch[c].seen # user[k]
    OBVIOUS
  <2>1. /\ GovernanceTypes /\ user[k] \in Cooldowns /\ user'[k] \in Cooldowns
        /\ abuse.seen \in Cooldowns /\ \A c \in Calls : dispatch[c].seen \in Cooldowns
    BY <1>1, UserMoves, AccountFields DEF Governance, GovernanceTypes, CallStates
  <2>2. user'[k] # user[k] /\ user'[k] # None
    BY <2>1 DEF Cooldowns, None, Long
  <2>3. ASSUME NEW c \in Calls, Save(c), user'[k] >= dispatch[c].seen
        PROVE  dispatch'[c] # dispatch[c] /\ dispatch[c].seen # user[k]
    <3>1. dispatch[c].step = "save" /\ Goto(c, "done") /\ "done" \in Steps
      BY <2>3 DEF Save, Steps
    <3>2. dispatch'[c].step = "done"
      BY <2>1, <3>1, GotoEffect
    <3> QED BY <2>1, <2>3, <3>1, <3>2 DEF Cooldowns, None, Long
  <2>4. ASSUME SaveAutomatic, user'[k] >= abuse.seen
        PROVE  abuse' # abuse /\ abuse.seen # user[k]
    <3>1. abuse.step = "save" /\ abuse' = NextAbuse
      BY <2>4 DEF SaveAutomatic
    <3>2. NextAbuse.step \in {"idle", "read"}
      BY <2>1, Continuing DEF NextAbuse, GovernanceTypes
    <3> QED BY <2>1, <2>4, <3>1, <3>2 DEF Cooldowns, None, Long
  <2> QED BY <1>1, <2>2, <2>3, <2>4, CooldownMoves
<1> HIDE DEF Step
<1>2. GovernanceSpec => [][Step]_governanceVars
  BY <1>1, AlwaysGoverned, PTL DEF GovernanceSpec
<1> QED BY <1>2 DEF ShortenedUnseen, Step

\* The status the routes look at agrees with the governance at all times, of an
\* account whose profile was complete: the late save of a reset cannot tear them
\* apart.  (Of a new account the first submission can: see the run.)
THEOREM StatusFollows ==
  ASSUME FirstStatus = "active"
  PROVE  GovernanceSpec => []StatusFollowsGovernance
<1>1. GovernanceInit => StatusIsProjected
  BY NewAccount DEF GovernanceInit, StatusIsProjected, NewUser, Projected, Idle
<1>2. Governance /\ StatusIsProjected /\ [GovernanceNext]_governanceVars => StatusIsProjected'
  BY StatusNext
<1>3. StatusIsProjected => StatusFollowsGovernance
  BY DEF StatusIsProjected, StatusFollowsGovernance, Projected, ShutOut
<1> QED BY <1>1, <1>2, <1>3, AlwaysGoverned, PTL DEF GovernanceSpec
=============================================================================
