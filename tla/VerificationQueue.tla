--------------------------- MODULE VerificationQueue ---------------------------
(***************************************************************************)
(* How one profile gets verified: a submission saves the profile as        *)
(* pending, opens a request and gives it a job; workers claim the job,     *)
(* run the inference and apply its verdict; administrators decide; a job   *)
(* of the server reconciles all of it.  These are five steps or more of    *)
(* different processes with no transaction around them: only a decision    *)
(* and an escalation are transactions.                                     *)
(*                                                                         *)
(* Time is what the code compares with it: the age of a submission (fresh, *)
(* past the processing timeout, past the retention), and a lease that ran  *)
(* out.  Retry delays are taken to be over.                                *)
(***************************************************************************)
EXTENDS Integers

CONSTANTS
    Submitters,       \* calls of the profile's user
    Readers,          \* administrators who list the queue
    Workers,          \* workers polling for jobs, dedicated or in the server
    Gone,             \* workerId of a worker that is no more
    MaxAttempts,      \* maxRetryCount
    MaxVersion,       \* bound: submissions
    MaxRequests,      \* bound: requests
    MaxCrashes        \* bound: crashes of a process

ASSUME QueueAssumption ==
    /\ Submitters \cap Readers = {} /\ Gone \notin Workers
    /\ MaxAttempts \in Nat \ {0} /\ MaxVersion \in Nat
    /\ MaxRequests \in Nat /\ MaxCrashes \in Nat

VARIABLES
    profile,      \* profileStatus, verificationSubmissionVersion
    count,        \* requests there are
    request,      \* ProfileVerificationRequest, in the order they are created
    job,          \* ProfileVerificationJob of each request
    result,       \* requests whose inference has a stored result
    age,          \* how long ago each version was submitted
    call, worker, \* what each caller and each worker is doing
    keeper,       \* what the reconciliation is doing
    crashes

vars == <<profile, count, request, job, result, age, call, worker, keeper, crashes>>

Versions == 1..MaxVersion
Requests == 1..MaxRequests
Callers == Submitters \cup Readers

ProfileStatuses == {"incomplete", "pending_verification", "verified", "rejected"}
InProcess == {"PENDING", "PROCESSING"}
ActiveStatuses == InProcess \cup {"ADMIN_REVIEW_REQUIRED"}
RequestStatuses == ActiveStatuses \cup {"NONE", "APPROVED", "REJECTED", "EXPIRED"}
Unfinished == {"PENDING", "RUNNING", "RETRY_WAIT"}
JobStatuses == Unfinished \cup {"NONE", "COMPLETED", "FAILED"}
Decisions == {"APPROVED", "REJECTED"}

Fresh == 0
Late == 1          \* PROCESSING_TIMEOUT_MS
Expired == 2       \* FACE_VERIFICATION_REQUEST_MAX_RETENTION_MS

CallSteps == {"idle", "save", "request", "list", "job"}
WorkerSteps == {"idle", "read", "infer", "store", "apply", "complete",
                "fail", "check", "escalate"}
KeeperSteps == {"idle", "profile", "leases", "check", "escalate", "list", "timeout",
                "revalidate", "jobs"}

NoRequest == [status |-> "NONE", version |-> 0]
NoJob == [status |-> "NONE", attempts |-> 0, worker |-> Gone, leased |-> FALSE]
NewJob == [status |-> "PENDING", attempts |-> 0, worker |-> Gone, leased |-> FALSE]

TypeOK ==
    /\ profile \in [status : ProfileStatuses, version : 0..MaxVersion]
    /\ count \in 0..MaxRequests
    /\ request \in [Requests -> [status : RequestStatuses, version : 0..MaxVersion]]
    /\ \A r \in Requests : r <= count <=> request[r].status # "NONE"
    /\ job \in [Requests -> [status : JobStatuses, attempts : 0..MaxAttempts,
                             worker : Workers \cup {Gone}, leased : BOOLEAN]]
    /\ \A r \in Requests : job[r].leased \/ job[r].worker # Gone => job[r].status = "RUNNING"
    /\ result \subseteq Requests
    /\ age \in [Versions -> Fresh..Expired]
    /\ call \in [Callers -> [at : CallSteps, version : 0..MaxVersion, request : 0..MaxRequests]]
    /\ worker \in [Workers -> [at : WorkerSteps, request : 0..MaxRequests]]
    /\ keeper \in [at : KeeperSteps, request : 0..MaxRequests]
    /\ crashes \in 0..MaxCrashes

IdleCall == [at |-> "idle", version |-> 0, request |-> 0]
IdleWorker == [at |-> "idle", request |-> 0]
IdleKeeper == [at |-> "idle", request |-> 0]

Init ==
    /\ profile = [status |-> "incomplete", version |-> 0]
    /\ count = 0 /\ request = [r \in Requests |-> NoRequest]
    /\ job = [r \in Requests |-> NoJob]
    /\ result = {}
    /\ age = [v \in Versions |-> Fresh]
    /\ call = [c \in Callers |-> IdleCall]
    /\ worker = [w \in Workers |-> IdleWorker]
    /\ keeper = IdleKeeper
    /\ crashes = 0

-----------------------------------------------------------------------------
(* The request a transaction finds: the active one, of which a unique      *)
(* index lets there be one, or, for a pending profile, a new one.          *)
Active == {r \in Requests : request[r].status \in ActiveStatuses}
NewRequest(v) == [status |-> "PENDING", version |-> v]
Put(r, record) ==
    /\ request' = [request EXCEPT ![r] = record]
    /\ count' = IF r > count THEN r ELSE count

\* ensureActiveProfileVerificationRequest with a profile of version v in hand.
Ensured(v) == IF Active # {} THEN CHOOSE r \in Active : TRUE ELSE count + 1
EnsuredRequest(v) == IF Active # {} THEN request[Ensured(v)] ELSE NewRequest(v)

\* Inside a transaction: for a pending profile there is always one.
Target == Ensured(profile.version)
TargetRequest == EnsuredRequest(profile.version)
TargetExists == Active # {} \/ profile.status = "pending_verification"
Retained(v) == age[v] # Expired

\* The requests an AI decision about r is meant for: the authority is stale
\* once another version was submitted.
Authority(r) == IF request[r].version = profile.version THEN {r} ELSE {}

\* decideProfileVerificationRequest, verdict v on one of the requests asked.
Decidable(asked) ==
    /\ TargetExists /\ Target \in asked
    /\ Retained(TargetRequest.version)
Decide(v) ==
    /\ Put(Target, [TargetRequest EXCEPT !.status = v])
    /\ profile' = [profile EXCEPT
                     !.status = IF v = "APPROVED" THEN "verified" ELSE "rejected"]
\* Without an active request, the same decision again is a replay.
DecidedBefore(v) == ~TargetExists /\ count > 0 /\ request[count].status = v

\* escalateProfileVerificationRequest, of one of the requests asked.
Escalatable(asked) ==
    /\ profile.status = "pending_verification"
    /\ Target \in asked /\ TargetRequest.status \in InProcess
    /\ Retained(TargetRequest.version)
Escalate ==
    /\ Put(Target, [TargetRequest EXCEPT !.status = "ADMIN_REVIEW_REQUIRED"])
    /\ UNCHANGED profile
\* In review already: a replay for the same reason, a conflict for another one.
InReview(asked) ==
    /\ profile.status = "pending_verification"
    /\ Target \in asked /\ TargetRequest.status = "ADMIN_REVIEW_REQUIRED"

\* ensureProfileVerificationJob: one job for a request, by a unique index.
WithJob(r) ==
    IF job[r].status # "NONE" THEN job ELSE [job EXCEPT ![r] = NewJob]
Ended(j, status) == [j EXCEPT !.status = status, !.worker = Gone, !.leased = FALSE]
\* completeIfNotTerminal, whoever runs the job.
Completed(r) ==
    IF job[r].status \in Unfinished THEN [job EXCEPT ![r] = Ended(@, "COMPLETED")] ELSE job

\* Mutant: a request that is being processed counts as over.
isTakenRequest(r) == request[r].status # "PENDING"
isTerminalRequest(r) == request[r].status \notin ActiveStatuses
\* isReconciliationApplicableProfile
Applicable(r) ==
    profile.status = "pending_verification" /\ profile.version = request[r].version

-----------------------------------------------------------------------------
(* The user submits, or an administrator opens the queue.                  *)
requests == <<count, request>>
records == <<requests, job, result>>

\* The submission reads the profile and finds the face session of the next
\* version complete; a pending profile cannot be submitted.
BeginSubmission(c) ==
    /\ call[c] = IdleCall
    /\ profile.status \in {"incomplete", "rejected"} /\ profile.version < MaxVersion
    /\ call' = [call EXCEPT ![c] = [at |-> "save", version |-> profile.version + 1,
                                       request |-> 0]]
    /\ UNCHANGED <<profile, records, age, worker, keeper, crashes>>

\* The save writes what it changed, whatever became of the profile.  (Two saves
\* of one version are taken to be of one time.)
SaveSubmission(c) ==
    /\ call[c].at = "save"
    /\ profile' = [status |-> "pending_verification", version |-> call[c].version]
    /\ call' = [call EXCEPT ![c].at = "request"]
    /\ UNCHANGED <<records, age, worker, keeper, crashes>>

\* listProfileVerificationQueue: gives pending profiles their request.
ListQueue(c) ==
    /\ call[c] = IdleCall
    /\ profile.status = "pending_verification"
    /\ call' = [call EXCEPT ![c] = [at |-> "list", version |-> profile.version,
                                       request |-> 0]]
    /\ UNCHANGED <<profile, records, age, worker, keeper, crashes>>

\* With the profile as it was read or saved; that of a list has no job yet.
EnsureRequest(c) ==
    /\ call[c].at \in {"request", "list"}
    /\ Ensured(call[c].version) \in Requests
    /\ LET r == Ensured(call[c].version)
       IN /\ Put(r, EnsuredRequest(call[c].version))
          /\ call' = [call EXCEPT ![c] =
                IF @.at = "list" THEN IdleCall
                ELSE [at |-> "job", version |-> @.version, request |-> r]]
    /\ UNCHANGED <<profile, job, result, age, worker, keeper, crashes>>

\* With the job the submission is over; a face session is bound to the request.
EnsureJob(c) ==
    /\ call[c].at = "job"
    /\ job' = WithJob(call[c].request)
    /\ call' = [call EXCEPT ![c] = IdleCall]
    /\ UNCHANGED <<profile, requests, result, age, worker, keeper, crashes>>

\* Mutant: the profile is written though the request could not be decided.
AdminDecideUnchecked(v) ==
    /\ TargetExists /\ Target \in Requests
    /\ profile' = [profile EXCEPT !.status = IF v = "APPROVED" THEN "verified" ELSE "rejected"]
    /\ IF Decidable(Requests) THEN Put(Target, [TargetRequest EXCEPT !.status = v])
       ELSE UNCHANGED requests
    /\ UNCHANGED <<job, result, age, call, worker, keeper, crashes>>

\* An administrator decides the profile, whichever its request is.
AdminDecide(v) ==
    /\ Decidable(Requests) /\ Decide(v)
    /\ UNCHANGED <<job, result, age, call, worker, keeper, crashes>>

-----------------------------------------------------------------------------
(* A worker takes one job after the other.                                 *)
Goes(w, step) == worker' = [worker EXCEPT ![w].at = step]
Rests(w) == worker' = [worker EXCEPT ![w] = IdleWorker]

Claim(w) ==
    /\ worker[w] = IdleWorker
    /\ \E r \in Requests :
        /\ job[r].status \in {"PENDING", "RETRY_WAIT"} /\ job[r].attempts < MaxAttempts
        /\ job' = [job EXCEPT ![r] = [status |-> "RUNNING", attempts |-> @.attempts + 1,
                                      worker |-> w, leased |-> TRUE]]
        /\ worker' = [worker EXCEPT ![w] = [at |-> "read", request |-> r]]
    /\ UNCHANGED <<profile, requests, result, age, call, keeper, crashes>>

\* A job whose request is over or past its retention is completed unworked.
ReadRequest(w) ==
    /\ worker[w].at = "read"
    /\ LET r == worker[w].request
       IN IF isTerminalRequest(r) \/ ~Retained(request[r].version)
          THEN UNCHANGED request /\ Goes(w, "complete")
          ELSE /\ request' = [request EXCEPT ![r].status = IF @ = "PENDING" THEN "PROCESSING" ELSE @]
               /\ Goes(w, "infer")
    /\ UNCHANGED <<profile, count, job, result, age, call, keeper, crashes>>

\* Up to the inference, which may fail for many reasons, one of them that no
\* face session is bound to the request; bound to one of an earlier submission
\* it is stale, and there is nothing to do.  A result that is there is used again.
Infer(w) ==
    /\ worker[w].at = "infer"
    /\ LET r == worker[w].request
       IN \/ /\ isTerminalRequest(r) \/ request[r].version # profile.version
             /\ Goes(w, "complete")
          \/ ~isTerminalRequest(r) /\ Goes(w, "fail")
          \/ /\ ~isTerminalRequest(r) /\ Retained(request[r].version)
             /\ Goes(w, IF r \in result THEN "apply" ELSE "store")
    /\ UNCHANGED <<profile, records, age, call, keeper, crashes>>

\* The request is read again after the inference; the first result stays.
StoreResult(w) ==
    /\ worker[w].at = "store"
    /\ LET r == worker[w].request
       IN IF isTerminalRequest(r) \/ ~Retained(request[r].version)
          THEN UNCHANGED result /\ Goes(w, "fail")
          ELSE result' = result \cup {r} /\ Goes(w, "apply")
    /\ UNCHANGED <<profile, requests, job, age, call, keeper, crashes>>

\* applyProfileVerificationAiDecision; what verdict a result maps to is left open.
ApplyDecision(w) ==
    /\ worker[w].at = "apply"
    /\ LET asked == Authority(worker[w].request)
       IN \E v \in Decisions :
            \/ Decidable(asked) /\ Decide(v) /\ Goes(w, "complete")
            \/ /\ ~Decidable(asked) /\ UNCHANGED <<profile, requests>>
               /\ Goes(w, IF DecidedBefore(v) THEN "complete" ELSE "fail")
    /\ UNCHANGED <<job, result, age, call, keeper, crashes>>

ApplyReview(w) ==
    /\ worker[w].at = "apply"
    /\ LET asked == Authority(worker[w].request)
       IN \/ Escalatable(asked) /\ Escalate /\ Goes(w, "complete")
          \/ InReview(asked) /\ UNCHANGED <<profile, requests>> /\ Goes(w, "complete")
          \/ ~Escalatable(asked) /\ UNCHANGED <<profile, requests>> /\ Goes(w, "fail")
    /\ UNCHANGED <<job, result, age, call, keeper, crashes>>

CompleteJob(w) ==
    /\ worker[w].at = "complete"
    /\ job' = Completed(worker[w].request)
    /\ Rests(w)
    /\ UNCHANGED <<profile, requests, result, age, call, keeper, crashes>>

\* Mutant: the workerId is not compared.
HoldsOnce(w, r) == job[r].status = "RUNNING"
\* recordProfileVerificationJobFailure, only for the claim the worker holds.
Holds(w, r) == job[r].status = "RUNNING" /\ job[r].worker = w
RecordFailure(w) ==
    /\ worker[w].at = "fail"
    /\ LET r == worker[w].request
       IN \/ ~Holds(w, r) /\ UNCHANGED job /\ Rests(w)
          \/ /\ Holds(w, r) /\ job[r].attempts < MaxAttempts
             /\ job' = [job EXCEPT ![r] = Ended(@, "RETRY_WAIT")] /\ Rests(w)
          \/ /\ Holds(w, r) /\ job[r].attempts = MaxAttempts
             /\ job' = [job EXCEPT ![r] = Ended(@, "FAILED")] /\ Goes(w, "check")
    /\ UNCHANGED <<profile, requests, result, age, call, keeper, crashes>>

\* escalateFailedProfileVerificationJob reads the request of the job, and
\* escalates whichever request the profile then has.
CheckFailed(w) ==
    /\ worker[w].at = "check"
    /\ IF request[worker[w].request].status \in InProcess THEN Goes(w, "escalate") ELSE Rests(w)
    /\ UNCHANGED <<profile, records, age, call, keeper, crashes>>

EscalateFailed(w) ==
    /\ worker[w].at = "escalate"
    /\ IF Escalatable(Requests) THEN Escalate ELSE UNCHANGED <<profile, requests>>
    /\ Rests(w)
    /\ UNCHANGED <<job, result, age, call, keeper, crashes>>

-----------------------------------------------------------------------------
(* reconcileProfileVerificationJobs, in the job loop of the server.  What  *)
(* throws ends the round; the next one starts over.                        *)
KeeperGoes(step) == keeper' = [keeper EXCEPT !.at = step]

\* expireProfileVerificationRequests; there is one active request at most.
ExpireRequest ==
    /\ keeper = IdleKeeper
    /\ IF \E r \in Active : ~Retained(request[r].version)
       THEN /\ request' = [r \in Requests |->
                  IF r \in Active THEN [request[r] EXCEPT !.status = "EXPIRED"] ELSE request[r]]
            /\ KeeperGoes("profile")
       ELSE UNCHANGED request /\ KeeperGoes("leases")
    /\ UNCHANGED <<profile, count, job, result, age, call, worker, crashes>>

\* Whatever the profile is by now.
ResetProfile ==
    /\ keeper.at = "profile"
    /\ profile' = [profile EXCEPT !.status = "incomplete"]
    /\ KeeperGoes("leases")
    /\ UNCHANGED <<records, age, call, worker, crashes>>

Abandoned(r) == job[r].status = "RUNNING" /\ ~job[r].leased

\* failOneExpiredLeaseAtAttemptLimit
FailAbandoned ==
    /\ keeper.at = "leases"
    /\ \E r \in Requests :
        /\ Abandoned(r) /\ job[r].attempts = MaxAttempts
        /\ job' = [job EXCEPT ![r] = Ended(@, "FAILED")]
        /\ keeper' = [at |-> "check", request |-> r]
    /\ UNCHANGED <<profile, requests, result, age, call, worker, crashes>>

CheckAbandoned ==
    /\ keeper.at = "check"
    /\ KeeperGoes(IF request[keeper.request].status \in InProcess THEN "escalate" ELSE "leases")
    /\ UNCHANGED <<profile, records, age, call, worker, crashes>>

EscalateAbandoned ==
    /\ keeper.at = "escalate"
    /\ IF Escalatable(Requests)
       THEN Escalate /\ KeeperGoes("leases")
       ELSE /\ UNCHANGED <<profile, requests>>
            /\ \/ InReview(Requests) /\ KeeperGoes("leases")
               \/ keeper' = IdleKeeper
    /\ UNCHANGED <<job, result, age, call, worker, crashes>>

\* recoverExpiredLeasesBelowAttemptLimit, when there is none of those left.
RecoverAbandoned ==
    /\ keeper.at = "leases"
    /\ \A r \in Requests : Abandoned(r) => job[r].attempts < MaxAttempts
    /\ job' = [r \in Requests |-> IF Abandoned(r) THEN Ended(job[r], "RETRY_WAIT") ELSE job[r]]
    /\ keeper' = [at |-> "list", request |-> 0]
    /\ UNCHANGED <<profile, requests, result, age, call, worker, crashes>>

\* Mutant: a job that failed is taken to be with the administrators.
AwaitsAnybody(r) == job[r].status \in {"COMPLETED", "FAILED"}
\* A completed job with a result waits for its administrator.
AwaitsDecision(r) == job[r].status = "COMPLETED" /\ r \in result

\* The active request of the pending profile gets its job, and its deadline.
EnsureListed ==
    /\ keeper.at = "list"
    /\ \/ /\ \E r \in Active :
                /\ Applicable(r)
                /\ job' = WithJob(r)
                /\ keeper' = IF /\ age[request[r].version] = Late /\ ~AwaitsDecision(r)
                                /\ request[r].status \in InProcess
                             THEN [at |-> "timeout", request |-> r]
                             ELSE [keeper EXCEPT !.at = "jobs"]
       \/ /\ \A r \in Active : ~Applicable(r)
          /\ KeeperGoes("jobs") /\ UNCHANGED job
    /\ UNCHANGED <<profile, requests, result, age, call, worker, crashes>>

EscalateLate ==
    /\ keeper.at = "timeout"
    /\ IF Escalatable(Requests)
       THEN Escalate /\ KeeperGoes("jobs")
       ELSE /\ UNCHANGED <<profile, requests>>
            /\ \/ InReview(Requests) /\ KeeperGoes("jobs")
               \/ KeeperGoes("revalidate")
    /\ UNCHANGED <<job, result, age, call, worker, crashes>>

\* A decision that came first is passed over; any other collision is thrown.
Revalidate ==
    /\ keeper.at = "revalidate"
    /\ IF Applicable(keeper.request) THEN keeper' = IdleKeeper ELSE KeeperGoes("jobs")
    /\ UNCHANGED <<profile, records, age, call, worker, crashes>>

\* Jobs whose request is over, or is not that of the pending submission.
Idling(r) == job[r].status \in Unfinished /\ (isTerminalRequest(r) \/ ~Applicable(r))

CompleteListed ==
    /\ keeper.at = "jobs"
    /\ \E r \in Requests : Idling(r) /\ job' = Completed(r)
    /\ UNCHANGED <<profile, requests, result, age, call, worker, keeper, crashes>>

EndRound ==
    /\ keeper.at = "jobs" /\ \A r \in Requests : ~Idling(r)
    /\ keeper' = IdleKeeper
    /\ UNCHANGED <<profile, records, age, call, worker, crashes>>

Reconcile ==
    \/ ExpireRequest \/ ResetProfile
    \/ FailAbandoned \/ CheckAbandoned \/ EscalateAbandoned \/ RecoverAbandoned
    \/ EnsureListed \/ EscalateLate \/ Revalidate
    \/ CompleteListed \/ EndRound

-----------------------------------------------------------------------------
(* Time, and processes that stop in the middle.                            *)
\* An older submission is never younger than a newer one.
Grows(v) ==
    /\ v <= profile.version
    /\ \A u \in Versions : u < v => age[u] > age[v]
    /\ age' = [age EXCEPT ![v] = @ + 1]
    /\ UNCHANGED <<profile, records, call, worker, keeper, crashes>>

PassDeadline(v) == age[v] = Fresh /\ Grows(v)
PassRetention(v) == age[v] = Late /\ Grows(v)

\* A worker that is still at it when its lease runs out does not notice.
LeaseEnds(r) ==
    /\ job[r].status = "RUNNING" /\ job[r].leased
    /\ job' = [job EXCEPT ![r].leased = FALSE]
    /\ UNCHANGED <<profile, requests, result, age, call, worker, keeper, crashes>>

Crash == crashes < MaxCrashes /\ crashes' = crashes + 1

CrashCall(c) ==
    /\ Crash /\ call[c] # IdleCall
    /\ call' = [call EXCEPT ![c] = IdleCall]
    /\ UNCHANGED <<profile, records, age, worker, keeper>>

\* The next worker has another id.
CrashWorker(w) ==
    /\ Crash /\ worker[w] # IdleWorker
    /\ Rests(w)
    /\ job' = [r \in Requests |-> IF job[r].worker = w THEN [job[r] EXCEPT !.worker = Gone]
                                  ELSE job[r]]
    /\ UNCHANGED <<profile, requests, result, age, call, keeper>>

CrashKeeper ==
    /\ Crash /\ keeper # IdleKeeper
    /\ keeper' = IdleKeeper
    /\ UNCHANGED <<profile, records, age, call, worker>>

-----------------------------------------------------------------------------
Work(w) ==
    \/ Claim(w) \/ ReadRequest(w) \/ Infer(w) \/ StoreResult(w)
    \/ ApplyDecision(w) \/ ApplyReview(w) \/ CompleteJob(w) \/ RecordFailure(w) \/ CheckFailed(w)
    \/ EscalateFailed(w)

Next ==
    \/ \E c \in Submitters : BeginSubmission(c) \/ SaveSubmission(c) \/ EnsureJob(c)
    \/ \E c \in Readers : ListQueue(c)
    \/ \E c \in Callers : EnsureRequest(c) \/ CrashCall(c)
    \/ \E v \in Decisions : AdminDecide(v)
    \/ \E w \in Workers : Work(w) \/ CrashWorker(w)
    \/ Reconcile \/ CrashKeeper
    \/ \E v \in Versions : PassDeadline(v) \/ PassRetention(v)
    \/ \E r \in Requests : LeaseEnds(r)

\* The job loop of the server goes on, and the processing timeout passes; that
\* anybody submits, decides or works, or that the retention passes, is not assumed.
Fairness ==
    /\ WF_vars(Reconcile)
    /\ \A v \in Versions : WF_vars(PassDeadline(v))

Spec == Init /\ [][Next]_vars
FairSpec == Spec /\ Fairness

-----------------------------------------------------------------------------
(* Nobody is verified but by an approval, and rejected but by a rejection: *)
(* the profile never shows a decision that lost to expiry or to another.   *)
StatusIsGranted ==
    /\ profile.status = "verified" => \E r \in Requests : request[r].status = "APPROVED"
    /\ profile.status = "rejected" => \E r \in Requests : request[r].status = "REJECTED"

(* A job that is completed leaves nobody behind: the request of the        *)
(* submission that is pending was decided or waits for an administrator,   *)
(* or its retention is over.                                               *)
CompletedIsAnswered ==
    \A r \in Requests :
        job[r].status = "COMPLETED" /\ request[r].status \in InProcess /\ Applicable(r)
            => ~Retained(request[r].version)

(* A claim under lease is given up by its worker or by its end: another    *)
(* worker, late on an earlier attempt, never takes it back.                *)
RespectsClaims ==
    \A r \in Requests, w \in Workers :
        /\ job[r].status = "RUNNING" /\ job[r].worker = w /\ job[r].leased
        /\ job'[r].status \notin {"RUNNING", "COMPLETED"}
        => worker[w].request = r /\ worker'[w] # worker[w]
ClaimIsRespected == [][RespectsClaims]_vars

(* A request of the pending submission does not stay in process for ever:  *)
(* at the deadline it goes to an administrator, whatever became of its     *)
(* worker, of its job and of earlier rounds.                               *)
EveryRequestIsAnswered ==
    \A r \in Requests :
        (request[r].status \in InProcess /\ Applicable(r))
            ~> ~(request[r].status \in InProcess /\ Applicable(r))
=============================================================================
