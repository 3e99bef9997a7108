---------------------------- MODULE DisputeCase ----------------------------
(***************************************************************************)
(* The dispute of one booking: opening, the investigation of both sides,   *)
(* the two ways an administrator decides it, and the escalation job.       *)
(*                                                                         *)
(* Every call reads the dispute first (Begin..., Read...) and writes later:*)
(* the status test is not repeated by the write.  Deciding is a            *)
(* transaction: snapshot, save, commit.  Its save fails when the dispute   *)
(* was written since the snapshot or is held by another transaction; the   *)
(* other writes of the dispute wait for a holder.  Mongoose saves the      *)
(* changed paths only, so a late save leaves the status alone.             *)
(*                                                                         *)
(* Appeals do not occur: their routes are not mounted, so no dispute is    *)
(* ever locked by one.                                                     *)
(***************************************************************************)
EXTENDS Integers, FiniteSets

CONSTANTS
    Admins,       \* requests of administrators
    Nobody,
    Kinds         \* kinds of items that are added to the case file

ASSUME CaseAssumption ==
    /\ Nobody \notin Admins
    /\ "CUSTOMER" \notin Admins /\ "CREATOR" \notin Admins /\ "JOB" \notin Admins
    /\ Kinds \subseteq {"STATEMENT", "ATTACHMENT", "SHARED", "FINDING", "REQUEST", "EVIDENCE"}

Roles == {"CUSTOMER", "CREATOR"}
Authors == Roles \cup Admins
Callers == Authors \cup {"JOB"}

VARIABLES
    window,       \* of the booking: may a dispute be opened, now or no more
    dispute,      \* the document; status "NONE" before it exists
    file,         \* items recorded: submissions, findings, requests, evidence
    request          \* where each request, and the job, stands

caseVars == <<window, dispute, file, request>>

Levels == {"NONE", "SOFT", "HARD"}
InputStates == {"OPEN", "CLOSED"}
Decisions == {"finalize", "resolve"}
Items == [kind : Kinds, of : Authors]

AtRest == [step |-> "idle"]
RequestState ==
    {AtRest}
    \cup [step : {"opening"}]
    \cup [step : {"adding"}, item : Items]
    \cup [step : {"setting"}, role : Roles, state : InputStates]
    \cup [step : {"reading", "deciding", "conflict", "committing"},
          how : Decisions]
    \cup [step : {"escalating"}, level : Levels]

CaseTypeOK ==
    /\ window \in {"BEFORE", "OPEN", "OVER"}
    /\ dispute \in [status : {"NONE", "OPEN", "RESOLVED", "REJECTED"},
                    input : [Roles -> InputStates],
                    level : Levels,
                    finalDecision : Admins \cup {Nobody},
                    resolution : Admins \cup {Nobody}]
    /\ file \subseteq Items
    /\ request \in [Callers -> RequestState]

CaseInit ==
    /\ window = "BEFORE"
    /\ dispute = [status |-> "NONE", input |-> [r \in Roles |-> "CLOSED"],
                  level |-> "NONE",
                  finalDecision |-> Nobody, resolution |-> Nobody]
    /\ file = {}
    /\ request = [c \in Callers |-> AtRest]

Goto(c, state) == request' = [request EXCEPT ![c] = state]
Begin(c, state) == request[c] = AtRest /\ Goto(c, state)
End(c) == Goto(c, AtRest)

IsOpen == dispute.status = "OPEN"

\* A transaction has saved the dispute and not ended yet.
Held == \E a \in Admins : request[a].step = "committing"

\* Mutant: a transaction does not notice that the dispute was written meanwhile.
WrittenUnseen(c, state) == [request EXCEPT ![c] = state]

\* c has written the dispute and goes on to state; the open snapshots are out
\* of date.
Written(c, state) ==
    [d \in Callers |->
        IF d = c THEN state
        ELSE IF request[d].step = "deciding" THEN [request[d] EXCEPT !.step = "conflict"]
        ELSE request[d]]

-----------------------------------------------------------------------------
(* Opening *)

\* The booking ends; 24 hours after a completion (and never after a
\* cancellation or expiry) it is too late for a dispute.
WindowMoves ==
    /\ \/ window = "BEFORE" /\ window' = "OPEN"
       \/ window = "OPEN" /\ window' = "OVER"
    /\ UNCHANGED <<dispute, file, request>>

\* disputeIneligibility returns null.
Eligible == window = "OPEN"

\* Both participants may find that there is no dispute yet ...
BeginOpen(p) ==
    /\ Eligible /\ dispute.status = "NONE"
    /\ Begin(p, [step |-> "opening"])
    /\ UNCHANGED <<window, dispute, file>>

\* ... and only one creates it: bookingId is unique, the other gets a 409.
CreateDispute(p) ==
    /\ request[p].step = "opening"
    /\ dispute' = IF dispute.status # "NONE" THEN dispute
                  ELSE [dispute EXCEPT !.status = "OPEN",
                                       !.input = [r \in Roles |-> "OPEN"]]
    /\ End(p)
    /\ UNCHANGED <<window, file>>

-----------------------------------------------------------------------------
(* The case file *)

\* Who may add what, as the dispute was when it was read.
MayAdd(c, item) ==
    /\ IsOpen
    /\ CASE item.kind \in {"STATEMENT", "ATTACHMENT"} ->
              c \in Roles /\ item.of = c /\ dispute.input[c] = "OPEN"
         [] item.kind = "SHARED" ->        \* attachments are not shared
              /\ c \in Admins /\ item.of \in Roles
              /\ [item EXCEPT !.kind = "STATEMENT"] \in file
         [] item.kind = "FINDING" ->
              c \in Admins /\ item.of = c /\ dispute.finalDecision = Nobody
         [] item.kind = "REQUEST" -> c \in Admins /\ item.of = c
         [] item.kind = "EVIDENCE" ->      \* uploaded between the read and the write
              item.of = c /\ (c \in Roles => dispute.input[c] = "OPEN")

BeginItem(c, item) ==
    /\ MayAdd(c, item) /\ item \notin file
    /\ Begin(c, [step |-> "adding", item |-> item])
    /\ UNCHANGED <<window, dispute, file>>

AddItem(c) ==
    /\ request[c].step = "adding"
    /\ file' = file \cup {request[c].item}
    /\ End(c)
    /\ UNCHANGED <<window, dispute>>

-----------------------------------------------------------------------------
(* setAdminDisputeInputAccess *)

\* Mutant: the status is not looked at.
InputMayChangeAlways == dispute.status # "NONE"

InputMayChange == IsOpen

BeginSetInput(a, r, state) ==
    /\ InputMayChange /\ dispute.input[r] # state
    /\ Begin(a, [step |-> "setting", role |-> r, state |-> state])
    /\ UNCHANGED <<window, dispute, file>>

InputSaved(r, state) == [dispute EXCEPT !.input[r] = state]

SaveInput(a) ==
    /\ request[a].step = "setting" /\ ~Held
    /\ dispute' = InputSaved(request[a].role, request[a].state)
    /\ request' = Written(a, AtRest)
    /\ UNCHANGED <<window, file>>

-----------------------------------------------------------------------------
(* finalizeAdminDispute, and resolveDispute with NO_ACTION (its other actions *)
(* are refused)                                                               *)

BeginDecision(a, how) ==
    /\ dispute.status # "NONE"
    /\ Begin(a, [step |-> "reading", how |-> how])
    /\ UNCHANGED <<window, dispute, file>>

MayDecide(how) ==
    /\ IsOpen
    /\ how = "finalize" => \A r \in Roles : dispute.input[r] = "CLOSED"

\* The snapshot.  A decision that is there already is replayed, or refused.
ReadDecision(a) ==
    /\ request[a].step = "reading"
    /\ IF MayDecide(request[a].how) THEN Goto(a, [request[a] EXCEPT !.step = "deciding"])
       ELSE End(a)
    /\ UNCHANGED <<window, dispute, file>>

\* withTransaction starts over; the plain transaction of resolveDispute aborts.
Retried(a) ==
    IF request[a].how = "finalize" THEN [request[a] EXCEPT !.step = "reading"] ELSE AtRest

\* dispute.save in the transaction.
SaveDecision(a) ==
    /\ \/ request[a].step = "deciding" /\ ~Held
          /\ Goto(a, [request[a] EXCEPT !.step = "committing"])
       \/ request[a].step = "deciding" /\ Held /\ Goto(a, Retried(a))
       \/ request[a].step = "conflict" /\ Goto(a, Retried(a))
    /\ UNCHANGED <<window, dispute, file>>

Decided(a, how) ==
    IF how = "finalize"
    THEN [dispute EXCEPT !.status = "RESOLVED", !.finalDecision = a]
    ELSE [dispute EXCEPT !.status = "REJECTED", !.resolution = a]

CommitDecision(a) ==
    /\ request[a].step = "committing"
    /\ dispute' = Decided(a, request[a].how)
    /\ request' = Written(a, AtRest)
    /\ UNCHANGED <<window, file>>

\* The commit fails with a transient error.
AbortDecision(a) ==
    /\ request[a].step = "committing"
    /\ Goto(a, Retried(a))
    /\ UNCHANGED <<window, dispute, file>>

-----------------------------------------------------------------------------
(* disputeEscalationJob *)

\* The level due is NONE, SOFT or HARD after none, one or two SLA periods,
\* hence never below the one it was given before.
Rank(level) == CASE level = "NONE" -> 0 [] level = "SOFT" -> 1 [] OTHER -> 2

\* The job reads the open disputes; a new signal alone is a reason to save too.
BeginEscalation(level) ==
    /\ IsOpen /\ Rank(level) >= Rank(dispute.level)
    /\ Begin("JOB", [step |-> "escalating", level |-> level])
    /\ UNCHANGED <<window, dispute, file>>

\* Each dispute is saved when its turn comes, decided or not.
SaveEscalation ==
    /\ request["JOB"].step = "escalating" /\ ~Held
    /\ dispute' = [dispute EXCEPT !.level = request["JOB"].level]
    /\ request' = Written("JOB", AtRest)
    /\ UNCHANGED <<window, file>>

\* The request fails, or the server stops: what was saved stays, an open
\* transaction is rolled back.
Lost(c) ==
    /\ request[c] # AtRest
    /\ End(c)
    /\ UNCHANGED <<window, dispute, file>>

-----------------------------------------------------------------------------
Decide(a) == ReadDecision(a) \/ SaveDecision(a) \/ CommitDecision(a)

CaseNext ==
    \/ WindowMoves \/ SaveEscalation
    \/ \E level \in Levels : BeginEscalation(level)
    \/ \E c \in Callers : Lost(c)
    \/ \E p \in Roles : BeginOpen(p) \/ CreateDispute(p)
    \/ \E c \in Authors :
          \/ \E item \in Items : BeginItem(c, item)
          \/ AddItem(c)
    \/ \E a \in Admins :
          \/ \E r \in Roles, state \in InputStates : BeginSetInput(a, r, state)
          \/ \E how \in Decisions : BeginDecision(a, how)
          \/ SaveInput(a) \/ Decide(a) \/ AbortDecision(a)

CaseSpec == CaseInit /\ [][CaseNext]_caseVars

-----------------------------------------------------------------------------
(* Properties *)

\* A dispute is decided in one way and by one administrator, however many
\* finalizations, resolutions and retries overlap: its status tells which
\* decision it carries.
OneDecision ==
    /\ dispute.status = "RESOLVED" <=> dispute.finalDecision # Nobody
    /\ dispute.status = "REJECTED" <=> dispute.resolution # Nobody

\* The dispute implements DisputeOutcome.  The final decision is committed with
\* both inputs closed although an administrator may reopen one meanwhile, and
\* the late saves of inputs and of the escalation job reopen nothing.
Outcome == INSTANCE DisputeOutcome WITH
    status <- dispute.status,
    accepting <- {r \in Roles : dispute.input[r] = "OPEN"},
    decider <- IF dispute.finalDecision # Nobody THEN dispute.finalDecision
               ELSE dispute.resolution
OutcomeSpec == Outcome!Spec

\* A decided dispute comes to rest: only requests that had read it before may
\* still change it or its file, so there is a last change.
DecidedComesToRest ==
    <>(dispute.status \in {"RESOLVED", "REJECTED"}) => <>[][FALSE]_<<dispute, file>>
=============================================================================
