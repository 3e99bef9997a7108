------------------------- MODULE AccountGovernance -------------------------
(* One account and what is done to it by others: the administrators'       *)
(* actions of the dispatcher (suspend, activate, ban, reset of its trust,  *)
(* creator cooldown applied and revoked), the cooldowns the chat brings    *)
(* about, the first submission of its profile, and the bookings it takes   *)
(* part in, which a suspension or a ban ends.                              *)
(*                                                                         *)
(* Suspension, activation and ban read and write the account in one        *)
(* transaction.  Everything else reads it, and saves later the fields it   *)
(* changed of what it read.  An action is recorded IN_PROGRESS under a key *)
(* before it runs and EXECUTED after it ran; nothing repeats one that      *)
(* threw or was cut short.                                                 *)
EXTENDS Naturals, FiniteSets, Functions

CONSTANTS
    Calls,          \* calls of the dispatcher that may run side by side
    Reasons,        \* what tells two keys of one action apart: administrator, reason, parameters
    Bookings,
    AsCreator,      \* the bookings the account takes part in as the creator
    Near,           \* the bookings that start within 24 hours, or have started
    Agreed,         \* the bookings that are confirmed when the behaviour starts
    Kinds,          \* the cooldowns considered, of the two there are
    FirstStatus,    \* the status of the account when the behaviour starts
    MaxScore,       \* bound on the abuse score, in steps of 20
    MaxExecutions   \* bound on the actions recorded

ASSUME GovernanceAssumption ==
    /\ AsCreator \subseteq Bookings /\ Near \subseteq Bookings /\ Agreed \subseteq Bookings
    /\ Kinds \subseteq {"userCooldownUntil", "creatorCooldownUntil"}
    /\ FirstStatus \in {"pending_profile", "active"}
    /\ MaxScore \in 0 .. 2 /\ MaxExecutions \in Nat

VARIABLES
    user,         \* the account
    execution,    \* the executions recorded, by key
    dispatch,     \* per call: how far it is, its key, what it read, what it has to end
    booking,      \* status of each booking
    ask,          \* per booking: a request or an accept past its test of the account
    submission,   \* the first submission of the profile
    abuse,        \* the chat message being judged
    unswept       \* auxiliary: bookings no suspension or ban will end, see SweepsFindAll
governanceVars == <<user, execution, dispatch, booking, ask, submission, abuse, unswept>>
-----------------------------------------------------------------------------
Actions == {"SUSPEND_USER", "ACTIVATE_USER", "BAN_USER", "RESET_USER_TRUST",
            "APPLY_CREATOR_COOLDOWN", "REVOKE_CREATOR_COOLDOWN"}
Keys == Reasons \X Actions
NoKey == <<"none", "none">>

\* A cooldown: none, or over, and two dates to come.
None == 0
Short == 1
Long == 2
Cooldowns == None .. Long

Accounts == [governanceState : {"ACTIVE", "SUSPENDED", "BANNED"},
             status : {"pending_profile", "active", "suspended", "banned"},
             abuseScore : 0 .. MaxScore,
             userCooldownUntil : Cooldowns, creatorCooldownUntil : Cooldowns]

NewUser == [governanceState |-> "ACTIVE", status |-> FirstStatus, abuseScore |-> 0,
            userCooldownUntil |-> None, creatorCooldownUntil |-> None]

Steps == {"idle", "confirmed", "run", "apply", "save", "find", "sweep", "done"}

\* What a save writes of an account: some of the fields the services below change.
SavedFields == {"status", "abuseScore", "userCooldownUntil", "creatorCooldownUntil"}
Savings == {Restrict(a, F) : a \in Accounts, F \in SUBSET SavedFields}
Saved(saves, a) == [f \in DOMAIN a |-> IF f \in DOMAIN saves THEN saves[f] ELSE a[f]]

CallStates == [step : Steps, key : Keys \cup {NoKey}, saves : Savings, seen : Cooldowns,
               left : SUBSET Bookings]

GovernanceTypes ==
    /\ user \in Accounts
    /\ execution \in [Keys -> {"NONE", "IN_PROGRESS", "EXECUTED"}]
    /\ dispatch \in [Calls -> CallStates]
    /\ booking \in [Bookings -> {"NONE", "REQUESTED", "CONFIRMED", "ENDED"}]
    /\ ask \in [Bookings -> {"none", "asked", "accepting"}]
    /\ submission \in {"none", "activates", "keeps", "saved"}
    /\ abuse \in [step : {"idle", "score", "read", "save"}, score : 0 .. MaxScore,
                  kind : Kinds \cup {"none"}, seen : Cooldowns]
    /\ unswept \subseteq Bookings

Nothing == Restrict(NewUser, {})
Idle == [step |-> "idle", key |-> NoKey, saves |-> Nothing, seen |-> None, left |-> {}]

NoAbuse == [step |-> "idle", score |-> 0, kind |-> "none", seen |-> None]

GovernanceInit ==
    /\ user = NewUser
    /\ execution = [k \in Keys |-> "NONE"]
    /\ dispatch = [c \in Calls |-> Idle]
    /\ booking = [b \in Bookings |-> IF b \in Agreed THEN "CONFIRMED" ELSE "NONE"]
    /\ ask = [b \in Bookings |-> "none"]
    /\ submission = "none"
    /\ abuse = NoAbuse
    /\ unswept = {}
-----------------------------------------------------------------------------
(* What the account may do. *)

isFutureDate(d) == d > None
Governed == user.governanceState \in {"SUSPENDED", "BANNED"}
Cooled(k) == isFutureDate(user[k])

blocksOutgoingBookings == Governed \/ \E k \in Kinds : Cooled(k)
blocksIncomingBookings == Governed \/ Cooled("creatorCooldownUntil")
blocksAcceptingBookings == Governed \/ Cooled("creatorCooldownUntil")

\* Whoever is suspended or banned is refused before any route: by the status,
\* not by the state of the governance.
ShutOut == user.status \in {"suspended", "banned"}

\* What a suspension or ban ends: requests, and what was confirmed unless it
\* is about to start, or on.
Open(b) == booking[b] \in {"REQUESTED", "CONFIRMED"}
Terminable(b) == booking[b] = "REQUESTED" \/ (booking[b] = "CONFIRMED" /\ b \notin Near)
-----------------------------------------------------------------------------
(* The dispatcher. *)

Action(c) == dispatch[c].key[2]
At(c, step, action) == dispatch[c].step = step /\ Action(c) = action
Goto(c, step) ==
    dispatch' = [dispatch EXCEPT ![c].step = step, ![c].saves = Nothing, ![c].seen = None]
Drop(c) == dispatch' = [dispatch EXCEPT ![c] = Idle]

Recorded == {k \in Keys : execution[k] # "NONE"}

\* What the dry run answers: without a preview there is no confirmation token.
Previewed(action) ==
    CASE action = "ACTIVATE_USER"           -> user.governanceState # "BANNED"
      [] action = "APPLY_CREATOR_COOLDOWN"  -> ~ Cooled("creatorCooldownUntil")
      [] action = "REVOKE_CREATOR_COOLDOWN" -> Cooled("creatorCooldownUntil")
      [] OTHER                              -> TRUE

\* An administrator previews an action and gets a token for exactly its key.
Preview(c) ==
    /\ dispatch[c].step = "idle"
    /\ \E k \in Keys :
          /\ Previewed(k[2])
          /\ Cardinality(Recorded \cup {k}) <= MaxExecutions
          /\ dispatch' = [dispatch EXCEPT ![c].step = "confirmed", ![c].key = k]
    /\ UNCHANGED <<user, execution, booking, ask, submission, abuse, unswept>>

\* Mutant: looks for an executed record instead of relying on the unique key.
ClaimableUnlessExecuted(k) == execution[k] # "EXECUTED"
Claimable(k) == execution[k] = "NONE"

\* The action is confirmed: the record of its key is created, IN_PROGRESS.
ClaimExecution(c) ==
    /\ dispatch[c].step = "confirmed"
    /\ Claimable(dispatch[c].key)
    /\ Cardinality(Recorded \cup {dispatch[c].key}) <= MaxExecutions
    /\ execution' = [execution EXCEPT ![dispatch[c].key] = "IN_PROGRESS"]
    /\ Goto(c, "run")
    /\ UNCHANGED <<user, booking, ask, submission, abuse, unswept>>

\* It is not: the token expires, an operator control, a throttle or the feature
\* flag stands in the way, or the key is taken, so that the call answers with
\* the recorded result or that the action is in progress.
Answer(c) ==
    /\ dispatch[c].step = "confirmed"
    /\ Drop(c)
    /\ UNCHANGED <<user, execution, booking, ask, submission, abuse, unswept>>

\* The action throws (its guard refuses, a transaction meets a conflict, the
\* database fails) or the server stops: the record stays IN_PROGRESS.
Fail(c) ==
    /\ dispatch[c].step \notin {"idle", "confirmed"}
    /\ Drop(c)
    /\ unswept' = CASE dispatch[c].step = "find"  -> unswept \cup {b \in Bookings : Terminable(b)}
                    [] dispatch[c].step = "sweep" -> unswept \cup dispatch[c].left
                    [] OTHER                  -> unswept
    /\ UNCHANGED <<user, execution, booking, ask, submission, abuse>>

Finished(c) == dispatch[c].step = "done" \/ (dispatch[c].step = "sweep" /\ dispatch[c].left = {})

\* The action ran: audited, recorded EXECUTED, logged.
Finish(c) ==
    /\ Finished(c)
    /\ execution' = [execution EXCEPT ![dispatch[c].key] = "EXECUTED"]
    /\ Drop(c)
    /\ UNCHANGED <<user, booking, ask, submission, abuse, unswept>>
-----------------------------------------------------------------------------
(* Suspension, ban and activation: one transaction each. *)

\* Mutant: a suspension tests for a suspension only.
SuspendableAnyway == TRUE
Suspendable == user.governanceState # "BANNED"

Suspend(c) ==
    /\ At(c, "run", "SUSPEND_USER")
    /\ Suspendable
    /\ user' = [user EXCEPT !.governanceState = "SUSPENDED", !.status = "suspended"]
    /\ Goto(c, "find")
    /\ UNCHANGED <<execution, booking, ask, submission, abuse, unswept>>

\* A ban of a banned account writes nothing, the status neither.
Ban(c) ==
    /\ At(c, "run", "BAN_USER")
    /\ user' = IF user.governanceState = "BANNED" THEN user
               ELSE [user EXCEPT !.governanceState = "BANNED", !.status = "banned"]
    /\ Goto(c, "find")
    /\ UNCHANGED <<execution, booking, ask, submission, abuse, unswept>>

Activate(c) ==
    /\ At(c, "run", "ACTIVATE_USER")
    /\ user.governanceState = "SUSPENDED"
    /\ user' = [user EXCEPT !.governanceState = "ACTIVE", !.status = "active"]
    /\ Goto(c, "done")
    /\ unswept' = {}
    /\ UNCHANGED <<execution, booking, ask, submission, abuse>>
-----------------------------------------------------------------------------
(* The bookings of a suspended or banned account, after the commit. *)

\* Mutant: the first booking that is kept ends the sweep.
FoundUnlessOneIsKept ==
    IF \E b \in Near : booking[b] = "CONFIRMED" THEN {} ELSE {b \in Bookings : Terminable(b)}
Found == {b \in Bookings : Terminable(b)}

Find(c) ==
    /\ dispatch[c].step = "find"
    /\ dispatch' = [dispatch EXCEPT ![c].step = "sweep", ![c].left = Found]
    /\ unswept' = {}
    /\ UNCHANGED <<user, execution, booking, ask, submission, abuse>>

\* One booking found is ended, whatever it has become.
Terminate(c) ==
    /\ dispatch[c].step = "sweep"
    /\ \E b \in dispatch[c].left :
          /\ Open(b)
          /\ booking' = [booking EXCEPT ![b] = "ENDED"]
          /\ dispatch' = [dispatch EXCEPT ![c].left = @ \ {b}]
          /\ unswept' = unswept \ {b}
    /\ UNCHANGED <<user, execution, ask, submission, abuse>>

\* Or it is left as it is, and the sweep goes on: its termination throws (it ended
\* since, its slots are disabled or deleted, the provider refuses the void, a
\* conflict, the database) and is reported FAILED, or its payment, reservation or
\* slots are not as they should be and it is reported FINANCIAL_LOCKED.
LeaveAsItIs(c) ==
    /\ dispatch[c].step = "sweep"
    /\ \E b \in dispatch[c].left :
          /\ dispatch' = [dispatch EXCEPT ![c].left = @ \ {b}]
          /\ unswept' = IF Open(b) THEN unswept \cup {b} ELSE unswept \ {b}
    /\ UNCHANGED <<user, execution, booking, ask, submission, abuse>>
-----------------------------------------------------------------------------
(* Trust and cooldowns: read, then saved.  A save writes the fields that   *)
(* were given another value than was read, and no others.                  *)

Changes(read, wanted) == Restrict(wanted, {f \in DOMAIN read : wanted[f] # read[f]})

Projected(state) ==
    CASE state = "BANNED" -> "banned" [] state = "SUSPENDED" -> "suspended" [] OTHER -> "active"

\* Mutant: the reset does not look at the governance.
ResetToActive(u) ==
    [u EXCEPT !.abuseScore = 0, !.userCooldownUntil = None, !.creatorCooldownUntil = None,
              !.status = "active"]
\* A score below 20 counts as 0.
Reset(u) ==
    [u EXCEPT !.abuseScore = 0, !.userCooldownUntil = None, !.creatorCooldownUntil = None,
              !.status = Projected(u.governanceState)]

ReadForReset(c) ==
    /\ At(c, "run", "RESET_USER_TRUST")
    /\ dispatch' = [dispatch EXCEPT ![c].step = "save", ![c].saves = Changes(user, Reset(user))]
    /\ UNCHANGED <<user, execution, booking, ask, submission, abuse, unswept>>

ReadForRevoke(c) ==
    /\ At(c, "run", "REVOKE_CREATOR_COOLDOWN")
    /\ dispatch' = [dispatch EXCEPT ![c].step = "save",
           ![c].saves = Changes(user, [user EXCEPT !.creatorCooldownUntil = None])]
    /\ UNCHANGED <<user, execution, booking, ask, submission, abuse, unswept>>

\* The service refuses while a cooldown is on; the executor reads again.
CheckCooldown(c) ==
    /\ At(c, "run", "APPLY_CREATOR_COOLDOWN")
    /\ ~ Cooled("creatorCooldownUntil")
    /\ Goto(c, "apply")
    /\ UNCHANGED <<user, execution, booking, ask, submission, abuse, unswept>>

\* Mutant: a cooldown is written whatever is there.
OutlastsAnything(until, existing) == TRUE
\* A cooldown is written unless the one there lasts as long.  Of two that are
\* equally long the one begun later lasts longer, if only by a millisecond.
Outlasts(until, existing) == until >= existing

\* The administrator chooses the days.
ReadForApply(c) ==
    /\ dispatch[c].step = "apply"
    /\ LET existing == user.creatorCooldownUntil IN
       \E until \in {Short, Long} :
          \/ /\ Outlasts(until, existing)
             /\ dispatch' = [dispatch EXCEPT ![c].step = "save", ![c].seen = existing,
                    ![c].saves = Restrict([user EXCEPT !.creatorCooldownUntil = until],
                                          {"creatorCooldownUntil"})]
          \/ /\ existing >= until
             /\ Goto(c, "done")
    /\ UNCHANGED <<user, execution, booking, ask, submission, abuse, unswept>>

Save(c) ==
    /\ dispatch[c].step = "save"
    /\ user' = Saved(dispatch[c].saves, user)
    /\ Goto(c, "done")
    /\ UNCHANGED <<execution, booking, ask, submission, abuse, unswept>>

\* Time passes and a cooldown is over.
Expire(k) ==
    /\ Cooled(k)
    /\ user' = [user EXCEPT ![k] = None]
    /\ UNCHANGED <<execution, dispatch, booking, ask, submission, abuse, unswept>>
-----------------------------------------------------------------------------
(* Abuse in the chat: the score is raised, then read, then a cooldown of   *)
(* either kind is read, compared and saved.                                *)

\* Length of the automatic cooldowns of a score.
Automatic(score, k) ==
    CASE score = 0 -> None
      [] score = 1 -> IF k = "userCooldownUntil" THEN Short ELSE None
      [] score = 2 -> IF k = "userCooldownUntil" THEN Long ELSE Short

\* An event may leave the score in the band it was in.
applyAbuseScore ==
    /\ abuse.step = "idle"
    /\ \E score \in {user.abuseScore, user.abuseScore + 1} \cap (0 .. MaxScore) :
          user' = [user EXCEPT !.abuseScore = score]
    /\ abuse' = [abuse EXCEPT !.step = "score"]
    /\ UNCHANGED <<execution, dispatch, booking, ask, submission, unswept>>

\* The cooldowns a score brings are applied one after the other, the user's first.
Continue(score, kinds) ==
    LET due == {k \in kinds : Automatic(score, k) # None} IN
    IF due = {} THEN NoAbuse
    ELSE [step |-> "read", score |-> score, seen |-> None,
          kind |-> IF "userCooldownUntil" \in due THEN "userCooldownUntil" ELSE "creatorCooldownUntil"]

applyCooldownIfNeeded ==
    /\ abuse.step = "score"
    /\ abuse' = Continue(user.abuseScore, Kinds)
    /\ UNCHANGED <<user, execution, dispatch, booking, ask, submission, unswept>>

NextAbuse == Continue(abuse.score, Kinds \ {"userCooldownUntil", abuse.kind})

ReadAutomatic ==
    /\ abuse.step = "read"
    /\ LET until == Automatic(abuse.score, abuse.kind)
           existing == user[abuse.kind]
       IN \/ /\ Outlasts(until, existing)
             /\ abuse' = [abuse EXCEPT !.step = "save", !.seen = existing]
          \/ /\ existing >= until
             /\ abuse' = NextAbuse
    /\ UNCHANGED <<user, execution, dispatch, booking, ask, submission, unswept>>

SaveAutomatic ==
    /\ abuse.step = "save"
    /\ user' = [user EXCEPT ![abuse.kind] = Automatic(abuse.score, abuse.kind)]
    /\ abuse' = NextAbuse
    /\ UNCHANGED <<execution, dispatch, booking, ask, submission, unswept>>
-----------------------------------------------------------------------------
(* The first submission of the profile makes a new account active. *)

ReadForSubmission ==
    /\ submission = "none"
    /\ ~ ShutOut
    /\ submission' = IF user.status = "pending_profile" THEN "activates" ELSE "keeps"
    /\ UNCHANGED <<user, execution, dispatch, booking, ask, abuse, unswept>>

SaveSubmittedUser ==
    /\ submission \in {"activates", "keeps"}
    /\ user' = IF submission = "activates" THEN [user EXCEPT !.status = "active"] ELSE user
    /\ submission' = "saved"
    /\ UNCHANGED <<execution, dispatch, booking, ask, abuse, unswept>>
-----------------------------------------------------------------------------
(* Bookings, as far as the account matters to them. *)

\* createBooking tests the account before its transaction: as the customer,
\* who must also be active, or as the creator who is asked.
Ask(b) ==
    /\ booking[b] = "NONE" /\ ask[b] = "none"
    /\ IF b \in AsCreator THEN ~ blocksIncomingBookings
       ELSE user.status = "active" /\ ~ blocksOutgoingBookings
    /\ ask' = [ask EXCEPT ![b] = "asked"]
    /\ UNCHANGED <<user, execution, dispatch, booking, submission, abuse, unswept>>

Request(b) ==
    /\ ask[b] = "asked"
    /\ booking' = [booking EXCEPT ![b] = "REQUESTED"]
    /\ ask' = [ask EXCEPT ![b] = "none"]
    /\ unswept' = IF Governed THEN unswept \cup {b} ELSE unswept
    /\ UNCHANGED <<user, execution, dispatch, submission, abuse>>

\* Only the creator who accepts is tested, not the customer.
StartAccept(b) ==
    /\ booking[b] = "REQUESTED" /\ ask[b] = "none"
    /\ b \in AsCreator => ~ ShutOut /\ ~ blocksAcceptingBookings
    /\ ask' = [ask EXCEPT ![b] = "accepting"]
    /\ UNCHANGED <<user, execution, dispatch, booking, submission, abuse, unswept>>

Accept(b) ==
    /\ ask[b] = "accepting"
    /\ booking' = IF booking[b] = "REQUESTED" THEN [booking EXCEPT ![b] = "CONFIRMED"] ELSE booking
    /\ ask' = [ask EXCEPT ![b] = "none"]
    /\ UNCHANGED <<user, execution, dispatch, submission, abuse, unswept>>

\* It is cancelled, rejected, expired or completed.
End(b) ==
    /\ Open(b)
    /\ booking' = [booking EXCEPT ![b] = "ENDED"]
    /\ UNCHANGED <<user, execution, dispatch, ask, submission, abuse, unswept>>
-----------------------------------------------------------------------------
GovernanceNext ==
    \/ \E c \in Calls :
          \/ Preview(c) \/ ClaimExecution(c) \/ Answer(c) \/ Fail(c) \/ Finish(c)
          \/ Suspend(c) \/ Ban(c) \/ Activate(c)
          \/ Find(c) \/ Terminate(c) \/ LeaveAsItIs(c)
          \/ ReadForReset(c) \/ ReadForRevoke(c)
          \/ CheckCooldown(c) \/ ReadForApply(c) \/ Save(c)
    \/ applyAbuseScore \/ applyCooldownIfNeeded \/ ReadAutomatic \/ SaveAutomatic
    \/ ReadForSubmission \/ SaveSubmittedUser
    \/ \E k \in Kinds : Expire(k)
    \/ \E b \in Bookings : Ask(b) \/ Request(b) \/ StartAccept(b) \/ Accept(b) \/ End(b)

GovernanceSpec == GovernanceInit /\ [][GovernanceNext]_governanceVars
-----------------------------------------------------------------------------
Working(c) == dispatch[c].step \notin {"idle", "confirmed"}

\* The unique key of an execution keeps two calls apart: an action under a key
\* is run by one call only, and not again once it is recorded as executed.
ClaimsAreExclusive ==
    \A c \in Calls : Working(c) =>
        /\ execution[dispatch[c].key] = "IN_PROGRESS"
        /\ \A d \in Calls \ {c} : Working(d) => dispatch[d].key # dispatch[c].key

\* "Legacy status remains a compatibility projection while governanceState is
\* the decision authority": the routes look at the status, so a banned or
\* suspended account is shut out only as long as the two agree.
StatusFollowsGovernance ==
    CASE user.governanceState = "BANNED"    -> user.status = "banned"
      [] user.governanceState = "SUSPENDED" -> user.status = "suspended"
      [] OTHER                              -> ~ ShutOut

\* A ban the dispatcher answered for stands, whatever suspensions, activations
\* and resets were under way with it.
RecordedBanStands ==
    (\E r \in Reasons : execution[<<r, "BAN_USER">>] = "EXECUTED") => user.governanceState = "BANNED"

\* Which bookings that should have been ended a governed account still has:
\* those a suspension or ban is about to end, those requested after the last of
\* them looked (by a call that had tested the account before), those it was
\* stopped before it ended, and those it reported FAILED or FINANCIAL_LOCKED.
\* Every other one found is ended, also after one that is kept or that failed.
SweepsFindAll ==
    Governed => \A b \in Bookings : Terminable(b) =>
        \/ b \in unswept
        \/ \E c \in Calls : \/ dispatch[c].step = "find"
                            \/ dispatch[c].step = "sweep" /\ b \in dispatch[c].left

\* A cooldown that is on is replaced by a shorter one only by a save that did
\* not see it: one that read the account before it was applied.
ShortenedUnseen ==
    [][\A k \in Kinds :
          LET is == user[k]
              will == user'[k]
          IN will > None /\ will < is =>
                \/ abuse' # abuse /\ abuse.seen # is
                \/ \E c \in Calls : dispatch'[c] # dispatch[c] /\ dispatch[c].seen # is]_governanceVars
=============================================================================
