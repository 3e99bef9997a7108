--------------------------- MODULE DisputeOutcome ---------------------------
(* What the participants of a dispute may rely on: it is opened once and      *)
(* decided once, by one administrator; a final decision is only taken while   *)
(* neither participant may still submit; what is decided is never reopened.   *)

CONSTANTS Roles, Admins, Nobody

VARIABLES
    status,       \* Dispute.status, "NONE" before there is one
    accepting,    \* roles whose input is OPEN
    decider       \* who decided

vars == <<status, accepting, decider>>

Init == status = "NONE" /\ accepting = {} /\ decider = Nobody

Open ==
    /\ status = "NONE" /\ status' = "OPEN"
    /\ accepting' = Roles
    /\ UNCHANGED decider

\* An administrator opens or closes an input; too late, it decides nothing.
Adjust == accepting' \in SUBSET Roles /\ UNCHANGED <<status, decider>>

Finalize(a) ==
    /\ status = "OPEN" /\ accepting = {}
    /\ status' = "RESOLVED" /\ decider' = a
    /\ UNCHANGED accepting

Reject(a) ==
    /\ status = "OPEN"
    /\ status' = "REJECTED" /\ decider' = a
    /\ UNCHANGED accepting

Next ==
    \/ Open
    \/ status # "NONE" /\ Adjust
    \/ \E a \in Admins : Finalize(a) \/ Reject(a)

Spec == Init /\ [][Next]_vars
=============================================================================
