--------------------------- MODULE OpeningService ---------------------------
(***************************************************************************)
(* What an opening computer promises to its callers, without the worker,   *)
(* the channels or the lock: each call returns once, with its own point,   *)
(* or is turned away because enough others are outstanding, or fails with  *)
(* the one reason the service went down for.                               *)
(***************************************************************************)
EXTENDS Naturals, FiniteSets

CONSTANTS
    Calls,        \* every call anyone may make
    NoPoint,      \* the point returned beside an error
    MaxPending    \* a call is turned away only if so many are outstanding

VARIABLES
    down,         \* why the service went down, or "none"
    begun,        \* the calls made so far
    outstanding,  \* the calls accepted and not returned
    returned      \* what each call returned

vars == <<down, begun, outstanding, returned>>

Outcome(p, e) == [point |-> p, err |-> e]

Init ==
    /\ down = "none"
    /\ begun = {} /\ outstanding = {}
    /\ returned = [j \in Calls |-> Outcome(NoPoint, "running")]

Begin(j) ==
    /\ j \notin begun
    /\ begun' = begun \cup {j}
    /\ UNCHANGED <<down, outstanding, returned>>

BeginInvalid(j) ==
    /\ j \notin begun
    /\ begun' = begun \cup {j}
    /\ returned' = [returned EXCEPT ![j] = Outcome(NoPoint, "invalid")]
    /\ UNCHANGED <<down, outstanding>>

Fresh(j) == j \in begun \ outstanding /\ returned[j].err = "running"

Accept(j) ==
    /\ Fresh(j) /\ down = "none"
    /\ outstanding' = outstanding \cup {j}
    /\ UNCHANGED <<down, begun, returned>>

\* Only a service that is up and full turns a call away.
TurnAway(j) ==
    /\ Fresh(j) /\ down = "none"
    /\ \E full \in SUBSET outstanding : Cardinality(full) = MaxPending
    /\ returned' = [returned EXCEPT ![j] = Outcome(NoPoint, "busy")]
    /\ UNCHANGED <<down, begun, outstanding>>

Answer(j) ==
    /\ j \in outstanding
    /\ outstanding' = outstanding \ {j}
    /\ returned' = [returned EXCEPT ![j] = Outcome(j, "none")]
    /\ UNCHANGED <<down, begun>>

Fail(j) ==
    /\ Fresh(j) \/ j \in outstanding
    /\ down # "none"
    /\ outstanding' = outstanding \ {j}
    /\ returned' = [returned EXCEPT ![j] = Outcome(NoPoint, down)]
    /\ UNCHANGED <<down, begun>>

GoDown(e) ==
    /\ down = "none"
    /\ down' = e
    /\ UNCHANGED <<begun, outstanding, returned>>

Next ==
    \/ \E j \in Calls : \/ Begin(j) \/ BeginInvalid(j) \/ Accept(j)
                        \/ TurnAway(j) \/ Answer(j) \/ Fail(j)
    \/ \E e \in {"closed", "device"} : GoDown(e)

Spec == Init /\ [][Next]_vars
=============================================================================
