--------------------------- MODULE SubmissionGate ---------------------------
(***************************************************************************)
(* What submitting one application promises its owner, with workers,       *)
(* browsers, job rows and the application's status out of sight: at most   *)
(* one of the owner's authorizations is in force at a time, each presses   *)
(* the provider's submit control at most once and only while it is in      *)
(* force, and a confirmation is about the latest press and is the last     *)
(* thing that happens.                                                     *)
(***************************************************************************)
EXTENDS Naturals

CONSTANTS Auths, None

VARIABLES
    holder,      \* the authorization in force, or None
    granted,     \* the authorizations there have been
    clickedAt,   \* when each pressed submit, counted in presses; 0 is never
    clock,       \* the number of presses
    confirmed    \* the authorizations whose submission is confirmed

gateVars == <<holder, granted, clickedAt, clock, confirmed>>

Init ==
    /\ holder = None
    /\ granted = {}
    /\ clickedAt = [a \in Auths |-> 0]
    /\ clock = 0
    /\ confirmed = {}

Grant(a) ==
    /\ holder = None /\ a \notin granted /\ confirmed = {}
    /\ holder' = a
    /\ granted' = granted \cup {a}
    /\ UNCHANGED <<clickedAt, clock, confirmed>>

Click(a) ==
    /\ holder = a /\ clickedAt[a] = 0 /\ confirmed = {}
    /\ clock' = clock + 1
    /\ clickedAt' = [clickedAt EXCEPT ![a] = clock + 1]
    /\ UNCHANGED <<holder, granted, confirmed>>

Settle(a) ==
    /\ holder = a
    /\ holder' = None
    /\ UNCHANGED <<granted, clickedAt, clock, confirmed>>

Confirm(a) ==
    /\ holder = None /\ confirmed = {}
    /\ clickedAt[a] > 0 /\ clickedAt[a] = clock
    /\ confirmed' = {a}
    /\ UNCHANGED <<holder, granted, clickedAt, clock>>

Next == \E a \in Auths : Grant(a) \/ Click(a) \/ Settle(a) \/ Confirm(a)

Spec == Init /\ [][Next]_gateVars

=============================================================================
