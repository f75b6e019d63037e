--------------------------- MODULE OutboxDelivery ---------------------------
(***************************************************************************)
(* What the transactional outbox promises the code that inserts events,    *)
(* with publishers, leases and retries out of sight: an event takes effect *)
(* at most once, is announced at most once and only after its effect, is   *)
(* published only after its effect, and a verdict on it is final.          *)
(***************************************************************************)
EXTENDS Naturals

CONSTANTS Events

VARIABLES
    verdict,     \* "none", "open", "published" or "failed", by event
    effected,    \* the events that have taken effect
    announced    \* how often each was announced to live clients

deliveryVars == <<verdict, effected, announced>>

Init ==
    /\ verdict = [e \in Events |-> "none"]
    /\ effected = {}
    /\ announced = [e \in Events |-> 0]

Accept(e) ==
    /\ verdict[e] = "none"
    /\ verdict' = [verdict EXCEPT ![e] = "open"]
    /\ UNCHANGED <<effected, announced>>

\* An effect may come after the event was given up: its last publisher was only slow.
TakeEffect(e) ==
    /\ verdict[e] \in {"open", "failed"} /\ e \notin effected
    /\ effected' = effected \cup {e}
    /\ UNCHANGED <<verdict, announced>>

Announce(e) ==
    /\ e \in effected /\ announced[e] = 0
    /\ announced' = [announced EXCEPT ![e] = 1]
    /\ UNCHANGED <<verdict, effected>>

Publish(e) ==
    /\ verdict[e] = "open" /\ e \in effected
    /\ verdict' = [verdict EXCEPT ![e] = "published"]
    /\ UNCHANGED <<effected, announced>>

GiveUp(S) ==
    /\ S # {} /\ \A e \in S : verdict[e] = "open"
    /\ verdict' = [e \in Events |-> IF e \in S THEN "failed" ELSE verdict[e]]
    /\ UNCHANGED <<effected, announced>>

Next ==
    \/ \E e \in Events : Accept(e) \/ TakeEffect(e) \/ Announce(e) \/ Publish(e)
    \/ \E S \in SUBSET Events : GiveUp(S)

Spec == Init /\ [][Next]_deliveryVars

=============================================================================
