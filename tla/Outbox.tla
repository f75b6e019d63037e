------------------------------- MODULE Outbox -------------------------------
(***************************************************************************)
(* The transactional outbox and its one consumer.  Transactions insert     *)
(* events beside their own writes; the publisher of each worker process    *)
(* claims a batch under one lease that is never renewed, and takes the     *)
(* events one by one: the consumer's transaction (idempotency record and   *)
(* notification), the live announcement, the mark.  Each of these is a     *)
(* step of its own, and the lease may run out between any two.             *)
(***************************************************************************)
EXTENDS Naturals, FiniteSets

CONSTANTS
    Events,        \* outbox_events
    Notifying,     \* those that map to a notification
    Publishers,    \* worker processes: one notification runtime each
    None,          \* leaseOwner NULL, no event
    MaxAttempts,   \* maxAttempts, 8 in the code
    BatchSize,     \* batchSize, 50 in the code
    MaxFaults      \* bound: crashes and database errors

ASSUME OutboxAssumption ==
    /\ Notifying \subseteq Events
    /\ None \notin Publishers \cup Events
    /\ MaxAttempts \in Nat \ {0} /\ BatchSize \in Nat \ {0} /\ MaxFaults \in Nat

VARIABLES
    event,         \* the rows of outbox_events
    consumed,      \* events with a completed idempotency_records row of the consumer
    announced,     \* how often an event was pushed to live clients (history)
    publisher,     \* what each publisher's batch loop is doing
    outboxFaults   \* how many faults there have been

outboxVars == <<event, consumed, announced, publisher, outboxFaults>>

-----------------------------------------------------------------------------
(* Types *)

OutboxStatuses == {"absent", "pending", "published", "failed"}

\* lapsed is leaseExpiresAt <= now of a held lease, due is availableAt <= now.
Absent == [status |-> "absent", attempts |-> 0, owner |-> None, lapsed |-> FALSE, due |-> FALSE]

PublisherSteps == {"idle", "next", "announce", "mark", "release"}

\* claims holds the publishAttempts that the claim returned for the events of the
\* batch still to be settled, 0 for the others; at is the next step for the event now.
Waiting == [at |-> "idle", now |-> None, claims |-> [e \in Events |-> 0]]

OutboxTypeOK ==
    /\ event \in [Events -> [status : OutboxStatuses, attempts : 0..MaxAttempts,
                             owner : Publishers \cup {None}, lapsed : BOOLEAN, due : BOOLEAN]]
    /\ consumed \subseteq Events
    /\ announced \in [Events -> Nat]
    /\ publisher \in [Publishers -> [at : PublisherSteps, now : Events \cup {None},
                                     claims : [Events -> 0..MaxAttempts]]]
    /\ \A p \in Publishers : publisher[p].at \in {"announce", "mark", "release"} =>
         publisher[p].now \in Events /\ publisher[p].claims[publisher[p].now] > 0
    /\ outboxFaults \in 0..MaxFaults

OutboxInit ==
    /\ event = [e \in Events |-> Absent]
    /\ consumed = {}
    /\ announced = [e \in Events |-> 0]
    /\ publisher = [p \in Publishers |-> Waiting]
    /\ outboxFaults = 0

-----------------------------------------------------------------------------
(* Producers and time *)

\* The insert is part of the producer's own transaction.  Under an
\* idempotencyKey that is there already it changes nothing.
Emit(e) ==
    /\ event[e].status = "absent"
    /\ event' = [event EXCEPT ![e].status = "pending", ![e].due = TRUE]
    /\ UNCHANGED <<consumed, announced, publisher, outboxFaults>>

LeaseLapses(e) ==
    /\ event[e].owner # None /\ ~event[e].lapsed
    /\ event' = [event EXCEPT ![e].lapsed = TRUE]
    /\ UNCHANGED <<consumed, announced, publisher, outboxFaults>>

RetryDue(e) ==
    /\ event[e].status = "pending" /\ ~event[e].due
    /\ event' = [event EXCEPT ![e].due = TRUE]
    /\ UNCHANGED <<consumed, announced, publisher, outboxFaults>>

-----------------------------------------------------------------------------
(* Claiming a batch *)

\* Variant: looks for exhausted events among those that are not leased.
AbandonedUnleased(e) ==
    event[e].status = "pending" /\ event[e].owner = None /\ event[e].attempts >= MaxAttempts

\* The lease of its last permitted attempt ran out: given up by whoever claims next.
Abandoned(e) ==
    /\ event[e].status = "pending" /\ event[e].lapsed
    /\ event[e].attempts >= MaxAttempts

Ready(e) ==
    /\ event[e].status = "pending" /\ event[e].due
    /\ event[e].owner = None \/ event[e].lapsed
    /\ event[e].attempts < MaxAttempts

Claimed(p, e) ==
    [event[e] EXCEPT !.owner = p, !.lapsed = FALSE, !.attempts = @ + 1]

GivenUp(e) == [event[e] EXCEPT !.status = "failed", !.owner = None, !.lapsed = FALSE]

\* SKIP LOCKED leaves out rows another claim holds, so any ready events may
\* make up the batch, as long as it is full or nothing else is ready.
Claim(p) ==
    LET ready == {e \in Events : Ready(e)}
    IN  /\ publisher[p].at = "idle"
        /\ \E batch \in SUBSET ready :
             /\ Cardinality(batch) =
                  IF Cardinality(ready) < BatchSize THEN Cardinality(ready) ELSE BatchSize
             /\ event' = [e \in Events |->
                  IF e \in batch THEN Claimed(p, e)
                  ELSE IF Abandoned(e) THEN GivenUp(e) ELSE event[e]]
             /\ publisher' = [publisher EXCEPT ![p] =
                  IF batch = {} THEN Waiting
                  ELSE [at |-> "next", now |-> None,
                        claims |-> [e \in Events |->
                                     IF e \in batch THEN event[e].attempts + 1 ELSE 0]]]
        /\ UNCHANGED <<consumed, announced, outboxFaults>>

-----------------------------------------------------------------------------
(* Delivering one event *)

Goto(p, e, where) ==
    publisher' = [publisher EXCEPT ![p].at = where, ![p].now = e]

\* mapOutboxEventToNotification knows the event's type.
Notifies(e) == e \in Notifying

\* No completed record of the consumer: the command runs, and is not replayed.
FirstRun(e) == e \notin consumed

\* Variant: announces although the record was there already.
ConsumeReplayed(p, e) ==
    /\ publisher[p].at = "next" /\ publisher[p].claims[e] > 0
    /\ consumed' = consumed \cup {e}
    /\ Goto(p, e, IF Notifies(e) THEN "announce" ELSE "mark")
    /\ UNCHANGED <<event, announced, outboxFaults>>

\* consumeNotificationOutboxEvent in one transaction: the record is inserted, or found
\* completed and its result replayed; only the first run of an event that
\* maps to a notification goes on to announce it.
Consume(p, e) ==
    /\ publisher[p].at = "next" /\ publisher[p].claims[e] > 0
    /\ consumed' = consumed \cup {e}
    /\ Goto(p, e, IF Notifies(e) /\ FirstRun(e) THEN "announce" ELSE "mark")
    /\ UNCHANGED <<event, announced, outboxFaults>>

\* The transaction fails, or commits and its answer is lost.
ConsumeFails(p, e) ==
    /\ publisher[p].at = "next" /\ publisher[p].claims[e] > 0
    /\ outboxFaults < MaxFaults /\ outboxFaults' = outboxFaults + 1
    /\ consumed' \in {consumed, consumed \cup {e}}
    /\ Goto(p, e, "release")
    /\ UNCHANGED <<event, announced>>

\* broadcastToUser and publishSseEvent; an error of the latter is only reported.
Announce(p) ==
    /\ publisher[p].at = "announce"
    /\ announced' = [announced EXCEPT ![publisher[p].now] = @ + 1]
    /\ Goto(p, publisher[p].now, "mark")
    /\ UNCHANGED <<event, consumed, outboxFaults>>

-----------------------------------------------------------------------------
(* Settling it *)

\* Variant: updates by id and status alone.
OwnsAnyone(p, e) == event[e].status = "pending"

\* The WHERE clause of both updates.
Owns(p, e) == event[e].owner = p /\ event[e].status = "pending"

\* Variant: allows one attempt too many.
ExhaustedTooLate(p, e) == publisher[p].claims[e] > MaxAttempts

Exhausted(p, e) == publisher[p].claims[e] >= MaxAttempts

\* The loop goes on with the rest of the batch, or the tick ends.
Proceed(p) ==
    LET rest == [publisher[p].claims EXCEPT ![publisher[p].now] = 0]
    IN  publisher' = [publisher EXCEPT ![p] =
          IF \A e \in Events : rest[e] = 0 THEN Waiting
          ELSE [at |-> "next", now |-> None, claims |-> rest]]

Mark(p) ==
    LET e == publisher[p].now
    IN  /\ publisher[p].at = "mark" /\ Owns(p, e)
        /\ event' = [event EXCEPT ![e].status = "published", ![e].owner = None, ![e].lapsed = FALSE]
        /\ Proceed(p)
        /\ UNCHANGED <<consumed, announced, outboxFaults>>

\* "Lost outbox lease".
MarkFindsNothing(p) ==
    /\ publisher[p].at = "mark" /\ ~Owns(p, publisher[p].now)
    /\ Goto(p, publisher[p].now, "release")
    /\ UNCHANGED <<event, consumed, announced, outboxFaults>>

MarkFails(p) ==
    /\ publisher[p].at = "mark"
    /\ outboxFaults < MaxFaults /\ outboxFaults' = outboxFaults + 1
    /\ Goto(p, publisher[p].now, "release")
    /\ UNCHANGED <<event, consumed, announced>>

Released(p, e) ==
    [event[e] EXCEPT !.owner = None, !.lapsed = FALSE,
                     !.status = IF Exhausted(p, e) THEN "failed" ELSE @,
                     !.due = IF Exhausted(p, e) THEN @ ELSE FALSE]

Release(p) ==
    LET e == publisher[p].now
    IN  /\ publisher[p].at = "release"
        /\ event' = IF Owns(p, e) THEN [event EXCEPT ![e] = Released(p, e)] ELSE event
        /\ Proceed(p)
        /\ UNCHANGED <<consumed, announced, outboxFaults>>

\* A process dies, or the update of the catch clause throws: the rest of the
\* batch is abandoned and its leases stand.  The process comes back under its workerId.
Abandon(p) ==
    /\ publisher[p].at # "idle"
    /\ outboxFaults < MaxFaults /\ outboxFaults' = outboxFaults + 1
    /\ publisher' = [publisher EXCEPT ![p] = Waiting]
    /\ UNCHANGED <<event, consumed, announced>>

-----------------------------------------------------------------------------

PublisherStep(p) ==
    \/ Claim(p)
    \/ \E e \in Events : Consume(p, e)
    \/ Announce(p)
    \/ Mark(p)
    \/ MarkFindsNothing(p)
    \/ Release(p)

OutboxNext ==
    \/ \E e \in Events : Emit(e) \/ LeaseLapses(e) \/ RetryDue(e)
    \/ \E p \in Publishers :
         \/ PublisherStep(p)
         \/ \E e \in Events : ConsumeFails(p, e)
         \/ MarkFails(p)
         \/ Abandon(p)

OutboxSpec == OutboxInit /\ [][OutboxNext]_outboxVars

\* Time passes, and every process keeps its timer and goes on with its batch.
\* Producers and faults are promised nothing.
OutboxFairness ==
    /\ \A e \in Events : WF_outboxVars(LeaseLapses(e)) /\ WF_outboxVars(RetryDue(e))
    /\ \A p \in Publishers : WF_outboxVars(PublisherStep(p))

-----------------------------------------------------------------------------
(* Properties *)

\* An event is given up only after its last permitted attempt, and one that
\* waits without a lease still has an attempt left: the counting of claimEvents
\* and of the catch clause never strands an event that no claim would select.
RetriesAccounted ==
    \A e \in Events :
        /\ event[e].status = "failed" => event[e].attempts = MaxAttempts
        /\ event[e].status = "pending" /\ event[e].owner = None => event[e].attempts < MaxAttempts

\* A lease that has not run out ends only by its holder, while it is settling
\* the event it claimed with exactly this attempt: marks and releases of a
\* batch whose lease was taken over do not touch the new holder's claim.
ClaimEndedByHolder ==
    [][\A e \in Events :
         event[e].owner # None /\ ~event[e].lapsed /\ event'[e].owner # event[e].owner =>
           \E p \in Publishers :
             /\ p = event[e].owner
             /\ publisher[p].at \in {"mark", "release"} /\ publisher[p].now = e
             /\ publisher[p].claims[e] = event[e].attempts]_outboxVars

\* Whatever expires, crashes or fails along the way, an inserted event is
\* published or given up in the end.
EventuallySettled ==
    \A e \in Events : event[e].status = "pending" ~> event[e].status \in {"published", "failed"}

\* The publishers, however many, with their crashes and overlapping leases, keep
\* OutboxDelivery's promises: one effect, one announcement, verdicts that stand.
Delivery == INSTANCE OutboxDelivery WITH
    verdict   <- [e \in Events |-> IF event[e].status = "absent" THEN "none"
                                   ELSE IF event[e].status = "pending" THEN "open"
                                   ELSE event[e].status],
    effected  <- consumed,
    announced <- announced

ImplementsDelivery == Delivery!Spec

=============================================================================
