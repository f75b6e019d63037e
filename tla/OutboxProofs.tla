---------------------------- MODULE OutboxProofs ----------------------------
(***************************************************************************)
(* Proofs about the outbox and about the worker process whose loop drains  *)
(* it.                                                                     *)
(*                                                                         *)
(* Outbox, for every number of events and publishers, every batch size and *)
(* every number of attempts and faults: the inductive invariant relates    *)
(* the three places that know of a claim: the row, the claim the publisher *)
(* remembers from the batch, and how far it has come with the event.  A    *)
(* remembered claim is never ahead of the row, and equals it while the     *)
(* publisher still owns the row; an event that waits to be announced has   *)
(* taken effect, has not been announced, and waits at one publisher.       *)
(*                                                                         *)
(* WorkerProcess, for every set of queues: the close of a part that does   *)
(* not wait has nothing to wait for, with the one exception of a           *)
(* dispatcher that was started after its close.                            *)
(***************************************************************************)
EXTENDS Outbox, WorkerProcess, TLAPS

Rows == [status : OutboxStatuses, attempts : 0..MaxAttempts,
         owner : Publishers \cup {None}, lapsed : BOOLEAN, due : BOOLEAN]

Batches == [at : PublisherSteps, now : Events \cup {None}, claims : [Events -> 0..MaxAttempts]]

\* A lease is held on pending events, after an attempt was counted.
LeasesPending ==
    \A e \in Events :
        /\ event[e].lapsed => event[e].owner # None
        /\ event[e].owner # None => event[e].status = "pending"
        /\ event[e].status = "absent" => event[e].attempts = 0

\* What a publisher remembers of the row it claimed.
ClaimsRemembered ==
    \A p \in Publishers, e \in Events : publisher[p].claims[e] > 0 =>
        /\ event[e].status # "absent"
        /\ event[e].owner = p => publisher[p].claims[e] = event[e].attempts

\* What has happened to the event a publisher is delivering.
DeliveryInOrder ==
    /\ \A e \in Events : /\ event[e].status = "published" => e \in consumed
                         /\ announced[e] # 0 => e \in consumed
    /\ \A p \in Publishers :
         /\ publisher[p].at \in {"announce", "mark"} => publisher[p].now \in consumed
         /\ publisher[p].at = "announce" => announced[publisher[p].now] = 0

AnnouncedByOne ==
    \A p, q \in Publishers : publisher[p].at = "announce" /\ publisher[q].at = "announce" /\ p # q =>
        publisher[p].now # publisher[q].now

OutboxInv ==
    /\ OutboxTypeOK
    /\ RetriesAccounted
    /\ LeasesPending
    /\ ClaimsRemembered
    /\ DeliveryInOrder
    /\ AnnouncedByOne

LEMMA OutboxInitially == OutboxInit => OutboxInv
<1>1. SUFFICES ASSUME OutboxInit PROVE OutboxInv
  OBVIOUS
<1>2. OutboxTypeOK
  <2>1. Absent \in Rows
    BY OutboxAssumption DEF Absent, Rows, OutboxStatuses
  <2>2. Waiting \in Batches /\ Waiting.at = "idle"
    BY OutboxAssumption DEF Waiting, Batches, PublisherSteps
  <2>3. QED
    BY <1>1, <2>1, <2>2, OutboxAssumption DEF OutboxInit, OutboxTypeOK, Rows, Batches
<1>3. RetriesAccounted /\ LeasesPending
  BY <1>1, OutboxAssumption DEF OutboxInit, RetriesAccounted, LeasesPending, Absent
<1>4. ClaimsRemembered /\ DeliveryInOrder /\ AnnouncedByOne
  BY <1>1 DEF OutboxInit, ClaimsRemembered, DeliveryInOrder, AnnouncedByOne, Waiting, Absent
<1>5. QED
  BY <1>2, <1>3, <1>4 DEF OutboxInv

-----------------------------------------------------------------------------
(* Producers and time *)

\* One row changes to one that agrees with it on what the publishers know.
LEMMA RowChanges ==
  ASSUME OutboxInv, NEW e \in Events, NEW row \in Rows, event' = [event EXCEPT ![e] = row],
         UNCHANGED <<consumed, announced, publisher, outboxFaults>>,
         row.status = "pending", row.attempts = event[e].attempts, row.owner = event[e].owner,
         event[e].status \in {"absent", "pending"}, row.lapsed => row.owner # None
  PROVE  OutboxInv'
<1>1. event'[e] = row /\ \A g \in Events \ {e} : event'[g] = event[g]
  BY DEF OutboxInv, OutboxTypeOK
<1>2. OutboxTypeOK'
  BY DEF OutboxInv, OutboxTypeOK, Rows
<1>3. RetriesAccounted'
  BY <1>1, OutboxAssumption DEF OutboxInv, RetriesAccounted, LeasesPending
<1>4. LeasesPending'
  BY <1>1 DEF OutboxInv, LeasesPending
<1>5. ClaimsRemembered'
  BY <1>1 DEF OutboxInv, ClaimsRemembered
<1>6. DeliveryInOrder' /\ AnnouncedByOne'
  BY <1>1 DEF OutboxInv, DeliveryInOrder, AnnouncedByOne
<1>7. QED
  BY <1>2, <1>3, <1>4, <1>5, <1>6 DEF OutboxInv

LEMMA RowIsRow == ASSUME OutboxInv, NEW e \in Events PROVE event[e] \in Rows
  BY DEF OutboxInv, OutboxTypeOK, Rows

LEMMA EmitKeeps ==
  ASSUME OutboxInv, NEW e \in Events, Emit(e)
  PROVE  OutboxInv'
<1> DEFINE row == [event[e] EXCEPT !.status = "pending", !.due = TRUE]
<1>1. event' = [event EXCEPT ![e] = row] /\ event[e].status = "absent"
      /\ UNCHANGED <<consumed, announced, publisher, outboxFaults>>
  BY DEF Emit
<1>2. row \in Rows
  BY RowIsRow DEF Rows, OutboxStatuses
<1>3. /\ row.status = "pending" /\ row.attempts = event[e].attempts
      /\ row.owner = event[e].owner /\ row.lapsed = event[e].lapsed
  BY RowIsRow DEF Rows
<1>4. row.lapsed => row.owner # None
  BY <1>3 DEF OutboxInv, LeasesPending
<1> HIDE DEF row
<1>5. QED
  BY <1>1, <1>2, <1>3, <1>4, RowChanges

LEMMA LeaseLapsesKeeps ==
  ASSUME OutboxInv, NEW e \in Events, LeaseLapses(e)
  PROVE  OutboxInv'
<1> DEFINE row == [event[e] EXCEPT !.lapsed = TRUE]
<1>1. event' = [event EXCEPT ![e] = row] /\ event[e].owner # None /\ event[e].status = "pending"
      /\ UNCHANGED <<consumed, announced, publisher, outboxFaults>>
  BY DEF LeaseLapses, OutboxInv, LeasesPending
<1>2. row \in Rows
  BY RowIsRow DEF Rows
<1>3. /\ row.status = "pending" /\ row.attempts = event[e].attempts
      /\ row.owner = event[e].owner
  BY <1>1, RowIsRow DEF Rows
<1> HIDE DEF row
<1>4. QED
  BY <1>1, <1>2, <1>3, RowChanges

LEMMA RetryDueKeeps ==
  ASSUME OutboxInv, NEW e \in Events, RetryDue(e)
  PROVE  OutboxInv'
<1> DEFINE row == [event[e] EXCEPT !.due = TRUE]
<1>1. event' = [event EXCEPT ![e] = row] /\ event[e].status = "pending"
      /\ UNCHANGED <<consumed, announced, publisher, outboxFaults>>
  BY DEF RetryDue
<1>2. row \in Rows
  BY RowIsRow DEF Rows
<1>3. /\ row.status = "pending" /\ row.attempts = event[e].attempts
      /\ row.owner = event[e].owner /\ row.lapsed = event[e].lapsed
  BY <1>1, RowIsRow DEF Rows
<1>4. row.lapsed => row.owner # None
  BY <1>3 DEF OutboxInv, LeasesPending
<1> HIDE DEF row
<1>5. QED
  BY <1>1, <1>2, <1>3, <1>4, RowChanges

-----------------------------------------------------------------------------
(* Steps of a publisher that write no row *)

LEMMA BatchIsBatch ==
  ASSUME OutboxInv, NEW p \in Publishers
  PROVE  /\ publisher[p] \in Batches
         /\ publisher[p].at \in {"announce", "mark", "release"} =>
              publisher[p].now \in Events /\ publisher[p].claims[publisher[p].now] > 0
  BY DEF OutboxInv, OutboxTypeOK, Batches

\* It forgets claims or moves on to an event that it still remembers.
LEMMA PublisherMoves ==
  ASSUME OutboxInv, NEW p \in Publishers, NEW b \in Batches,
         publisher' = [publisher EXCEPT ![p] = b], UNCHANGED <<event, announced>>,
         consumed' \in SUBSET Events, consumed \subseteq consumed', outboxFaults' \in 0..MaxFaults,
         \A e \in Events : b.claims[e] > 0 => b.claims[e] = publisher[p].claims[e],
         b.at \in {"announce", "mark", "release"} => b.now \in Events /\ b.claims[b.now] > 0,
         b.at \in {"announce", "mark"} => b.now \in consumed',
         b.at = "announce" => /\ announced[b.now] = 0
                              /\ \A q \in Publishers \ {p} :
                                   publisher[q].at = "announce" => publisher[q].now # b.now
  PROVE  OutboxInv'
<1>1. publisher'[p] = b /\ \A q \in Publishers \ {p} : publisher'[q] = publisher[q]
  BY DEF OutboxInv, OutboxTypeOK
<1>2. OutboxTypeOK'
  BY <1>1 DEF OutboxInv, OutboxTypeOK, Batches
<1>3. RetriesAccounted' /\ LeasesPending'
  BY DEF OutboxInv, RetriesAccounted, LeasesPending
<1>4. ClaimsRemembered'
  BY <1>1 DEF OutboxInv, ClaimsRemembered
<1>5. DeliveryInOrder'
  BY <1>1 DEF OutboxInv, DeliveryInOrder
<1>6. AnnouncedByOne'
  BY <1>1 DEF OutboxInv, AnnouncedByOne
<1>7. QED
  BY <1>2, <1>3, <1>4, <1>5, <1>6 DEF OutboxInv

\* What Goto makes of the publisher.
LEMMA GotoMoves ==
  ASSUME OutboxInv, NEW p \in Publishers, NEW e \in Events, NEW at \in PublisherSteps,
         Goto(p, e, at)
  PROVE  \E b \in Batches : /\ publisher' = [publisher EXCEPT ![p] = b]
                            /\ b.at = at /\ b.now = e /\ b.claims = publisher[p].claims
<1> DEFINE b == [publisher[p] EXCEPT !.at = at, !.now = e]
<1>1. b \in Batches /\ b.at = at /\ b.now = e /\ b.claims = publisher[p].claims
  BY BatchIsBatch DEF Batches
<1>2. publisher' = [publisher EXCEPT ![p] = b]
  BY DEF Goto
<1>3. QED
  BY <1>1, <1>2

\* The first run adds the record, so nobody has announced the event or is about to.
LEMMA ConsumeKeeps ==
  ASSUME OutboxInv, NEW p \in Publishers, NEW e \in Events, Consume(p, e)
  PROVE  OutboxInv'
<1> DEFINE at == IF Notifies(e) /\ FirstRun(e) THEN "announce" ELSE "mark"
<1>1. /\ publisher[p].claims[e] > 0 /\ consumed' = consumed \cup {e} /\ Goto(p, e, at)
      /\ UNCHANGED <<event, announced, outboxFaults>>
  BY DEF Consume
<1>2. at \in {"announce", "mark"} /\ (at = "announce" => e \notin consumed)
  BY DEF FirstRun
<1> HIDE DEF at
<1>3. at \in PublisherSteps
  BY <1>2 DEF PublisherSteps
<1>4. PICK b \in Batches : /\ publisher' = [publisher EXCEPT ![p] = b]
                           /\ b.at = at /\ b.now = e /\ b.claims = publisher[p].claims
  BY <1>1, <1>3, GotoMoves
<1>5. at = "announce" => /\ announced[e] = 0
                         /\ \A q \in Publishers : publisher[q].at = "announce" => publisher[q].now # e
  BY <1>2 DEF OutboxInv, DeliveryInOrder
<1>6. consumed' \in SUBSET Events /\ consumed \subseteq consumed' /\ e \in consumed'
      /\ outboxFaults' \in 0..MaxFaults
  BY <1>1 DEF OutboxInv, OutboxTypeOK
<1>7. QED
  BY <1>1, <1>2, <1>4, <1>5, <1>6, PublisherMoves

LEMMA ConsumeFailsKeeps ==
  ASSUME OutboxInv, NEW p \in Publishers, NEW e \in Events, ConsumeFails(p, e)
  PROVE  OutboxInv'
<1>1. /\ publisher[p].claims[e] > 0 /\ Goto(p, e, "release")
      /\ consumed' \in SUBSET Events /\ consumed \subseteq consumed'
      /\ outboxFaults' \in 0..MaxFaults /\ UNCHANGED <<event, announced>>
  BY OutboxAssumption DEF ConsumeFails, OutboxInv, OutboxTypeOK
<1>2. "release" \in PublisherSteps
  BY DEF PublisherSteps
<1>3. PICK b \in Batches : /\ publisher' = [publisher EXCEPT ![p] = b]
                           /\ b.at = "release" /\ b.now = e /\ b.claims = publisher[p].claims
  BY <1>1, <1>2, GotoMoves
<1>4. QED
  BY <1>1, <1>3, PublisherMoves

LEMMA MarkMissesKeeps ==
  ASSUME OutboxInv, NEW p \in Publishers, MarkFindsNothing(p) \/ MarkFails(p)
  PROVE  OutboxInv'
<1>1. /\ publisher[p].at = "mark" /\ Goto(p, publisher[p].now, "release")
      /\ UNCHANGED <<event, consumed, announced>> /\ outboxFaults' \in 0..MaxFaults
      /\ consumed' \in SUBSET Events
  BY OutboxAssumption DEF MarkFindsNothing, MarkFails, OutboxInv, OutboxTypeOK
<1>2. publisher[p].now \in Events /\ publisher[p].claims[publisher[p].now] > 0
      /\ "release" \in PublisherSteps
  BY <1>1, BatchIsBatch DEF PublisherSteps
<1>3. PICK b \in Batches : /\ publisher' = [publisher EXCEPT ![p] = b] /\ b.at = "release"
                           /\ b.now = publisher[p].now /\ b.claims = publisher[p].claims
  BY <1>1, <1>2, GotoMoves
<1>4. QED
  BY <1>1, <1>2, <1>3, PublisherMoves

LEMMA AbandonKeeps ==
  ASSUME OutboxInv, NEW p \in Publishers, Abandon(p)
  PROVE  OutboxInv'
<1>1. /\ publisher' = [publisher EXCEPT ![p] = Waiting] /\ UNCHANGED <<event, consumed, announced>>
      /\ outboxFaults' \in 0..MaxFaults /\ consumed' \in SUBSET Events
  BY OutboxAssumption DEF Abandon, OutboxInv, OutboxTypeOK
<1>2. Waiting \in Batches /\ Waiting.at = "idle" /\ \A e \in Events : ~(Waiting.claims[e] > 0)
  BY OutboxAssumption DEF Waiting, Batches, PublisherSteps
<1>3. consumed \subseteq consumed'
  BY <1>1
<1>4. QED
  BY <1>1, <1>2, <1>3, PublisherMoves

\* The event waited at this publisher alone.
LEMMA AnnounceKeeps ==
  ASSUME OutboxInv, NEW p \in Publishers, Announce(p)
  PROVE  OutboxInv'
<1> DEFINE e == publisher[p].now
<1>1. /\ publisher[p].at = "announce" /\ announced' = [announced EXCEPT ![e] = @ + 1]
      /\ Goto(p, e, "mark") /\ UNCHANGED <<event, consumed, outboxFaults>>
  BY DEF Announce
<1>2. e \in Events /\ publisher[p].claims[e] > 0 /\ e \in consumed /\ "mark" \in PublisherSteps
  BY <1>1, BatchIsBatch DEF OutboxInv, DeliveryInOrder, PublisherSteps
<1>3. PICK b \in Batches : /\ publisher' = [publisher EXCEPT ![p] = b]
                           /\ b.at = "mark" /\ b.now = e /\ b.claims = publisher[p].claims
  BY <1>1, <1>2, GotoMoves
<1>4. publisher'[p] = b /\ \A q \in Publishers \ {p} : publisher'[q] = publisher[q]
  BY <1>3 DEF OutboxInv, OutboxTypeOK
<1>5. /\ announced' \in [Events -> Nat]
      /\ \A g \in Events \ {e} : announced'[g] = announced[g]
  BY <1>1, <1>2 DEF OutboxInv, OutboxTypeOK
<1>6. \A q \in Publishers \ {p} : publisher[q].at = "announce" => publisher[q].now # e
  BY <1>1 DEF OutboxInv, AnnouncedByOne
<1> HIDE DEF e
<1>7. OutboxTypeOK'
  BY <1>1, <1>2, <1>3, <1>4, <1>5 DEF OutboxInv, OutboxTypeOK, Batches
<1>8. RetriesAccounted' /\ LeasesPending' /\ ClaimsRemembered'
  BY <1>1, <1>3, <1>4 DEF OutboxInv, RetriesAccounted, LeasesPending, ClaimsRemembered
<1>9. DeliveryInOrder'
  <2>1. \A g \in Events : announced'[g] # 0 => g \in consumed
    BY <1>2, <1>5 DEF OutboxInv, DeliveryInOrder
  <2>2. \A q \in Publishers : publisher'[q].at = "announce" =>
          publisher'[q].now \in Events \ {e} /\ announced[publisher'[q].now] = 0
    BY <1>3, <1>4, <1>6, BatchIsBatch DEF OutboxInv, DeliveryInOrder
  <2>3. \A q \in Publishers : publisher'[q].at \in {"announce", "mark"} => publisher'[q].now \in consumed
    BY <1>2, <1>3, <1>4 DEF OutboxInv, DeliveryInOrder
  <2>4. QED
    BY <1>1, <1>5, <2>1, <2>2, <2>3 DEF OutboxInv, DeliveryInOrder
<1>10. AnnouncedByOne'
  BY <1>3, <1>4 DEF OutboxInv, AnnouncedByOne
<1>11. QED
  BY <1>7, <1>8, <1>9, <1>10 DEF OutboxInv

-----------------------------------------------------------------------------
(* Settling an event *)

\* Proceed forgets the claim of the event now and keeps the others.
LEMMA ProceedMoves ==
  ASSUME OutboxInv, NEW p \in Publishers, publisher[p].now \in Events, Proceed(p)
  PROVE  \E b \in Batches :
           /\ publisher' = [publisher EXCEPT ![p] = b]
           /\ b.at \in {"idle", "next"} /\ ~(b.claims[publisher[p].now] > 0)
           /\ \A e \in Events : b.claims[e] > 0 => b.claims[e] = publisher[p].claims[e]
<1> DEFINE rest == [publisher[p].claims EXCEPT ![publisher[p].now] = 0]
           more == [at |-> "next", now |-> None, claims |-> rest]
           b == IF \A e \in Events : rest[e] = 0 THEN Waiting ELSE more
<1>1. publisher' = [publisher EXCEPT ![p] = b]
  BY DEF Proceed
<1>2. publisher[p].claims \in [Events -> 0..MaxAttempts]
  BY BatchIsBatch DEF Batches
<1>3. /\ rest \in [Events -> 0..MaxAttempts] /\ rest[publisher[p].now] = 0
      /\ \A e \in Events : rest[e] > 0 => rest[e] = publisher[p].claims[e]
  BY <1>2, OutboxAssumption
<1> HIDE DEF rest
<1>4. more \in Batches /\ more.at = "next" /\ more.claims = rest
  BY <1>3 DEF Batches, PublisherSteps
<1>5. Waiting \in Batches /\ Waiting.at = "idle" /\ \A e \in Events : ~(Waiting.claims[e] > 0)
  BY OutboxAssumption DEF Waiting, Batches, PublisherSteps
<1> HIDE DEF more
<1>6. /\ b \in Batches /\ b.at \in {"idle", "next"} /\ ~(b.claims[publisher[p].now] > 0)
      /\ \A e \in Events : b.claims[e] > 0 => b.claims[e] = publisher[p].claims[e]
  BY <1>3, <1>4, <1>5
<1> HIDE DEF b
<1>7. QED
  BY <1>1, <1>6

\* Whoever owns the row is the one who remembers its attempt, so the row may be let go of.
LEMMA SettleKeeps ==
  ASSUME OutboxInv, NEW p \in Publishers, NEW e \in Events, e = publisher[p].now,
         Owns(p, e), NEW row \in Rows, event' = [event EXCEPT ![e] = row], Proceed(p),
         UNCHANGED <<consumed, announced, outboxFaults>>,
         row.attempts = event[e].attempts, row.owner = None, row.lapsed = FALSE,
         row.status \in {"pending", "published", "failed"},
         row.status = "published" => e \in consumed,
         row.status = "failed" => row.attempts = MaxAttempts,
         row.status = "pending" => row.attempts < MaxAttempts
  PROVE  OutboxInv'
<1>1. PICK b \in Batches :
           /\ publisher' = [publisher EXCEPT ![p] = b]
           /\ b.at \in {"idle", "next"} /\ ~(b.claims[e] > 0)
           /\ \A g \in Events : b.claims[g] > 0 => b.claims[g] = publisher[p].claims[g]
  BY ProceedMoves
<1>2. publisher'[p] = b /\ \A q \in Publishers \ {p} : publisher'[q] = publisher[q]
  BY <1>1 DEF OutboxInv, OutboxTypeOK
<1>3. event'[e] = row /\ \A g \in Events \ {e} : event'[g] = event[g]
  BY DEF OutboxInv, OutboxTypeOK
<1>4. OutboxTypeOK'
  BY <1>1, <1>2 DEF OutboxInv, OutboxTypeOK, Batches, Rows
<1>5. RetriesAccounted'
  BY <1>3 DEF OutboxInv, RetriesAccounted
<1>6. LeasesPending'
  BY <1>3 DEF OutboxInv, LeasesPending
<1>7. ClaimsRemembered'
  BY <1>1, <1>2, <1>3, OutboxAssumption DEF OutboxInv, ClaimsRemembered
<1>8. DeliveryInOrder'
  BY <1>1, <1>2, <1>3 DEF OutboxInv, DeliveryInOrder
<1>9. AnnouncedByOne'
  BY <1>1, <1>2 DEF OutboxInv, AnnouncedByOne
<1>10. QED
  BY <1>4, <1>5, <1>6, <1>7, <1>8, <1>9 DEF OutboxInv

LEMMA MarkKeeps ==
  ASSUME OutboxInv, NEW p \in Publishers, Mark(p)
  PROVE  OutboxInv'
<1> DEFINE e == publisher[p].now
           row == [event[e] EXCEPT !.status = "published", !.owner = None, !.lapsed = FALSE]
<1>1. /\ publisher[p].at = "mark" /\ Owns(p, e) /\ event' = [event EXCEPT ![e] = row]
      /\ Proceed(p) /\ UNCHANGED <<consumed, announced, outboxFaults>>
  BY DEF Mark
<1>2. e \in Events /\ e \in consumed
  BY <1>1, BatchIsBatch DEF OutboxInv, DeliveryInOrder
<1>3. row \in Rows
  BY <1>2, RowIsRow DEF Rows, OutboxStatuses
<1>4. /\ row.status = "published" /\ row.attempts = event[e].attempts
      /\ row.owner = None /\ row.lapsed = FALSE
  BY <1>2, RowIsRow DEF Rows
<1> HIDE DEF row, e
<1>5. e = publisher[p].now
  BY DEF e
<1>6. QED
  BY <1>1, <1>2, <1>3, <1>4, <1>5, SettleKeeps

\* The claim remembered is the attempt of the row, so the row is given up after its last one.
LEMMA ReleaseKeeps ==
  ASSUME OutboxInv, NEW p \in Publishers, Release(p)
  PROVE  OutboxInv'
<1> DEFINE e == publisher[p].now
           row == Released(p, e)
<1>1. /\ publisher[p].at = "release" /\ event' = IF Owns(p, e) THEN [event EXCEPT ![e] = row] ELSE event
      /\ Proceed(p) /\ UNCHANGED <<consumed, announced, outboxFaults>>
  BY DEF Release
<1>2. e \in Events /\ publisher[p].claims[e] > 0
  BY <1>1, BatchIsBatch
<1>3. CASE ~Owns(p, e)
  <2>1. PICK b \in Batches :
           /\ publisher' = [publisher EXCEPT ![p] = b]
           /\ b.at \in {"idle", "next"} /\ ~(b.claims[e] > 0)
           /\ \A g \in Events : b.claims[g] > 0 => b.claims[g] = publisher[p].claims[g]
    BY <1>1, <1>2, ProceedMoves
  <2>2. /\ UNCHANGED <<event, announced>> /\ consumed \subseteq consumed'
        /\ consumed' \in SUBSET Events /\ outboxFaults' \in 0..MaxFaults
    BY <1>1, <1>3 DEF OutboxInv, OutboxTypeOK
  <2>3. QED
    BY <2>1, <2>2, PublisherMoves
<1>4. CASE Owns(p, e)
  <2>1. /\ event[e].attempts = publisher[p].claims[e] /\ event[e].attempts \in 0..MaxAttempts
        /\ event[e].status = "pending"
    BY <1>2, <1>4 DEF Owns, OutboxInv, OutboxTypeOK, ClaimsRemembered
  <2>2. row \in Rows
    <3> DEFINE status == IF Exhausted(p, e) THEN "failed" ELSE event[e].status
               due == IF Exhausted(p, e) THEN event[e].due ELSE FALSE
    <3>1. status \in OutboxStatuses /\ due \in BOOLEAN /\ event[e] \in Rows
      BY <1>2, RowIsRow DEF Rows, OutboxStatuses
    <3>2. row = [event[e] EXCEPT !.owner = None, !.lapsed = FALSE, !.status = status, !.due = due]
      BY DEF Released
    <3> HIDE DEF status, due, row
    <3>3. QED
      BY <3>1, <3>2 DEF Rows
  <2>3. /\ row.attempts = event[e].attempts /\ row.owner = None /\ row.lapsed = FALSE
        /\ row.status = IF Exhausted(p, e) THEN "failed" ELSE "pending"
    BY <1>2, <2>1, RowIsRow DEF Rows, Released
  <2> HIDE DEF row
  <2>4. /\ row.status \in {"pending", "published", "failed"} /\ row.status # "published"
        /\ row.status = "failed" => row.attempts = MaxAttempts
        /\ row.status = "pending" => row.attempts < MaxAttempts
    BY <2>1, <2>3, OutboxAssumption DEF Exhausted
  <2> HIDE DEF e
  <2>5. e = publisher[p].now /\ event' = [event EXCEPT ![e] = row]
    BY <1>1, <1>4 DEF e
  <2>6. QED
    BY <1>1, <1>2, <1>4, <2>2, <2>3, <2>4, <2>5, SettleKeeps
<1>5. QED
  BY <1>3, <1>4

-----------------------------------------------------------------------------
(* Claiming a batch *)

\* What a claim makes of the row of an event.
ClaimRow(p, batch, e) ==
    IF e \in batch THEN Claimed(p, e) ELSE IF Abandoned(e) THEN GivenUp(e) ELSE event[e]

LEMMA ClaimRows ==
  ASSUME OutboxInv, NEW p \in Publishers, NEW batch \in SUBSET Events, \A g \in batch : Ready(g),
         NEW e \in Events
  PROVE  /\ ClaimRow(p, batch, e) \in Rows
         /\ e \in batch =>
              /\ event[e].attempts < MaxAttempts /\ event[e].status = "pending"
              /\ event[e].owner # None => event[e].lapsed
              /\ ClaimRow(p, batch, e).status = "pending" /\ ClaimRow(p, batch, e).owner = p
              /\ ClaimRow(p, batch, e).attempts = event[e].attempts + 1
         /\ e \notin batch /\ Abandoned(e) =>
              /\ event[e].attempts = MaxAttempts /\ event[e].status = "pending"
              /\ ClaimRow(p, batch, e).status = "failed" /\ ClaimRow(p, batch, e).owner = None
              /\ ClaimRow(p, batch, e).attempts = MaxAttempts
              /\ ClaimRow(p, batch, e).lapsed = FALSE
         /\ e \notin batch /\ ~Abandoned(e) => ClaimRow(p, batch, e) = event[e]
<1>1. event[e] \in Rows /\ event[e].attempts \in 0..MaxAttempts
  BY RowIsRow DEF Rows
<1>2. CASE e \in batch
  <2>1. ClaimRow(p, batch, e) = Claimed(p, e) /\ Ready(e)
    BY <1>2 DEF ClaimRow
  <2>2. event[e].attempts + 1 \in 0..MaxAttempts
    BY <1>1, <2>1, OutboxAssumption DEF Ready
  <2>3. Claimed(p, e) \in Rows
    BY <1>1, <2>2 DEF Claimed, Rows
  <2>4. /\ Claimed(p, e).status = event[e].status /\ Claimed(p, e).owner = p
        /\ Claimed(p, e).attempts = event[e].attempts + 1
    BY <1>1 DEF Claimed, Rows
  <2>5. /\ event[e].attempts < MaxAttempts /\ event[e].status = "pending"
        /\ event[e].owner # None => event[e].lapsed
    BY <2>1 DEF Ready
  <2>6. QED
    BY <1>2, <2>1, <2>3, <2>4, <2>5
<1>3. CASE e \notin batch /\ Abandoned(e)
  <2>1. ClaimRow(p, batch, e) = GivenUp(e)
    BY <1>3 DEF ClaimRow
  <2>2. event[e].attempts = MaxAttempts /\ event[e].status = "pending"
    BY <1>1, <1>3, OutboxAssumption DEF Abandoned
  <2>3. GivenUp(e) \in Rows
    BY <1>1 DEF GivenUp, Rows, OutboxStatuses
  <2>4. /\ GivenUp(e).status = "failed" /\ GivenUp(e).owner = None
        /\ GivenUp(e).attempts = event[e].attempts /\ GivenUp(e).lapsed = FALSE
    BY <1>1 DEF GivenUp, Rows
  <2>5. QED
    BY <1>3, <2>1, <2>2, <2>3, <2>4
<1>4. CASE e \notin batch /\ ~Abandoned(e)
  BY <1>1, <1>4 DEF ClaimRow
<1>5. QED
  BY <1>2, <1>3, <1>4

\* The claim as ClaimRow tells it.
LEMMA ClaimChanges ==
  ASSUME OutboxInv, NEW p \in Publishers, Claim(p)
  PROVE  \E batch \in SUBSET Events, b \in Batches :
           /\ \A g \in batch : Ready(g)
           /\ event' = [e \in Events |-> ClaimRow(p, batch, e)]
           /\ publisher' = [publisher EXCEPT ![p] = b]
           /\ b.at \in {"idle", "next"}
           /\ \A e \in Events : b.claims[e] > 0 =>
                e \in batch /\ b.claims[e] = event[e].attempts + 1
<1>1. PICK batch \in SUBSET Events :
        /\ \A g \in batch : Ready(g)
        /\ event' = [e \in Events |->
             IF e \in batch THEN Claimed(p, e)
             ELSE IF Abandoned(e) THEN GivenUp(e) ELSE event[e]]
        /\ publisher' = [publisher EXCEPT ![p] =
             IF batch = {} THEN Waiting
             ELSE [at |-> "next", now |-> None,
                   claims |-> [e \in Events |-> IF e \in batch THEN event[e].attempts + 1 ELSE 0]]]
  BY DEF Claim
<1> DEFINE claims == [e \in Events |-> IF e \in batch THEN event[e].attempts + 1 ELSE 0]
           more == [at |-> "next", now |-> None, claims |-> claims]
           b == IF batch = {} THEN Waiting ELSE more
<1>2. \A e \in batch : event[e].attempts + 1 \in 0..MaxAttempts
  BY <1>1, OutboxAssumption, RowIsRow DEF Ready, Rows
<1>3. /\ claims \in [Events -> 0..MaxAttempts]
      /\ \A e \in Events : claims[e] > 0 => e \in batch /\ claims[e] = event[e].attempts + 1
  BY <1>2, OutboxAssumption
<1> HIDE DEF claims
<1>4. more \in Batches /\ more.at = "next" /\ more.claims = claims
  BY <1>3 DEF Batches, PublisherSteps
<1>5. Waiting \in Batches /\ Waiting.at = "idle" /\ \A e \in Events : ~(Waiting.claims[e] > 0)
  BY OutboxAssumption DEF Waiting, Batches, PublisherSteps
<1> HIDE DEF more
<1>6. /\ b \in Batches /\ b.at \in {"idle", "next"}
      /\ \A e \in Events : b.claims[e] > 0 => e \in batch /\ b.claims[e] = event[e].attempts + 1
  BY <1>3, <1>4, <1>5
<1>7. publisher' = [publisher EXCEPT ![p] = b]
  BY <1>1 DEF more, claims
<1>8. event' = [e \in Events |-> ClaimRow(p, batch, e)]
  BY <1>1 DEF ClaimRow
<1> HIDE DEF b
<1>9. QED
  BY <1>1, <1>6, <1>7, <1>8

LEMMA ClaimKeeps ==
  ASSUME OutboxInv, NEW p \in Publishers, Claim(p)
  PROVE  OutboxInv'
<1>1. UNCHANGED <<consumed, announced, outboxFaults>>
  BY DEF Claim
<1>2. PICK batch \in SUBSET Events, b \in Batches :
           /\ \A g \in batch : Ready(g)
           /\ event' = [e \in Events |-> ClaimRow(p, batch, e)]
           /\ publisher' = [publisher EXCEPT ![p] = b]
           /\ b.at \in {"idle", "next"}
           /\ \A e \in Events : b.claims[e] > 0 =>
                e \in batch /\ b.claims[e] = event[e].attempts + 1
  BY ClaimChanges
<1>3. publisher'[p] = b /\ \A q \in Publishers \ {p} : publisher'[q] = publisher[q]
  BY <1>2 DEF OutboxInv, OutboxTypeOK
<1>4. \A e \in Events :
         /\ event'[e] \in Rows
         /\ e \in batch =>
              /\ event[e].attempts < MaxAttempts /\ event[e].status = "pending"
              /\ event'[e].status = "pending" /\ event'[e].owner = p
              /\ event'[e].attempts = event[e].attempts + 1
         /\ e \notin batch /\ Abandoned(e) =>
              /\ event[e].status = "pending" /\ event'[e].status = "failed"
              /\ event'[e].owner = None /\ event'[e].attempts = MaxAttempts
              /\ event'[e].lapsed = FALSE
         /\ e \notin batch /\ ~Abandoned(e) => event'[e] = event[e]
  <2>1. TAKE e \in Events
  <2>2. event'[e] = ClaimRow(p, batch, e)
    BY <1>2
  <2>3. QED
    BY <1>2, <2>2, ClaimRows
<1>5. p # None /\ \A e \in Events : event[e].attempts \in 0..MaxAttempts
  BY OutboxAssumption, RowIsRow DEF Rows
<1>6. OutboxTypeOK'
  <2>1. event' \in [Events -> Rows]
    BY <1>2, <1>4
  <2>2. publisher' \in [Publishers -> Batches]
    BY <1>2 DEF OutboxInv, OutboxTypeOK, Batches
  <2>3. \A q \in Publishers : publisher'[q].at \in {"announce", "mark", "release"} =>
          publisher'[q].now \in Events /\ publisher'[q].claims[publisher'[q].now] > 0
    BY <1>2, <1>3 DEF OutboxInv, OutboxTypeOK
  <2>4. QED
    BY <1>1, <2>1, <2>2, <2>3 DEF OutboxInv, OutboxTypeOK, Rows, Batches
<1>7. RetriesAccounted'
  BY <1>4, <1>5 DEF OutboxInv, RetriesAccounted
<1>8. LeasesPending'
  BY <1>4, <1>5, OutboxAssumption DEF OutboxInv, LeasesPending
<1>9. ClaimsRemembered'
  <2>1. SUFFICES ASSUME NEW q \in Publishers, NEW e \in Events, publisher'[q].claims[e] > 0
                 PROVE  /\ event'[e].status # "absent"
                        /\ event'[e].owner = q => publisher'[q].claims[e] = event'[e].attempts
    BY DEF ClaimsRemembered
  <2>2. CASE q = p
    BY <2>1, <2>2, <1>2, <1>3, <1>4
  <2>3. CASE q # p
    <3>1. publisher[q].claims[e] > 0 /\ publisher'[q] = publisher[q]
      BY <2>1, <2>3, <1>3
    <3>2. /\ event[e].status # "absent"
          /\ event[e].owner = q => publisher[q].claims[e] = event[e].attempts
      BY <3>1 DEF OutboxInv, ClaimsRemembered
    <3>3. q # None
      BY OutboxAssumption
    <3>4. QED
      BY <2>3, <3>1, <3>2, <3>3, <1>4
  <2>4. QED
    BY <2>2, <2>3
<1>10. DeliveryInOrder'
  BY <1>1, <1>2, <1>3, <1>4 DEF OutboxInv, DeliveryInOrder
<1>11. AnnouncedByOne'
  BY <1>2, <1>3 DEF OutboxInv, AnnouncedByOne
<1>12. QED
  BY <1>6, <1>7, <1>8, <1>9, <1>10, <1>11 DEF OutboxInv

-----------------------------------------------------------------------------

LEMMA OutboxStep == OutboxInv /\ [OutboxNext]_outboxVars => OutboxInv'
<1>1. SUFFICES ASSUME OutboxInv, [OutboxNext]_outboxVars PROVE OutboxInv'
  OBVIOUS
<1>2. CASE UNCHANGED outboxVars
  BY <1>1, <1>2 DEF outboxVars, OutboxInv, OutboxTypeOK, RetriesAccounted, LeasesPending,
     ClaimsRemembered, DeliveryInOrder, AnnouncedByOne
<1>3. CASE \E e \in Events : Emit(e) \/ LeaseLapses(e) \/ RetryDue(e)
  BY <1>1, <1>3, EmitKeeps, LeaseLapsesKeeps, RetryDueKeeps
<1>4. ASSUME NEW p \in Publishers, PublisherStep(p)
      PROVE  OutboxInv'
  BY <1>1, <1>4, ClaimKeeps, ConsumeKeeps, AnnounceKeeps, MarkKeeps, MarkMissesKeeps, ReleaseKeeps
     DEF PublisherStep
<1>5. ASSUME NEW p \in Publishers, (\E e \in Events : ConsumeFails(p, e)) \/ MarkFails(p) \/ Abandon(p)
      PROVE  OutboxInv'
  BY <1>1, <1>5, ConsumeFailsKeeps, MarkMissesKeeps, AbandonKeeps
<1>6. QED
  BY <1>1, <1>2, <1>3, <1>4, <1>5 DEF OutboxNext

-----------------------------------------------------------------------------
(* What follows for every behaviour. *)

\* The row, the claims the publishers remember and how far they have come with an event
\* agree (outbox-publisher.ts, notification-outbox-consumer.ts).
THEOREM OutboxInvariant == OutboxSpec => []OutboxInv
  BY OutboxInitially, OutboxStep, PTL DEF OutboxSpec

\* No event is given up early, and none waits that no claim would select
\* (claimEvents and the catch clause of publishBatch).
THEOREM AttemptsAccounted == OutboxSpec => []RetriesAccounted
<1>1. OutboxInv => RetriesAccounted
  BY DEF OutboxInv
<1>2. QED
  BY <1>1, OutboxInvariant, PTL

\* The one step that ends a lease in force is the holder's, for the attempt it claimed.
LEMMA LeaseEnds ==
  ASSUME OutboxInv, [OutboxNext]_outboxVars, NEW e \in Events,
         event[e].owner # None, ~event[e].lapsed, event'[e].owner # event[e].owner
  PROVE  \E p \in Publishers :
             /\ p = event[e].owner
             /\ publisher[p].at \in {"mark", "release"} /\ publisher[p].now = e
             /\ publisher[p].claims[e] = event[e].attempts
<1>1. event' # event
  OBVIOUS
<1>2. CASE \E g \in Events : Emit(g) \/ LeaseLapses(g) \/ RetryDue(g)
  <2>1. PICK g \in Events : Emit(g) \/ LeaseLapses(g) \/ RetryDue(g)
    BY <1>2
  <2>2. \A h \in Events \ {g} : event'[h] = event[h]
    BY <2>1 DEF Emit, LeaseLapses, RetryDue, OutboxInv, OutboxTypeOK
  <2>3. event'[g].owner = event[g].owner
    <3>1. event[g] \in Rows /\ event \in [Events -> Rows]
      BY RowIsRow DEF OutboxInv, OutboxTypeOK, Rows
    <3>2. CASE Emit(g)
      BY <3>1, <3>2 DEF Emit, Rows
    <3>3. CASE LeaseLapses(g)
      BY <3>1, <3>3 DEF LeaseLapses, Rows
    <3>4. CASE RetryDue(g)
      BY <3>1, <3>4 DEF RetryDue, Rows
    <3>5. QED
      BY <2>1, <3>2, <3>3, <3>4
  <2>4. QED
    BY <2>2, <2>3
<1>3. ASSUME NEW p \in Publishers, Claim(p)
      PROVE  FALSE
  <2>1. PICK batch \in SUBSET Events :
             /\ \A g \in batch : Ready(g)
             /\ event' = [g \in Events |-> ClaimRow(p, batch, g)]
    BY <1>3, ClaimChanges
  <2>2. event'[e] = ClaimRow(p, batch, e)
    BY <2>1
  <2>3. e \notin batch
    BY <2>1 DEF Ready
  <2>4. ~Abandoned(e)
    BY DEF Abandoned
  <2>5. QED
    BY <2>2, <2>3, <2>4 DEF ClaimRow
<1>4. ASSUME NEW p \in Publishers, Mark(p) \/ Release(p)
      PROVE  /\ p = event[e].owner
             /\ publisher[p].at \in {"mark", "release"} /\ publisher[p].now = e
             /\ publisher[p].claims[e] = event[e].attempts
  <2>1. publisher[p].at \in {"mark", "release"}
    BY <1>4 DEF Mark, Release
  <2>2. publisher[p].now \in Events /\ publisher[p].claims[publisher[p].now] > 0
    BY <2>1, BatchIsBatch
  <2>3. Owns(p, publisher[p].now) /\ publisher[p].now = e
    BY <1>1, <1>4, <2>2 DEF Mark, Release, OutboxInv, OutboxTypeOK
  <2>4. QED
    BY <2>1, <2>2, <2>3 DEF Owns, OutboxInv, ClaimsRemembered
<1>5. \/ \E g \in Events : Emit(g) \/ LeaseLapses(g) \/ RetryDue(g)
      \/ \E p \in Publishers : Claim(p) \/ Mark(p) \/ Release(p)
  BY <1>1 DEF OutboxNext, PublisherStep, Consume, ConsumeFails, Announce, MarkFindsNothing, MarkFails,
     Abandon, outboxVars
<1>6. QED
  BY <1>2, <1>3, <1>4, <1>5

\* Marks and releases of a batch whose lease was taken over leave the new claim alone
\* (the WHERE clauses of outbox-publisher.ts).
THEOREM LeasesEndedByHolder == OutboxSpec => ClaimEndedByHolder
<1>1. OutboxInv /\ [OutboxNext]_outboxVars =>
        [\A e \in Events :
           event[e].owner # None /\ ~event[e].lapsed /\ event'[e].owner # event[e].owner =>
             \E p \in Publishers :
               /\ p = event[e].owner
               /\ publisher[p].at \in {"mark", "release"} /\ publisher[p].now = e
               /\ publisher[p].claims[e] = event[e].attempts]_outboxVars
  BY LeaseEnds
<1>2. QED
  BY <1>1, OutboxInvariant, PTL DEF OutboxSpec, ClaimEndedByHolder

-----------------------------------------------------------------------------
(* The outbox implements OutboxDelivery. *)

\* A step that changes no status, no effect and no announcement is none of the delivery's.
LEMMA DeliverySees ==
  ASSUME \A e \in Events : event'[e].status = event[e].status, UNCHANGED <<consumed, announced>>
  PROVE  UNCHANGED Delivery!deliveryVars
  BY DEF Delivery!deliveryVars

\* Events given up together.
LEMMA DeliveryGivesUp ==
  ASSUME UNCHANGED <<consumed, announced>>, NEW S \in SUBSET Events,
         \A e \in S : event[e].status = "pending" /\ event'[e].status = "failed",
         \A e \in Events \ S : event'[e].status = event[e].status
  PROVE  [Delivery!Next]_(Delivery!deliveryVars)
<1>1. CASE S = {}
  BY <1>1, DeliverySees
<1>2. CASE S # {}
  <2>1. Delivery!GiveUp(S)
    BY <1>2 DEF Delivery!GiveUp
  <2>2. QED
    BY <2>1 DEF Delivery!Next
<1>3. QED
  BY <1>1, <1>2

\* The effect of a consumer's transaction; a replay has none.
LEMMA DeliveryTakesEffect ==
  ASSUME OutboxInv, NEW p \in Publishers, NEW e \in Events, publisher[p].claims[e] > 0,
         consumed' \in {consumed, consumed \cup {e}}, UNCHANGED <<event, announced>>
  PROVE  [Delivery!Next]_(Delivery!deliveryVars)
<1>1. CASE consumed' = consumed
  BY <1>1, DeliverySees
<1>2. CASE consumed' # consumed
  <2>1. consumed' = consumed \cup {e} /\ e \notin consumed
    BY <1>2
  <2>2. event[e].status \in {"pending", "failed"}
    BY <2>1, RowIsRow DEF OutboxInv, ClaimsRemembered, DeliveryInOrder, Rows, OutboxStatuses
  <2>3. Delivery!TakeEffect(e)
    BY <2>1, <2>2 DEF Delivery!TakeEffect
  <2>4. QED
    BY <2>3 DEF Delivery!Next
<1>3. QED
  BY <1>1, <1>2

LEMMA DeliveryStep ==
  ASSUME OutboxInv, [OutboxNext]_outboxVars
  PROVE  [Delivery!Next]_(Delivery!deliveryVars)
<1> USE DEF Delivery!Next
<1>1. CASE UNCHANGED outboxVars
  BY <1>1, DeliverySees DEF outboxVars
<1>2. ASSUME NEW e \in Events, Emit(e)
      PROVE  [Delivery!Next]_(Delivery!deliveryVars)
  <2>1. /\ event[e].status = "absent" /\ event'[e].status = "pending"
        /\ \A g \in Events \ {e} : event'[g].status = event[g].status
        /\ UNCHANGED <<consumed, announced>>
    BY <1>2, RowIsRow DEF Emit, OutboxInv, OutboxTypeOK
  <2>2. Delivery!Accept(e)
    BY <2>1 DEF Delivery!Accept
  <2>3. QED
    BY <2>2
<1>3. ASSUME NEW e \in Events, LeaseLapses(e) \/ RetryDue(e)
      PROVE  [Delivery!Next]_(Delivery!deliveryVars)
  <2>1. \A g \in Events \ {e} : event'[g].status = event[g].status
    BY <1>3 DEF LeaseLapses, RetryDue, OutboxInv, OutboxTypeOK
  <2>2. event'[e].status = event[e].status
    <3>1. event[e] \in Rows /\ event \in [Events -> Rows]
      BY RowIsRow DEF OutboxInv, OutboxTypeOK, Rows
    <3>2. CASE LeaseLapses(e)
      BY <3>1, <3>2 DEF LeaseLapses, Rows
    <3>3. CASE RetryDue(e)
      BY <3>1, <3>3 DEF RetryDue, Rows
    <3>4. QED
      BY <1>3, <3>2, <3>3
  <2>3. QED
    BY <1>3, <2>1, <2>2, DeliverySees DEF LeaseLapses, RetryDue
<1>4. ASSUME NEW p \in Publishers, Claim(p)
      PROVE  [Delivery!Next]_(Delivery!deliveryVars)
  <2>1. PICK batch \in SUBSET Events :
             /\ \A g \in batch : Ready(g)
             /\ event' = [g \in Events |-> ClaimRow(p, batch, g)]
    BY <1>4, ClaimChanges
  <2> DEFINE S == {e \in Events : e \notin batch /\ Abandoned(e)}
  <2>2. \A e \in S : event[e].status = "pending" /\ event'[e].status = "failed"
    <3>1. TAKE e \in S
    <3>2. e \notin batch /\ Abandoned(e) /\ event'[e] = ClaimRow(p, batch, e)
      BY <2>1
    <3>3. QED
      BY <2>1, <3>2, ClaimRows
  <2>3. \A e \in Events \ S : event'[e].status = event[e].status
    <3>1. TAKE e \in Events \ S
    <3>2. (e \in batch \/ ~Abandoned(e)) /\ event'[e] = ClaimRow(p, batch, e)
      BY <2>1
    <3>3. CASE e \in batch
      BY <2>1, <3>2, <3>3, ClaimRows
    <3>4. CASE e \notin batch
      BY <3>2, <3>4 DEF ClaimRow
    <3>5. QED
      BY <3>3, <3>4
  <2> HIDE DEF S
  <2>4. S \in SUBSET Events
    BY DEF S
  <2>5. QED
    BY <1>4, <2>2, <2>3, <2>4, DeliveryGivesUp DEF Claim
<1>5. ASSUME NEW p \in Publishers, NEW e \in Events, Consume(p, e) \/ ConsumeFails(p, e)
      PROVE  [Delivery!Next]_(Delivery!deliveryVars)
  BY <1>5, DeliveryTakesEffect DEF Consume, ConsumeFails
<1>6. ASSUME NEW p \in Publishers, Announce(p)
      PROVE  [Delivery!Next]_(Delivery!deliveryVars)
  <2> DEFINE e == publisher[p].now
  <2>1. /\ publisher[p].at = "announce" /\ UNCHANGED <<event, consumed>>
        /\ announced' = [announced EXCEPT ![e] = @ + 1]
    BY <1>6 DEF Announce
  <2>2. e \in Events /\ e \in consumed /\ announced[e] = 0
    BY <2>1, BatchIsBatch DEF OutboxInv, DeliveryInOrder
  <2>3. announced' = [announced EXCEPT ![e] = 1]
    BY <2>1, <2>2
  <2>4. Delivery!Announce(e)
    BY <2>1, <2>2, <2>3 DEF Delivery!Announce
  <2>5. QED
    BY <2>2, <2>4
<1>7. ASSUME NEW p \in Publishers, Mark(p)
      PROVE  [Delivery!Next]_(Delivery!deliveryVars)
  <2>1. PICK e \in Events : e = publisher[p].now /\ e \in consumed
    BY <1>7, BatchIsBatch DEF Mark, OutboxInv, DeliveryInOrder
  <2>2. /\ event[e].status = "pending" /\ event'[e].status = "published"
        /\ \A g \in Events \ {e} : event'[g].status = event[g].status
        /\ UNCHANGED <<consumed, announced>>
    BY <1>7, <2>1, RowIsRow DEF Mark, Owns, OutboxInv, OutboxTypeOK
  <2>3. Delivery!Publish(e)
    BY <2>1, <2>2 DEF Delivery!Publish
  <2>4. QED
    BY <2>3
<1>8. ASSUME NEW p \in Publishers, Release(p)
      PROVE  [Delivery!Next]_(Delivery!deliveryVars)
  <2> DEFINE e == publisher[p].now
             S == IF Owns(p, e) /\ Exhausted(p, e) THEN {e} ELSE {}
  <2>1. e \in Events /\ UNCHANGED <<consumed, announced>>
    BY <1>8, BatchIsBatch DEF Release
  <2>2. event' = IF Owns(p, e) THEN [event EXCEPT ![e] = Released(p, e)] ELSE event
    BY <1>8 DEF Release
  <2>3. \A g \in S : event[g].status = "pending" /\ event'[g].status = "failed"
    BY <2>1, <2>2, RowIsRow DEF Owns, Released, OutboxInv, OutboxTypeOK, Rows
  <2>4. \A g \in Events \ S : event'[g].status = event[g].status
    BY <2>1, <2>2, RowIsRow DEF Owns, Released, OutboxInv, OutboxTypeOK, Rows
  <2>5. S \in SUBSET Events
    BY <2>1
  <2> HIDE DEF S
  <2>6. QED
    BY <2>1, <2>3, <2>4, <2>5, DeliveryGivesUp
<1>9. ASSUME NEW p \in Publishers, MarkFindsNothing(p) \/ MarkFails(p) \/ Abandon(p)
      PROVE  [Delivery!Next]_(Delivery!deliveryVars)
  BY <1>9, DeliverySees DEF MarkFindsNothing, MarkFails, Abandon
<1>10. QED
  BY <1>1, <1>2, <1>3, <1>4, <1>5, <1>6, <1>7, <1>8, <1>9 DEF OutboxNext, PublisherStep

\* One effect and one announcement of every event, published only after its effect, and
\* verdicts that stand, whatever the publishers of several processes do to each other
\* (outbox-publisher.ts, notification-outbox-consumer.ts).
THEOREM OutboxImplementsDelivery == OutboxSpec => ImplementsDelivery
<1>1. OutboxInit => Delivery!Init
  BY DEF OutboxInit, Delivery!Init, Absent
<1>2. OutboxInv /\ [OutboxNext]_outboxVars => [Delivery!Next]_(Delivery!deliveryVars)
  BY DeliveryStep
<1>3. QED
  BY <1>1, <1>2, OutboxInvariant, PTL DEF OutboxSpec, ImplementsDelivery, Delivery!Spec

-----------------------------------------------------------------------------
(* The worker process. *)

\* Before main() has started anything nothing runs or closes; whoever called close() is at
\* the place where it does, and a signal that began it is gone.
StartupFits ==
  /\ startup = "none" => /\ workers = {} /\ underWay = {} /\ closer = "none"
                         /\ armed = {} /\ ~ticking
  /\ startup = "dispatching" => "dispatcher" \in underWay /\ ~ticking
  /\ startup = "retaining" => "retention" \in underWay
  /\ startup = "failing" => closer = "main"
  /\ startup = "exiting" => closer # "none"
  /\ closer = "main" => startup \in {"failing", "exiting"}
  /\ closer = "signal" => armed # ShutdownSignals

\* Nothing that was started is left open, and what does not wait for its close has nothing
\* under way: only a dispatcher that was started too late has a timer, and may.
ClosesFit ==
  /\ closer = "none" => \A p \in Parts : closes[p] = "open"
  /\ closer # "none" => \A p \in Begun : closes[p] # "open"
  /\ closer # "none" /\ ticking => startup = "exiting"
  /\ \A p \in underWay : closes[p] \in {"ends", "closed"} => p = "dispatcher" /\ startup = "exiting"

WorkerInv == WorkerTypeOK /\ StartupFits /\ ClosesFit /\ CleanExitDrained

LEMMA WorkerBegins == WorkerInit => WorkerInv
<1>1. QED
  BY DEF WorkerInit, WorkerInv, WorkerTypeOK, StartupFits, ClosesFit, CleanExitDrained, Begun,
         Parts, Loops, ShutdownSignals

\* Loops, queues and connections are parts of their own.
LEMMA PartNames ==
  /\ {"scheduler", "outbox", "retention", "dispatcher", "connections"} \subseteq Parts
  /\ Queues \subseteq Parts
  /\ WorkerTypeOK => Begun \subseteq Parts /\ underWay \subseteq Begun /\ underWay \subseteq Parts
<1>1. QED
  BY DEF Parts, Loops, Begun, WorkerTypeOK

LEMMA NotBootedKeeps == ASSUME WorkerInv, exit = "none", NotBooted PROVE WorkerInv'
<1>1. QED
  BY DEF NotBooted, WorkerInv, WorkerTypeOK, StartupFits, ClosesFit, CleanExitDrained, Begun

LEMMA BootKeeps == ASSUME WorkerInv, exit = "none", NEW some \in SUBSET Queues, Boot(some) PROVE WorkerInv'
<1> USE DEF WorkerInv
<1>1. /\ startup = "none" /\ closer = "none" /\ ~ticking /\ ticking \in BOOLEAN
      /\ workers' = some /\ armed' = ShutdownSignals /\ exit' = "none"
      /\ \A p \in Parts : closes[p] = "open"
  BY DEF Boot, StartupFits, ClosesFit, WorkerTypeOK
<1>2. CASE some = Queues
  <2>1. /\ startup' = "dispatching" /\ underWay' = {"scheduler", "outbox", "dispatcher"}
        /\ UNCHANGED <<ticking, closes, closer>>
    BY <1>2 DEF Boot
  <2>2. WorkerTypeOK'
    BY <1>1, <2>1 DEF WorkerTypeOK, Loops
  <2>3. StartupFits' /\ ClosesFit' /\ CleanExitDrained'
    BY <1>1, <2>1, PartNames DEF StartupFits, ClosesFit, CleanExitDrained
  <2>4. QED
    BY <2>2, <2>3
<1>3. CASE some # Queues
  <2>1. /\ startup' = "failing" /\ underWay' = {"scheduler", "outbox"} /\ closer' = "main" /\ ticking' = FALSE
        /\ closes' = [p \in Parts |-> IF p \notin Begun' THEN "open"
                                      ELSE IF p \in underWay' THEN "waits" ELSE "ends"]
    BY <1>1, <1>3 DEF Boot, BeginClose, Begun
  <2>2. WorkerTypeOK'
    BY <1>1, <2>1 DEF WorkerTypeOK, Loops
  <2>3. StartupFits' /\ CleanExitDrained'
    BY <1>1, <2>1 DEF StartupFits, CleanExitDrained
  <2>4. Begun' \subseteq Parts /\ underWay' \subseteq Begun'
    BY <1>1, <2>1, <2>2 DEF Begun, Parts, Loops, WorkerTypeOK
  <2>5. ClosesFit'
    BY <2>1, <2>4 DEF ClosesFit
  <2>6. QED
    BY <2>2, <2>3, <2>5
<1>4. QED
  BY <1>2, <1>3

\* All closes begin: what is under way is waited for.
LEMMA ClosesBegin ==
  ASSUME WorkerTypeOK, WorkerTypeOK', NEW who, who # "none", BeginClose(who, Begun, underWay'),
         workers' = workers
  PROVE  ClosesFit' /\ closer' = who
<1>1. /\ closer' = who /\ ticking' = FALSE
      /\ closes' = [p \in Parts |-> IF p \notin Begun THEN "open"
                                    ELSE IF p \in underWay' THEN "waits" ELSE "ends"]
  BY DEF BeginClose
<1>2. Begun' = Begun /\ Begun \subseteq Parts /\ underWay' \subseteq Begun
  BY DEF Begun, Parts, Loops, WorkerTypeOK
<1>3. QED
  BY <1>1, <1>2 DEF ClosesFit

LEMMA BeginTypes ==
  ASSUME NEW who \in {"signal", "main"}, NEW busy, BeginClose(who, Begun, busy)
  PROVE  /\ closer' \in {"none", "signal", "main"} /\ ticking' \in BOOLEAN
         /\ closes' \in [Parts -> {"open", "waits", "ends", "closed", "failed"}]
<1>1. QED
  BY DEF BeginClose

LEMMA SignalKeeps == ASSUME WorkerInv, exit = "none", NEW s \in ShutdownSignals, ShutdownSignal(s) PROVE WorkerInv'
<1> USE DEF WorkerInv
<1>1. s \in armed /\ armed' = armed \ {s} /\ UNCHANGED <<startup, workers, underWay>>
  BY DEF ShutdownSignal
<1>2. startup # "none" /\ armed \subseteq ShutdownSignals /\ armed' # ShutdownSignals
  BY <1>1 DEF StartupFits, WorkerTypeOK
<1>3. CASE closer = "none"
  <2>1. BeginClose("signal", Begun, underWay) /\ exit' = "none"
    BY <1>3 DEF ShutdownSignal
  <2>2. WorkerTypeOK'
    BY <1>1, <2>1, BeginTypes DEF WorkerTypeOK
  <2>3. ClosesFit' /\ closer' = "signal" /\ ticking' = FALSE
    <3>1. ticking' = FALSE /\ BeginClose("signal", Begun, underWay')
      BY <1>1, <2>1 DEF BeginClose
    <3>2. QED
      BY <1>1, <2>2, <3>1, ClosesBegin
  <2>4. StartupFits'
    <3>1. startup' = startup /\ startup # "none" /\ underWay' = underWay
      BY <1>1, <1>2
    <3>2. startup \notin {"failing", "exiting"}
      BY <1>3 DEF StartupFits
    <3>3. /\ startup = "dispatching" => "dispatcher" \in underWay
          /\ startup = "retaining" => "retention" \in underWay
      BY DEF StartupFits
    <3>4. QED
      BY <1>2, <2>3, <3>1, <3>2, <3>3 DEF StartupFits
  <2>5. CleanExitDrained'
    BY <2>1 DEF CleanExitDrained
  <2>6. QED
    BY <2>2, <2>3, <2>4, <2>5
<1>4. CASE closer # "none"
  <2>1. exit' = "clean" /\ UNCHANGED <<ticking, closes, closer>>
    BY <1>4 DEF ShutdownSignal
  <2>2. WorkerTypeOK' /\ StartupFits' /\ ClosesFit'
    BY <1>1, <1>2, <2>1 DEF WorkerTypeOK, StartupFits, ClosesFit, Begun
  <2>3. closer = "signal" => armed' = {}
    BY <1>1, <1>2 DEF StartupFits, ShutdownSignals
  <2>4. CleanExitDrained'
    BY <2>1, <2>3 DEF CleanExitDrained
  <2>5. QED
    BY <2>2, <2>4
<1>5. QED
  BY <1>3, <1>4

LEMMA FirstFailureKeeps == ASSUME WorkerInv, exit = "none", NEW p \in Parts, FirstRunFails(p) PROVE WorkerInv'
<1> USE DEF WorkerInv
<1>1. /\ underWay' = underWay \ {p} /\ UNCHANGED <<workers, armed, exit>>
      /\ startup \in {"dispatching", "retaining"}
  BY DEF FirstRunFails, FirstTick
<1>2. CASE closer = "none"
  <2>1. startup' = "failing" /\ BeginClose("main", Begun, underWay')
    BY <1>2 DEF FirstRunFails
  <2>2. WorkerTypeOK'
    BY <1>1, <2>1, BeginTypes DEF WorkerTypeOK
  <2>3. ClosesFit' /\ closer' = "main"
    BY <1>1, <2>1, <2>2, ClosesBegin
  <2>4. StartupFits' /\ CleanExitDrained'
    BY <1>1, <2>1, <2>3 DEF StartupFits, CleanExitDrained
  <2>5. QED
    BY <2>2, <2>3, <2>4
<1>3. CASE closer # "none"
  <2>1. /\ startup' = "exiting" /\ UNCHANGED <<ticking, closer>>
        /\ closes' = [closes EXCEPT ![p] = IF @ = "waits" THEN "failed" ELSE @]
    BY <1>3 DEF FirstRunFails
  <2>2. WorkerTypeOK'
    BY <1>1, <2>1 DEF WorkerTypeOK
  <2>3. Begun' = Begun /\ Begun \subseteq Parts /\ underWay \subseteq Parts
    BY <1>1, PartNames DEF Begun
  <2>4. \A q \in Parts : closes'[q] = IF q = p /\ closes[p] = "waits" THEN "failed" ELSE closes[q]
    BY <2>1 DEF WorkerTypeOK
  <2>5. ClosesFit'
    BY <1>1, <1>3, <2>1, <2>3, <2>4 DEF ClosesFit
  <2>6. StartupFits' /\ CleanExitDrained'
    BY <1>1, <1>3, <2>1 DEF StartupFits, CleanExitDrained
  <2>7. QED
    BY <2>2, <2>5, <2>6
<1>4. QED
  BY <1>2, <1>3

LEMMA StartsKeep == ASSUME WorkerInv, exit = "none", DispatcherStarts \/ RetentionStarts PROVE WorkerInv'
<1> USE DEF WorkerInv
<1>1. Begun \subseteq Parts /\ underWay \subseteq Parts /\ {"dispatcher", "retention"} \subseteq Begun
  BY PartNames DEF Begun, Loops
<1>2. CASE DispatcherStarts
  <2>1. /\ startup = "dispatching" /\ ticking' = TRUE /\ closes' = CloseGoesOn("dispatcher")
        /\ \/ closes["retention"] = "open" /\ startup' = "retaining" /\ underWay' = (underWay \ {"dispatcher"}) \cup {"retention"}
           \/ closes["retention"] # "open" /\ startup' = "exiting" /\ underWay' = underWay \ {"dispatcher"}
        /\ UNCHANGED <<workers, closer, armed, exit>>
    BY <1>2 DEF DispatcherStarts
  <2>2. WorkerTypeOK'
    BY <2>1 DEF WorkerTypeOK, CloseGoesOn, Loops
  <2>3. \A q \in Parts : closes'[q] = IF q = "dispatcher" /\ closes[q] = "waits" THEN "ends" ELSE closes[q]
    BY <2>1 DEF WorkerTypeOK, CloseGoesOn
  <2>4. closes["retention"] = "open" <=> closer = "none"
    BY <1>1 DEF ClosesFit
  <2>5. StartupFits'
    BY <2>1, <2>4 DEF StartupFits
  <2>6. ClosesFit'
    BY <1>1, <2>1, <2>3, <2>4 DEF ClosesFit, Begun
  <2>7. QED
    BY <2>1, <2>2, <2>5, <2>6 DEF CleanExitDrained
<1>3. CASE RetentionStarts
  <2>1. /\ startup = "retaining" /\ startup' = "started" /\ closes' = CloseGoesOn("retention")
        /\ underWay' = underWay \ {"retention"} /\ UNCHANGED <<workers, ticking, closer, armed, exit>>
    BY <1>3 DEF RetentionStarts
  <2>2. WorkerTypeOK'
    BY <2>1 DEF WorkerTypeOK, CloseGoesOn
  <2>3. \A q \in Parts : closes'[q] = IF q = "retention" /\ closes[q] = "waits" THEN "ends" ELSE closes[q]
    BY <2>1 DEF WorkerTypeOK, CloseGoesOn
  <2>4. StartupFits'
    BY <2>1 DEF StartupFits
  <2>5. ClosesFit'
    BY <1>1, <2>1, <2>3 DEF ClosesFit, Begun
  <2>6. QED
    BY <2>1, <2>2, <2>4, <2>5 DEF CleanExitDrained
<1>4. QED
  BY <1>2, <1>3

LEMMA BeginsKeeps == ASSUME WorkerInv, exit = "none", NEW p \in Parts, WorkBegins(p) PROVE WorkerInv'
<1> USE DEF WorkerInv
<1>1. MayBegin(p) /\ underWay' = underWay \cup {p} /\ UNCHANGED <<startup, workers, ticking, closes, closer, armed, exit>>
  BY DEF WorkBegins
<1>2. \/ p \in {"scheduler", "outbox"} \cup workers /\ startup # "none" /\ closes[p] = "open"
      \/ p = "retention" /\ startup = "started" /\ closes[p] = "open"
      \/ p = "dispatcher" /\ ticking
  BY <1>1 DEF MayBegin
<1>3. WorkerTypeOK'
  BY <1>1, <1>2 DEF WorkerTypeOK, Loops
<1>4. StartupFits'
  BY <1>1, <1>2 DEF StartupFits
<1>5. "dispatcher" \in Parts
  BY PartNames
<1>6. ClosesFit'
  BY <1>1, <1>2, <1>5 DEF ClosesFit, Begun
<1>7. QED
  BY <1>1, <1>3, <1>4, <1>6 DEF CleanExitDrained

LEMMA EndsKeeps == ASSUME WorkerInv, exit = "none", NEW p \in Parts, WorkEnds(p) PROVE WorkerInv'
<1> USE DEF WorkerInv
<1>1. /\ p \in underWay /\ ~FirstTick(p) /\ underWay' = underWay \ {p} /\ closes' = CloseGoesOn(p)
      /\ UNCHANGED <<startup, workers, ticking, closer, armed, exit>>
  BY DEF WorkEnds
<1>2. Begun \subseteq Parts /\ underWay \subseteq Parts
  BY PartNames
<1>3. WorkerTypeOK'
  BY <1>1 DEF WorkerTypeOK, CloseGoesOn
<1>4. \A q \in Parts : closes'[q] = IF q = p /\ closes[q] = "waits" THEN "ends" ELSE closes[q]
  BY <1>1 DEF WorkerTypeOK, CloseGoesOn
<1>5. StartupFits'
  BY <1>1 DEF StartupFits, FirstTick
<1>6. ClosesFit'
  BY <1>1, <1>2, <1>4 DEF ClosesFit, Begun
<1>7. QED
  BY <1>1, <1>3, <1>5, <1>6 DEF CleanExitDrained

LEMMA CloseStepKeeps == ASSUME WorkerInv, exit = "none", NEW p \in Parts, PartCloses(p) \/ CloseFails(p) PROVE WorkerInv'
<1> USE DEF WorkerInv
<1>1. PICK to \in {"closed", "failed"} :
         /\ closes' = [closes EXCEPT ![p] = to] /\ closes[p] \in {"waits", "ends"}
         /\ to = "closed" => closes[p] = "ends"
  BY DEF PartCloses, CloseFails
<1>2. UNCHANGED <<startup, workers, underWay, ticking, closer, armed, exit>>
  BY DEF PartCloses, CloseFails
<1>3. Begun \subseteq Parts /\ underWay \subseteq Parts
  BY PartNames
<1>4. WorkerTypeOK' /\ \A q \in Parts : closes'[q] = IF q = p THEN to ELSE closes[q]
  BY <1>1, <1>2 DEF WorkerTypeOK
<1>5. StartupFits'
  BY <1>2 DEF StartupFits
<1>6. ClosesFit'
  BY <1>1, <1>2, <1>3, <1>4 DEF ClosesFit, Begun
<1>7. QED
  BY <1>2, <1>4, <1>5, <1>6 DEF CleanExitDrained

LEMMA CloseSettlesKeeps == ASSUME WorkerInv, exit = "none", CloseSettles \/ StartFailureExits PROVE WorkerInv'
<1> USE DEF WorkerInv
<1>1. UNCHANGED <<workers, underWay, ticking, closes, closer, armed>> /\ Begun' = Begun
  BY DEF CloseSettles, StartFailureExits, Begun
<1>2. CASE StartFailureExits
  <2>1. exit' = "failure" /\ UNCHANGED startup
    BY <1>2 DEF StartFailureExits
  <2>2. QED
    BY <1>1, <2>1 DEF WorkerTypeOK, StartupFits, ClosesFit, CleanExitDrained
<1>3. CASE CloseSettles
  <2>1. closer # "none" /\ \A p \in Begun : closes[p] \in {"closed", "failed"}
    BY <1>3 DEF CloseSettles
  <2>2. CASE closer = "main"
    <3>1. startup' = "exiting" /\ UNCHANGED exit
      BY <1>3, <2>2 DEF CloseSettles
    <3>2. QED
      BY <1>1, <2>2, <3>1 DEF WorkerTypeOK, StartupFits, ClosesFit, CleanExitDrained
  <2>3. CASE closer = "signal"
    <3>1. /\ exit' = IF \E p \in Begun : closes[p] = "failed" THEN "failure" ELSE "clean"
          /\ UNCHANGED startup
      BY <1>3, <2>3 DEF CloseSettles
    <3>2. WorkerTypeOK' /\ StartupFits' /\ ClosesFit'
      BY <1>1, <3>1 DEF WorkerTypeOK, StartupFits, ClosesFit
    <3>3. ASSUME exit' = "clean"
          PROVE  /\ \A p \in Begun : closes[p] = "closed"
                 /\ underWay \subseteq (IF startup = "exiting" THEN {"dispatcher"} ELSE {})
      <4>1. \A p \in Begun : closes[p] = "closed"
        BY <2>1, <3>1, <3>3
      <4>2. underWay \subseteq Begun
        BY PartNames
      <4>3. QED
        BY <4>1, <4>2 DEF ClosesFit
    <3>4. CleanExitDrained'
      BY <1>1, <3>1, <3>3 DEF CleanExitDrained
    <3>5. QED
      BY <3>2, <3>4
  <2>4. QED
    BY <2>1, <2>2, <2>3 DEF WorkerTypeOK
<1>4. QED
  BY <1>2, <1>3

\* What main(), its loops and queue workers, close() and the signals leave of the process fits
\* together at every moment, for any set of queues.
THEOREM WorkerInvariant == WorkerSpec => []WorkerInv
<1>1. WorkerInv /\ [WorkerNext]_workerVars => WorkerInv'
  <2> SUFFICES ASSUME WorkerInv, [WorkerNext]_workerVars PROVE WorkerInv'
    OBVIOUS
  <2>1. CASE exit = "none" /\ WorkerNext
    BY <2>1, NotBootedKeeps, BootKeeps, SignalKeeps, FirstFailureKeeps, StartsKeep, BeginsKeeps,
       EndsKeeps, CloseStepKeeps, CloseSettlesKeeps DEF WorkerNext
  <2>2. CASE UNCHANGED workerVars
    BY <2>2 DEF workerVars, WorkerInv, WorkerTypeOK, StartupFits, ClosesFit, CleanExitDrained, Begun
  <2>3. QED
    BY <2>1, <2>2 DEF WorkerNext
<1>2. QED
  BY <1>1, WorkerBegins, PTL DEF WorkerSpec

\* A worker process that a signal shuts down, and no second one hurries, exits 0 with every
\* loop, queue worker and connection closed and no tick or job cut off.
THEOREM CleanExitIsDrained == WorkerSpec => []CleanExitDrained
<1>1. WorkerInv => CleanExitDrained
  BY DEF WorkerInv
<1>2. QED
  BY <1>1, WorkerInvariant, PTL

=============================================================================
