------------------------ MODULE AutomationJobsProofs ------------------------
(***************************************************************************)
(* Theorems about AutomationJobs, for every number of jobs, workers, slots *)
(* and attempts.                                                           *)
(*                                                                         *)
(* First the types, one step of the program after the other.  The safety   *)
(* argument then looks at a step through narrow windows only: what it does *)
(* to one row (Moved, RowWindow), to one call (CallMoved, DoneMoved) and   *)
(* to the envelopes in flight (Carried, Fresh).                            *)
(***************************************************************************)
EXTENDS AutomationJobs, TLAPS

\* The shape of what the types leave open: BullMQ's jobs and the calls name
\* real jobs and attempts, a lock is held by one call at a time and only on an
\* active job, and a row that does not exist has no attempts.
EntriesOK ==
    \A k \in Keys : bull[k].state # "absent" => bull[k].attempt \in Attempts
CallsOK ==
    \A s \in Slots : slot[s].pc \in Calls =>
        /\ slot[s].job \in Jobs /\ slot[s].key \in Attempts /\ slot[s].attempt \in Attempts
LocksOK ==
    \A s \in Slots : slot[s].lock =>
        /\ slot[s].pc \in Calls
        /\ bull[<<slot[s].job, slot[s].key>>].state = "active"
        /\ slot[s].pc = "validating" => bull[<<slot[s].job, slot[s].key>>].left > 1
        /\ \A t \in Slots : t # s /\ slot[t].lock
                => <<slot[t].job, slot[t].key>> # <<slot[s].job, slot[s].key>>
AbsentOK ==
    \A j \in Jobs : row[j].status = "ABSENT" => row[j].attempts = 0

TypeInv == TypeOK /\ EntriesOK /\ CallsOK /\ LocksOK /\ AbsentOK

USE JobsAssumption, AttemptsAssumption, WorkersAssumption, BoundsAssumption

\* The empty database, queue and worker pool have the right shape.
LEMMA InitTypes == Init => TypeInv
BY DEF Init, TypeInv, TypeOK, EntriesOK, CallsOK, LocksOK, AbsentOK, Rows, NoRow, RunStatuses,
       Envelopes, BullJobs, NoBull, SlotStates, NoCall, Keys, Attempts, Calls, Processing,
       Backoff, Terminal

\* A row, field by field: the provers see through one such record more easily
\* than through several updates of one.
RowOf(st, o, t, a, g, d, r) ==
    [status |-> st, owner |-> o, ttl |-> t, attempts |-> a, gen |-> g, due |-> d, replayOf |-> r]

\* A row written out field by field is a row.
LEMMA RowOfType ==
    ASSUME NEW st \in {"ABSENT", "AVAILABLE", "LEASED"} \cup Terminal,
           NEW o \in Workers \cup {None}, NEW t \in 0..LeaseTicks, NEW a \in 0..AttemptLimit,
           NEW g \in Nat, NEW d \in BOOLEAN, NEW r \in Jobs \cup {None}
    PROVE  RowOf(st, o, t, a, g, d, r) \in Rows
BY DEF RowOf, Rows

\* What a newly created row looks like.
LEMMA NewRowFacts ==
    ASSUME NEW o \in Jobs \cup {None}
    PROVE  /\ NewRow(o) \in Rows /\ NewRow(o).status = "AVAILABLE"
           /\ NewRow(o).attempts = 0 /\ NewRow(o).gen = 1
BY DEF NewRow, Rows

\* Producers and the user's routes keep the shape.
LEMMA UserTypes == TypeInv /\ UserStep => TypeInv'
<1> SUFFICES ASSUME TypeInv, UserStep PROVE TypeInv'
  OBVIOUS
<1> USE DEF TypeInv, TypeOK, EntriesOK, CallsOK, LocksOK, AbsentOK
<1>1. ASSUME NEW j \in Jobs, Create(j) PROVE TypeInv'
  BY <1>1, NewRowFacts DEF Create
<1>2. ASSUME NEW j \in Jobs, Cancel(j) PROVE TypeInv'
  <2>1. row[j] \in Rows
    OBVIOUS
  <2>2. row'[j] = RowOf("CANCELLED", None, 0, row[j].attempts, row[j].gen, row[j].due,
                        row[j].replayOf)
    BY <1>2, <2>1 DEF Cancel, RowOf, Rows
  <2>3. row'[j] \in Rows /\ row'[j].status # "ABSENT"
    BY <2>1, <2>2, RowOfType DEF Rows, RowOf, Terminal
  <2> QED
    BY <1>2, <2>3 DEF Cancel
<1>3. ASSUME NEW j \in Jobs, NEW r \in Jobs, ReplayDeadLetter(j, r) PROVE TypeInv'
  BY <1>3, NewRowFacts DEF ReplayDeadLetter
<1>4. ASSUME NEW r \in Runs, NEW from, NEW to \in RunStatuses, SetRun(r, from, to) PROVE TypeInv'
  BY <1>4 DEF SetRun
<1>5. CASE EmergencyStop
  BY <1>5 DEF EmergencyStop, RunStatuses
<1> QED
  BY <1>1, <1>2, <1>3, <1>4, <1>5
  DEF UserStep, StartRun, PauseRun, ResumeRun, StopRun, RunStatuses

\* Time passing keeps the shape.
LEMMA ClockTypes == TypeInv /\ ClockStep => TypeInv'
<1> SUFFICES ASSUME TypeInv, ClockStep PROVE TypeInv'
  OBVIOUS
<1> USE DEF TypeInv, TypeOK, EntriesOK, CallsOK, LocksOK, AbsentOK
<1>1. ASSUME NEW j \in Jobs, BecomeDue(j) PROVE TypeInv'
  <2>1. row[j] \in Rows
    OBVIOUS
  <2>2. [row[j] EXCEPT !.due = TRUE] \in Rows
    BY ONLY <2>1, Zenon DEF Rows
  <2>3. /\ row' = [row EXCEPT ![j] = [row[j] EXCEPT !.due = TRUE]]
        /\ [row[j] EXCEPT !.due = TRUE].status = "AVAILABLE"
    BY <1>1, <2>1 DEF BecomeDue, Rows
  <2> QED
    BY <1>1, <2>2, <2>3 DEF BecomeDue
<1>2. ASSUME NEW j \in Jobs, Tick(j) PROVE TypeInv'
  <2>1. row[j] \in Rows /\ row[j].ttl - 1 \in 0..LeaseTicks
    BY <1>2 DEF Tick, Rows
  <2>2. [row[j] EXCEPT !.ttl = row[j].ttl - 1] \in Rows
    BY ONLY <2>1, Zenon DEF Rows
  <2>3. /\ row' = [row EXCEPT ![j] = [row[j] EXCEPT !.ttl = row[j].ttl - 1]]
        /\ [row[j] EXCEPT !.ttl = row[j].ttl - 1].status = row[j].status
        /\ [row[j] EXCEPT !.ttl = row[j].ttl - 1].attempts = row[j].attempts
    BY <1>2, <2>1 DEF Tick, Rows
  <2> QED
    BY <1>2, <2>2, <2>3 DEF Tick
<1>3. ASSUME NEW k \in Keys, DelayElapses(k) PROVE TypeInv'
  BY <1>3 DEF DelayElapses, BullJobs
<1> QED
  BY <1>1, <1>2, <1>3 DEF ClockStep

\* Reconciliation keeps rows rows.
LEMMA ReconciledType ==
    ASSUME TypeInv, NEW j \in Jobs, Expired(j)
    PROVE  Reconciled(j) \in Rows /\ Reconciled(j).status # "ABSENT"
<1>1. row[j] \in Rows
  BY DEF TypeInv, TypeOK
<1>2. CASE Exhausted(j)
  <2>1. Reconciled(j) = RowOf("DEAD_LETTER", None, row[j].ttl, row[j].attempts,
                              row[j].gen + 1, row[j].due, row[j].replayOf)
    BY <1>1, <1>2 DEF Reconciled, RowOf, Rows
  <2> QED
    BY <1>1, <2>1 DEF RowOf, Rows, Terminal
<1>3. CASE ~Exhausted(j)
  <2>1. Reconciled(j) = RowOf("AVAILABLE", None, row[j].ttl, row[j].attempts,
                              row[j].gen + 1, TRUE, row[j].replayOf)
    BY <1>1, <1>3 DEF Reconciled, RowOf, Rows
  <2> QED
    BY <1>1, <2>1 DEF RowOf, Rows, Terminal
<1> QED
  BY <1>2, <1>3

\* What the dispatcher selects is an envelope of a real attempt.
LEMMA EnvelopeOfType ==
    ASSUME TypeInv, NEW j \in Jobs, Dispatchable(j)
    PROVE  EnvelopeOf(j) \in Envelopes
BY DEF TypeInv, TypeOK, EnvelopeOf, Dispatchable, Envelopes, Rows, Attempts

\* BullMQ is always given at least one attempt, and no more than the limit.
LEMMA BullAttemptsType ==
    ASSUME NEW e \in Envelopes PROVE BullAttempts(e) \in Attempts
BY DEF BullAttempts, Max2, Envelopes, Attempts

\* Reconciliation, selection and enqueueing keep the shape.
LEMMA DispatcherTypes == TypeInv /\ DispatcherStep => TypeInv'
<1> SUFFICES ASSUME TypeInv, DispatcherStep PROVE TypeInv'
  OBVIOUS
<1> USE DEF TypeInv, TypeOK, EntriesOK, CallsOK, LocksOK, AbsentOK
<1>1. CASE ReconcileExpired
  BY <1>1, ReconciledType DEF ReconcileExpired
<1>2. ASSUME NEW w \in Workers, SelectDispatchable(w) PROVE TypeInv'
  BY <1>2, EnvelopeOfType DEF SelectDispatchable
<1>3. ASSUME NEW w \in Workers, NEW e \in batch[w], Enqueue(w, e) PROVE TypeInv'
  <2>1. e \in Envelopes /\ <<e.job, e.attempt>> \in Keys
    BY DEF Envelopes, Keys
  <2>2. CASE bull[<<e.job, e.attempt>>].state # "absent"
    BY <1>3, <2>2 DEF Enqueue
  <2>3. CASE bull[<<e.job, e.attempt>>].state = "absent"
    <3>1. [state |-> "waiting", gen |-> e.gen, attempt |-> e.attempt,
           left |-> BullAttempts(e), stalls |-> 0] \in BullJobs
      BY <2>1, BullAttemptsType DEF BullJobs, Envelopes, Attempts
    <3> QED
      BY <1>3, <2>1, <2>3, <3>1 DEF Enqueue, Envelopes
  <2> QED
    BY <2>2, <2>3
<1>4. ASSUME NEW w \in Workers, NEW e \in batch[w], EnqueueFails(w, e) PROVE TypeInv'
  BY <1>4 DEF EnqueueFails
<1> QED
  BY <1>1, <1>2, <1>3, <1>4 DEF DispatcherStep

\* A slot without a call holds no lock and carries no envelope.
LEMMA NoCallFacts == /\ NoCall \in SlotStates /\ NoCall.pc \notin Calls /\ ~NoCall.lock
                     /\ NoCall.pc \notin Executing
BY DEF NoCall, SlotStates, Calls, Processing, Backoff, Executing

\* A call moving on inside itself.
LEMMA GotoTypes ==
    ASSUME TypeInv, NEW s \in Slots, NEW pc \in Calls \ {"validating"}, slot[s].pc \in Calls,
           Goto(s, pc), bull' = bull
    PROVE  slot' \in [Slots -> SlotStates] /\ CallsOK' /\ LocksOK'
BY DEF TypeInv, TypeOK, CallsOK, LocksOK, Goto, SlotStates

\* A call ending, with any BullMQ job of the right shape left behind.
LEMMA FinishTypes ==
    ASSUME TypeInv, NEW s \in Slots, slot[s].pc \in Calls, NEW b, Finish(s, b),
           slot[s].lock => b \in BullJobs /\ (b.state # "absent" => b.attempt \in Attempts)
    PROVE  /\ slot' \in [Slots -> SlotStates] /\ bull' \in [Keys -> BullJobs]
           /\ EntriesOK' /\ CallsOK' /\ LocksOK'
<1> USE DEF TypeInv, TypeOK, CallsOK
<1> DEFINE k == <<slot[s].job, slot[s].key>>
<1>1. k \in Keys
  BY DEF Keys
<1>2. /\ bull' \in [Keys -> BullJobs]
      /\ \A i \in Keys : i # k => bull'[i] = bull[i]
      /\ slot[s].lock => bull'[k] = b
      /\ ~slot[s].lock => bull' = bull
  BY <1>1 DEF Finish
<1>3. slot' \in [Slots -> SlotStates] /\ \A t \in Slots : slot'[t] = IF t = s THEN NoCall ELSE slot[t]
  BY NoCallFacts DEF Finish
<1>4. EntriesOK'
  <2> SUFFICES ASSUME NEW i \in Keys, bull'[i].state # "absent" PROVE bull'[i].attempt \in Attempts
    BY DEF EntriesOK
  <2> QED
    BY <1>1, <1>2 DEF EntriesOK
<1>5. CallsOK'
  BY <1>3, NoCallFacts
<1>6. LocksOK'
  <2> SUFFICES ASSUME NEW t \in Slots, slot'[t].lock
               PROVE  /\ slot'[t].pc \in Calls
                      /\ bull'[<<slot'[t].job, slot'[t].key>>].state = "active"
                      /\ slot'[t].pc = "validating" => bull'[<<slot'[t].job, slot'[t].key>>].left > 1
                      /\ \A u \in Slots : u # t /\ slot'[u].lock
                            => <<slot'[u].job, slot'[u].key>> # <<slot'[t].job, slot'[t].key>>
    BY DEF LocksOK
  <2>1. t # s /\ slot'[t] = slot[t] /\ slot[t].lock
    BY <1>3, NoCallFacts
  <2>2. slot[t].pc \in Calls /\ <<slot[t].job, slot[t].key>> \in Keys
    BY <2>1 DEF LocksOK, Keys
  <2>3. bull'[<<slot[t].job, slot[t].key>>] = bull[<<slot[t].job, slot[t].key>>]
    BY <1>2, <2>1, <2>2 DEF LocksOK
  <2> QED
    BY <1>3, <2>1, <2>2, <2>3, NoCallFacts DEF LocksOK
<1> QED
  BY <1>2, <1>3, <1>4, <1>5, <1>6

\* An entry that was removed is no entry.
LEMMA NoBullFacts == NoBull \in BullJobs /\ NoBull.state = "absent"
BY DEF NoBull, BullJobs

\* Taking a lease and recording an outcome keep rows rows.
LEMMA TakeLeaseType ==
    ASSUME TypeInv, NEW s \in Slots, slot[s].pc \in Calls, Leasable(s), TakeLease(s)
    PROVE  row' \in [Jobs -> Rows] /\ AbsentOK'
<1> USE DEF TypeInv, TypeOK, CallsOK, JobOf, Row
<1>1. JobOf(s) \in Jobs /\ Row(s) \in Rows /\ WorkerOf[s] \in Workers
  OBVIOUS
<1>2. row' = [row EXCEPT ![JobOf(s)] = row'[JobOf(s)]]
  BY <1>1 DEF TakeLease
<1>3. row'[JobOf(s)] = RowOf("LEASED", WorkerOf[s], LeaseTicks, Row(s).attempts + 1,
                             Row(s).gen, Row(s).due, Row(s).replayOf)
  BY <1>1 DEF TakeLease, RowOf, Rows
<1>4. Row(s).attempts + 1 \in 0..AttemptLimit
  BY <1>1 DEF Leasable, Rows
<1>5. row'[JobOf(s)] \in Rows /\ row'[JobOf(s)].status # "ABSENT"
  BY <1>1, <1>3, <1>4 DEF RowOf, Rows
<1> QED
  BY <1>1, <1>2, <1>5 DEF AbsentOK

\* What a failing call writes is a row.
LEMMA FailedRowType ==
    ASSUME TypeInv, NEW s \in Slots, slot[s].pc \in Calls
    PROVE  FailedRow(s) \in Rows /\ FailedRow(s).status \in {"DEAD_LETTER", "AVAILABLE"}
<1> USE DEF TypeInv, TypeOK, CallsOK, JobOf, Row
<1>1. JobOf(s) \in Jobs /\ Row(s) \in Rows
  OBVIOUS
<1>2. CASE slot[s].seen >= MaxAttempts[JobOf(s)]
  <2>1. FailedRow(s) = RowOf("DEAD_LETTER", None, 0, Row(s).attempts, Row(s).gen,
                             Row(s).due, Row(s).replayOf)
    BY <1>1, <1>2 DEF FailedRow, RowOf, Rows
  <2> QED
    BY <1>1, <2>1 DEF RowOf, Rows, Terminal
<1>3. CASE ~(slot[s].seen >= MaxAttempts[JobOf(s)])
  <2>1. FailedRow(s) = RowOf("AVAILABLE", None, 0, Row(s).attempts, Row(s).gen,
                             FALSE, Row(s).replayOf)
    BY <1>1, <1>3 DEF FailedRow, RowOf, Rows
  <2> QED
    BY <1>1, <2>1 DEF RowOf, Rows
<1> QED
  BY <1>2, <1>3

\* A record update the prover needs spelt out.
LEMMA SeenCall ==
    ASSUME NEW r \in SlotStates, NEW n \in 0..AttemptLimit,
           NEW q, q = [r EXCEPT !.pc = "failWrite", !.seen = n]
    PROVE  q = [pc |-> "failWrite", job |-> r.job, key |-> r.key, gen |-> r.gen,
                attempt |-> r.attempt, seen |-> n, lock |-> r.lock]
BY DEF SlotStates

\* Every step of a processor call keeps the shape.
LEMMA CallTypes == ASSUME TypeInv, NEW s \in Slots, CallStep(s) PROVE TypeInv'
<1> USE DEF TypeInv, TypeOK
<1>0. /\ {"running", "returned", "completeRead", "completeWrite", "failing", "failRead",
          "failWrite", "retrying", "picked"} \subseteq Calls \ {"validating"}
      /\ "validating" \in Calls
  BY DEF Calls, Processing, Backoff
<1>1. CASE Lease(s)
  <2>1. slot[s].pc \in Calls /\ TakeLease(s) /\ Goto(s, "running") /\ bull' = bull
    BY <1>0, <1>1 DEF Lease
  <2>2. row' \in [Jobs -> Rows] /\ AbsentOK'
    BY <1>1, <2>1, TakeLeaseType DEF Lease
  <2>3. slot' \in [Slots -> SlotStates] /\ CallsOK' /\ LocksOK'
    BY <1>0, <2>1, GotoTypes
  <2> QED
    BY <1>1, <2>2, <2>3 DEF Lease, EntriesOK
<1>2. CASE SkipDelivery(s)
  BY <1>0, <1>2, FinishTypes, NoBullFacts DEF SkipDelivery, AbsentOK
<1>3. CASE HandlerReturns(s)
  <2>1. slot' \in [Slots -> SlotStates] /\ CallsOK' /\ LocksOK'
    BY <1>0, <1>3, GotoTypes DEF HandlerReturns
  <2>2. done' \subseteq Jobs \X Attempts
    BY <1>0, <1>3 DEF HandlerReturns, CallsOK, JobOf
  <2> QED
    BY <1>3, <2>1, <2>2 DEF HandlerReturns, EntriesOK, AbsentOK
<1>4. CASE HandlerThrows(s)
  BY <1>0, <1>4, GotoTypes DEF HandlerThrows, EntriesOK, AbsentOK
<1>5. CASE CompleteLoad(s)
  BY <1>0, <1>5, GotoTypes, FinishTypes, NoBullFacts DEF CompleteLoad, EntriesOK, AbsentOK
<1>6. CASE CompleteRead(s)
  BY <1>0, <1>6, GotoTypes DEF CompleteRead, EntriesOK, AbsentOK
<1>7. CASE CompleteWrite(s)
  <2>1. CASE OwnsRow(s)
    <3>1. slot[s].pc \in Calls /\ JobOf(s) \in Jobs /\ Row(s) \in Rows
      BY <1>0, <1>7 DEF CompleteWrite, CallsOK, JobOf, Row
    <3>2. row'[JobOf(s)] = RowOf("SUCCEEDED", None, 0, Row(s).attempts, Row(s).gen,
                                 Row(s).due, Row(s).replayOf)
      BY <1>7, <2>1, <3>1 DEF CompleteWrite, RowOf, Row, JobOf, Rows
    <3>3. row'[JobOf(s)] \in Rows /\ row'[JobOf(s)].status # "ABSENT"
      BY <3>1, <3>2 DEF RowOf, Rows, Terminal
    <3>4. row' \in [Jobs -> Rows] /\ AbsentOK'
      BY <1>7, <2>1, <3>1, <3>3 DEF CompleteWrite, AbsentOK
    <3> QED
      BY <1>7, <2>1, <3>1, <3>4, FinishTypes, NoBullFacts DEF CompleteWrite
  <2>2. CASE ~OwnsRow(s)
    BY <1>0, <1>7, <2>2, GotoTypes DEF CompleteWrite, EntriesOK, AbsentOK
  <2> QED
    BY <2>1, <2>2
<1>8. CASE FailLoad(s)
  BY <1>0, <1>8, GotoTypes, FinishTypes, NoBullFacts DEF FailLoad, EntriesOK, AbsentOK
<1>9. CASE FailRead(s)
  <2>1. slot[s].pc \in Calls /\ Row(s).attempts \in 0..AttemptLimit
    BY <1>0, <1>9 DEF FailRead, CallsOK, Row, Rows
  <2>2. slot' \in [Slots -> SlotStates] /\ CallsOK' /\ LocksOK'
    <3>1. CASE OwnsRow(s) /\ Row(s).ttl > 0
      <4>1. slot' = [slot EXCEPT ![s] = [slot[s] EXCEPT !.pc = "failWrite",
                                                        !.seen = Row(s).attempts]]
        BY <1>9, <3>1 DEF FailRead
      <4>2. [slot[s] EXCEPT !.pc = "failWrite", !.seen = Row(s).attempts] =
              [pc |-> "failWrite", job |-> slot[s].job, key |-> slot[s].key,
               gen |-> slot[s].gen, attempt |-> slot[s].attempt,
               seen |-> Row(s).attempts, lock |-> slot[s].lock]
        BY <2>1, SeenCall
      <4>3. slot' \in [Slots -> SlotStates]
        BY <1>0, <2>1, <4>1, <4>2 DEF SlotStates
      <4>4. /\ slot'[s].pc \in Calls \ {"validating"} /\ bull' = bull
            /\ \A t \in Slots :
                 /\ slot'[t].job = slot[t].job /\ slot'[t].key = slot[t].key
                 /\ slot'[t].attempt = slot[t].attempt /\ slot'[t].lock = slot[t].lock
                 /\ t # s => slot'[t] = slot[t]
        BY <1>0, <1>9, <4>1, <4>2 DEF FailRead
      <4>5. CallsOK'
        BY <2>1, <4>4 DEF CallsOK
      <4>6. LocksOK'
        BY <2>1, <4>4 DEF LocksOK
      <4> QED
        BY <4>3, <4>5, <4>6
    <3>2. CASE ~(OwnsRow(s) /\ Row(s).ttl > 0)
      <4>1. Goto(s, "retrying") /\ bull' = bull
        BY <1>9, <3>2 DEF FailRead, Goto
      <4> QED
        BY <1>0, <2>1, <4>1, GotoTypes
    <3> QED
      BY <3>1, <3>2
  <2> QED
    BY <1>9, <2>2 DEF FailRead, EntriesOK, AbsentOK
<1>10. CASE FailWrite(s)
  <2>1. slot[s].pc \in Calls /\ JobOf(s) \in Jobs
    BY <1>0, <1>10 DEF FailWrite, CallsOK, JobOf
  <2>2. row' \in [Jobs -> Rows] /\ AbsentOK'
    BY <1>10, <2>1, FailedRowType DEF FailWrite, AbsentOK
  <2> QED
    BY <1>0, <1>10, <2>1, <2>2, GotoTypes, FinishTypes, NoBullFacts DEF FailWrite, EntriesOK
<1>11. CASE ConsiderRetry(s)
  <2>1. slot[s].pc \in Calls /\ <<slot[s].job, slot[s].key>> \in Keys
    BY <1>0, <1>11 DEF ConsiderRetry, CallsOK, Keys
  <2>2. Entry(s) \in BullJobs
    BY <2>1 DEF Entry
  <2>3. CASE Entry(s).left > 1 /\ Row(s).status = "AVAILABLE"
    <3>1. Goto(s, "validating") /\ bull' = bull
      BY <1>11, <2>3 DEF ConsiderRetry
    <3>2. slot' \in [Slots -> SlotStates] /\ CallsOK' /\ LocksOK'
      BY <1>0, <2>1, <2>3, <3>1 DEF Goto, CallsOK, LocksOK, SlotStates, Entry
    <3> QED
      BY <1>11, <3>1, <3>2 DEF ConsiderRetry, EntriesOK, AbsentOK
  <2>4. CASE ~(Entry(s).left > 1 /\ Row(s).status = "AVAILABLE")
    <3>1. Finish(s, [Entry(s) EXCEPT !.state = "failed"])
      BY <1>11, <2>4 DEF ConsiderRetry
    <3>2. slot[s].lock => Entry(s).attempt \in Attempts
      BY <2>1 DEF Entry, LocksOK, EntriesOK
    <3>3. /\ [Entry(s) EXCEPT !.state = "failed"] \in BullJobs
          /\ [Entry(s) EXCEPT !.state = "failed"].attempt = Entry(s).attempt
      BY <2>2 DEF BullJobs
    <3> QED
      BY <1>11, <2>1, <3>1, <3>2, <3>3, FinishTypes DEF ConsiderRetry, AbsentOK
  <2> QED
    BY <2>3, <2>4
<1>12. CASE AdvanceRetry(s)
  <2>1. /\ slot[s].pc \in Calls /\ <<slot[s].job, slot[s].key>> \in Keys
        /\ slot[s].attempt \in Attempts /\ JobOf(s) \in Jobs
    BY <1>0, <1>12 DEF AdvanceRetry, CallsOK, Keys, JobOf
  <2>2. Entry(s) \in BullJobs
    BY <2>1 DEF Entry
  <2>3. slot[s].lock => Entry(s).attempt \in Attempts /\ Entry(s).left > 1
    BY <1>12, <2>1 DEF AdvanceRetry, Entry, LocksOK, EntriesOK
  <2>4. CASE RetryAuthorized(s)
    <3>1. Finish(s, Advanced(s))
      BY <1>12, <2>4 DEF AdvanceRetry
    <3>2. slot[s].attempt + 1 \in Attempts /\ slot[s].gen \in Nat
      BY <2>1, <2>4 DEF RetryAuthorized, Attempts, SlotStates
    <3>4. slot[s].lock => Advanced(s) \in BullJobs /\ Advanced(s).attempt \in Attempts
      BY <2>2, <2>3, <3>2 DEF BullJobs, Attempts, Advanced
    <3> QED
      BY <1>12, <2>1, <3>1, <3>4, FinishTypes DEF AdvanceRetry, AbsentOK
  <2>5. CASE ~RetryAuthorized(s)
    BY <1>12, <2>1, <2>2, <2>3, <2>5, FinishTypes DEF AdvanceRetry, AbsentOK
  <2> QED
    BY <2>4, <2>5
<1> QED
  BY <1>1, <1>2, <1>3, <1>4, <1>5, <1>6, <1>7, <1>8, <1>9, <1>10, <1>11, <1>12 DEF CallStep

\* BullMQ's job after a stall that may be delivered again.
StalledEntry(b) == [b EXCEPT !.state = "waiting", !.stalls = @ + 1]

\* The entry after a stall, spelt out for the prover.
LEMMA StalledEntryIs ==
    ASSUME NEW r \in BullJobs, NEW q, q = [r EXCEPT !.state = "waiting", !.stalls = @ + 1]
    PROVE  q = [state |-> "waiting", gen |-> r.gen, attempt |-> r.attempt,
                left |-> r.left, stalls |-> r.stalls + 1]
BY DEF BullJobs

\* BullMQ's own steps, heartbeats and calls keep the shape.
LEMMA QueueTypes == TypeInv /\ QueueStep => TypeInv'
<1> SUFFICES ASSUME TypeInv, QueueStep PROVE TypeInv'
  OBVIOUS
<1> USE DEF TypeInv, TypeOK
<1>1. ASSUME NEW s \in Slots, NEW k \in Keys, PickUp(s, k) PROVE TypeInv'
  <2>1. /\ bull[k].state = "waiting" /\ bull' = [bull EXCEPT ![k].state = "active"]
        /\ bull[k] \in BullJobs /\ bull[k].attempt \in Attempts
        /\ k = <<k[1], k[2]>> /\ k[1] \in Jobs /\ k[2] \in Attempts
    BY <1>1 DEF PickUp, EntriesOK, Keys
  <2>2. slot' = [slot EXCEPT ![s] = [pc |-> "picked", job |-> k[1], key |-> k[2],
                                     gen |-> bull[k].gen, attempt |-> bull[k].attempt,
                                     seen |-> 0, lock |-> TRUE]]
    BY <1>1 DEF PickUp
  <2>3. [pc |-> "picked", job |-> k[1], key |-> k[2], gen |-> bull[k].gen,
         attempt |-> bull[k].attempt, seen |-> 0, lock |-> TRUE] \in SlotStates
    BY <2>1 DEF SlotStates, BullJobs, Attempts, Calls, Processing
  <2>4. bull' \in [Keys -> BullJobs] /\ EntriesOK'
    BY <2>1 DEF BullJobs, EntriesOK
  <2>5. slot' \in [Slots -> SlotStates] /\ CallsOK'
    BY <2>1, <2>2, <2>3 DEF CallsOK
  <2>6. LocksOK'
    BY <2>1, <2>2 DEF LocksOK, Calls, Processing
  <2> QED
    BY <1>1, <2>4, <2>5, <2>6 DEF PickUp, AbsentOK
<1>2. ASSUME NEW k \in Keys, Stalled(k) PROVE TypeInv'
  <2>1. bull[k] \in BullJobs /\ bull[k].state = "active"
    BY <1>2 DEF Stalled
  <2>2. CASE bull[k].stalls >= MaxStalls
    <3>1. bull' = [bull EXCEPT ![k].state = "failed"]
      BY <1>2, <2>2 DEF Stalled
    <3>2. bull' \in [Keys -> BullJobs] /\ EntriesOK'
      BY <2>1, <3>1 DEF BullJobs, EntriesOK
    <3>3. LocksOK'
      BY <1>2, <2>1, <3>1 DEF LocksOK, Stalled, Holds, CallsOK, Keys
    <3> QED
      BY <1>2, <3>2, <3>3 DEF Stalled, AbsentOK, CallsOK
  <2>3. CASE ~(bull[k].stalls >= MaxStalls)
    <3>1. bull' = [bull EXCEPT ![k] = StalledEntry(bull[k])]
      BY <1>2, <2>3 DEF Stalled, StalledEntry
    <3>2. StalledEntry(bull[k]) = [state |-> "waiting", gen |-> bull[k].gen,
                                   attempt |-> bull[k].attempt, left |-> bull[k].left,
                                   stalls |-> bull[k].stalls + 1]
      BY <2>1, StalledEntryIs DEF StalledEntry
    <3>3. StalledEntry(bull[k]) \in BullJobs
      BY <2>1, <2>3, <3>2 DEF BullJobs
    <3>4. bull' \in [Keys -> BullJobs] /\ EntriesOK'
      BY <2>1, <3>1, <3>2, <3>3 DEF EntriesOK
    <3>5. LocksOK'
      BY <1>2, <2>1, <3>1 DEF LocksOK, Stalled, Holds, CallsOK, Keys
    <3> QED
      BY <1>2, <3>4, <3>5 DEF Stalled, AbsentOK, CallsOK
  <2> QED
    BY <2>2, <2>3
<1>3. ASSUME NEW s \in Slots, Heartbeat(s) PROVE TypeInv'
  <2>1. JobOf(s) \in Jobs /\ row[JobOf(s)] \in Rows
    BY <1>3 DEF Heartbeat, CallsOK, JobOf, Calls
  <2>2. row' \in [Jobs -> Rows] /\ AbsentOK'
    BY <1>3, <2>1 DEF Heartbeat, Rows, AbsentOK
  <2> QED
    BY <1>3, <2>2 DEF Heartbeat, EntriesOK, CallsOK, LocksOK
<1> QED
  BY <1>1, <1>2, <1>3, CallTypes DEF QueueStep

\* Crashes, restarts, lost locks and outages keep the shape.
LEMMA FaultTypes == TypeInv /\ FaultStep => TypeInv'
<1> SUFFICES ASSUME TypeInv, FaultStep PROVE TypeInv'
  OBVIOUS
<1> USE DEF TypeInv, TypeOK
<1>0. /\ {"failing", "retrying"} \subseteq Calls \ {"validating"}
      /\ "picked" \in Calls
  BY DEF Calls, Processing, Backoff
<1>1. ASSUME NEW s \in Slots, LoseLock(s) PROVE TypeInv'
  <2> DEFINE c == [slot[s] EXCEPT !.lock = FALSE]
  <2>1. slot' = [slot EXCEPT ![s] = c] /\ slot[s] \in SlotStates
    BY <1>1 DEF LoseLock
  <2>2. c \in SlotStates
    BY ONLY <2>1, Zenon DEF SlotStates
  <2>3. /\ ~c.lock /\ c.pc = slot[s].pc /\ c.job = slot[s].job /\ c.key = slot[s].key
        /\ c.attempt = slot[s].attempt
    BY <2>1 DEF SlotStates
  <2> HIDE DEF c
  <2>4. /\ slot' \in [Slots -> SlotStates]
        /\ slot'[s] = c /\ \A t \in Slots : t # s => slot'[t] = slot[t]
    BY <2>1, <2>2
  <2>5. CallsOK'
    BY <2>3, <2>4 DEF CallsOK
  <2>6. LocksOK'
    <3> SUFFICES ASSUME NEW t \in Slots, slot'[t].lock
                 PROVE  /\ slot'[t].pc \in Calls
                        /\ bull'[<<slot'[t].job, slot'[t].key>>].state = "active"
                        /\ slot'[t].pc = "validating" => bull'[<<slot'[t].job, slot'[t].key>>].left > 1
                        /\ \A u \in Slots : u # t /\ slot'[u].lock
                              => <<slot'[u].job, slot'[u].key>> # <<slot'[t].job, slot'[t].key>>
      BY DEF LocksOK
    <3>1. t # s /\ slot'[t] = slot[t] /\ slot[t].lock /\ bull' = bull
      BY <1>1, <2>3, <2>4 DEF LoseLock
    <3> QED
      BY <2>3, <2>4, <3>1 DEF LocksOK
  <2> QED
    BY <1>1, <2>4, <2>5, <2>6 DEF LoseLock, EntriesOK, AbsentOK
<1>2. ASSUME NEW s \in Slots, LeaseReplyLost(s) PROVE TypeInv'
  <2>1. slot[s].pc \in Calls /\ TakeLease(s) /\ Goto(s, "failing") /\ bull' = bull
    BY <1>0, <1>2 DEF LeaseReplyLost
  <2>2. row' \in [Jobs -> Rows] /\ AbsentOK'
    BY <1>2, <2>1, TakeLeaseType DEF LeaseReplyLost
  <2>3. slot' \in [Slots -> SlotStates] /\ CallsOK' /\ LocksOK'
    BY <1>0, <2>1, GotoTypes
  <2> QED
    BY <1>2, <2>2, <2>3 DEF LeaseReplyLost, Outage, EntriesOK
<1>3. ASSUME NEW s \in Slots, DatabaseFails(s) PROVE TypeInv'
  <2>1. /\ slot[s].pc \in Calls /\ <<slot[s].job, slot[s].key>> \in Keys
        /\ \/ Goto(s, "failing") /\ bull' = bull
           \/ Goto(s, "retrying") /\ bull' = bull
           \/ Finish(s, Entry(s))
    BY <1>3 DEF DatabaseFails, CallsOK, Keys
  <2>2. slot[s].lock => Entry(s) \in BullJobs /\ Entry(s).attempt \in Attempts
    BY <2>1 DEF Entry, LocksOK, EntriesOK
  <2>3. /\ slot' \in [Slots -> SlotStates] /\ bull' \in [Keys -> BullJobs]
        /\ EntriesOK' /\ CallsOK' /\ LocksOK'
    BY <1>0, <2>1, <2>2, GotoTypes, FinishTypes DEF EntriesOK
  <2> QED
    BY <1>3, <2>3 DEF DatabaseFails, Outage, AbsentOK
<1>4. ASSUME NEW w \in Workers, Crash(w) PROVE TypeInv'
  <2>1. DownCall \in SlotStates /\ DownCall.pc = "down" /\ ~DownCall.lock
    BY DEF DownCall, SlotStates
  <2>2. slot' \in [Slots -> SlotStates] /\ CallsOK' /\ LocksOK'
    BY <1>4, <2>1 DEF Crash, CallsOK, LocksOK, Calls, Processing, Backoff
  <2> QED
    BY <1>4, <2>2 DEF Crash, EntriesOK, AbsentOK
<1>5. ASSUME NEW w \in Workers, Restart(w) PROVE TypeInv'
  <2>1. slot' \in [Slots -> SlotStates] /\ CallsOK' /\ LocksOK'
    BY <1>5, NoCallFacts DEF Restart, CallsOK, LocksOK
  <2> QED
    BY <1>5, <2>1 DEF Restart, EntriesOK, AbsentOK
<1> QED
  BY <1>1, <1>2, <1>3, <1>4, <1>5 DEF FaultStep

\* Type correctness of the pipeline, and the shape of locks and entries.
THEOREM TypeInvariant == Spec => []TypeInv
<1>1. TypeInv /\ [Next]_vars => TypeInv'
  <2>1. TypeInv /\ UNCHANGED vars => TypeInv'
    BY DEF TypeInv, TypeOK, EntriesOK, CallsOK, LocksOK, AbsentOK, vars
  <2> QED
    BY <2>1, UserTypes, ClockTypes, DispatcherTypes, QueueTypes, FaultTypes DEF Next
<1> QED
  BY InitTypes, <1>1, PTL DEF Spec

\* No attempt number leaves 1..AttemptLimit and no count exceeds it, whatever
\* expires, stalls, is replayed or fails: the type invariant the runs check.
THEOREM TypeCorrect == Spec => []TypeOK
BY TypeInvariant, PTL DEF TypeInv

-----------------------------------------------------------------------------
(* Safety: a step seen through its windows *)

Same(j) ==
    /\ row'[j].status = row[j].status
    /\ row'[j].attempts = row[j].attempts
    /\ row'[j].gen = row[j].gen

\* What a step may do to the row of j.
Moved(j) ==
    \/ Same(j) /\ (row[j].status \in Terminal => row'[j] = row[j])
    \/ /\ row[j].status = "ABSENT" /\ row'[j].status = "AVAILABLE"
       /\ row'[j].attempts = 0 /\ row'[j].gen = 1
    \/ /\ row[j].status = "AVAILABLE" /\ row'[j].status = "LEASED"
       /\ row[j].attempts < MaxAttempts[j] /\ RunAllows(j)
       /\ row'[j].attempts = row[j].attempts + 1 /\ row'[j].gen = row[j].gen
    \/ /\ row[j].status = "LEASED" /\ row'[j].status \in {"SUCCEEDED", "AVAILABLE"}
       /\ row'[j].attempts = row[j].attempts /\ row'[j].gen = row[j].gen
    \/ /\ row[j].status = "LEASED" /\ row'[j].status = "DEAD_LETTER"
       /\ row[j].attempts = MaxAttempts[j]
       /\ row'[j].attempts = row[j].attempts /\ row'[j].gen = row[j].gen
    \/ /\ row[j].status \in {"AVAILABLE", "LEASED"} /\ row'[j].status = "CANCELLED"
       /\ row'[j].attempts = row[j].attempts /\ row'[j].gen = row[j].gen
    \/ /\ row[j].status = "LEASED"
       /\ row'[j].status = IF row[j].attempts = MaxAttempts[j] THEN "DEAD_LETTER" ELSE "AVAILABLE"
       /\ row'[j].attempts = row[j].attempts /\ row'[j].gen = row[j].gen + 1

\* What a step may do to the call in slot s.
Carrying(s, j, g, a) == slot'[s].job = j /\ slot'[s].gen = g /\ slot'[s].attempt = a

CallMoved(s) ==
    \/ slot'[s].pc \notin Calls
    \/ /\ slot[s].pc \in Calls
       /\ Carrying(s, slot[s].job, slot[s].gen, slot[s].attempt)
       /\ slot'[s].pc \in Executing => slot[s].pc \in Executing
       /\ slot'[s].pc = "failWrite" => slot[s].pc = "failWrite" /\ slot'[s].seen = slot[s].seen
    \/ /\ slot[s].pc = "failRead" /\ slot'[s].pc = "failWrite"
       /\ Carrying(s, slot[s].job, slot[s].gen, slot[s].attempt)
       /\ slot'[s].seen = row[slot[s].job].attempts
    \/ /\ slot'[s].pc = "picked"
       /\ \E k \in Keys : bull[k].state # "absent" /\ Carrying(s, k[1], bull[k].gen, bull[k].attempt)
    \/ /\ slot[s].pc = "picked" /\ slot'[s].pc = "running"
       /\ Carrying(s, slot[s].job, slot[s].gen, slot[s].attempt)
       /\ slot[s].attempt = row[slot[s].job].attempts + 1
       /\ row'[slot[s].job].attempts = slot[s].attempt
       /\ \A t \in Slots : t # s => slot'[t] = slot[t]

\* No more attempts than permitted, and a failing call's attempt count is not
\* ahead of the row's: what makes its old reading harmless for dead letters.
CountsOK ==
    /\ \A j \in Jobs : row[j].attempts <= MaxAttempts[j]
    /\ \A s \in Slots : slot[s].pc = "failWrite" => slot[s].seen <= row[slot[s].job].attempts

Inv == TypeInv /\ CountsOK

-----------------------------------------------------------------------------
(* What each step does to rows and calls *)

\* The step s of a call leaves every other call alone and keeps its own going.
LEMMA GotoMoves ==
    ASSUME TypeInv, NEW s \in Slots, slot[s].pc \in Calls, NEW pc, Goto(s, pc),
           pc \in Executing => slot[s].pc \in Executing, pc # "failWrite"
    PROVE  \A t \in Slots : CallMoved(t)
<1> USE DEF TypeInv, TypeOK, SlotStates
<1>1. \A t \in Slots : t # s => slot'[t] = slot[t]
  BY DEF Goto
<1>2. slot'[s].pc = pc /\ Carrying(s, slot[s].job, slot[s].gen, slot[s].attempt)
  BY DEF Goto, Carrying
<1> QED
  BY <1>1, <1>2 DEF CallMoved, Carrying

\* A slot the step does not touch.
LEMMA StillMoves ==
    ASSUME NEW t \in Slots, slot'[t] = slot[t] PROVE CallMoved(t)
BY DEF CallMoved, Carrying

\* The end of a call.
LEMMA FinishMoves ==
    ASSUME TypeInv, NEW s \in Slots, NEW b, Finish(s, b)
    PROVE  \A t \in Slots : CallMoved(t)
<1>1. \A t \in Slots : slot'[t] = IF t = s THEN NoCall ELSE slot[t]
  BY DEF Finish, TypeInv, TypeOK
<1> QED
  BY <1>1, NoCallFacts DEF CallMoved, Carrying

\* Rows and calls that a step leaves alone.
LEMMA Unmoved ==
    /\ row' = row => \A j \in Jobs : Moved(j)
    /\ slot' = slot => \A s \in Slots : CallMoved(s)
BY DEF Moved, Same, CallMoved, Carrying

\* Producers and routes create, replay and cancel; runs are not rows.
LEMMA UserMoves ==
    TypeInv /\ UserStep => /\ \A j \in Jobs : Moved(j)
                           /\ \A s \in Slots : CallMoved(s)
<1> SUFFICES ASSUME TypeInv, UserStep
             PROVE  (\A j \in Jobs : Moved(j)) /\ (\A s \in Slots : CallMoved(s))
  OBVIOUS
<1> USE DEF TypeInv, TypeOK
<1>0. \A s \in Slots : CallMoved(s)
  BY Unmoved DEF UserStep, Create, Cancel, ReplayDeadLetter, StartRun, PauseRun, ResumeRun,
                 StopRun, SetRun, EmergencyStop
<1>1. ASSUME NEW j \in Jobs, Create(j) PROVE \A i \in Jobs : Moved(i)
  BY <1>1, NewRowFacts DEF Create, Moved, Same, Rows
<1>2. ASSUME NEW j \in Jobs, Cancel(j) PROVE \A i \in Jobs : Moved(i)
  BY <1>2 DEF Cancel, Moved, Same, Rows, Terminal
<1>3. ASSUME NEW j \in Jobs, NEW r \in Jobs, ReplayDeadLetter(j, r) PROVE \A i \in Jobs : Moved(i)
  BY <1>3, NewRowFacts DEF ReplayDeadLetter, Moved, Same, Rows
<1>4. ASSUME \/ \E r \in Runs : StartRun(r) \/ PauseRun(r) \/ ResumeRun(r) \/ StopRun(r)
             \/ EmergencyStop
      PROVE \A i \in Jobs : Moved(i)
  BY <1>4, Unmoved DEF StartRun, PauseRun, ResumeRun, StopRun, SetRun, EmergencyStop
<1> QED
  BY <1>0, <1>1, <1>2, <1>3, <1>4 DEF UserStep

\* The clock changes neither status nor counts.
LEMMA ClockMoves ==
    TypeInv /\ ClockStep => /\ \A j \in Jobs : Moved(j)
                            /\ \A s \in Slots : CallMoved(s)
<1> SUFFICES ASSUME TypeInv, ClockStep
             PROVE  (\A j \in Jobs : Moved(j)) /\ (\A s \in Slots : CallMoved(s))
  OBVIOUS
<1> USE DEF TypeInv, TypeOK
<1>0. \A s \in Slots : CallMoved(s)
  BY Unmoved DEF ClockStep, BecomeDue, Tick, DelayElapses
<1>1. ASSUME NEW j \in Jobs, BecomeDue(j) \/ Tick(j) PROVE \A i \in Jobs : Moved(i)
  BY <1>1 DEF BecomeDue, Tick, Moved, Same, Rows, Terminal
<1>2. ASSUME NEW k \in Keys, DelayElapses(k) PROVE \A i \in Jobs : Moved(i)
  BY <1>2, Unmoved DEF DelayElapses
<1> QED
  BY <1>0, <1>1, <1>2 DEF ClockStep

\* CountsOK, for one row.
LEMMA CountBound ==
    ASSUME Inv, NEW j \in Jobs
    PROVE  row[j] \in Rows /\ row[j].attempts <= MaxAttempts[j] /\ MaxAttempts[j] \in Nat
<1>1. row[j] \in Rows
  BY DEF Inv, TypeInv, TypeOK
<1>2. row[j].attempts <= MaxAttempts[j]
  BY DEF Inv, CountsOK
<1>3. MaxAttempts[j] \in Nat
  OBVIOUS
<1> QED
  BY <1>1, <1>2, <1>3

\* CountsOK, for one failing call.
LEMMA SeenBound ==
    ASSUME Inv, NEW s \in Slots, slot[s].pc = "failWrite"
    PROVE  slot[s].seen \in Nat /\ slot[s].seen <= row[slot[s].job].attempts
<1>1. slot[s].seen \in Nat
  BY DEF Inv, TypeInv, TypeOK, SlotStates
<1>2. slot[s].seen <= row[slot[s].job].attempts
  BY DEF Inv, CountsOK
<1> QED
  BY <1>1, <1>2

\* Of the dispatcher's steps only reconciliation moves rows.
LEMMA DispatcherMoves ==
    Inv /\ DispatcherStep => /\ \A j \in Jobs : Moved(j)
                             /\ \A s \in Slots : CallMoved(s)
<1> SUFFICES ASSUME Inv, DispatcherStep
             PROVE  (\A j \in Jobs : Moved(j)) /\ (\A s \in Slots : CallMoved(s))
  OBVIOUS
<1> USE DEF Inv, TypeInv, TypeOK
<1>0. \A s \in Slots : CallMoved(s)
  BY Unmoved DEF DispatcherStep, ReconcileExpired, SelectDispatchable, Enqueue, EnqueueFails
<1>1. CASE ReconcileExpired
  <2> SUFFICES ASSUME NEW j \in Jobs PROVE Moved(j)
    BY <1>0
  <2>1. row'[j] = IF Expired(j) THEN Reconciled(j) ELSE row[j]
    BY <1>1 DEF ReconcileExpired
  <2>2. CASE Expired(j)
    <3>1. row[j] \in Rows /\ row[j].attempts <= MaxAttempts[j] /\ MaxAttempts[j] \in Nat
      BY CountBound
    <3>2. /\ Reconciled(j).attempts = row[j].attempts /\ Reconciled(j).gen = row[j].gen + 1
          /\ Reconciled(j).status = IF Exhausted(j) THEN "DEAD_LETTER" ELSE "AVAILABLE"
      BY <3>1 DEF Reconciled, Rows
    <3>3. Exhausted(j) <=> row[j].attempts = MaxAttempts[j]
      BY <3>1 DEF Exhausted, Rows
    <3>4. /\ row'[j].attempts = row[j].attempts /\ row'[j].gen = row[j].gen + 1
          /\ row'[j].status = IF row[j].attempts = MaxAttempts[j] THEN "DEAD_LETTER" ELSE "AVAILABLE"
      BY <2>1, <2>2, <3>2, <3>3
    <3>5. row[j].status = "LEASED"
      BY <2>2 DEF Expired
    <3> HIDE DEF TypeInv, TypeOK, Inv
    <3> QED
      BY <3>4, <3>5 DEF Moved
  <2>3. CASE ~Expired(j)
    BY <2>1, <2>3 DEF Moved, Same
  <2> QED
    BY <2>2, <2>3
<1>2. ASSUME NEW w \in Workers, \/ SelectDispatchable(w)
                                \/ \E e \in batch[w] : Enqueue(w, e) \/ EnqueueFails(w, e)
      PROVE \A i \in Jobs : Moved(i)
  BY <1>2, Unmoved DEF SelectDispatchable, Enqueue, EnqueueFails
<1> QED
  BY <1>0, <1>1, <1>2 DEF DispatcherStep

\* A granted lease counts the attempt of the call that asked for it.
LEMMA GrantMoves ==
    ASSUME TypeInv, NEW s \in Slots, slot[s].pc = "picked", Leasable(s), TakeLease(s)
    PROVE  /\ \A j \in Jobs : Moved(j)
           /\ slot[s].attempt = row[slot[s].job].attempts + 1
           /\ row'[slot[s].job].attempts = slot[s].attempt
<1> USE DEF TypeInv, TypeOK, JobOf, Row
<1>1. slot[s].job \in Jobs /\ row[slot[s].job] \in Rows
  BY DEF CallsOK, Calls, Processing
<1>2. \A j \in Jobs : j # slot[s].job => row'[j] = row[j]
  BY <1>1 DEF TakeLease
<1>3. /\ row'[slot[s].job].status = "LEASED" /\ row'[slot[s].job].gen = row[slot[s].job].gen
      /\ row'[slot[s].job].attempts = row[slot[s].job].attempts + 1
  BY <1>1 DEF TakeLease, Rows
<1> QED
  BY <1>1, <1>2, <1>3 DEF Moved, Same, Leasable

\* A call that writes its outcome, when it still looks like the owner.
LEMMA OutcomeMoves ==
    ASSUME TypeInv, NEW s \in Slots, slot[s].pc \in Calls, OwnsRow(s),
           NEW new, row' = [row EXCEPT ![slot[s].job] = new],
           new.attempts = Row(s).attempts, new.gen = Row(s).gen,
           \/ new.status \in {"SUCCEEDED", "AVAILABLE", "LEASED"}
           \/ new.status = "DEAD_LETTER" /\ Row(s).attempts = MaxAttempts[slot[s].job]
    PROVE  \A j \in Jobs : Moved(j)
<1> USE DEF TypeInv, TypeOK, Row
<1>1. slot[s].job \in Jobs
  BY DEF CallsOK
<1>2. row'[slot[s].job] = new /\ \A j \in Jobs : j # slot[s].job => row'[j] = row[j]
  BY <1>1
<1> QED
  BY <1>1, <1>2 DEF Moved, Same, OwnsRow, Terminal

\* A step of a processor call.
LEMMA CallMoves ==
    ASSUME Inv, NEW s \in Slots, CallStep(s)
    PROVE  (\A j \in Jobs : Moved(j)) /\ (\A t \in Slots : CallMoved(t))
<1> USE DEF Inv, TypeInv, TypeOK
<1>0. /\ {"running", "returned", "completeRead", "completeWrite", "failing", "failRead",
          "failWrite", "retrying", "picked", "validating"} \subseteq Calls
      /\ {"returned", "completeRead", "completeWrite", "running"} \subseteq Executing
      /\ {"failing", "failRead", "failWrite", "retrying", "picked", "validating"}
            \cap Executing = {}
  BY DEF Calls, Processing, Backoff, Executing
<1>1. CASE Lease(s)
  <2>1. (\A j \in Jobs : Moved(j)) /\ slot[s].attempt = row[slot[s].job].attempts + 1
          /\ row'[slot[s].job].attempts = slot[s].attempt
    BY <1>1, GrantMoves DEF Lease
  <2>2. /\ slot'[s].pc = "running" /\ Carrying(s, slot[s].job, slot[s].gen, slot[s].attempt)
        /\ \A t \in Slots : t # s => slot'[t] = slot[t]
    BY <1>1 DEF Lease, Goto, Carrying, SlotStates
  <2>3. \A t \in Slots : t # s => CallMoved(t)
    BY <2>2, StillMoves
  <2>4. CallMoved(s)
    BY <1>1, <2>1, <2>2 DEF Lease, CallMoved
  <2> QED
    BY <2>1, <2>3, <2>4
<1>2. CASE SkipDelivery(s)
  BY <1>2, Unmoved, FinishMoves DEF SkipDelivery
<1>3. CASE HandlerReturns(s)
  BY <1>0, <1>3, Unmoved, GotoMoves DEF HandlerReturns
<1>4. CASE HandlerThrows(s)
  BY <1>0, <1>4, Unmoved, GotoMoves DEF HandlerThrows
<1>5. CASE CompleteLoad(s)
  BY <1>0, <1>5, Unmoved, GotoMoves, FinishMoves DEF CompleteLoad
<1>6. CASE CompleteRead(s)
  BY <1>0, <1>6, Unmoved, GotoMoves DEF CompleteRead
<1>7. CASE CompleteWrite(s)
  <2>1. CASE OwnsRow(s)
    <3>1. slot[s].pc \in Calls /\ slot[s].job \in Jobs /\ Row(s) \in Rows
      BY <1>0, <1>7 DEF CompleteWrite, CallsOK, Row
    <3> DEFINE new == [Row(s) EXCEPT !.status = "SUCCEEDED", !.owner = None, !.ttl = 0]
    <3>2. row' = [row EXCEPT ![slot[s].job] = new]
      BY <1>7, <2>1, <3>1 DEF CompleteWrite, JobOf, Row
    <3>3. new.status = "SUCCEEDED" /\ new.attempts = Row(s).attempts /\ new.gen = Row(s).gen
      BY <3>1 DEF Rows
    <3> HIDE DEF new
    <3>4. \A j \in Jobs : Moved(j)
      BY <2>1, <3>1, <3>2, <3>3, OutcomeMoves
    <3> QED
      BY <1>7, <2>1, <3>4, FinishMoves DEF CompleteWrite
  <2>2. CASE ~OwnsRow(s)
    BY <1>0, <1>7, <2>2, Unmoved, GotoMoves DEF CompleteWrite
  <2> QED
    BY <2>1, <2>2
<1>8. CASE FailLoad(s)
  BY <1>0, <1>8, Unmoved, GotoMoves, FinishMoves DEF FailLoad
<1>9. CASE FailRead(s)
  <2>1. CASE OwnsRow(s) /\ Row(s).ttl > 0
    <3>1. slot' = [slot EXCEPT ![s] = [slot[s] EXCEPT !.pc = "failWrite", !.seen = Row(s).attempts]]
      BY <1>9, <2>1 DEF FailRead
    <3>2. slot'[s] = [slot[s] EXCEPT !.pc = "failWrite", !.seen = Row(s).attempts]
      BY <3>1
    <3>3. /\ slot'[s].pc = "failWrite" /\ slot'[s].seen = Row(s).attempts
          /\ Carrying(s, slot[s].job, slot[s].gen, slot[s].attempt)
      BY <3>2 DEF Carrying, SlotStates
    <3>4. CallMoved(s)
      BY <1>9, <3>3 DEF FailRead, CallMoved, Row
    <3>5. \A t \in Slots : t # s => CallMoved(t)
      BY <3>1, StillMoves
    <3> QED
      BY <1>9, <3>4, <3>5, Unmoved DEF FailRead
  <2>2. CASE ~(OwnsRow(s) /\ Row(s).ttl > 0)
    <3>1. Goto(s, "retrying") /\ row' = row
      BY <1>9, <2>2 DEF FailRead, Goto
    <3> QED
      BY <1>0, <1>9, <3>1, Unmoved, GotoMoves DEF FailRead
  <2> QED
    BY <2>1, <2>2
<1>10. CASE FailWrite(s)
  <2>1. slot[s].pc = "failWrite" /\ slot[s].pc \in Calls /\ slot[s].job \in Jobs
    BY <1>0, <1>10 DEF FailWrite, CallsOK
  <2>2. CASE OwnsRow(s)
    <3>1. row' = [row EXCEPT ![slot[s].job] = FailedRow(s)]
      BY <1>10, <2>2 DEF FailWrite, JobOf
    <3>2. /\ Row(s) \in Rows /\ slot[s].seen \in Nat /\ slot[s].seen <= Row(s).attempts
          /\ Row(s).attempts <= MaxAttempts[slot[s].job] /\ MaxAttempts[slot[s].job] \in Nat
      BY <2>1, CountBound, SeenBound DEF Row
    <3>3. FailedRow(s).attempts = Row(s).attempts /\ FailedRow(s).gen = Row(s).gen
      BY <3>2 DEF FailedRow, Rows
    <3>4. \/ FailedRow(s).status = "AVAILABLE"
          \/ FailedRow(s).status = "DEAD_LETTER" /\ slot[s].seen >= MaxAttempts[slot[s].job]
      BY <3>2 DEF FailedRow, Rows, JobOf
    <3>5. slot[s].seen >= MaxAttempts[slot[s].job] => Row(s).attempts = MaxAttempts[slot[s].job]
      BY <3>2 DEF Rows
    <3>6. \A j \in Jobs : Moved(j)
      BY <2>1, <2>2, <3>1, <3>3, <3>4, <3>5, OutcomeMoves
    <3>7. (\E b : Finish(s, b)) \/ Goto(s, "retrying")
      BY <1>10, <2>2 DEF FailWrite
    <3>8. \A t \in Slots : CallMoved(t)
      BY <1>0, <2>1, <3>7, GotoMoves, FinishMoves
    <3> QED
      BY <3>6, <3>8
  <2>3. CASE ~OwnsRow(s)
    BY <1>0, <1>10, <2>1, <2>3, Unmoved, GotoMoves DEF FailWrite
  <2> QED
    BY <2>2, <2>3
<1>11. CASE ConsiderRetry(s)
  BY <1>0, <1>11, Unmoved, GotoMoves, FinishMoves DEF ConsiderRetry
<1>12. CASE AdvanceRetry(s)
  BY <1>12, Unmoved, FinishMoves DEF AdvanceRetry
<1> QED
  BY <1>1, <1>2, <1>3, <1>4, <1>5, <1>6, <1>7, <1>8, <1>9, <1>10, <1>11, <1>12 DEF CallStep

\* Deliveries, stalled jobs, renewals and calls.
LEMMA QueueMoves ==
    Inv /\ QueueStep => (\A j \in Jobs : Moved(j)) /\ (\A s \in Slots : CallMoved(s))
<1> SUFFICES ASSUME Inv, QueueStep
             PROVE  (\A j \in Jobs : Moved(j)) /\ (\A s \in Slots : CallMoved(s))
  OBVIOUS
<1> USE DEF Inv, TypeInv, TypeOK
<1>1. ASSUME NEW s \in Slots, NEW k \in Keys, PickUp(s, k)
      PROVE  (\A j \in Jobs : Moved(j)) /\ (\A t \in Slots : CallMoved(t))
  <2>1. /\ slot'[s].pc = "picked" /\ Carrying(s, k[1], bull[k].gen, bull[k].attempt)
        /\ bull[k].state # "absent" /\ \A t \in Slots : t # s => slot'[t] = slot[t]
    BY <1>1 DEF PickUp, Carrying
  <2>2. CallMoved(s)
    BY <2>1 DEF CallMoved
  <2> QED
    BY <1>1, <2>1, <2>2, StillMoves, Unmoved DEF PickUp
<1>2. ASSUME NEW k \in Keys, Stalled(k)
      PROVE  (\A j \in Jobs : Moved(j)) /\ (\A t \in Slots : CallMoved(t))
  BY <1>2, Unmoved DEF Stalled
<1>3. ASSUME NEW s \in Slots, Heartbeat(s)
      PROVE  (\A j \in Jobs : Moved(j)) /\ (\A t \in Slots : CallMoved(t))
  <2>1. slot[s].job \in Jobs
    BY <1>3 DEF Heartbeat, CallsOK, Calls
  <2>2. /\ \A j \in Jobs : j # slot[s].job => row'[j] = row[j]
        /\ row[slot[s].job].status = "LEASED" /\ Same(slot[s].job)
    BY <1>3, <2>1 DEF Heartbeat, JobOf, Row, Renewable, OwnsRow, Rows, Same
  <2>3. \A j \in Jobs : Moved(j)
    BY <2>1, <2>2 DEF Moved, Same, Terminal
  <2> QED
    BY <1>3, <2>3, Unmoved DEF Heartbeat
<1> QED
  BY <1>1, <1>2, <1>3, CallMoves DEF QueueStep

\* Lost locks, lost replies, outages and crashes.
LEMMA FaultMoves ==
    Inv /\ FaultStep => (\A j \in Jobs : Moved(j)) /\ (\A s \in Slots : CallMoved(s))
<1> SUFFICES ASSUME Inv, FaultStep
             PROVE  (\A j \in Jobs : Moved(j)) /\ (\A s \in Slots : CallMoved(s))
  OBVIOUS
<1> USE DEF Inv, TypeInv, TypeOK
<1>0. /\ {"failing", "retrying", "picked"} \subseteq Calls
      /\ {"failing", "retrying"} \cap Executing = {}
  BY DEF Calls, Processing, Backoff, Executing
<1>1. ASSUME NEW s \in Slots, LoseLock(s)
      PROVE  (\A j \in Jobs : Moved(j)) /\ (\A t \in Slots : CallMoved(t))
  <2>1. /\ slot'[s].pc = slot[s].pc /\ slot'[s].seen = slot[s].seen
        /\ Carrying(s, slot[s].job, slot[s].gen, slot[s].attempt)
        /\ \A t \in Slots : t # s => slot'[t] = slot[t]
    BY <1>1 DEF LoseLock, Carrying, SlotStates
  <2>2. CallMoved(s)
    BY <2>1 DEF CallMoved
  <2> QED
    BY <1>1, <2>1, <2>2, StillMoves, Unmoved DEF LoseLock
<1>2. ASSUME NEW s \in Slots, LeaseReplyLost(s)
      PROVE  (\A j \in Jobs : Moved(j)) /\ (\A t \in Slots : CallMoved(t))
  BY <1>0, <1>2, GrantMoves, GotoMoves DEF LeaseReplyLost
<1>3. ASSUME NEW s \in Slots, DatabaseFails(s)
      PROVE  (\A j \in Jobs : Moved(j)) /\ (\A t \in Slots : CallMoved(t))
  <2>1. /\ slot[s].pc \in Calls /\ row' = row
        /\ Goto(s, "failing") \/ Goto(s, "retrying") \/ Finish(s, Entry(s))
    BY <1>3 DEF DatabaseFails
  <2> QED
    BY <1>0, <2>1, Unmoved, GotoMoves, FinishMoves
<1>4. ASSUME NEW w \in Workers, Crash(w) \/ Restart(w)
      PROVE  (\A j \in Jobs : Moved(j)) /\ (\A t \in Slots : CallMoved(t))
  <2>1. NoCall.pc \notin Calls /\ DownCall.pc \notin Calls
    BY DEF NoCall, DownCall, Calls, Processing, Backoff
  <2>2. row' = row /\ \A t \in Slots : slot'[t] \in {slot[t], NoCall, DownCall}
    BY <1>4 DEF Crash, Restart
  <2>3. \A t \in Slots : CallMoved(t)
    BY <2>1, <2>2, StillMoves DEF CallMoved
  <2> QED
    BY <2>2, <2>3, Unmoved
<1> QED
  BY <1>1, <1>2, <1>3, <1>4 DEF FaultStep

\* Every step, seen through the two windows.
LEMMA StepMoves ==
    Inv /\ [Next]_vars => (\A j \in Jobs : Moved(j)) /\ (\A s \in Slots : CallMoved(s))
<1>1. UNCHANGED vars => (\A j \in Jobs : Moved(j)) /\ (\A s \in Slots : CallMoved(s))
  BY Unmoved DEF vars
<1> QED
  BY <1>1, UserMoves, ClockMoves, DispatcherMoves, QueueMoves, FaultMoves DEF Next, Inv

-----------------------------------------------------------------------------
(* Attempts *)

\* Attempts are never handed back.
LEMMA AttemptsGrow ==
    ASSUME Inv, NEW j \in Jobs, Moved(j)
    PROVE  row[j].attempts \in Nat /\ row[j].attempts <= row'[j].attempts
<1>1. row[j].attempts \in Nat
  BY CountBound DEF Rows
<1>2. row[j].status = "ABSENT" => row[j].attempts = 0
  BY DEF Inv, TypeInv, AbsentOK
<1> QED
  BY <1>1, <1>2 DEF Moved, Same

\* No step takes a row past its permitted attempts, or a failing call's reading
\* ahead of the row.
LEMMA CountsInductive ==
    ASSUME Inv, \A j \in Jobs : Moved(j), \A s \in Slots : CallMoved(s)
    PROVE  CountsOK'
<1>1. ASSUME NEW j \in Jobs PROVE row'[j].attempts <= MaxAttempts[j]
  <2>1. Moved(j) /\ row[j].attempts \in Nat /\ row[j].attempts <= MaxAttempts[j]
        /\ MaxAttempts[j] \in Nat
    BY CountBound, AttemptsGrow
  <2> QED
    BY <2>1 DEF Moved, Same
<1>2. ASSUME NEW s \in Slots, slot'[s].pc = "failWrite"
      PROVE  slot'[s].seen <= row'[slot'[s].job].attempts
  <2>1. slot'[s].pc \in Calls \ Executing
    BY <1>2 DEF Calls, Processing, Executing
  <2>2. \/ /\ slot[s].pc = "failWrite" /\ slot'[s].job = slot[s].job
           /\ slot'[s].seen = slot[s].seen
        \/ /\ slot[s].pc = "failRead" /\ slot'[s].job = slot[s].job
           /\ slot'[s].seen = row[slot[s].job].attempts
    BY <1>2, <2>1 DEF CallMoved, Carrying
  <2>3. slot[s].job \in Jobs
    BY <2>2 DEF Inv, TypeInv, CallsOK, Calls, Processing
  <2>4. /\ row[slot[s].job].attempts \in Nat
        /\ row[slot[s].job].attempts <= row'[slot[s].job].attempts
        /\ row'[slot[s].job].attempts \in Nat
    BY <2>3, AttemptsGrow, CountBound DEF Moved, Same, Rows
  <2> QED
    BY <2>2, <2>4, SeenBound
<1> QED
  BY <1>1, <1>2 DEF CountsOK

\* The counts of rows and of failing calls stay in bounds.
THEOREM CountsInvariant == Spec => []Inv
<1>1. Init => CountsOK
  BY DEF Init, CountsOK, NoRow, NoCall
<1>2. Inv /\ [Next]_vars => CountsOK'
  BY StepMoves, CountsInductive
<1> QED
  BY <1>1, <1>2, TypeInvariant, PTL DEF Spec, Inv
-----------------------------------------------------------------------------
(* What follows for one row: dead letters, terminal statuses, runs *)

\* Every dead letter had its last permitted attempt, whether reconciliation or a
\* failing call with an old reading of the count buried it.
THEOREM DeadLettersAreExhausted == Spec => []DeadLetterExhausted
<1>1. Init => DeadLetterExhausted
  BY DEF Init, DeadLetterExhausted, NoRow
<1>2. Inv /\ DeadLetterExhausted /\ [Next]_vars => DeadLetterExhausted'
  <2> SUFFICES ASSUME Inv, DeadLetterExhausted, [Next]_vars,
                      NEW j \in Jobs, row'[j].status = "DEAD_LETTER"
               PROVE  row'[j].attempts = MaxAttempts[j]
    BY DEF DeadLetterExhausted
  <2>1. Moved(j) /\ row[j].attempts \in Nat /\ row[j].attempts <= MaxAttempts[j]
    BY StepMoves, CountBound, AttemptsGrow
  <2> QED
    BY <2>1 DEF Moved, Same, DeadLetterExhausted
<1> QED
  BY <1>1, <1>2, CountsInvariant, PTL DEF Spec

\* Whatever is still in flight leaves a terminal row exactly as it is.
THEOREM TerminalRowsAreFinal == Spec => TerminalIsFinal
<1>1. Inv /\ [Next]_vars
        => [\A j \in Jobs : row[j].status \in Terminal => row'[j] = row[j]]_vars
  BY StepMoves DEF Moved, Terminal
<1> QED
  BY <1>1, CountsInvariant, PTL DEF Spec, TerminalIsFinal

\* No attempt is granted to a job whose run is not RUNNING at that moment.
THEOREM StoppedRunsStartNothing == Spec => StoppedRunStartsNothing
<1>1. Inv /\ [Next]_vars
        => [\A j \in Jobs : RunOf[j] # None /\ row'[j].attempts # row[j].attempts
                => run[RunOf[j]] = "RUNNING"]_vars
  <2> SUFFICES ASSUME Inv, [Next]_vars, NEW j \in Jobs, RunOf[j] # None,
                      row'[j].attempts # row[j].attempts
               PROVE  run[RunOf[j]] = "RUNNING"
    OBVIOUS
  <2>1. Moved(j) /\ (row[j].status = "ABSENT" => row[j].attempts = 0)
    BY StepMoves DEF Inv, TypeInv, AbsentOK
  <2> QED
    BY <2>1 DEF Moved, Same, RunAllows
<1> QED
  BY <1>1, CountsInvariant, PTL DEF Spec, StoppedRunStartsNothing

-----------------------------------------------------------------------------
(* Executions *)

\* A handler runs for an attempt that has been counted, and the count has not
\* been handed out twice: the lease that grants attempt n finds n - 1.
ExecutionInv ==
    /\ \A s \in Slots : slot[s].pc \in Executing
            => slot[s].attempt <= row[slot[s].job].attempts
    /\ OneExecutionPerAttempt

\* Of a call whose handler runs after the step: it ran before, or its lease has
\* just been granted and no other call moved.
LEMMA ExecutionMoves ==
    ASSUME Inv, NEW s \in Slots, CallMoved(s), slot'[s].pc \in Executing
    PROVE  /\ slot[s].pc \in Calls /\ slot[s].job \in Jobs
           /\ slot[s].attempt \in Nat
           /\ Carrying(s, slot[s].job, slot[s].gen, slot[s].attempt)
           /\ \/ slot[s].pc \in Executing
              \/ /\ slot[s].pc = "picked"
                 /\ slot[s].attempt = row[slot[s].job].attempts + 1
                 /\ row'[slot[s].job].attempts = slot[s].attempt
                 /\ \A t \in Slots : t # s => slot'[t] = slot[t]
<1>1. slot'[s].pc \in Calls /\ slot'[s].pc \notin {"picked", "failWrite"} /\ "picked" \in Calls
  BY DEF Executing, Calls, Processing
<1>2. /\ slot[s].pc \in Calls /\ Carrying(s, slot[s].job, slot[s].gen, slot[s].attempt)
      /\ \/ slot[s].pc \in Executing
         \/ /\ slot[s].pc = "picked"
            /\ slot[s].attempt = row[slot[s].job].attempts + 1
            /\ row'[slot[s].job].attempts = slot[s].attempt
            /\ \A t \in Slots : t # s => slot'[t] = slot[t]
  BY <1>1 DEF CallMoved
<1> QED
  BY <1>2 DEF Inv, TypeInv, TypeOK, CallsOK, Attempts

\* A step keeps executions apart.
LEMMA ExecutionInductive ==
    ASSUME Inv, ExecutionInv, \A j \in Jobs : Moved(j), \A s \in Slots : CallMoved(s)
    PROVE  ExecutionInv'
<1>1. ASSUME NEW s \in Slots, slot'[s].pc \in Executing
      PROVE  slot'[s].attempt <= row'[slot'[s].job].attempts
  <2>1. /\ slot[s].job \in Jobs /\ slot[s].attempt \in Nat
        /\ slot'[s].job = slot[s].job /\ slot'[s].attempt = slot[s].attempt
        /\ slot[s].pc \in Executing \/ row'[slot[s].job].attempts = slot[s].attempt
    BY <1>1, ExecutionMoves DEF Carrying
  <2>2. /\ row[slot[s].job].attempts \in Nat
        /\ row[slot[s].job].attempts <= row'[slot[s].job].attempts
        /\ row'[slot[s].job].attempts \in Nat
    BY <2>1, AttemptsGrow DEF Moved, Same
  <2> QED
    BY <2>1, <2>2 DEF ExecutionInv
<1>2. ASSUME NEW s \in Slots, NEW t \in Slots, s # t, slot'[s].pc \in Executing,
             slot'[t].pc \in Executing, slot'[s].job = slot'[t].job
      PROVE  slot'[s].attempt # slot'[t].attempt
  <2>0. "picked" \notin Executing
    BY DEF Executing
  <2>1. CASE slot[s].pc \in Executing /\ slot[t].pc \in Executing
    BY <1>2, <2>1, ExecutionMoves DEF Carrying, ExecutionInv, OneExecutionPerAttempt
  <2>2. ASSUME NEW u \in Slots, NEW v \in Slots, u # v, slot[u].pc \notin Executing,
               slot'[u].pc \in Executing, slot'[v].pc \in Executing,
               slot'[u].job = slot'[v].job
        PROVE  slot'[u].attempt # slot'[v].attempt
    <3>1. /\ slot[u].job \in Jobs /\ slot'[u].job = slot[u].job
          /\ slot'[u].attempt = slot[u].attempt
          /\ slot[u].attempt = row[slot[u].job].attempts + 1 /\ slot'[v] = slot[v]
      BY <2>2, ExecutionMoves DEF Carrying
    <3>2. slot[v].pc \in Executing /\ slot[v].job = slot[u].job /\ slot[v].attempt \in Nat
      BY <2>2, <3>1, ExecutionMoves DEF Carrying
    <3>3. slot[v].attempt <= row[slot[u].job].attempts /\ row[slot[u].job].attempts \in Nat
      BY <3>1, <3>2, AttemptsGrow DEF ExecutionInv
    <3> QED
      BY <3>1, <3>2, <3>3
  <2> QED
    BY <1>2, <2>1, <2>2
<1> QED
  BY <1>1, <1>2 DEF ExecutionInv, OneExecutionPerAttempt

\* No two calls ever run the same attempt of a job, for any number of workers,
\* queued duplicates, stalls, crashes and lost replies.
THEOREM ExecutionsAreExclusive == Spec => []OneExecutionPerAttempt
<1>1. Init => ExecutionInv
  BY DEF Init, ExecutionInv, OneExecutionPerAttempt, NoCall, Executing
<1>2. Inv /\ ExecutionInv /\ [Next]_vars => ExecutionInv'
  BY StepMoves, ExecutionInductive
<1>3. ExecutionInv => OneExecutionPerAttempt
  BY DEF ExecutionInv
<1> QED
  BY <1>1, <1>2, <1>3, CountsInvariant, PTL DEF Spec
-----------------------------------------------------------------------------
(* The table of jobs implements JobLedger *)

\* What a step does to runs: it controls them and no row, or leaves them alone,
\* and a run that has ended stays as it is.
RunsMoved ==
    \/ run' = run
    \/ /\ row' = row /\ run' = [r \in Runs |-> run'[r]]
       /\ \A r \in Runs : run'[r] # run[r] => run[r] \in {"ABSENT", "RUNNING", "PAUSED"}

\* Runs move in the user's steps alone.
LEMMA StepMovesRuns == Inv /\ [Next]_vars => RunsMoved
<1> SUFFICES ASSUME Inv, [Next]_vars PROVE RunsMoved
  OBVIOUS
<1>0. run \in [Runs -> RunStatuses]
  BY DEF Inv, TypeInv, TypeOK
<1>1. CASE UserStep
  <2>1. ASSUME NEW r \in Runs, NEW from, NEW to, SetRun(r, from, to),
               from \subseteq {"ABSENT", "RUNNING", "PAUSED"}
        PROVE  RunsMoved
    BY <1>0, <2>1 DEF SetRun, RunsMoved
  <2>2. CASE EmergencyStop
    BY <1>0, <2>2 DEF EmergencyStop, RunsMoved
  <2> QED
    BY <1>1, <2>1, <2>2 DEF UserStep, Create, Cancel, ReplayDeadLetter, StartRun, PauseRun,
                            ResumeRun, StopRun, RunsMoved
<1>2. CASE ClockStep
  BY <1>2 DEF ClockStep, BecomeDue, Tick, DelayElapses, RunsMoved
<1>3. CASE DispatcherStep
  BY <1>3 DEF DispatcherStep, ReconcileExpired, SelectDispatchable, Enqueue, EnqueueFails, RunsMoved
<1>4. CASE QueueStep
  BY <1>4 DEF QueueStep, PickUp, Stalled, Heartbeat, CallStep, Lease, SkipDelivery, HandlerReturns,
              HandlerThrows, CompleteLoad, CompleteRead, CompleteWrite, FailLoad, FailRead,
              FailWrite, ConsiderRetry, AdvanceRetry, RunsMoved
<1>5. CASE FaultStep
  BY <1>5 DEF FaultStep, LoseLock, LeaseReplyLost, DatabaseFails, Crash, Restart, RunsMoved
<1>6. CASE UNCHANGED vars
  BY <1>6 DEF vars, RunsMoved
<1> QED
  BY <1>1, <1>2, <1>3, <1>4, <1>5, <1>6 DEF Next

\* A row's step is one of the ledger's moves.
LEMMA MovedIsMove ==
    ASSUME NEW j \in Jobs, Moved(j), LedgerOf'[j] # LedgerOf[j]
    PROVE  Ledger!Move(j)
<1>1. /\ LedgerOf[j] = [status |-> row[j].status, attempts |-> row[j].attempts, gen |-> row[j].gen]
      /\ LedgerOf'[j] = [status |-> row'[j].status, attempts |-> row'[j].attempts,
                         gen |-> row'[j].gen]
  BY DEF LedgerOf
<1> QED
  BY <1>1 DEF Moved, Same, RunAllows, Ledger!Move, Ledger!Accept, Ledger!Grant, Ledger!Succeed,
              Ledger!GiveBack, Ledger!Bury, Ledger!Cancel, Ledger!Expire, Ledger!Keeps,
              Ledger!Becomes, Ledger!RunAllows

\* The pipeline keeps every promise of JobLedger: its rows make no move the
\* ledger does not have, in whatever order dispatchers, queues and calls run.
THEOREM JobsImplementLedger == Spec => ImplementsLedger
<1>1. Init => Ledger!Init
  BY DEF Init, LedgerOf, NoRow, Ledger!Init, Ledger!Unborn
<1>2. Inv /\ [Next]_vars => [Ledger!Next]_<<LedgerOf, run>>
  <2> SUFFICES ASSUME Inv, [Next]_vars PROVE [Ledger!Next]_<<LedgerOf, run>>
    OBVIOUS
  <2>1. LedgerOf' = [j \in Jobs |-> LedgerOf'[j]]
    BY DEF LedgerOf
  <2>2. \A j \in Jobs : LedgerOf'[j] # LedgerOf[j] => Ledger!Move(j)
    BY StepMoves, MovedIsMove
  <2>3. CASE run' = run
    BY <2>1, <2>2, <2>3 DEF Ledger!Next, Ledger!MoveRows
  <2>4. CASE /\ row' = row /\ run' = [r \in Runs |-> run'[r]]
             /\ \A r \in Runs : run'[r] # run[r] => run[r] \in {"ABSENT", "RUNNING", "PAUSED"}
    <3>1. LedgerOf' = LedgerOf
      BY <2>4 DEF LedgerOf
    <3> QED
      BY <2>4, <3>1 DEF Ledger!Next, Ledger!ControlRuns
  <2> QED
    BY <2>3, <2>4, StepMovesRuns DEF RunsMoved
<1> QED
  BY <1>1, <1>2, CountsInvariant, PTL DEF Spec, ImplementsLedger, Ledger!Spec

-----------------------------------------------------------------------------
(***************************************************************************)
(* Why the id of a BullMQ job can do without the delivery generation: of   *)
(* all envelopes in flight, in dispatchers, in BullMQ and in calls, those  *)
(* with the same job and attempt have the same generation.  A step either  *)
(* passes envelopes on or writes a fresh one from the row as it is; and no *)
(* envelope is ever ahead of its row by more than the next attempt.        *)
(***************************************************************************)

\* Where the envelope of attempt a and generation g of job j may be.
InBatch(j, g, a) == \E w \in Workers : [job |-> j, gen |-> g, attempt |-> a] \in batch[w]

Has(k, j, g, a) == k[1] = j /\ bull[k].state # "absent" /\ bull[k].gen = g /\ bull[k].attempt = a

InQueue(j, g, a) == \E k \in Keys : Has(k, j, g, a)

InCall(j, g, a) == \E s \in Slots :
    slot[s].pc \in Calls /\ slot[s].job = j /\ slot[s].gen = g /\ slot[s].attempt = a

InFlight(j, g, a) == InBatch(j, g, a) \/ InQueue(j, g, a) \/ InCall(j, g, a)

\* A step may write an envelope only for the row as it is, and then leaves rows alone.
Fresh(j, g, a) ==
    /\ row[j].status = "AVAILABLE" /\ row' = row
    /\ g = row[j].gen /\ a = row[j].attempts + 1

EnvelopesMoved ==
    \A j \in Jobs : \A g, a : InFlight(j, g, a)' => InFlight(j, g, a) \/ Fresh(j, g, a)

\* An envelope is ahead of its row only while the row has not been leased again.
EnvelopeInv ==
    /\ \A j \in Jobs : \A g, a : InFlight(j, g, a) =>
          /\ a \in Nat /\ a <= row[j].attempts + 1
          /\ a = row[j].attempts + 1
                => row[j].status \in {"AVAILABLE", "CANCELLED"} /\ g = row[j].gen
    /\ \A j \in Jobs : \A a, g, h : InFlight(j, g, a) /\ InFlight(j, h, a) => g = h

-----------------------------------------------------------------------------
(* What each step does to envelopes *)

\* Calls get their envelopes from BullMQ.
LEMMA CallsPassOn ==
    ASSUME \A s \in Slots : CallMoved(s), NEW j, NEW g, NEW a, InCall(j, g, a)'
    PROVE  InCall(j, g, a) \/ InQueue(j, g, a)
<1>1. PICK s \in Slots : /\ slot'[s].pc \in Calls /\ slot'[s].job = j /\ slot'[s].gen = g
                         /\ slot'[s].attempt = a
  BY DEF InCall
<1>2. CASE /\ slot[s].pc \in Calls /\ Carrying(s, slot[s].job, slot[s].gen, slot[s].attempt)
  BY <1>1, <1>2 DEF Carrying, InCall
<1>3. CASE \E k \in Keys : /\ bull[k].state # "absent"
                           /\ Carrying(s, k[1], bull[k].gen, bull[k].attempt)
  BY <1>1, <1>3 DEF Carrying, InQueue, Has
<1>4. {"failRead", "picked"} \subseteq Calls
  BY DEF Calls, Processing
<1> QED
  BY <1>1, <1>2, <1>3, <1>4 DEF CallMoved

\* A call that ends leaves BullMQ what it had, or what RetryAuthorized allows.
LEMMA FinishPassesOn ==
    ASSUME TypeInv, NEW s \in Slots, NEW b, Finish(s, b),
           b.state = "absent" \/ (b.gen = Entry(s).gen /\ b.attempt = Entry(s).attempt)
             \/ Fresh(slot[s].job, b.gen, b.attempt),
           NEW j \in Jobs, NEW g, NEW a, InQueue(j, g, a)'
    PROVE  InQueue(j, g, a) \/ Fresh(j, g, a)
<1>1. PICK k \in Keys : Has(k, j, g, a)'
  BY DEF InQueue
<1>2. CASE bull'[k] = bull[k]
  BY <1>1, <1>2 DEF Has, InQueue
<1>3. CASE slot[s].lock /\ k = <<slot[s].job, slot[s].key>> /\ bull'[k] = b
  <2>1. bull[k].state = "active" /\ Entry(s) = bull[k]
    BY <1>3 DEF TypeInv, LocksOK, Entry
  <2>2. slot[s].job = j
    BY <1>1, <1>3 DEF Has
  <2> QED
    BY <1>1, <1>3, <2>1, <2>2 DEF Has, InQueue
<1>4. bull \in [Keys -> BullJobs]
  BY DEF TypeInv, TypeOK
<1> QED
  BY <1>1, <1>2, <1>3, <1>4 DEF Finish

\* Steps that touch neither dispatchers nor BullMQ.
LEMMA QuietPassesOn ==
    ASSUME \A s \in Slots : CallMoved(s), batch' = batch, bull' = bull
    PROVE  EnvelopesMoved
BY CallsPassOn DEF EnvelopesMoved, InFlight, InBatch, InQueue, Has

\* Selection writes envelopes; enqueueing moves one from the dispatcher to BullMQ.
LEMMA DispatcherPassesOn ==
    ASSUME Inv, DispatcherStep PROVE EnvelopesMoved
<1> USE DEF Inv, TypeInv, TypeOK
<1>0. \A s \in Slots : CallMoved(s)
  BY DispatcherMoves
<1>1. CASE ReconcileExpired
  BY <1>0, <1>1, QuietPassesOn DEF ReconcileExpired
<1>2. ASSUME NEW w \in Workers, SelectDispatchable(w) PROVE EnvelopesMoved
  <2> SUFFICES ASSUME NEW j \in Jobs, NEW g, NEW a, InFlight(j, g, a)'
               PROVE  InFlight(j, g, a) \/ Fresh(j, g, a)
    BY DEF EnvelopesMoved
  <2>1. bull' = bull /\ slot' = slot /\ row' = row
    BY <1>2 DEF SelectDispatchable
  <2>2. CASE InBatch(j, g, a)'
    <3>1. PICK v \in Workers : [job |-> j, gen |-> g, attempt |-> a] \in batch'[v]
      BY <2>2 DEF InBatch
    <3>2. CASE v = w
      <4>1. [job |-> j, gen |-> g, attempt |-> a] \in {EnvelopeOf(i) : i \in {i \in Jobs : Dispatchable(i)}}
        BY <1>2, <3>1, <3>2 DEF SelectDispatchable
      <4>2. PICK i \in Jobs : /\ Dispatchable(i)
                              /\ [job |-> j, gen |-> g, attempt |-> a] = EnvelopeOf(i)
        BY <4>1
      <4>3. i = j /\ g = row[j].gen /\ a = row[j].attempts + 1
        BY <4>2 DEF EnvelopeOf
      <4> QED
        BY <2>1, <4>2, <4>3 DEF Dispatchable, Fresh
    <3>3. CASE v # w
      BY <1>2, <3>1, <3>3 DEF SelectDispatchable, InBatch, InFlight
    <3> QED
      BY <3>2, <3>3
  <2> QED
    BY <2>1, <2>2 DEF InFlight, InQueue, InCall, Has
<1>3. ASSUME NEW w \in Workers, NEW e \in batch[w], Enqueue(w, e) PROVE EnvelopesMoved
  <2> SUFFICES ASSUME NEW j \in Jobs, NEW g, NEW a, InFlight(j, g, a)'
               PROVE  InFlight(j, g, a)
    BY DEF EnvelopesMoved
  <2>1. slot' = slot /\ \A v \in Workers : batch'[v] \subseteq batch[v]
    BY <1>3 DEF Enqueue
  <2>2. CASE InQueue(j, g, a)'
    <3>1. PICK k \in Keys : Has(k, j, g, a)'
      BY <2>2 DEF InQueue
    <3>2. CASE bull'[k] = bull[k]
      BY <3>1, <3>2 DEF Has, InQueue, InFlight
    <3>3. CASE bull'[k] # bull[k]
      <4>1. e \in Envelopes /\ e = [job |-> e.job, gen |-> e.gen, attempt |-> e.attempt]
        BY DEF Envelopes
      <4>2. k = <<e.job, e.attempt>> /\ bull'[k].gen = e.gen /\ bull'[k].attempt = e.attempt
        BY <1>3, <3>3, <4>1 DEF Enqueue, Envelopes, Keys
      <4>3. e = [job |-> j, gen |-> g, attempt |-> a]
        BY <3>1, <4>1, <4>2 DEF Has
      <4> QED
        BY <4>3 DEF InBatch, InFlight
    <3> QED
      BY <3>2, <3>3
  <2> QED
    BY <2>1, <2>2 DEF InFlight, InBatch, InCall
<1>4. ASSUME NEW w \in Workers, NEW e \in batch[w], EnqueueFails(w, e) PROVE EnvelopesMoved
  <2>1. bull' = bull /\ slot' = slot /\ \A v \in Workers : batch'[v] \subseteq batch[v]
    BY <1>4 DEF EnqueueFails
  <2> QED
    BY <2>1 DEF EnvelopesMoved, InFlight, InBatch, InQueue, InCall, Has
<1> QED
  BY <1>1, <1>2, <1>3, <1>4 DEF DispatcherStep

\* Of the steps of a call only AdvanceRetry writes an envelope, for the attempt
\* after its own, and only while its row waits for that attempt.
LEMMA CallPassesOn ==
    ASSUME Inv, NEW s \in Slots, CallStep(s) PROVE EnvelopesMoved
<1>0. batch' = batch
  BY DEF CallStep, Lease, SkipDelivery, HandlerReturns, HandlerThrows, CompleteLoad, CompleteRead,
         CompleteWrite, FailLoad, FailRead, FailWrite, ConsiderRetry, AdvanceRetry
<1>1. \A t \in Slots : CallMoved(t)
  BY CallMoves
<1>2. CASE bull' = bull
  BY <1>0, <1>1, <1>2, QuietPassesOn
<1>3. ASSUME NEW b, Finish(s, b),
             \/ b.state = "absent" \/ (b.gen = Entry(s).gen /\ b.attempt = Entry(s).attempt)
             \/ Fresh(slot[s].job, b.gen, b.attempt)
      PROVE  EnvelopesMoved
  BY <1>0, <1>1, <1>3, FinishPassesOn, CallsPassOn DEF EnvelopesMoved, InFlight, InBatch, Inv
<1>4. ASSUME Finish(s, NoBull) PROVE EnvelopesMoved
  BY <1>3, <1>4, NoBullFacts
<1>5. CASE ConsiderRetry(s)
  <2>1. CASE Finish(s, [Entry(s) EXCEPT !.state = "failed"])
    <3>1. <<slot[s].job, slot[s].key>> \in Keys
      BY <1>5 DEF ConsiderRetry, Inv, TypeInv, CallsOK, Keys, Calls, Backoff
    <3>2. Entry(s) \in BullJobs
      BY <3>1 DEF Entry, Inv, TypeInv, TypeOK
    <3>3. /\ [Entry(s) EXCEPT !.state = "failed"].gen = Entry(s).gen
          /\ [Entry(s) EXCEPT !.state = "failed"].attempt = Entry(s).attempt
      BY <3>2 DEF BullJobs
    <3> QED
      BY <1>3, <2>1, <3>3
  <2> QED
    BY <1>2, <1>5, <2>1 DEF ConsiderRetry
<1>6. CASE AdvanceRetry(s)
  <2>1. CASE RetryAuthorized(s)
    <3>1. Finish(s, Advanced(s)) /\ row' = row
      BY <1>6, <2>1 DEF AdvanceRetry
    <3>2. Fresh(slot[s].job, Advanced(s).gen, Advanced(s).attempt)
      BY <2>1, <3>1 DEF RetryAuthorized, Advanced, Fresh, Row
    <3> QED
      BY <1>3, <3>1, <3>2
  <2>2. CASE ~RetryAuthorized(s)
    BY <1>3, <1>6, <2>2 DEF AdvanceRetry
  <2> QED
    BY <2>1, <2>2
<1> QED
  BY <1>2, <1>4, <1>5, <1>6
  DEF CallStep, Lease, SkipDelivery, HandlerReturns, HandlerThrows, CompleteLoad, CompleteRead,
      CompleteWrite, FailLoad, FailRead, FailWrite

\* The remaining steps write no envelope.
LEMMA OthersPassOn ==
    ASSUME Inv, UserStep \/ ClockStep \/ QueueStep \/ FaultStep
    PROVE  EnvelopesMoved
<1> USE DEF Inv, TypeInv, TypeOK
<1>0. \A s \in Slots : CallMoved(s)
  BY UserMoves, ClockMoves, QueueMoves, FaultMoves
<1>1. CASE UserStep
  BY <1>0, <1>1, QuietPassesOn
  DEF UserStep, Create, Cancel, ReplayDeadLetter, StartRun, PauseRun, ResumeRun, StopRun, SetRun,
      EmergencyStop
<1>2. ASSUME batch' = batch,
             \A k \in Keys : bull'[k].state # "absent" =>
                /\ bull[k].state # "absent"
                /\ bull'[k].gen = bull[k].gen /\ bull'[k].attempt = bull[k].attempt
      PROVE  EnvelopesMoved
  BY <1>0, <1>2, CallsPassOn DEF EnvelopesMoved, InFlight, InBatch, InQueue, Has
<1>3. CASE ClockStep
  BY <1>0, <1>2, <1>3, QuietPassesOn DEF ClockStep, BecomeDue, Tick, DelayElapses, BullJobs
<1>4. CASE QueueStep
  <2>1. ASSUME NEW s \in Slots, NEW k \in Keys, PickUp(s, k) PROVE EnvelopesMoved
    BY <1>2, <2>1 DEF PickUp, BullJobs
  <2>2. ASSUME NEW k \in Keys, Stalled(k) PROVE EnvelopesMoved
    <3>1. /\ batch' = batch /\ bull[k] \in BullJobs /\ bull[k].state = "active"
          /\ \A i \in Keys : i # k => bull'[i] = bull[i]
          /\ bull'[k] = IF bull[k].stalls >= MaxStalls THEN [bull[k] EXCEPT !.state = "failed"]
                        ELSE StalledEntry(bull[k])
      BY <2>2 DEF Stalled, StalledEntry
    <3>2. bull'[k].gen = bull[k].gen /\ bull'[k].attempt = bull[k].attempt
      BY <3>1 DEF StalledEntry, BullJobs
    <3> QED
      BY <1>2, <3>1, <3>2
  <2>3. ASSUME NEW s \in Slots, Heartbeat(s) PROVE EnvelopesMoved
    BY <1>0, <2>3, QuietPassesOn DEF Heartbeat
  <2> QED
    BY <1>4, <2>1, <2>2, <2>3, CallPassesOn DEF QueueStep
<1>5. CASE FaultStep
  <2>1. ASSUME NEW s \in Slots, LoseLock(s) \/ LeaseReplyLost(s) PROVE EnvelopesMoved
    BY <1>0, <2>1, QuietPassesOn DEF LoseLock, LeaseReplyLost
  <2>2. ASSUME NEW s \in Slots, DatabaseFails(s) PROVE EnvelopesMoved
    <3>1. batch' = batch /\ (bull' = bull \/ Finish(s, Entry(s)))
      BY <2>2 DEF DatabaseFails
    <3> QED
      BY <1>0, <3>1, QuietPassesOn, FinishPassesOn, CallsPassOn
      DEF EnvelopesMoved, InFlight, InBatch
  <2>3. ASSUME NEW w \in Workers, Crash(w) \/ Restart(w) PROVE EnvelopesMoved
    <3>1. bull' = bull /\ \A v \in Workers : batch'[v] \subseteq batch[v]
      BY <2>3 DEF Crash, Restart
    <3> QED
      BY <1>0, <3>1, CallsPassOn DEF EnvelopesMoved, InFlight, InBatch, InQueue, Has
  <2> QED
    BY <1>5, <2>1, <2>2, <2>3 DEF FaultStep
<1> QED
  BY <1>1, <1>3, <1>4, <1>5

-----------------------------------------------------------------------------
(* Attempts identify generations *)

\* The row an envelope is ahead of neither opens a generation nor is replaced.
LEMMA EnvelopeInductive ==
    ASSUME Inv, EnvelopeInv, EnvelopesMoved, \A j \in Jobs : Moved(j) PROVE EnvelopeInv'
<1>1. ASSUME NEW j \in Jobs, NEW g, NEW a, InFlight(j, g, a) \/ Fresh(j, g, a)
      PROVE  /\ a \in Nat /\ a <= row[j].attempts + 1 /\ row[j].attempts \in Nat
             /\ a = row[j].attempts + 1
                   => row[j].status \in {"AVAILABLE", "CANCELLED"} /\ g = row[j].gen
  <2>1. row[j].attempts \in Nat
    BY AttemptsGrow
  <2> QED
    BY <1>1, <2>1 DEF EnvelopeInv, Fresh
<1>2. ASSUME NEW j \in Jobs, NEW g, NEW a, InFlight(j, g, a)'
      PROVE  /\ a \in Nat /\ a <= row'[j].attempts + 1
             /\ a = row'[j].attempts + 1
                   => row'[j].status \in {"AVAILABLE", "CANCELLED"} /\ g = row'[j].gen
  <2>1. InFlight(j, g, a) \/ Fresh(j, g, a)
    BY <1>2 DEF EnvelopesMoved
  <2>2. /\ a \in Nat /\ a <= row[j].attempts + 1 /\ row[j].attempts \in Nat
        /\ a = row[j].attempts + 1
              => row[j].status \in {"AVAILABLE", "CANCELLED"} /\ g = row[j].gen
    BY <1>1, <2>1
  <2>3. Moved(j) /\ (row[j].status = "ABSENT" => row[j].attempts = 0)
    BY DEF Inv, TypeInv, AbsentOK
  <2>4. row[j].attempts <= row'[j].attempts /\ row'[j].attempts \in Nat
    BY <2>3, AttemptsGrow DEF Moved, Same
  <2>5. ASSUME a = row'[j].attempts + 1
        PROVE  row'[j].status \in {"AVAILABLE", "CANCELLED"} /\ g = row'[j].gen
    <3>1. a = row[j].attempts + 1 /\ row'[j].attempts = row[j].attempts
      BY <2>2, <2>4, <2>5
    <3>2. row[j].status \in {"AVAILABLE", "CANCELLED"} /\ g = row[j].gen
      BY <2>2, <3>1
    <3> QED
      BY <2>2, <2>3, <3>1, <3>2 DEF Moved, Same
  <2> QED
    BY <2>2, <2>4, <2>5
<1>3. ASSUME NEW j \in Jobs, NEW a, NEW g, NEW h, InFlight(j, g, a)', InFlight(j, h, a)'
      PROVE  g = h
  <2>1. /\ InFlight(j, g, a) \/ Fresh(j, g, a)
        /\ InFlight(j, h, a) \/ Fresh(j, h, a)
    BY <1>3 DEF EnvelopesMoved
  <2>2. CASE InFlight(j, g, a) /\ InFlight(j, h, a)
    BY <2>2 DEF EnvelopeInv
  <2>3. CASE Fresh(j, g, a) \/ Fresh(j, h, a)
    BY <1>1, <2>1, <2>3 DEF Fresh
  <2> QED
    BY <2>1, <2>2, <2>3
<1> QED
  BY <1>2, <1>3 DEF EnvelopeInv

\* The members of Carried are the envelopes in flight.
LEMMA CarriedInFlight ==
    ASSUME TypeInv, NEW e, e \in Carried
    PROVE  e.job \in Jobs /\ InFlight(e.job, e.gen, e.attempt)
<1> USE DEF TypeInv, TypeOK
<1>1. ASSUME NEW w \in Workers, e \in batch[w] PROVE e.job \in Jobs /\ InFlight(e.job, e.gen, e.attempt)
  <2>1. e \in Envelopes
    BY <1>1
  <2>2. e.job \in Jobs /\ e = [job |-> e.job, gen |-> e.gen, attempt |-> e.attempt]
    BY <2>1 DEF Envelopes
  <2> QED
    BY <1>1, <2>2 DEF InFlight, InBatch
<1>2. ASSUME NEW k \in Keys, bull[k].state # "absent",
             e = [job |-> k[1], gen |-> bull[k].gen, attempt |-> bull[k].attempt]
      PROVE  e.job \in Jobs /\ InFlight(e.job, e.gen, e.attempt)
  BY <1>2 DEF Keys, InFlight, InQueue, Has
<1>3. ASSUME NEW s \in Slots, slot[s].pc \in Calls,
             e = [job |-> slot[s].job, gen |-> slot[s].gen, attempt |-> slot[s].attempt]
      PROVE  e.job \in Jobs /\ InFlight(e.job, e.gen, e.attempt)
  BY <1>3 DEF CallsOK, InFlight, InCall
<1> QED
  BY <1>1, <1>2, <1>3 DEF Carried

\* Of all envelopes in flight anywhere, the attempt decides the generation, so
\* an enqueue swallowed by an existing BullMQ id loses no newer generation.
THEOREM AttemptsFixGenerations == Spec => []AttemptFixesGeneration
<1>1. Init => EnvelopeInv
  BY NoCallFacts DEF Init, EnvelopeInv, InFlight, InBatch, InQueue, InCall, Has, NoBull
<1>2. Inv /\ EnvelopeInv /\ [Next]_vars => EnvelopeInv'
  <2> SUFFICES ASSUME Inv, EnvelopeInv, [Next]_vars PROVE EnvelopeInv'
    OBVIOUS
  <2>1. EnvelopesMoved
    <3>1. UNCHANGED vars => EnvelopesMoved
      BY StepMoves, QuietPassesOn DEF vars
    <3> QED
      BY <3>1, DispatcherPassesOn, OthersPassOn DEF Next
  <2> QED
    BY <2>1, StepMoves, EnvelopeInductive
<1>3. Inv /\ EnvelopeInv => AttemptFixesGeneration
  <2> SUFFICES ASSUME Inv, EnvelopeInv, NEW e \in Carried
               PROVE  /\ e.attempt = row[e.job].attempts + 1 => e.gen = row[e.job].gen
                      /\ \A f \in Carried : f.job = e.job /\ f.attempt = e.attempt => f.gen = e.gen
    BY DEF AttemptFixesGeneration
  <2>1. e.job \in Jobs /\ InFlight(e.job, e.gen, e.attempt)
    BY CarriedInFlight DEF Inv
  <2>2. e.attempt = row[e.job].attempts + 1 => e.gen = row[e.job].gen
    BY <2>1 DEF EnvelopeInv
  <2>3. ASSUME NEW f \in Carried, f.job = e.job, f.attempt = e.attempt PROVE f.gen = e.gen
    <3>1. InFlight(e.job, f.gen, e.attempt)
      BY <2>3, CarriedInFlight DEF Inv
    <3> QED
      BY <2>1, <3>1 DEF EnvelopeInv
  <2> QED
    BY <2>2, <2>3
<1> QED
  BY <1>1, <1>2, <1>3, CountsInvariant, PTL DEF Spec

-----------------------------------------------------------------------------
(***************************************************************************)
(* One call per worker id.  Renewal, completion and failure compare the    *)
(* owner of the row and nothing else of the call.  When no two calls share *)
(* a worker id the owner tells the attempt: while a handler of the owner   *)
(* runs, its process has leased nothing since.                             *)
(***************************************************************************)
OneCallPerWorker == \A s, t \in Slots : WorkerOf[s] = WorkerOf[t] => s = t

Returned == {"returned", "completeRead", "completeWrite"}

\* A lease after the step is the one from before, or has just been granted to a call.
Leased(j) ==
    row'[j].status = "LEASED" =>
        \/ row[j].status = "LEASED" /\ row'[j].owner = row[j].owner /\ Same(j)
        \/ \E s \in Slots : /\ slot[s].pc = "picked" /\ slot[s].job = j
                            /\ row'[j].owner = WorkerOf[s]
                            /\ row'[j].attempts = slot[s].attempt /\ row'[j].gen = slot[s].gen

\* A job succeeds in a call that looks like the owner of its row.
Succeeded(j) ==
    row'[j].status = "SUCCEEDED" =>
        \/ row[j].status = "SUCCEEDED" /\ Same(j)
        \/ \E s \in Slots : /\ slot[s].pc = "completeWrite" /\ slot[s].job = j /\ OwnsRow(s)
                            /\ row'[j].attempts = row[j].attempts

\* A lease is extended by a call that looks like the owner of its row.
Renewed(j) ==
    row[j].status = "LEASED" /\ row'[j].ttl > row[j].ttl =>
        \E s \in Slots : slot[s].pc \in Processing /\ slot[s].job = j /\ OwnsRow(s)

RowWindow(j) == Leased(j) /\ Succeeded(j) /\ Renewed(j)

\* A handler that has returned is on record.
DoneMoved ==
    /\ done \subseteq done'
    /\ \A s \in Slots : slot'[s].pc \in Returned
            => slot[s].pc \in Returned \/ <<slot[s].job, slot[s].attempt>> \in done'

\* A row that the step leaves alone.
LEMMA StillRow ==
    ASSUME NEW j \in Jobs, row'[j] = row[j], row[j].ttl \in Nat
    PROVE  RowWindow(j)
BY DEF RowWindow, Leased, Succeeded, Renewed, Same

\* Rows the step does not change at all, and those of the other jobs.
LEMMA StillRows ==
    ASSUME TypeInv, row' = row
    PROVE  \A j \in Jobs : RowWindow(j)
<1>1. \A j \in Jobs : row[j].ttl \in Nat
  BY DEF TypeInv, TypeOK, Rows
<1> QED
  BY <1>1, StillRow

\* A step that replaces one row by a row that is neither leased nor succeeded, or has no
\* more time left, keeps within the window.
LEMMA OneRow ==
    ASSUME TypeInv, NEW j \in Jobs, \A i \in Jobs : i # j => row'[i] = row[i],
           \/ row'[j].status \in {"AVAILABLE", "CANCELLED", "DEAD_LETTER"}
           \/ Same(j) /\ row[j].status = "LEASED" /\ row'[j].owner = row[j].owner,
           row[j].status = "LEASED" => row'[j].ttl \in 0 .. row[j].ttl
    PROVE  \A i \in Jobs : RowWindow(i)
<1>1. \A i \in Jobs : row[i].ttl \in Nat
  BY DEF TypeInv, TypeOK, Rows
<1>2. Leased(j) /\ Succeeded(j)
  BY DEF Leased, Succeeded, Same
<1>4. Renewed(j)
  BY <1>1 DEF Renewed
<1>3. \A i \in Jobs : i # j => RowWindow(i)
  BY <1>1, StillRow
<1> QED
  BY <1>2, <1>3, <1>4 DEF RowWindow

\* Users, clock and dispatcher neither lease nor complete nor renew.
LEMMA PlainWindows ==
    ASSUME TypeInv, UserStep \/ ClockStep \/ DispatcherStep
    PROVE  /\ \A j \in Jobs : RowWindow(j)
           /\ DoneMoved
<1>0. DoneMoved
  <2>1. slot' = slot /\ done' = done
    BY DEF UserStep, Create, Cancel, ReplayDeadLetter, StartRun, PauseRun, ResumeRun, StopRun,
           SetRun, EmergencyStop, ClockStep, BecomeDue, Tick, DelayElapses, DispatcherStep,
           ReconcileExpired, SelectDispatchable, Enqueue, EnqueueFails
  <2> QED
    BY <2>1 DEF DoneMoved
<1>1. \A j \in Jobs : row[j] \in Rows
  BY DEF TypeInv, TypeOK
<1>2. ASSUME NEW j \in Jobs, Create(j) PROVE \A i \in Jobs : RowWindow(i)
  <2>1. /\ row[j].status = "ABSENT" /\ row'[j].status = "AVAILABLE"
        /\ \A i \in Jobs : i # j => row'[i] = row[i]
    BY <1>2, NewRowFacts DEF Create, TypeInv, TypeOK
  <2> QED
    BY <2>1, OneRow
<1>3. ASSUME NEW j \in Jobs, Cancel(j) PROVE \A i \in Jobs : RowWindow(i)
  <2>1. \A i \in Jobs : i # j => row'[i] = row[i]
    BY <1>3 DEF Cancel, TypeInv, TypeOK
  <2>2. row'[j].status = "CANCELLED" /\ row'[j].ttl = 0 /\ row[j].ttl \in Nat
    BY <1>1, <1>3 DEF Cancel, Rows, TypeInv, TypeOK
  <2> QED
    BY <2>1, <2>2, OneRow
<1>4. ASSUME NEW j \in Jobs, NEW r \in Jobs, ReplayDeadLetter(j, r)
      PROVE  \A i \in Jobs : RowWindow(i)
  <2>1. /\ row[r].status = "ABSENT" /\ row'[r].status = "AVAILABLE"
        /\ \A i \in Jobs : i # r => row'[i] = row[i]
    BY <1>4, NewRowFacts DEF ReplayDeadLetter, TypeInv, TypeOK
  <2> QED
    BY <2>1, OneRow
<1>5. ASSUME NEW j \in Jobs, BecomeDue(j) \/ Tick(j) PROVE \A i \in Jobs : RowWindow(i)
  <2>1. (\A i \in Jobs : i # j => row'[i] = row[i]) /\ row[j].ttl \in Nat
    BY <1>1, <1>5 DEF BecomeDue, Tick, TypeInv, TypeOK, Rows
  <2>2. CASE BecomeDue(j)
    <3>1. row'[j].status = "AVAILABLE" /\ row[j].status = "AVAILABLE"
      BY <1>1, <2>2 DEF BecomeDue, Rows, TypeInv, TypeOK
    <3> QED
      BY <2>1, <3>1, OneRow
  <2>3. CASE Tick(j)
    <3>1. /\ Same(j) /\ row[j].status = "LEASED" /\ row'[j].owner = row[j].owner
          /\ row'[j].ttl = row[j].ttl - 1 /\ row[j].ttl > 0
      BY <1>1, <2>3 DEF Tick, Same, Rows, TypeInv, TypeOK
    <3> QED
      BY <2>1, <3>1, OneRow
  <2> QED
    BY <1>5, <2>2, <2>3
<1>6. CASE ReconcileExpired
  <2> SUFFICES ASSUME NEW j \in Jobs PROVE RowWindow(j)
    BY <1>0
  <2>1. row'[j] = IF Expired(j) THEN Reconciled(j) ELSE row[j]
    BY <1>6 DEF ReconcileExpired
  <2>2. Reconciled(j).status \in {"DEAD_LETTER", "AVAILABLE"} /\ Reconciled(j).ttl = row[j].ttl
    BY <1>1 DEF Reconciled, Rows
  <2>3. row[j].ttl \in Nat
    BY <1>1 DEF Rows
  <2> QED
    BY <2>1, <2>2, <2>3, StillRow DEF RowWindow, Leased, Succeeded, Renewed
<1>7. row' = row => \A j \in Jobs : RowWindow(j)
  BY StillRows
<1> QED
  BY <1>0, <1>2, <1>3, <1>4, <1>5, <1>6, <1>7
     DEF UserStep, StartRun, PauseRun, ResumeRun, StopRun, SetRun, EmergencyStop, ClockStep,
         DelayElapses, DispatcherStep, SelectDispatchable, Enqueue, EnqueueFails

\* A granted lease is the asking call's, and of its attempt and generation.
LEMMA GrantWindow ==
    ASSUME TypeInv, NEW s \in Slots, slot[s].pc = "picked", Leasable(s), TakeLease(s)
    PROVE  \A j \in Jobs : RowWindow(j)
<1>1. slot[s].job \in Jobs /\ row[slot[s].job] \in Rows /\ \A j \in Jobs : row[j].ttl \in Nat
  BY DEF TypeInv, TypeOK, CallsOK, Calls, Processing, Rows
<1>2. \A j \in Jobs : j # slot[s].job => row'[j] = row[j]
  BY <1>1 DEF TakeLease, JobOf, TypeInv, TypeOK
<1>3. /\ row'[slot[s].job].status = "LEASED" /\ row'[slot[s].job].gen = row[slot[s].job].gen
      /\ row'[slot[s].job].owner = WorkerOf[s]
      /\ row'[slot[s].job].attempts = row[slot[s].job].attempts + 1
  BY <1>1 DEF TakeLease, Rows, JobOf, TypeInv, TypeOK
<1>4. RowWindow(slot[s].job)
  BY <1>1, <1>3 DEF RowWindow, Leased, Succeeded, Renewed, Leasable, Row, JobOf
<1> QED
  BY <1>1, <1>2, <1>4, StillRow

\* The end of a call leaves no result to be recorded, and a call that goes on has one only
\* if it had one before.
LEMMA CallsDone ==
    ASSUME TypeInv, NEW s \in Slots, done' = done, NEW pc,
           \/ \E b : Finish(s, b)
           \/ Goto(s, pc) /\ (pc \in Returned => slot[s].pc \in Returned)
    PROVE  DoneMoved
<1>1. \A t \in Slots : \/ slot'[t] = slot[t]
                       \/ t = s /\ slot'[t] = NoCall
                       \/ t = s /\ slot'[t].pc = pc /\ (pc \in Returned => slot[s].pc \in Returned)
  BY DEF Finish, Goto, TypeInv, TypeOK, SlotStates
<1>2. NoCall.pc \notin Returned
  BY DEF NoCall, Returned
<1> QED
  BY <1>1, <1>2 DEF DoneMoved

\* A call that records an outcome: only completeWrite succeeds.
LEMMA CallWindows ==
    ASSUME TypeInv, NEW s \in Slots, CallStep(s)
    PROVE  /\ \A j \in Jobs : RowWindow(j)
           /\ DoneMoved
<1>0. \A j \in Jobs : row[j] \in Rows /\ row[j].ttl \in Nat
  BY DEF TypeInv, TypeOK, Rows
<1>1. CASE Lease(s)
  <2>1. \A j \in Jobs : RowWindow(j)
    BY <1>1, GrantWindow DEF Lease
  <2>2. "running" \notin Returned
    BY DEF Returned
  <2> QED
    BY <1>1, <2>1, <2>2, CallsDone DEF Lease
<1>2. CASE HandlerReturns(s)
  <2>1. slot[s].job \in Jobs /\ slot[s].attempt \in Attempts
    BY <1>2 DEF HandlerReturns, TypeInv, CallsOK, Calls, Processing
  <2>2. done' = done \cup {<<slot[s].job, slot[s].attempt>>}
        /\ \A t \in Slots : t # s => slot'[t] = slot[t]
    BY <1>2 DEF HandlerReturns, JobOf, Goto
  <2>3. DoneMoved
    BY <2>2 DEF DoneMoved
  <2> QED
    BY <1>2, <2>3, StillRows DEF HandlerReturns
<1>3. CASE CompleteWrite(s)
  <2>1. slot[s].pc = "completeWrite" /\ slot[s].job \in Jobs
    BY <1>3 DEF CompleteWrite, TypeInv, CallsOK, Calls, Processing
  <2>2. CASE OwnsRow(s)
    <3>1. /\ \A j \in Jobs : j # slot[s].job => row'[j] = row[j]
          /\ row'[slot[s].job].status = "SUCCEEDED" /\ row'[slot[s].job].ttl = 0
          /\ row'[slot[s].job].attempts = row[slot[s].job].attempts
      BY <1>0, <1>3, <2>1, <2>2 DEF CompleteWrite, JobOf, Rows, TypeInv, TypeOK
    <3>2. RowWindow(slot[s].job)
      BY <1>0, <2>1, <2>2, <3>1 DEF RowWindow, Leased, Succeeded, Renewed
    <3>3. \A j \in Jobs : RowWindow(j)
      BY <1>0, <3>1, <3>2, StillRow
    <3> QED
      BY <1>3, <2>2, <3>3, CallsDone DEF CompleteWrite
  <2>3. CASE ~OwnsRow(s)
    <3>1. "failing" \notin Returned
      BY DEF Returned
    <3> QED
      BY <1>3, <2>3, <3>1, StillRows, CallsDone DEF CompleteWrite
  <2> QED
    BY <2>2, <2>3
<1>4. CASE FailWrite(s)
  <2>1. slot[s].job \in Jobs /\ Row(s) \in Rows
    BY <1>0, <1>4 DEF FailWrite, TypeInv, CallsOK, Calls, Processing, Row
  <2>2. \A j \in Jobs : RowWindow(j)
    <3>1. CASE OwnsRow(s)
      <4>1. FailedRow(s).status \in {"DEAD_LETTER", "AVAILABLE"} /\ FailedRow(s).ttl = 0
        BY <2>1 DEF FailedRow, Rows
      <4>2. /\ \A j \in Jobs : j # slot[s].job => row'[j] = row[j]
            /\ row'[slot[s].job] = FailedRow(s)
        BY <1>4, <2>1, <3>1 DEF FailWrite, JobOf, TypeInv, TypeOK
      <4> QED
        BY <1>0, <2>1, <4>1, <4>2, OneRow
    <3>2. CASE ~OwnsRow(s)
      BY <1>4, <3>2, StillRows DEF FailWrite
    <3> QED
      BY <3>1, <3>2
  <2>3. "retrying" \notin Returned
    BY DEF Returned
  <2> QED
    BY <1>4, <2>2, <2>3, CallsDone DEF FailWrite
<1>5. CASE FailRead(s)
  <2>1. /\ slot'[s].pc \in {"failWrite", "retrying"}
        /\ \A t \in Slots : t # s => slot'[t] = slot[t]
    BY <1>5 DEF FailRead, TypeInv, TypeOK, SlotStates
  <2>2. DoneMoved
    BY <1>5, <2>1 DEF FailRead, DoneMoved, Returned
  <2> QED
    BY <1>5, <2>2, StillRows DEF FailRead
<1>6. ASSUME \/ SkipDelivery(s) \/ HandlerThrows(s) \/ CompleteLoad(s) \/ CompleteRead(s)
             \/ FailLoad(s) \/ ConsiderRetry(s) \/ AdvanceRetry(s)
      PROVE  (\A j \in Jobs : RowWindow(j)) /\ DoneMoved
  <2>1. row' = row /\ done' = done
    BY <1>6 DEF SkipDelivery, HandlerThrows, CompleteLoad, CompleteRead, FailLoad, ConsiderRetry,
                AdvanceRetry
  <2>2. \/ \E b : Finish(s, b)
        \/ \E pc \in {"failing", "failRead", "validating"} : Goto(s, pc)
        \/ slot[s].pc \in {"returned", "completeRead"}
           /\ \E pc \in {"completeRead", "completeWrite"} : Goto(s, pc)
    BY <1>6 DEF SkipDelivery, HandlerThrows, CompleteLoad, CompleteRead, FailLoad, ConsiderRetry,
                AdvanceRetry
  <2>3. {"failing", "failRead", "validating"} \cap Returned = {} /\ {"returned", "completeRead"} \subseteq Returned
    BY DEF Returned
  <2>4. DoneMoved
    BY <2>1, <2>2, <2>3, CallsDone
  <2> QED
    BY <2>1, <2>4, StillRows
<1> QED
  BY <1>1, <1>2, <1>3, <1>4, <1>5, <1>6 DEF CallStep

\* Deliveries, renewals, calls and faults.
LEMMA OtherWindows ==
    ASSUME TypeInv, QueueStep \/ FaultStep
    PROVE  /\ \A j \in Jobs : RowWindow(j)
           /\ DoneMoved
<1>0. \A j \in Jobs : row[j] \in Rows /\ row[j].ttl \in Nat
  BY DEF TypeInv, TypeOK, Rows
<1>1. ASSUME NEW s \in Slots, Heartbeat(s) PROVE (\A j \in Jobs : RowWindow(j)) /\ DoneMoved
  <2>1. slot[s].pc \in Processing /\ slot[s].job \in Jobs /\ OwnsRow(s)
    BY <1>1 DEF Heartbeat, Renewable, TypeInv, CallsOK, Calls
  <2>2. /\ \A j \in Jobs : j # slot[s].job => row'[j] = row[j]
        /\ Same(slot[s].job) /\ row'[slot[s].job].owner = row[slot[s].job].owner
    BY <1>0, <1>1, <2>1 DEF Heartbeat, JobOf, Same, Rows, TypeInv, TypeOK
  <2>3. RowWindow(slot[s].job)
    BY <2>1, <2>2 DEF RowWindow, Leased, Succeeded, Renewed, Same, OwnsRow, Row
  <2>4. DoneMoved
    BY <1>1 DEF Heartbeat, DoneMoved
  <2> QED
    BY <1>0, <2>2, <2>3, <2>4, StillRow
<1>2. ASSUME NEW s \in Slots, LeaseReplyLost(s) PROVE (\A j \in Jobs : RowWindow(j)) /\ DoneMoved
  <2>1. "failing" \notin Returned
    BY DEF Returned
  <2> QED
    BY <1>2, <2>1, GrantWindow, CallsDone DEF LeaseReplyLost
<1>3. ASSUME \/ \E s \in Slots, k \in Keys : PickUp(s, k)
             \/ \E k \in Keys : Stalled(k)
             \/ \E s \in Slots : LoseLock(s) \/ DatabaseFails(s)
             \/ \E w \in Workers : Crash(w) \/ Restart(w)
      PROVE  (\A j \in Jobs : RowWindow(j)) /\ DoneMoved
  <2>1. row' = row /\ done' = done
    BY <1>3 DEF PickUp, Stalled, LoseLock, DatabaseFails, Crash, Restart
  <2>2. ASSUME NEW t \in Slots, slot'[t].pc \in Returned PROVE slot[t].pc \in Returned
    <3>0. /\ {"picked", "failing", "retrying"} \cap Returned = {}
          /\ NoCall.pc \notin Returned /\ DownCall.pc \notin Returned
      BY DEF Returned, NoCall, DownCall
    <3>1. ASSUME NEW s \in Slots, NEW k \in Keys, PickUp(s, k) PROVE slot[t].pc \in Returned
      <4>1. slot'[s].pc = "picked" /\ (t # s => slot'[t] = slot[t])
        BY <3>1 DEF PickUp, TypeInv, TypeOK
      <4> QED
        BY <2>2, <3>0, <4>1
    <3>2. ASSUME NEW s \in Slots, LoseLock(s) PROVE slot[t].pc \in Returned
      <4>1. slot'[s].pc = slot[s].pc /\ (t # s => slot'[t] = slot[t])
        BY <3>2 DEF LoseLock, TypeInv, TypeOK, SlotStates
      <4> QED
        BY <2>2, <4>1
    <3>3. ASSUME NEW s \in Slots, DatabaseFails(s) PROVE slot[t].pc \in Returned
      <4>1. \/ \E pc \in {"failing", "retrying"} : Goto(s, pc)
            \/ \E b : Finish(s, b)
        BY <3>3 DEF DatabaseFails
      <4>2. /\ slot'[s].pc \in {"failing", "retrying"} \/ slot'[s] = NoCall
            /\ t # s => slot'[t] = slot[t]
        BY <4>1 DEF Goto, Finish, TypeInv, TypeOK, SlotStates
      <4> QED
        BY <2>2, <3>0, <4>2
    <3>4. ASSUME NEW w \in Workers, Crash(w) \/ Restart(w) PROVE slot[t].pc \in Returned
      <4>1. slot'[t] \in {slot[t], NoCall, DownCall}
        BY <3>4 DEF Crash, Restart
      <4> QED
        BY <2>2, <3>0, <4>1
    <3>5. ASSUME NEW k \in Keys, Stalled(k) PROVE slot[t].pc \in Returned
      BY <2>2, <3>5 DEF Stalled
    <3> QED
      BY <1>3, <3>1, <3>2, <3>3, <3>4, <3>5
  <2> QED
    BY <2>1, <2>2, StillRows DEF DoneMoved
<1> QED
  BY <1>1, <1>2, <1>3, CallWindows DEF QueueStep, FaultStep

\* Every step, seen through the window on the owner of a row and that on results.
LEMMA StepWindows ==
    ASSUME TypeInv, [Next]_vars
    PROVE  /\ \A j \in Jobs : RowWindow(j)
           /\ DoneMoved
<1>1. UNCHANGED vars => (\A j \in Jobs : RowWindow(j)) /\ DoneMoved
  <2>1. UNCHANGED vars => row' = row /\ slot' = slot /\ done' = done
    BY DEF vars
  <2> QED
    BY <2>1, StillRows DEF DoneMoved
<1> QED
  BY <1>1, PlainWindows, OtherWindows DEF Next

\* The lease of a process whose handler runs is that handler's, a result to be recorded has
\* been returned, and what has succeeded is the latest attempt.
OwnerInv ==
    /\ \A s \in Slots :
          slot[s].pc \in Executing /\ row[slot[s].job].status = "LEASED"
          /\ row[slot[s].job].owner = WorkerOf[s]
            => row[slot[s].job].attempts = slot[s].attempt /\ row[slot[s].job].gen = slot[s].gen
    /\ \A s \in Slots : slot[s].pc \in Returned => <<slot[s].job, slot[s].attempt>> \in done
    /\ SucceededByLatestAttempt

LEMMA OwnerInductive ==
    ASSUME OneCallPerWorker, Inv, OwnerInv, [Next]_vars
    PROVE  OwnerInv'
<1>0. /\ \A j \in Jobs : RowWindow(j) /\ Moved(j)
      /\ DoneMoved /\ \A s \in Slots : CallMoved(s)
  BY StepWindows, StepMoves DEF Inv
<1>1. ASSUME NEW s \in Slots, slot'[s].pc \in Executing,
             row'[slot'[s].job].status = "LEASED", row'[slot'[s].job].owner = WorkerOf[s]
      PROVE  row'[slot'[s].job].attempts = slot'[s].attempt /\ row'[slot'[s].job].gen = slot'[s].gen
  <2> DEFINE j == slot[s].job
  <2>1. /\ j \in Jobs /\ slot'[s].job = j /\ slot'[s].attempt = slot[s].attempt
        /\ slot'[s].gen = slot[s].gen /\ slot[s].attempt \in Nat
        /\ \/ slot[s].pc \in Executing
           \/ /\ slot[s].attempt = row[j].attempts + 1
              /\ row'[j].attempts = slot[s].attempt
    BY <1>0, <1>1, ExecutionMoves DEF Carrying
  <2>2. row[j].attempts \in Nat
    BY <2>1, CountBound DEF Rows
  <2>3. CASE row[j].status = "LEASED" /\ row'[j].owner = row[j].owner /\ Same(j)
    BY <1>1, <2>1, <2>2, <2>3 DEF OwnerInv, Same
  <2>4. ASSUME NEW t \in Slots, slot[t].pc = "picked", slot[t].job = j,
               row'[j].owner = WorkerOf[t], row'[j].attempts = slot[t].attempt,
               row'[j].gen = slot[t].gen
        PROVE  row'[j].attempts = slot[s].attempt /\ row'[j].gen = slot[s].gen
    BY <1>1, <2>1, <2>4 DEF OneCallPerWorker
  <2> HIDE DEF j
  <2>5. Leased(j) /\ row'[j].status = "LEASED"
    BY <1>0, <1>1, <2>1 DEF RowWindow
  <2> QED
    BY <2>1, <2>3, <2>4, <2>5 DEF Leased
<1>2. ASSUME NEW s \in Slots, slot'[s].pc \in Returned
      PROVE  <<slot'[s].job, slot'[s].attempt>> \in done'
  <2>1. slot'[s].pc \in Executing
    BY <1>2 DEF Returned, Executing
  <2>2. slot'[s].job = slot[s].job /\ slot'[s].attempt = slot[s].attempt
    BY <1>0, <2>1, ExecutionMoves DEF Carrying
  <2> QED
    BY <1>0, <1>2, <2>2 DEF DoneMoved, OwnerInv
<1>3. ASSUME NEW j \in Jobs, row'[j].status = "SUCCEEDED"
      PROVE  <<j, row'[j].attempts>> \in done'
  <2>1. Succeeded(j) /\ done \subseteq done'
    BY <1>0 DEF RowWindow, DoneMoved
  <2>2. CASE row[j].status = "SUCCEEDED" /\ Same(j)
    BY <2>1, <2>2 DEF OwnerInv, SucceededByLatestAttempt, Same
  <2>3. ASSUME NEW s \in Slots, slot[s].pc = "completeWrite", slot[s].job = j, OwnsRow(s),
               row'[j].attempts = row[j].attempts
        PROVE  <<j, row'[j].attempts>> \in done'
    <3>1. slot[s].pc \in Executing /\ slot[s].pc \in Returned
      BY <2>3 DEF Executing, Returned
    <3>2. row[j].attempts = slot[s].attempt
      BY <2>3, <3>1 DEF OwnerInv, OwnsRow, Row
    <3> QED
      BY <2>1, <2>3, <3>1, <3>2 DEF OwnerInv
  <2> QED
    BY <1>3, <2>1, <2>2, <2>3 DEF Succeeded
<1> QED
  BY <1>1, <1>2, <1>3 DEF OwnerInv, SucceededByLatestAttempt

\* No two calls share a worker id: the owner of a lease then stands for one attempt.
THEOREM OwnersStandForAttempts ==
    ASSUME OneCallPerWorker
    PROVE  Spec => []OwnerInv
<1>1. Init => OwnerInv
  BY DEF Init, OwnerInv, SucceededByLatestAttempt, NoCall, NoRow, Executing, Returned
<1>2. Inv /\ OwnerInv /\ [Next]_vars => OwnerInv'
  BY OwnerInductive
<1> QED
  BY <1>1, <1>2, CountsInvariant, PTL DEF Spec

\* completeAutomationJob succeeds a job by the result of its latest attempt when no two calls
\* share a worker id, for any number of processes.
THEOREM LatestAttemptSucceeds ==
    ASSUME OneCallPerWorker
    PROVE  Spec => []SucceededByLatestAttempt
<1>1. OwnerInv => SucceededByLatestAttempt
  BY DEF OwnerInv
<1> QED
  BY <1>1, OwnersStandForAttempts, PTL

\* renewAutomationJobLease keeps a lease alive for its own process alone, and a call whose
\* handler runs renews its own attempt's, when no two calls share a worker id.
THEOREM RenewalsAreOwn ==
    ASSUME OneCallPerWorker
    PROVE  Spec => RenewalExtendsOwnAttempt
<1>1. Inv /\ OwnerInv /\ [Next]_vars
        => [\A j \in Jobs : row'[j].ttl > row[j].ttl /\ row[j].status = "LEASED"
                => \E s \in Slots :
                      /\ slot[s].pc \in Processing /\ slot[s].job = j
                      /\ WorkerOf[s] = row[j].owner
                      /\ slot[s].pc \in Executing => /\ slot[s].attempt = row[j].attempts
                                                     /\ slot[s].gen = row[j].gen]_vars
  <2> SUFFICES ASSUME Inv, OwnerInv, [Next]_vars, NEW j \in Jobs,
                      row'[j].ttl > row[j].ttl, row[j].status = "LEASED"
               PROVE  \E s \in Slots :
                        /\ slot[s].pc \in Processing /\ slot[s].job = j
                        /\ WorkerOf[s] = row[j].owner
                        /\ slot[s].pc \in Executing => /\ slot[s].attempt = row[j].attempts
                                                       /\ slot[s].gen = row[j].gen
    OBVIOUS
  <2>1. PICK s \in Slots : slot[s].pc \in Processing /\ slot[s].job = j /\ OwnsRow(s)
    BY StepWindows DEF Inv, RowWindow, Renewed
  <2>2. WorkerOf[s] = row[j].owner
    BY <2>1 DEF OwnsRow, Row
  <2>3. slot[s].pc \in Executing => slot[s].attempt = row[j].attempts /\ slot[s].gen = row[j].gen
    BY <2>1, <2>2 DEF OwnerInv
  <2> QED
    BY <2>1, <2>2, <2>3
<1> QED
  BY <1>1, CountsInvariant, OwnersStandForAttempts, PTL DEF Spec, RenewalExtendsOwnAttempt

-----------------------------------------------------------------------------
(* A job that is left behind *)

\* What no step but a cancellation changes of a job that is left behind.
Spared(j) ==
    /\ Same(j) \/ row'[j].status = "CANCELLED"
    /\ \A a \in Attempts : bull'[<<j, a>>] = bull[<<j, a>>]
    /\ \A s \in Slots : slot'[s].pc \in Calls => slot'[s].job # j
    /\ \A w \in Workers : \A e \in batch'[w] : e.job = j => e \in batch[w] \/ e.attempt = row[j].attempts + 1

LEMMA SparedStaysBehind ==
    ASSUME Inv, NEW j \in Jobs, LeftBehind(j), Spared(j)
    PROVE  LeftBehind(j)' \/ row'[j].status = "CANCELLED"
<1>1. SUFFICES ASSUME Same(j) PROVE LeftBehind(j)'
  BY DEF Spared
<1>2. row[j].attempts + 1 \in Attempts
  BY DEF LeftBehind, Inv, TypeInv, TypeOK, Rows, Attempts
<1>3. /\ bull'[<<j, row[j].attempts + 1>>].state = "failed"
      /\ \A a \in Attempts : bull'[<<j, a>>].state \in {"absent", "failed"}
  BY <1>2 DEF Spared, LeftBehind
<1>4. ASSUME NEW w \in Workers, NEW e \in batch'[w], e.job = j
      PROVE  bull'[<<j, e.attempt>>].state = "failed"
  <2>1. CASE e \in batch[w]
    <3>1. e.attempt \in Attempts
      BY <2>1 DEF Inv, TypeInv, TypeOK, Envelopes
    <3> QED
      BY <1>4, <2>1, <3>1 DEF Spared, LeftBehind
  <2>2. CASE e.attempt = row[j].attempts + 1
    BY <1>3, <2>2
  <2> QED
    BY <1>4, <2>1, <2>2 DEF Spared
<1> QED
  BY <1>1, <1>3, <1>4 DEF Spared, Same, LeftBehind

\* A call that goes on, or ends, is a call of another job.
LEMMA OtherCallSpares ==
    ASSUME Inv, NEW j \in Jobs, LeftBehind(j), NEW s \in Slots, slot[s].pc \in Calls
    PROVE  /\ slot[s].job # j /\ slot[s].job \in Jobs
           /\ \A pc : Goto(s, pc) => \A t \in Slots : slot'[t].pc \in Calls => slot'[t].job # j
           /\ \A b : Finish(s, b) =>
                 /\ \A t \in Slots : slot'[t].pc \in Calls => slot'[t].job # j
                 /\ \A a \in Attempts : bull'[<<j, a>>] = bull[<<j, a>>]
<1> USE DEF Inv, TypeInv, TypeOK
<1>1. slot[s].job # j /\ slot[s].job \in Jobs
  BY DEF LeftBehind, CallsOK
<1>2. ASSUME NEW pc, Goto(s, pc) PROVE \A t \in Slots : slot'[t].pc \in Calls => slot'[t].job # j
  <2>1. \A t \in Slots \ {s} : slot'[t] = slot[t]
    BY <1>2 DEF Goto
  <2>2. slot'[s].job = slot[s].job
    BY <1>2 DEF Goto, SlotStates
  <2> QED
    BY <1>1, <2>1, <2>2 DEF LeftBehind
<1>3. ASSUME NEW b, Finish(s, b)
      PROVE  /\ \A t \in Slots : slot'[t].pc \in Calls => slot'[t].job # j
             /\ \A a \in Attempts : bull'[<<j, a>>] = bull[<<j, a>>]
  <2>1. \A t \in Slots : slot'[t] = IF t = s THEN NoCall ELSE slot[t]
    BY <1>3 DEF Finish
  <2>2. ASSUME NEW a \in Attempts PROVE bull'[<<j, a>>] = bull[<<j, a>>]
    BY <1>1, <1>3 DEF Finish, Keys
  <2> QED
    BY <2>1, <2>2, NoCallFacts DEF LeftBehind
<1> QED
  BY <1>1, <1>2, <1>3

LEMMA UserSpares == ASSUME Inv, NEW j \in Jobs, LeftBehind(j), UserStep PROVE Spared(j)
<1>1. ASSUME UNCHANGED <<batch, bull, slot>>, Same(j) \/ row'[j].status = "CANCELLED" PROVE Spared(j)
  BY <1>1 DEF Spared, LeftBehind
<1> USE DEF Inv, TypeInv, TypeOK
<1>2. ASSUME NEW i \in Jobs, Create(i) PROVE Spared(j)
  BY <1>1, <1>2 DEF Create, Same, LeftBehind
<1>3. ASSUME NEW i \in Jobs, Cancel(i) PROVE Spared(j)
  BY <1>1, <1>3 DEF Cancel, Same, Rows
<1>4. ASSUME NEW i \in Jobs, NEW r \in Jobs, ReplayDeadLetter(i, r) PROVE Spared(j)
  BY <1>1, <1>4 DEF ReplayDeadLetter, Same, LeftBehind
<1>5. ASSUME NEW r \in Runs, StartRun(r) \/ PauseRun(r) \/ ResumeRun(r) \/ StopRun(r) PROVE Spared(j)
  BY <1>1, <1>5 DEF StartRun, PauseRun, ResumeRun, StopRun, SetRun, Same
<1>6. CASE EmergencyStop
  BY <1>1, <1>6 DEF EmergencyStop, Same
<1> QED
  BY <1>2, <1>3, <1>4, <1>5, <1>6 DEF UserStep

LEMMA ClockSpares == ASSUME Inv, NEW j \in Jobs, LeftBehind(j), ClockStep PROVE Spared(j)
<1>1. UNCHANGED <<batch, slot>>
  BY DEF ClockStep, BecomeDue, Tick, DelayElapses
<1>2. Same(j)
  BY DEF ClockStep, BecomeDue, Tick, DelayElapses, Same, Inv, TypeInv, TypeOK, Rows
<1>3. ASSUME NEW a \in Attempts PROVE bull'[<<j, a>>] = bull[<<j, a>>]
  BY DEF ClockStep, BecomeDue, Tick, DelayElapses, LeftBehind, Inv, TypeInv, TypeOK, Keys
<1> QED
  BY <1>1, <1>2, <1>3 DEF Spared, LeftBehind

\* The dispatcher's envelope for the row meets the id that failed.
LEMMA DispatcherSpares == ASSUME Inv, NEW j \in Jobs, LeftBehind(j), DispatcherStep PROVE Spared(j)
<1> USE DEF Inv, TypeInv, TypeOK
<1>1. slot' = slot
  BY DEF DispatcherStep, ReconcileExpired, SelectDispatchable, Enqueue, EnqueueFails
<1>2. CASE ReconcileExpired
  BY <1>1, <1>2 DEF ReconcileExpired, Expired, Spared, Same, LeftBehind
<1>3. ASSUME NEW w \in Workers, SelectDispatchable(w) PROVE Spared(j)
  <2>1. \A v \in Workers : v # w => batch'[v] = batch[v]
    BY <1>3 DEF SelectDispatchable
  <2>2. \A e \in batch'[w] : e.job = j => e.attempt = row[j].attempts + 1
    BY <1>3 DEF SelectDispatchable, EnvelopeOf
  <2> QED
    BY <1>1, <1>3, <2>1, <2>2 DEF SelectDispatchable, Spared, Same, LeftBehind
<1>4. ASSUME NEW w \in Workers, NEW e \in batch[w], Enqueue(w, e) \/ EnqueueFails(w, e) PROVE Spared(j)
  <2>1. \A v \in Workers : batch'[v] \subseteq batch[v]
    BY <1>4 DEF Enqueue, EnqueueFails
  <2>2. ASSUME NEW a \in Attempts PROVE bull'[<<j, a>>] = bull[<<j, a>>]
    <3>1. CASE e.job = j
      BY <1>4, <3>1 DEF Enqueue, EnqueueFails, LeftBehind
    <3>2. CASE e.job # j
      BY <1>4, <3>2 DEF Enqueue, EnqueueFails, Keys, Envelopes
    <3> QED
      BY <3>1, <3>2
  <2> QED
    BY <1>1, <1>4, <2>1, <2>2 DEF Enqueue, EnqueueFails, Spared, Same, LeftBehind
<1> QED
  BY <1>2, <1>3, <1>4 DEF DispatcherStep

LEMMA CallSpares == ASSUME Inv, NEW j \in Jobs, LeftBehind(j), NEW s \in Slots, CallStep(s) PROVE Spared(j)
<1>1. slot[s].pc \in Calls /\ batch' = batch
  BY DEF CallStep, Lease, SkipDelivery, HandlerReturns, HandlerThrows, CompleteLoad, CompleteRead,
         CompleteWrite, FailLoad, FailRead, FailWrite, ConsiderRetry, AdvanceRetry, Calls,
         Processing, Backoff
<1>2. slot[s].job # j
  BY <1>1, OtherCallSpares
<1>3. row'[j] = row[j]
  BY <1>2 DEF CallStep, Lease, TakeLease, SkipDelivery, HandlerReturns, HandlerThrows, CompleteLoad,
     CompleteRead, CompleteWrite, FailLoad, FailRead, FailWrite, ConsiderRetry, AdvanceRetry, JobOf,
     Inv, TypeInv, TypeOK
<1>4. \/ \E pc : Goto(s, pc) /\ bull' = bull
      \/ \E b : Finish(s, b)
      \/ FailRead(s)
  BY DEF CallStep, Lease, SkipDelivery, HandlerReturns, HandlerThrows, CompleteLoad,
     CompleteRead, CompleteWrite, FailLoad, FailWrite, ConsiderRetry, AdvanceRetry
<1>5. CASE FailRead(s)
  <2>1. /\ bull' = bull /\ \A t \in Slots : t # s => slot'[t] = slot[t]
        /\ slot'[s].job = slot[s].job
    BY <1>5 DEF FailRead, Inv, TypeInv, TypeOK, SlotStates
  <2> QED
    BY <1>1, <1>2, <1>3, <2>1 DEF Spared, Same, LeftBehind
<1> QED
  BY <1>1, <1>3, <1>4, <1>5, OtherCallSpares DEF Spared, Same, LeftBehind

LEMMA QueueSpares == ASSUME Inv, NEW j \in Jobs, LeftBehind(j), QueueStep PROVE Spared(j)
<1> USE DEF Inv, TypeInv, TypeOK
<1>1. ASSUME NEW s \in Slots, NEW k \in Keys, PickUp(s, k) PROVE Spared(j)
  <2>1. k[1] # j /\ k = <<k[1], k[2]>>
    BY <1>1 DEF PickUp, LeftBehind, Keys
  <2>2. /\ slot'[s].job = k[1] /\ \A t \in Slots : t # s => slot'[t] = slot[t]
        /\ \A i \in Keys : i # k => bull'[i] = bull[i]
    BY <1>1 DEF PickUp
  <2>3. \A a \in Attempts : <<j, a>> \in Keys /\ <<j, a>> # k
    BY <2>1 DEF Keys
  <2> QED
    BY <1>1, <2>1, <2>2, <2>3 DEF PickUp, Spared, Same, LeftBehind
<1>2. ASSUME NEW k \in Keys, Stalled(k) PROVE Spared(j)
  <2>1. \A i \in Keys : i # k => bull'[i] = bull[i]
    BY <1>2 DEF Stalled
  <2>2. \A a \in Attempts : <<j, a>> \in Keys /\ <<j, a>> # k
    BY <1>2 DEF Stalled, LeftBehind, Keys
  <2> QED
    BY <1>2, <2>1, <2>2 DEF Stalled, Spared, Same, LeftBehind
<1>3. ASSUME NEW s \in Slots, Heartbeat(s) PROVE Spared(j)
  <2>1. slot[s].job # j
    BY <1>3, OtherCallSpares DEF Heartbeat, Calls
  <2> QED
    BY <1>3, <2>1 DEF Heartbeat, JobOf, Spared, Same, LeftBehind
<1> QED
  BY <1>1, <1>2, <1>3, CallSpares DEF QueueStep

LEMMA FaultSpares == ASSUME Inv, NEW j \in Jobs, LeftBehind(j), FaultStep PROVE Spared(j)
<1> USE DEF Inv, TypeInv, TypeOK
<1>1. ASSUME NEW s \in Slots, LoseLock(s) PROVE Spared(j)
  <2>1. /\ \A t \in Slots : t # s => slot'[t] = slot[t]
        /\ slot'[s].pc = slot[s].pc /\ slot'[s].job = slot[s].job
    BY <1>1 DEF LoseLock, SlotStates
  <2> QED
    BY <1>1, <2>1 DEF LoseLock, Spared, Same, LeftBehind
<1>2. ASSUME NEW s \in Slots, LeaseReplyLost(s) PROVE Spared(j)
  <2>1. slot[s].pc \in Calls
    BY <1>2 DEF LeaseReplyLost, Calls, Processing
  <2>2. slot[s].job # j /\ \A t \in Slots : slot'[t].pc \in Calls => slot'[t].job # j
    BY <1>2, <2>1, OtherCallSpares DEF LeaseReplyLost
  <2>3. row'[j] = row[j]
    BY <1>2, <2>2 DEF LeaseReplyLost, TakeLease, JobOf
  <2> QED
    BY <1>2, <2>2, <2>3 DEF LeaseReplyLost, Spared, Same, LeftBehind
<1>3. ASSUME NEW s \in Slots, DatabaseFails(s) PROVE Spared(j)
  <2>1. slot[s].pc \in Calls
    BY <1>3 DEF DatabaseFails
  <2>2. \/ \E pc : Goto(s, pc) /\ bull' = bull
        \/ \E b : Finish(s, b)
    BY <1>3 DEF DatabaseFails
  <2> QED
    BY <1>3, <2>1, <2>2, OtherCallSpares DEF DatabaseFails, Spared, Same, LeftBehind
<1>4. ASSUME NEW w \in Workers, Crash(w) \/ Restart(w) PROVE Spared(j)
  <2>1. \A s \in Slots : slot'[s].pc \in Calls => slot'[s] = slot[s]
    BY <1>4 DEF Crash, Restart, DownCall, NoCall, Calls, Processing, Backoff
  <2>2. \A v \in Workers : batch'[v] \subseteq batch[v]
    BY <1>4 DEF Crash, Restart
  <2> QED
    BY <1>4, <2>1, <2>2 DEF Crash, Restart, Spared, Same, LeftBehind
<1> QED
  BY <1>1, <1>2, <1>3, <1>4 DEF FaultStep

\* A job whose next attempt has its BullMQ id in the failed set, and nothing else under way,
\* waits for good: no dispatcher, worker or fault of any number changes that, only the
\* user's cancellation does (registry.ts:91).
THEOREM LeftBehindForGood ==
    Spec => [][\A j \in Jobs : LeftBehind(j) => LeftBehind(j)' \/ row'[j].status = "CANCELLED"]_vars
<1>1. ASSUME Inv, [Next]_vars, NEW j \in Jobs, LeftBehind(j)
      PROVE  LeftBehind(j)' \/ row'[j].status = "CANCELLED"
  <2>1. CASE UNCHANGED vars
    BY <1>1, <2>1 DEF vars, LeftBehind
  <2>2. CASE Next
    BY <1>1, <2>2, UserSpares, ClockSpares, DispatcherSpares, QueueSpares, FaultSpares,
       SparedStaysBehind DEF Next
  <2> QED
    BY <1>1, <2>1, <2>2
<1>2. Inv /\ [Next]_vars
        => [\A j \in Jobs : LeftBehind(j) => LeftBehind(j)' \/ row'[j].status = "CANCELLED"]_vars
  BY <1>1
<1> QED
  BY <1>2, CountsInvariant, PTL DEF Spec

=============================================================================
