--------------------------- MODULE AutomationJobs ---------------------------
(***************************************************************************)
(* The automation-job pipeline of one user: the authoritative rows of      *)
(* PostgreSQL's automation_jobs, the dispatcher that every worker process  *)
(* runs, the BullMQ queue the dispatcher fills, and the queue worker that  *)
(* leases a row, runs its handler and records the outcome.                 *)
(*                                                                         *)
(* PostgreSQL is the authority, BullMQ only a carrier.  What goes through  *)
(* BullMQ is an envelope naming a row, a delivery generation and a         *)
(* dispatch attempt; the lease UPDATE compares both with the row.  Every   *)
(* database call of the code is one transaction and so one action here;    *)
(* the steps of a slot between two calls are separate actions, and         *)
(* anything may happen between them.                                       *)
(***************************************************************************)
EXTENDS Naturals, FiniteSets

CONSTANTS
    Jobs,            \* ids of automation_jobs rows
    Originals,       \* the rows that producers create; the others are replays
    MaxAttempts,     \* maxAttempts of each row
    AttemptLimit,    \* MAX_AUTOMATION_ATTEMPTS
    Workers,         \* worker processes, named by their workerId
    Slots,           \* the concurrent processor calls of all worker processes
    WorkerOf,        \* the process a slot belongs to
    Runs,            \* ids of automation_runs rows
    RunOf,           \* automationRunId of each row, None for SQL NULL
    None,            \* no value
    LeaseTicks,      \* leaseMs in ticks of the model's clock
    MaxStalls,       \* BullMQ's maxStalledCount
    MaxCrashes,      \* bound: crashes of worker processes
    MaxLockLosses,   \* bound: BullMQ locks lost by a process that is alive
    MaxOutages,      \* bound: database calls of a processor call that throw
    StableWorkerId   \* is WORKER_ID set, so that a restart keeps the id?

ASSUME JobsAssumption ==
    /\ Originals \subseteq Jobs
    /\ None \notin Jobs /\ None \notin Workers /\ None \notin Runs
    /\ RunOf \in [Jobs -> Runs \cup {None}]

ASSUME AttemptsAssumption ==
    /\ AttemptLimit \in Nat \ {0}
    /\ MaxAttempts \in [Jobs -> 1..AttemptLimit]

ASSUME WorkersAssumption ==
    /\ WorkerOf \in [Slots -> Workers]
    /\ StableWorkerId \in BOOLEAN

ASSUME BoundsAssumption ==
    /\ LeaseTicks \in Nat \ {0}
    /\ MaxStalls \in Nat
    /\ MaxCrashes \in Nat
    /\ MaxLockLosses \in Nat
    /\ MaxOutages \in Nat

VARIABLES
    row,      \* automation_jobs: one record per job id
    run,      \* automation_runs: the status of each run
    batch,    \* batch[w]: the envelopes w's dispatcher has still to enqueue
    bull,     \* BullMQ's jobs, by <<automation job, attempt in the job id>>
    slot,     \* what each processor call is doing
    done,     \* <<job, attempt>> of every handler call that returned
    faults    \* how many crashes, lost locks and database outages there have been

vars == <<row, run, batch, bull, slot, done, faults>>

-----------------------------------------------------------------------------
(* Types *)

Attempts == 1..AttemptLimit
Keys     == Jobs \X Attempts

Envelopes == [job : Jobs, gen : Nat, attempt : Attempts]

Terminal == {"SUCCEEDED", "DEAD_LETTER", "CANCELLED"}

\* ttl counts down to the moment leaseExpiresAt <= now; due is availableAt <= now.
Rows == [status   : {"ABSENT", "AVAILABLE", "LEASED"} \cup Terminal,
         owner    : Workers \cup {None},
         ttl      : 0..LeaseTicks,
         attempts : 0..AttemptLimit,
         gen      : Nat,
         due      : BOOLEAN,
         replayOf : Jobs \cup {None}]

\* left is BullMQ's opts.attempts - attemptsMade.
BullJobs == [state   : {"absent", "waiting", "active", "delayed", "failed"},
             gen     : Nat,
             attempt : 0..AttemptLimit,
             left    : 0..AttemptLimit,
             stalls  : 0..MaxStalls]

\* The points of the processor call at which another process may interfere.
Processing == {"picked", "running", "returned", "completeRead", "completeWrite",
               "failing", "failRead", "failWrite"}
Backoff    == {"retrying", "validating"}
Calls      == Processing \cup Backoff
\* The handler of the attempt is running, or has returned and its result is
\* still to be recorded: only a granted lease leads here.
Executing  == {"running", "returned", "completeRead", "completeWrite"}

\* key is the attempt in BullMQ's job id, gen and attempt are the envelope's;
\* seen is the attemptCount failAutomationJob read; lock tells whether the
\* call still holds BullMQ's lock.
SlotStates == [pc      : {"idle", "down"} \cup Calls,
               job     : Jobs \cup {None},
               key     : 0..AttemptLimit,
               gen     : Nat,
               attempt : 0..AttemptLimit,
               seen    : 0..AttemptLimit,
               lock    : BOOLEAN]

RunStatuses == {"ABSENT", "RUNNING", "PAUSED", "STOPPED", "EMERGENCY_STOPPED"}

NoRow   == [status |-> "ABSENT", owner |-> None, ttl |-> 0, attempts |-> 0,
            gen |-> 0, due |-> FALSE, replayOf |-> None]
NoBull  == [state |-> "absent", gen |-> 0, attempt |-> 0, left |-> 0, stalls |-> 0]
NoCall   == [pc |-> "idle", job |-> None, key |-> 0, gen |-> 0, attempt |-> 0,
             seen |-> 0, lock |-> FALSE]
DownCall == [pc |-> "down", job |-> None, key |-> 0, gen |-> 0, attempt |-> 0,
             seen |-> 0, lock |-> FALSE]

Init ==
    /\ row = [j \in Jobs |-> NoRow]
    /\ run = [r \in Runs |-> "ABSENT"]
    /\ batch = [w \in Workers |-> {}]
    /\ bull = [k \in Keys |-> NoBull]
    /\ slot = [s \in Slots |-> NoCall]
    /\ done = {}
    /\ faults = [crashes |-> 0, lockLosses |-> 0, outages |-> 0]

-----------------------------------------------------------------------------
(* Producers and the user's routes *)

Max2(a, b) == IF a >= b THEN a ELSE b

NewRow(origin) == [status |-> "AVAILABLE", owner |-> None, ttl |-> 0, attempts |-> 0,
                   gen |-> 1, due |-> FALSE, replayOf |-> origin]

\* createAutomationJobInTransaction; an idempotent replay of the call changes nothing.
Create(j) ==
    /\ j \in Originals
    /\ row[j].status = "ABSENT"
    /\ RunOf[j] # None => run[RunOf[j]] # "ABSENT"
    /\ row' = [row EXCEPT ![j] = NewRow(None)]
    /\ UNCHANGED <<run, batch, bull, slot, done, faults>>

\* availableAt passes.
BecomeDue(j) ==
    /\ row[j].status = "AVAILABLE" /\ ~row[j].due
    /\ row' = [row EXCEPT ![j].due = TRUE]
    /\ UNCHANGED <<run, batch, bull, slot, done, faults>>

Cancel(j) ==
    /\ row[j].status \notin Terminal \cup {"ABSENT"}
    /\ row' = [row EXCEPT ![j].status = "CANCELLED", ![j].owner = None, ![j].ttl = 0]
    /\ UNCHANGED <<run, batch, bull, slot, done, faults>>

\* replayDeadLetterAutomationJob: a new row r for the dead letter j, once.
ReplayDeadLetter(j, r) ==
    /\ row[j].status = "DEAD_LETTER"
    /\ \A k \in Jobs : row[k].replayOf # j
    /\ r \notin Originals /\ row[r].status = "ABSENT" /\ RunOf[r] = RunOf[j]
    /\ row' = [row EXCEPT ![r] = NewRow(j)]
    /\ UNCHANGED <<run, batch, bull, slot, done, faults>>

SetRun(r, from, to) ==
    /\ run[r] \in from
    /\ run' = [run EXCEPT ![r] = to]
    /\ UNCHANGED <<row, batch, bull, slot, done, faults>>

\* A paused run keeps its unique activeKey, so no second one can start.
StartRun(r) ==
    /\ \A q \in Runs : run[q] \notin {"RUNNING", "PAUSED"}
    /\ SetRun(r, {"ABSENT"}, "RUNNING")

PauseRun(r)  == SetRun(r, {"RUNNING"}, "PAUSED")
ResumeRun(r) == SetRun(r, {"PAUSED"}, "RUNNING")
StopRun(r)   == SetRun(r, {"RUNNING", "PAUSED"}, "STOPPED")

EmergencyStop ==
    /\ \E r \in Runs : run[r] \in {"RUNNING", "PAUSED"}
    /\ run' = [r \in Runs |-> IF run[r] \in {"RUNNING", "PAUSED"}
                              THEN "EMERGENCY_STOPPED" ELSE run[r]]
    /\ UNCHANGED <<row, batch, bull, slot, done, faults>>

RunAllows(j) == RunOf[j] # None => run[RunOf[j]] = "RUNNING"

-----------------------------------------------------------------------------
(* Leases running out, and the dispatcher *)

\* One tick of the clock, as far as the lease of j is concerned.
Tick(j) ==
    /\ row[j].status = "LEASED" /\ row[j].ttl > 0
    /\ row' = [row EXCEPT ![j].ttl = @ - 1]
    /\ UNCHANGED <<run, batch, bull, slot, done, faults>>

Expired(j) == row[j].status = "LEASED" /\ row[j].ttl = 0

\* Variants: exhaustion noticed an attempt too late, or too early.
ExhaustedTooLate(j)  == row[j].attempts > MaxAttempts[j]
ExhaustedTooEarly(j) == row[j].attempts + 1 >= MaxAttempts[j]

Exhausted(j) == row[j].attempts >= MaxAttempts[j]

\* Variant: reconciliation hands the lost attempt back.
ReconciledUncounted(j) ==
    [row[j] EXCEPT !.status = "AVAILABLE", !.owner = None, !.gen = @ + 1, !.due = TRUE,
                   !.attempts = @ - 1]

Reconciled(j) ==
    IF Exhausted(j)
    THEN [row[j] EXCEPT !.status = "DEAD_LETTER", !.owner = None, !.gen = @ + 1]
    ELSE [row[j] EXCEPT !.status = "AVAILABLE", !.owner = None, !.gen = @ + 1, !.due = TRUE]

\* reconcileExpiredAutomationJobLeases: both UPDATEs are in one transaction.
ReconcileExpired ==
    /\ \E j \in Jobs : Expired(j)
    /\ row' = [j \in Jobs |-> IF Expired(j) THEN Reconciled(j) ELSE row[j]]
    /\ UNCHANGED <<run, batch, bull, slot, done, faults>>

Up(w) == \A s \in Slots : WorkerOf[s] = w => slot[s].pc # "down"

\* Variant: exhausted rows are selected too.
DispatchableExhausted(j) == row[j].status = "AVAILABLE" /\ row[j].due /\ RunAllows(j)

Dispatchable(j) ==
    /\ row[j].status = "AVAILABLE" /\ row[j].due
    /\ row[j].attempts < MaxAttempts[j]
    /\ RunAllows(j)

EnvelopeOf(j) == [job |-> j, gen |-> row[j].gen, attempt |-> row[j].attempts + 1]

\* selectDispatchable: from here on the dispatcher works on what it has read.
SelectDispatchable(w) ==
    /\ Up(w) /\ batch[w] = {}
    /\ \E j \in Jobs : Dispatchable(j)
    /\ batch' = [batch EXCEPT ![w] = {EnvelopeOf(j) : j \in {i \in Jobs : Dispatchable(i)}}]
    /\ UNCHANGED <<row, run, bull, slot, done, faults>>

\* max(1, maxAttempts - attemptCount) with the attemptCount of the snapshot.
BullAttempts(e) == Max2(1, MaxAttempts[e.job] + 1 - e.attempt)

\* registry.enqueue: adding a job whose id BullMQ still has does nothing.
Enqueue(w, e) ==
    /\ e \in batch[w]
    /\ batch' = [batch EXCEPT ![w] = @ \ {e}]
    /\ bull' = IF bull[<<e.job, e.attempt>>].state # "absent" THEN bull
               ELSE [bull EXCEPT ![<<e.job, e.attempt>>] =
                       [state |-> "waiting", gen |-> e.gen, attempt |-> e.attempt,
                        left |-> BullAttempts(e), stalls |-> 0]]
    /\ UNCHANGED <<row, run, slot, done, faults>>

\* Redis refused the envelope: an audit entry, and the next round selects the row again.
EnqueueFails(w, e) ==
    /\ e \in batch[w]
    /\ batch' = [batch EXCEPT ![w] = @ \ {e}]
    /\ UNCHANGED <<row, run, bull, slot, done, faults>>

-----------------------------------------------------------------------------
(* BullMQ *)

PickUp(s, k) ==
    /\ slot[s].pc = "idle" /\ bull[k].state = "waiting"
    /\ bull' = [bull EXCEPT ![k].state = "active"]
    /\ slot' = [slot EXCEPT ![s] = [pc |-> "picked", job |-> k[1], key |-> k[2],
                                    gen |-> bull[k].gen, attempt |-> bull[k].attempt,
                                    seen |-> 0, lock |-> TRUE]]
    /\ UNCHANGED <<row, run, batch, done, faults>>

DelayElapses(k) ==
    /\ bull[k].state = "delayed"
    /\ bull' = [bull EXCEPT ![k].state = "waiting"]
    /\ UNCHANGED <<row, run, batch, slot, done, faults>>

Holds(s, k) == slot[s].lock /\ <<slot[s].job, slot[s].key>> = k

\* A process that is alive fails to renew the BullMQ lock in time.
LoseLock(s) ==
    /\ slot[s].lock
    /\ faults.lockLosses < MaxLockLosses
    /\ faults' = [faults EXCEPT !.lockLosses = @ + 1]
    /\ slot' = [slot EXCEPT ![s].lock = FALSE]
    /\ UNCHANGED <<row, run, batch, bull, done>>

\* The stalled check: an active job nobody holds is delivered again, or given up.
Stalled(k) ==
    /\ bull[k].state = "active"
    /\ \A s \in Slots : ~Holds(s, k)
    /\ bull' = IF bull[k].stalls >= MaxStalls
               THEN [bull EXCEPT ![k].state = "failed"]
               ELSE [bull EXCEPT ![k].state = "waiting", ![k].stalls = @ + 1]
    /\ UNCHANGED <<row, run, batch, slot, done, faults>>

\* The call of s ends with BullMQ's job in state b; without the lock BullMQ refuses.
Finish(s, b) ==
    /\ slot' = [slot EXCEPT ![s] = NoCall]
    /\ bull' = IF slot[s].lock THEN [bull EXCEPT ![<<slot[s].job, slot[s].key>>] = b]
               ELSE bull

-----------------------------------------------------------------------------
(* The worker: lease, handler, completion, failure *)

JobOf(s) == slot[s].job
Row(s)   == row[slot[s].job]

Goto(s, pc) == slot' = [slot EXCEPT ![s].pc = pc]

\* Variant: the lease trusts the dispatcher's look at the run.
LeasableInAnyRun(s) ==
    /\ Row(s).status = "AVAILABLE" /\ Row(s).due
    /\ Row(s).attempts < MaxAttempts[JobOf(s)]
    /\ Row(s).attempts + 1 = slot[s].attempt
    /\ Row(s).gen = slot[s].gen

\* The WHERE clause of leaseAutomationJob's UPDATE.
Leasable(s) ==
    /\ Row(s).status = "AVAILABLE" /\ Row(s).due
    /\ Row(s).attempts < MaxAttempts[JobOf(s)]
    /\ Row(s).attempts + 1 = slot[s].attempt
    /\ Row(s).gen = slot[s].gen
    /\ RunAllows(JobOf(s))

\* Variant: the attempt is not counted when the lease is taken.
TakeLeaseUncounted(s) ==
    row' = [row EXCEPT ![JobOf(s)].status = "LEASED",
                       ![JobOf(s)].owner = WorkerOf[s],
                       ![JobOf(s)].ttl = LeaseTicks]

TakeLease(s) ==
    row' = [row EXCEPT ![JobOf(s)].status = "LEASED",
                       ![JobOf(s)].owner = WorkerOf[s],
                       ![JobOf(s)].ttl = LeaseTicks,
                       ![JobOf(s)].attempts = @ + 1]

Lease(s) ==
    /\ slot[s].pc = "picked" /\ Leasable(s)
    /\ TakeLease(s)
    /\ Goto(s, "running")
    /\ UNCHANGED <<run, batch, bull, done, faults>>

\* No lease: the delivery is SKIPPED, which completes and removes BullMQ's job.
SkipDelivery(s) ==
    /\ slot[s].pc = "picked" /\ ~Leasable(s)
    /\ Finish(s, NoBull)
    /\ UNCHANGED <<row, run, batch, done, faults>>

\* Variants: whoever asks is taken for the owner; updates by id alone.
OwnsRowAnyone(s) == Row(s).status = "LEASED"
OwnsRowById(s)   == Row(s).status # "ABSENT"

\* The WHERE clauses of renew, complete and fail name the owner and nothing else of the call.
OwnsRow(s) == Row(s).status = "LEASED" /\ Row(s).owner = WorkerOf[s]

\* Variant: renewal without the owner in its WHERE clause.
RenewableByAnyone(s) == Row(s).status = "LEASED" /\ Row(s).ttl > 0

\* renewAutomationJobLease, from the timer that runs from before the lease until the call ends.
Renewable(s) == OwnsRow(s) /\ Row(s).ttl > 0

Heartbeat(s) ==
    /\ slot[s].pc \in Processing /\ Renewable(s)
    /\ row' = [row EXCEPT ![JobOf(s)].ttl = LeaseTicks]
    /\ UNCHANGED <<run, batch, bull, slot, done, faults>>

HandlerReturns(s) ==
    /\ slot[s].pc = "running"
    /\ Goto(s, "returned")
    /\ done' = done \cup {<<JobOf(s), slot[s].attempt>>}
    /\ UNCHANGED <<row, run, batch, bull, faults>>

HandlerThrows(s) ==
    /\ slot[s].pc = "running"
    /\ Goto(s, "failing")
    /\ UNCHANGED <<row, run, batch, bull, done, faults>>

\* loadOwnedJob: the one read that also compares the delivery generation.
LoadsOwned(s) == OwnsRow(s) /\ Row(s).ttl > 0 /\ Row(s).gen = slot[s].gen

\* onComplete: without an owned row the result is dropped and BullMQ's job completes.
CompleteLoad(s) ==
    /\ slot[s].pc = "returned"
    /\ IF LoadsOwned(s)
       THEN Goto(s, "completeRead") /\ UNCHANGED bull
       ELSE Finish(s, NoBull)
    /\ UNCHANGED <<row, run, batch, done, faults>>

\* getOwnedJob of completeAutomationJob; LEASE_LOST lands in the catch block.
CompleteRead(s) ==
    /\ slot[s].pc = "completeRead"
    /\ Goto(s, IF OwnsRow(s) /\ Row(s).ttl > 0 THEN "completeWrite" ELSE "failing")
    /\ UNCHANGED <<row, run, batch, bull, done, faults>>

\* Its updateMany compares leaseExpiresAt with the clock of the read, so an
\* expiry since then does not stop it.
CompleteWrite(s) ==
    /\ slot[s].pc = "completeWrite"
    /\ IF OwnsRow(s)
       THEN /\ row' = [row EXCEPT ![JobOf(s)].status = "SUCCEEDED",
                                  ![JobOf(s)].owner = None, ![JobOf(s)].ttl = 0]
            /\ Finish(s, NoBull)
       ELSE Goto(s, "failing") /\ UNCHANGED <<row, bull>>
    /\ UNCHANGED <<run, batch, done, faults>>

\* onFailure: IGNORED, which completes BullMQ's job, unless the row is still owned.
FailLoad(s) ==
    /\ slot[s].pc = "failing"
    /\ IF LoadsOwned(s)
       THEN Goto(s, "failRead") /\ UNCHANGED bull
       ELSE Finish(s, NoBull)
    /\ UNCHANGED <<row, run, batch, done, faults>>

\* getOwnedJob of failAutomationJob.  When it throws, so does onFailure, and
\* BullMQ sees a failed call.
FailRead(s) ==
    /\ slot[s].pc = "failRead"
    /\ slot' = IF OwnsRow(s) /\ Row(s).ttl > 0
               THEN [slot EXCEPT ![s].pc = "failWrite", ![s].seen = Row(s).attempts]
               ELSE [slot EXCEPT ![s].pc = "retrying"]
    /\ UNCHANGED <<row, run, batch, bull, done, faults>>

FailedRow(s) ==
    IF slot[s].seen >= MaxAttempts[JobOf(s)]
    THEN [Row(s) EXCEPT !.status = "DEAD_LETTER", !.owner = None, !.ttl = 0]
    ELSE [Row(s) EXCEPT !.status = "AVAILABLE", !.owner = None, !.ttl = 0, !.due = FALSE]

\* The updateMany of failAutomationJob, deciding by the attemptCount it has read.
FailWrite(s) ==
    /\ slot[s].pc = "failWrite"
    /\ IF OwnsRow(s)
       THEN /\ row' = [row EXCEPT ![JobOf(s)] = FailedRow(s)]
            /\ IF FailedRow(s).status = "DEAD_LETTER"
               THEN Finish(s, NoBull)
               ELSE Goto(s, "retrying") /\ UNCHANGED bull
       ELSE Goto(s, "retrying") /\ UNCHANGED <<row, bull>>
    /\ UNCHANGED <<run, batch, done, faults>>

Entry(s) == bull[<<slot[s].job, slot[s].key>>]

\* BullMQ's moveToFailed asks shouldRetry only while attempts are left.
ConsiderRetry(s) ==
    /\ slot[s].pc = "retrying"
    /\ IF Entry(s).left > 1 /\ Row(s).status = "AVAILABLE"
       THEN Goto(s, "validating") /\ UNCHANGED bull
       ELSE Finish(s, [Entry(s) EXCEPT !.state = "failed"])
    /\ UNCHANGED <<row, run, batch, done, faults>>

\* Variant: the retry is authorized without comparing the generation.
RetryAuthorizedAnyGeneration(s) ==
    /\ Row(s).status = "AVAILABLE"
    /\ Row(s).attempts = slot[s].attempt
    /\ slot[s].attempt < MaxAttempts[JobOf(s)]

\* validateAutomationJobRetry
RetryAuthorized(s) ==
    /\ Row(s).status = "AVAILABLE"
    /\ Row(s).gen = slot[s].gen
    /\ Row(s).attempts = slot[s].attempt
    /\ slot[s].attempt < MaxAttempts[JobOf(s)]

\* updateData with the next attempt; BullMQ's job is delayed with one attempt less.
Advanced(s) == [state |-> "delayed", gen |-> slot[s].gen, attempt |-> slot[s].attempt + 1,
                left |-> Entry(s).left - 1, stalls |-> Entry(s).stalls]

\* The backoff strategy advances the envelope and delays BullMQ's job; when
\* onRetry throws, the job stays active until the stalled check finds it.
AdvanceRetry(s) ==
    /\ slot[s].pc = "validating"
    /\ Finish(s, IF RetryAuthorized(s) THEN Advanced(s) ELSE Entry(s))
    /\ UNCHANGED <<row, run, batch, done, faults>>

-----------------------------------------------------------------------------
(* The database failing under a call *)

Outage ==
    /\ faults.outages < MaxOutages
    /\ faults' = [faults EXCEPT !.outages = @ + 1]

\* The lease is committed but its reply is lost, so the call only sees an error.
LeaseReplyLost(s) ==
    /\ slot[s].pc = "picked" /\ Leasable(s)
    /\ Outage
    /\ TakeLease(s)
    /\ Goto(s, "failing")
    /\ UNCHANGED <<run, batch, bull, done>>

\* An error before onFailure lands in the catch block; an error of onFailure
\* makes the call fail; an error of the backoff strategy leaves BullMQ's job active.
DatabaseFails(s) ==
    /\ slot[s].pc \in Calls \ {"running"}
    /\ slot[s].pc = "retrying" => Entry(s).left > 1
    /\ Outage
    /\ CASE slot[s].pc \in {"picked", "returned", "completeRead", "completeWrite"} ->
                Goto(s, "failing") /\ UNCHANGED bull
         [] slot[s].pc \in {"failing", "failRead", "failWrite"} ->
                Goto(s, "retrying") /\ UNCHANGED bull
         [] OTHER -> Finish(s, Entry(s))
    /\ UNCHANGED <<row, run, batch, done>>

-----------------------------------------------------------------------------
(* Worker processes *)

\* All calls of the process and its dispatcher's batch are lost; what BullMQ
\* had delivered to it stays active.
Crash(w) ==
    /\ faults.crashes < MaxCrashes /\ Up(w)
    /\ faults' = [faults EXCEPT !.crashes = @ + 1]
    /\ slot' = [s \in Slots |-> IF WorkerOf[s] = w THEN DownCall ELSE slot[s]]
    /\ batch' = [batch EXCEPT ![w] = {}]
    /\ UNCHANGED <<row, run, bull, done>>

\* Without WORKER_ID a new process has a new random id: it is another worker.
Restart(w) ==
    /\ StableWorkerId
    /\ \E s \in Slots : WorkerOf[s] = w /\ slot[s].pc = "down"
    /\ slot' = [s \in Slots |-> IF WorkerOf[s] = w THEN NoCall ELSE slot[s]]
    /\ UNCHANGED <<row, run, batch, bull, done, faults>>

-----------------------------------------------------------------------------

UserStep ==
    \/ \E j \in Jobs : Create(j) \/ Cancel(j) \/ \E r \in Jobs : ReplayDeadLetter(j, r)
    \/ \E r \in Runs : StartRun(r) \/ PauseRun(r) \/ ResumeRun(r) \/ StopRun(r)
    \/ EmergencyStop

ClockStep ==
    \/ \E j \in Jobs : BecomeDue(j) \/ Tick(j)
    \/ \E k \in Keys : DelayElapses(k)

DispatcherStep ==
    \/ ReconcileExpired
    \/ \E w \in Workers : SelectDispatchable(w)
    \/ \E w \in Workers : \E e \in batch[w] : Enqueue(w, e) \/ EnqueueFails(w, e)

CallStep(s) ==
    \/ Lease(s) \/ SkipDelivery(s)
    \/ HandlerReturns(s) \/ HandlerThrows(s)
    \/ CompleteLoad(s) \/ CompleteRead(s) \/ CompleteWrite(s)
    \/ FailLoad(s) \/ FailRead(s) \/ FailWrite(s)
    \/ ConsiderRetry(s) \/ AdvanceRetry(s)

QueueStep ==
    \/ \E s \in Slots, k \in Keys : PickUp(s, k)
    \/ \E k \in Keys : Stalled(k)
    \/ \E s \in Slots : Heartbeat(s) \/ CallStep(s)

FaultStep ==
    \/ \E s \in Slots : LoseLock(s) \/ LeaseReplyLost(s) \/ DatabaseFails(s)
    \/ \E w \in Workers : Crash(w) \/ Restart(w)

Next == UserStep \/ ClockStep \/ DispatcherStep \/ QueueStep \/ FaultStep

Spec == Init /\ [][Next]_vars

\* Time passes; every live process keeps its one-second dispatch timer and its
\* BullMQ workers running; a handler ends one way or the other.  Redis may
\* refuse an envelope any number of times but not for ever, and BullMQ serves
\* every waiting job when calls keep becoming free.  Users, crashes, restarts
\* and the other faults are never promised; heartbeats need not be.
Fairness ==
    /\ \A j \in Jobs : WF_vars(BecomeDue(j)) /\ WF_vars(Tick(j))
    /\ \A k \in Keys : /\ WF_vars(DelayElapses(k)) /\ WF_vars(Stalled(k))
                       /\ SF_vars(\E s \in Slots : PickUp(s, k))
    /\ WF_vars(ReconcileExpired)
    /\ \A w \in Workers : /\ WF_vars(SelectDispatchable(w))
                          /\ SF_vars(\E e \in batch[w] : Enqueue(w, e))
    /\ \A s \in Slots : WF_vars(CallStep(s))

FairSpec == Spec /\ Fairness

-----------------------------------------------------------------------------
(* Properties *)

TypeOK ==
    /\ row \in [Jobs -> Rows]
    /\ run \in [Runs -> RunStatuses]
    /\ batch \in [Workers -> SUBSET Envelopes]
    /\ bull \in [Keys -> BullJobs]
    /\ slot \in [Slots -> SlotStates]
    /\ done \subseteq Jobs \X Attempts
    /\ faults \in [crashes : 0..MaxCrashes, lockLosses : 0..MaxLockLosses,
                  outages : 0..MaxOutages]

\* No two processor calls ever run the same attempt of a job, although BullMQ
\* may hold two jobs for that attempt (the internal retry of one and the
\* dispatcher's next one) and deliver each of them more than once.
OneExecutionPerAttempt ==
    \A s, t \in Slots :
        (/\ s # t /\ slot[s].pc \in Executing /\ slot[t].pc \in Executing
         /\ slot[s].job = slot[t].job)
            => slot[s].attempt # slot[t].attempt

\* The envelopes in flight: in dispatchers, in BullMQ and in processor calls.
Carried ==
    (UNION {batch[w] : w \in Workers})
    \cup {[job |-> k[1], gen |-> bull[k].gen, attempt |-> bull[k].attempt] :
             k \in {i \in Keys : bull[i].state # "absent"}}
    \cup {[job |-> slot[s].job, gen |-> slot[s].gen, attempt |-> slot[s].attempt] :
             s \in {t \in Slots : slot[t].pc \in Calls}}

\* The attempt number alone identifies the delivery generation, and an envelope
\* for the attempt a row waits for carries the row's generation.  This is what
\* makes it safe for queueJobId to leave the generation out of BullMQ's job id:
\* an enqueue that meets an existing id never hides an envelope of a newer
\* generation for the same attempt.
AttemptFixesGeneration ==
    \A e \in Carried :
        /\ e.attempt = row[e.job].attempts + 1 => e.gen = row[e.job].gen
        /\ \A f \in Carried : f.job = e.job /\ f.attempt = e.attempt => f.gen = e.gen

\* A job is dead-lettered only after its last permitted attempt was leased,
\* whichever of reconciliation and a failing call decides it and however old
\* the attempt count is that the call decides by.
DeadLetterExhausted ==
    \A j \in Jobs : row[j].status = "DEAD_LETTER" => row[j].attempts = MaxAttempts[j]

\* Nothing that is still in flight (a stale call, an old envelope, a lease that
\* expires) ever touches a row that has reached a terminal status.
TerminalIsFinal ==
    [][\A j \in Jobs : row[j].status \in Terminal => row'[j] = row[j]]_vars

\* A row is leased only while its run is RUNNING, however long ago the
\* dispatcher selected it and BullMQ delivered it: pause, stop and emergency
\* stop take effect on every delivery that is already under way.
StoppedRunStartsNothing ==
    [][\A j \in Jobs :
            RunOf[j] # None /\ row'[j].attempts # row[j].attempts
                => run[RunOf[j]] = "RUNNING"]_vars

\* A job that succeeded did so by the call that ran its latest attempt, not by
\* a stale call of an earlier one.
SucceededByLatestAttempt ==
    \A j \in Jobs : row[j].status = "SUCCEEDED" => <<j, row[j].attempts>> \in done

\* A lease lives on only through a call of the process that owns it, and a call
\* whose handler runs extends no lease but that of its own attempt: the lease of
\* a process that died is never kept alive by a stale call of another attempt.
RenewalExtendsOwnAttempt ==
    [][\A j \in Jobs : row'[j].ttl > row[j].ttl /\ row[j].status = "LEASED"
            => \E s \in Slots :
                  /\ slot[s].pc \in Processing /\ slot[s].job = j
                  /\ WorkerOf[s] = row[j].owner
                  /\ slot[s].pc \in Executing => /\ slot[s].attempt = row[j].attempts
                                                 /\ slot[s].gen = row[j].gen]_vars

\* The table of jobs, whatever dispatchers, queues and calls do to it, only
\* makes the moves of JobLedger: attempts are counted by granted leases alone,
\* a generation is opened by an expired lease alone, and no more attempts are
\* granted than the job has.
LedgerOf == [j \in Jobs |-> [status |-> row[j].status, attempts |-> row[j].attempts,
                             gen |-> row[j].gen]]

Ledger == INSTANCE JobLedger WITH ledger <- LedgerOf

ImplementsLedger == Ledger!Spec

\* The row waits, and the BullMQ id of its next attempt is in the failed set with nothing
\* else under way for it: every enqueue meets that id and does nothing.
LeftBehind(j) ==
    /\ row[j].status = "AVAILABLE" /\ row[j].attempts < MaxAttempts[j]
    /\ bull[<<j, row[j].attempts + 1>>].state = "failed"
    /\ \A a \in Attempts : bull[<<j, a>>].state \in {"absent", "failed"}
    /\ \A s \in Slots : slot[s].pc \in Calls => slot[s].job # j
    /\ \A w \in Workers : \A e \in batch[w] : e.job = j => bull[<<j, e.attempt>>].state = "failed"


=============================================================================
