---------------------------- MODULE JobDiscovery ----------------------------
(***************************************************************************)
(* One durable discovery run of one source account, and the DISCOVER_JOBS  *)
(* job that executes it.  An execution pages through the provider's list,  *)
(* records every posting of a page in a transaction of its own, then moves *)
(* the run's cursor past the page.  It may crash, be aborted or lose its   *)
(* lease at any point and the next attempt goes on from the row, while the *)
(* earlier execution may still be at work.  Every transaction after the    *)
(* claim first reads that the run is RUNNING and the lease its own, and    *)
(* writes afterwards (READ COMMITTED): other commits fit in between.       *)
(***************************************************************************)
EXTENDS Integers, FiniteSets

CONSTANTS
    Postings,           \* identities the provider gives its postings
    LastPage,           \* pages are numbered 0..LastPage
    Listing,            \* the postings of each page
    Malformed,          \* postings the adapter cannot normalise
    Fingerprint,              \* the fingerprint of each posting
    Known,              \* postings stored by an earlier run
    Owner,              \* the user, as a reader of the run's row
    MaxAttempts,        \* maxAttempts of the job
    MaxDiscoveryFaults  \* bound: crashes, aborts, lost leases, failing calls

ASSUME DiscoveryAssumption ==
    /\ LastPage \in Nat /\ MaxAttempts \in Nat \ {0} /\ MaxDiscoveryFaults \in Nat
    /\ Listing \in [0..LastPage -> SUBSET Postings]
    /\ Malformed \subseteq Postings /\ Known \subseteq Postings \ Malformed
    /\ Fingerprint \in [Postings -> Postings]
    /\ IsFiniteSet(Postings) /\ Owner \notin 1..MaxAttempts

VARIABLES
    run,                \* the job_discovery_runs row
    unchanged,          \* readers whose copy still has the row's updatedAt
    item,               \* job_discovery_items of the run, by source identity
    turnedAway,         \* postings with a normalisation rejection (no identity)
    stored,             \* rows of the jobs table
    announced,          \* the job.discovery.completed outbox event exists
    job,                \* the automation job: status, attempt, lease not expired
    execution,          \* the execution of each attempt
    cancelling,         \* a cancellation has read the run and not committed
    discoveryFaults

discoveryVars == <<run, unchanged, item, turnedAway, stored, announced, job, execution,
                   cancelling, discoveryFaults>>

Attempts == 1..MaxAttempts

-----------------------------------------------------------------------------
(* Types *)

RunStates == {"PENDING", "RUNNING", "SUCCEEDED", "PARTIAL", "FAILED", "CANCELLED"}

\* A cursor is the page it leads to; NULL is 0, since the first page is asked
\* for without a cursor.  upserted is jobsCreated + jobsUpdated.
Rows == [status : RunStates, retryable : BOOLEAN, cursor : 0..LastPage, next : 0..LastPage,
         fetched : Nat, upserted : Nat, rejected : Nat]

Steps == {"idle", "load", "claim", "reload", "fetch", "items", "finish", "fail", "result", "gone"}

\* verified: the open transaction has asserted its authority.  held: whether the
\* jobs table had the posting at that moment.
Executions == [at : Steps, verified : BOOLEAN, held : SUBSET Postings, row : Rows,
               left : SUBSET Postings, next : 0..LastPage, visited : SUBSET (0..LastPage),
               upserted : Nat, rejected : Nat, aborted : BOOLEAN,
               failure : {"none", "CANCELLED", "RETRYABLE", "PERMANENT"}]

NewRow == [status |-> "PENDING", retryable |-> FALSE, cursor |-> 0, next |-> 0,
           fetched |-> 0, upserted |-> 0, rejected |-> 0]

NoExecution == [at |-> "idle", verified |-> FALSE, held |-> {}, row |-> NewRow, left |-> {},
                next |-> 0, visited |-> {}, upserted |-> 0, rejected |-> 0,
                aborted |-> FALSE, failure |-> "none"]

DiscoveryTypeOK ==
    /\ run \in Rows
    /\ unchanged \subseteq Attempts \cup {Owner}
    /\ item \in [Postings -> {"none", "UPSERTED", "DUPLICATE", "FAILED"}]
    /\ turnedAway \subseteq Malformed
    /\ stored \subseteq Postings
    /\ announced \in BOOLEAN /\ cancelling \in BOOLEAN
    /\ job \in [status : {"AVAILABLE", "LEASED", "SUCCEEDED", "DEAD_LETTER", "CANCELLED"},
                attempt : 0..MaxAttempts, live : BOOLEAN]
    /\ execution \in [Attempts -> Executions]
    /\ discoveryFaults \in 0..MaxDiscoveryFaults

\* createDiscoveryRunsInTransaction: the row and its job, one per account.
DiscoveryInit ==
    /\ run = NewRow /\ unchanged = {}
    /\ item = [p \in Postings |-> "none"] /\ turnedAway = {}
    /\ stored = Known /\ announced = FALSE
    /\ job = [status |-> "AVAILABLE", attempt |-> 0, live |-> FALSE]
    /\ execution = [a \in Attempts |-> NoExecution]
    /\ cancelling = FALSE /\ discoveryFaults = 0

-----------------------------------------------------------------------------
(* The job, as far as the run depends on it *)

Fault == /\ discoveryFaults < MaxDiscoveryFaults
         /\ discoveryFaults' = discoveryFaults + 1

LeaseHeld(a) == job.status = "LEASED" /\ job.attempt = a /\ job.live

AtWork(a) == execution[a].at \notin {"idle", "gone"}

\* A delivery of the job, or of its redispatch after an expired lease; the job
\* row is locked while a cancellation is under way.
StartAttempt(a) ==
    /\ \/ job.status = "AVAILABLE"
       \/ job.status = "LEASED" /\ ~job.live
    /\ ~cancelling
    /\ a = job.attempt + 1
    /\ job' = [status |-> "LEASED", attempt |-> a, live |-> TRUE]
    /\ execution' = [execution EXCEPT ![a].at = "load"]
    /\ UNCHANGED <<run, unchanged, item, turnedAway, stored, announced, cancelling, discoveryFaults>>

\* Nobody renews the lease of a dead worker; a live one may stall too long.
LeaseExpires ==
    /\ job.status = "LEASED" /\ job.live
    /\ IF AtWork(job.attempt) THEN Fault ELSE UNCHANGED discoveryFaults
    /\ job' = [job EXCEPT !.live = FALSE]
    /\ UNCHANGED <<run, unchanged, item, turnedAway, stored, announced, execution, cancelling>>

WorkerCrashes(a) ==
    /\ AtWork(a) /\ Fault
    /\ execution' = [execution EXCEPT ![a] = [NoExecution EXCEPT !.at = "gone"]]
    /\ UNCHANGED <<run, unchanged, item, turnedAway, stored, announced, job, cancelling>>

\* close(force): the worker shuts down and aborts what it is executing.
WorkerAborts(a) ==
    /\ AtWork(a) /\ ~execution[a].aborted /\ Fault
    /\ execution' = [execution EXCEPT ![a].aborted = TRUE]
    /\ UNCHANGED <<run, unchanged, item, turnedAway, stored, announced, job, cancelling>>

-----------------------------------------------------------------------------
(* Claiming the run *)

Terminal(r) == r.status \in {"SUCCEEDED", "CANCELLED"} \/ (r.status = "FAILED" /\ ~r.retryable)

Step(a, changed) == execution' = [execution EXCEPT ![a] = changed]

LoadRun(a) ==
    /\ execution[a].at = "load"
    /\ Step(a, [execution[a] EXCEPT !.at = IF Terminal(run) THEN "result" ELSE "claim"])
    /\ unchanged' = unchanged \cup {a}
    /\ UNCHANGED <<run, item, turnedAway, stored, announced, job, cancelling, discoveryFaults>>

\* The claim compares status and updatedAt, not the lease; an execution that
\* loses it reports the row as it is.
ClaimRun(a) ==
    /\ execution[a].at = "claim"
    /\ IF a \in unchanged
       THEN /\ run' = [run EXCEPT !.status = "RUNNING"]
            /\ unchanged' = {}
            /\ Step(a, [execution[a] EXCEPT !.at = "reload"])
       ELSE /\ Step(a, [execution[a] EXCEPT !.at = "result"])
            /\ UNCHANGED <<run, unchanged>>
    /\ UNCHANGED <<item, turnedAway, stored, announced, job, cancelling, discoveryFaults>>

ReloadRun(a) ==
    /\ execution[a].at = "reload"
    /\ Step(a, [execution[a] EXCEPT !.at = "fetch", !.row = run])
    /\ UNCHANGED <<run, unchanged, item, turnedAway, stored, announced, job, cancelling,
                   discoveryFaults>>

-----------------------------------------------------------------------------
(* Pages *)

\* The page an execution with row r asks for: nextCursor ?? cursor.
Requested(r) == IF r.next # 0 THEN r.next ELSE r.cursor

Following(c) == IF c < LastPage THEN c + 1 ELSE 0

\* A cursor seen before in this execution, or a page that names itself as the
\* next, is an invalid response; an answer that leads backwards is not noticed
\* until its page is asked for again.
FetchPage(a, answer) ==
    LET e == execution[a]
        c == Requested(e.row)
    IN /\ e.at = "fetch" /\ ~e.aborted /\ c \notin e.visited
       /\ IF answer = Following(c) THEN UNCHANGED discoveryFaults ELSE answer \in 1..c /\ Fault
       /\ Step(a, IF answer # 0 /\ answer = c
                  THEN [e EXCEPT !.at = "fail", !.failure = "PERMANENT"]
                  ELSE [e EXCEPT !.at = "items", !.left = Listing[c], !.next = answer,
                                 !.visited = @ \cup {c}, !.upserted = 0, !.rejected = 0])
       /\ UNCHANGED <<run, unchanged, item, turnedAway, stored, announced, job, cancelling>>

\* The ends of the loop that record a failure instead of a page: the signal, a
\* repeated cursor, and what the provider or the network does to a request.
FetchFails(a, failure) ==
    LET e == execution[a]
    IN /\ e.at = "fetch"
       /\ \/ e.aborted /\ failure = "CANCELLED" /\ UNCHANGED discoveryFaults
          \/ ~e.aborted /\ Requested(e.row) \in e.visited /\ failure = "PERMANENT"
               /\ UNCHANGED discoveryFaults
          \/ ~e.aborted /\ Requested(e.row) \notin e.visited
               /\ failure \in {"RETRYABLE", "PERMANENT"} /\ Fault
       /\ Step(a, [e EXCEPT !.at = "fail", !.failure = failure])
       /\ UNCHANGED <<run, unchanged, item, turnedAway, stored, announced, job, cancelling>>

-----------------------------------------------------------------------------
(* Transactions under authority *)

InTransaction(a) == execution[a].at \in {"items", "finish", "fail"}

Authorized(a) == run.status = "RUNNING" /\ LeaseHeld(a)

\* assertExecutionAuthority, the first statement of each transaction.  An
\* execution without authority leaves everything as it is and reports the row.
AssertAuthority(a) ==
    LET e == execution[a]
    IN /\ InTransaction(a) /\ ~e.verified
       /\ e.at = "finish" => ~e.aborted
       /\ Step(a, IF Authorized(a) THEN [e EXCEPT !.verified = TRUE, !.held = stored]
                  ELSE [e EXCEPT !.at = "result"])
       /\ UNCHANGED <<run, unchanged, item, turnedAway, stored, announced, job, cancelling,
                      discoveryFaults>>

Twin(p) == \E q \in stored \ {p} : Fingerprint[q] = Fingerprint[p]

\* Variant: counts a duplicate as well.
CountedAnyway(e, p, k) == e.upserted + 1

Counted(e, p, k) == e.upserted + (IF item[p] = "none" /\ k = "UPSERTED" THEN 1 ELSE 0)

\* persistDiscoveryItem, with its second transaction after a unique conflict: a
\* posting with an item, or whose fingerprint is taken, is a duplicate; one that
\* another run stored since the check is either updated or found by the conflict.
PersistItem(a, p) ==
    LET e == execution[a]
        kind == IF item[p] # "none" THEN {item[p]}
                ELSE IF Twin(p) THEN {"DUPLICATE"}
                ELSE IF p \in stored \ e.held THEN {"UPSERTED", "DUPLICATE"}
                ELSE {"UPSERTED"}
    IN /\ e.at = "items" /\ e.verified /\ p \in e.left \ Malformed
       /\ \E k \in kind :
            /\ item' = [item EXCEPT ![p] = k]
            /\ stored' = IF item[p] = "none" /\ k = "UPSERTED" THEN stored \cup {p} ELSE stored
            /\ Step(a, [e EXCEPT !.verified = FALSE, !.left = @ \ {p},
                                 !.upserted = Counted(e, p, k)])
       /\ UNCHANGED <<run, unchanged, turnedAway, announced, job, cancelling, discoveryFaults>>

\* Variant: counts the posting and goes on.
RefusedUnseen(p) == item

Refused(p) == [item EXCEPT ![p] = "FAILED"]

\* A posting the database refuses is recorded as FAILED in another transaction,
\* which itself meets the unique index when the run has an item for it.
PersistFails(a, p) ==
    LET e == execution[a]
    IN /\ e.at = "items" /\ e.verified /\ p \in e.left \ Malformed /\ Fault
       /\ IF item[p] = "none" /\ Authorized(a)
          THEN /\ item' = Refused(p)
               /\ Step(a, [e EXCEPT !.verified = FALSE, !.left = @ \ {p}, !.rejected = @ + 1])
          ELSE /\ Step(a, [e EXCEPT !.verified = FALSE, !.failure = "PERMANENT",
                                    !.at = IF Authorized(a) THEN "fail" ELSE "result"])
               /\ UNCHANGED item
       /\ UNCHANGED <<run, unchanged, turnedAway, stored, announced, job, cancelling>>

\* After the jobs of a page, what the adapter could not normalise.
RejectItem(a, p) ==
    LET e == execution[a]
    IN /\ e.at = "items" /\ e.verified /\ e.left \subseteq Malformed /\ p \in e.left
       /\ turnedAway' = turnedAway \cup {p}
       /\ Step(a, [e EXCEPT !.verified = FALSE, !.left = @ \ {p}, !.rejected = @ + 1])
       /\ UNCHANGED <<run, unchanged, item, stored, announced, job, cancelling, discoveryFaults>>

\* The end of persistPage: the cursor comes from the execution's copy of the row,
\* the counters are incremented in the database, and the copy is renewed.
CommitPage(a) ==
    LET e == execution[a]
        r == [run EXCEPT !.cursor = Requested(e.row), !.next = e.next,
                         !.fetched = @ + Cardinality(Listing[Requested(e.row)]),
                         !.upserted = @ + e.upserted, !.rejected = @ + e.rejected,
                         !.retryable = @ /\ e.rejected = 0]
    IN /\ e.at = "items" /\ e.verified /\ e.left = {}
       /\ run' = r /\ unchanged' = {}
       /\ Step(a, [e EXCEPT !.verified = FALSE, !.row = r,
                            !.at = IF e.next # 0 THEN "fetch" ELSE "finish"])
       /\ UNCHANGED <<item, turnedAway, stored, announced, job, cancelling, discoveryFaults>>

\* The run is over: its status by the copy's rejections, the event by the row.
FinishRun(a) ==
    LET e == execution[a]
    IN /\ e.at = "finish" /\ e.verified
       /\ run' = [run EXCEPT !.status = IF e.row.rejected > 0 THEN "PARTIAL" ELSE "SUCCEEDED",
                             !.retryable = FALSE]
       /\ announced' = (announced \/ run.upserted > 0)
       /\ unchanged' = {}
       /\ Step(a, [e EXCEPT !.verified = FALSE, !.at = "result"])
       /\ UNCHANGED <<item, turnedAway, stored, job, cancelling, discoveryFaults>>

\* A database error in the last transaction of a page or of the run, or the
\* signal noticed before the run is finished.
CommitFails(a) ==
    LET e == execution[a]
    IN /\ \/ e.at = "items" /\ e.verified /\ e.left = {} /\ Fault
            /\ Step(a, [e EXCEPT !.at = "fail", !.verified = FALSE, !.failure = "PERMANENT"])
          \/ e.at = "finish" /\ e.verified /\ Fault
            /\ Step(a, [e EXCEPT !.at = "fail", !.verified = FALSE, !.failure = "PERMANENT"])
          \/ e.at = "finish" /\ ~e.verified /\ e.aborted /\ UNCHANGED discoveryFaults
            /\ Step(a, [e EXCEPT !.at = "fail", !.failure = "CANCELLED"])
       /\ UNCHANGED <<run, unchanged, item, turnedAway, stored, announced, job, cancelling>>

RecordFailure(a) ==
    LET e == execution[a]
    IN /\ e.at = "fail" /\ e.verified
       /\ run' = [run EXCEPT !.status = IF e.failure = "CANCELLED" THEN "CANCELLED"
                                        ELSE IF e.row.fetched > 0 THEN "PARTIAL" ELSE "FAILED",
                             !.retryable = e.failure = "RETRYABLE"]
       /\ unchanged' = {}
       /\ Step(a, [e EXCEPT !.verified = FALSE, !.at = "result"])
       /\ UNCHANGED <<item, turnedAway, stored, announced, job, cancelling, discoveryFaults>>

\* discoveryHandler and the worker's verdict: a retryable run, or one cancelled
\* by the signal, is another attempt of the job; anything else completes it.
\* Only the holder of the lease has its verdict accepted.
ReportResult(a) ==
    LET e == execution[a]
        again == \/ run.status = "CANCELLED" /\ e.aborted
                 \/ run.status \in {"FAILED", "PARTIAL"} /\ run.retryable
    IN /\ e.at = "result" /\ ~cancelling
       /\ job' = IF ~LeaseHeld(a) THEN job
                 ELSE [job EXCEPT !.live = FALSE,
                                  !.status = IF ~again THEN "SUCCEEDED"
                                             ELSE IF a < MaxAttempts THEN "AVAILABLE" ELSE "DEAD_LETTER"]
       /\ Step(a, [NoExecution EXCEPT !.at = "gone"])
       /\ UNCHANGED <<run, unchanged, item, turnedAway, stored, announced, cancelling, discoveryFaults>>

-----------------------------------------------------------------------------
(* The owner, and other runs *)

\* cancelDiscoveryRun finds the job of the run and cancels it: one transaction that cancels
\* the job, reads the run and cancels it if it is still the row it read.
CancelReads ==
    /\ job.status \in {"AVAILABLE", "LEASED"} /\ ~cancelling
    /\ cancelling' = TRUE
    /\ unchanged' = unchanged \cup {Owner}
    /\ UNCHANGED <<run, item, turnedAway, stored, announced, job, execution, discoveryFaults>>

Cancellable == \/ run.status \in {"PENDING", "RUNNING"}
               \/ run.status \in {"FAILED", "PARTIAL"} /\ run.retryable

CancelCommits ==
    /\ cancelling /\ cancelling' = FALSE
    /\ job' = [job EXCEPT !.status = "CANCELLED", !.live = FALSE]
    /\ IF Cancellable /\ Owner \in unchanged
       THEN /\ run' = [run EXCEPT !.status = "CANCELLED", !.retryable = FALSE]
            /\ unchanged' = {}
       ELSE UNCHANGED <<run, unchanged>>
    /\ UNCHANGED <<item, turnedAway, stored, announced, execution, discoveryFaults>>

\* A run of another owner over the same account stores the posting first.
StoredElsewhere(p) ==
    /\ p \in Postings \ (stored \cup Malformed) /\ ~Twin(p)
    /\ \E a \in Attempts : execution[a].at = "items"
    /\ Fault
    /\ stored' = stored \cup {p}
    /\ UNCHANGED <<run, unchanged, item, turnedAway, announced, job, execution, cancelling>>

-----------------------------------------------------------------------------
(* Specification *)

ExecutionStep(a) ==
    \/ LoadRun(a) \/ ClaimRun(a) \/ ReloadRun(a)
    \/ \E c \in 0..LastPage : FetchPage(a, c)
    \/ \E f \in {"CANCELLED", "RETRYABLE", "PERMANENT"} : FetchFails(a, f)
    \/ AssertAuthority(a)
    \/ \E p \in Postings : PersistItem(a, p) \/ PersistFails(a, p) \/ RejectItem(a, p)
    \/ CommitPage(a) \/ FinishRun(a) \/ CommitFails(a) \/ RecordFailure(a) \/ ReportResult(a)

DiscoveryNext ==
    \/ \E a \in Attempts : StartAttempt(a) \/ WorkerCrashes(a) \/ WorkerAborts(a) \/ ExecutionStep(a)
    \/ LeaseExpires \/ CancelReads \/ CancelCommits
    \/ \E p \in Postings : StoredElsewhere(p)

DiscoverySpec == DiscoveryInit /\ [][DiscoveryNext]_discoveryVars

-----------------------------------------------------------------------------
(* Properties *)

Recorded == {p \in Postings : item[p] # "none"} \cup turnedAway

\* The cursor never passes a page one of whose postings left no trace, although
\* pages are recorded posting by posting, by executions that crash in between or
\* overlap, and the cursor is written from a copy of the row (persistPage).
NothingPassedOver ==
    /\ \A c \in 0..LastPage : c < Requested(run) => Listing[c] \subseteq Recorded
    /\ run.status = "SUCCEEDED" => \A c \in 0..LastPage : Listing[c] \subseteq Recorded

\* Overlapping executions that record the same page again never count a posting
\* twice: jobsCreated + jobsUpdated is at most what the run really upserted, so a
\* completion is announced only if there is something to show.
CountersNeverOverstate ==
    /\ run.upserted <= Cardinality({p \in Postings : item[p] = "UPSERTED"})
    /\ announced => \E p \in Postings : item[p] = "UPSERTED"
=============================================================================
