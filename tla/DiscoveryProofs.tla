--------------------------- MODULE DiscoveryProofs ---------------------------
(***************************************************************************)
(* Proofs about the discovery of postings.                                 *)
(*                                                                         *)
(* JobDiscovery, for every listing and every number of attempts and        *)
(* faults: the pages before the one that the run, or any copy of its row,  *)
(* would ask for have left their traces, and so has the part of a page     *)
(* that an execution is past; the counters of the row and of the pages     *)
(* under way count different postings.                                     *)
(*                                                                         *)
(* SearchSchedules, for every number of profiles, tenants and schedulers:  *)
(* claims hold different profiles, and a slot that is planned stays the    *)
(* one its profile waits for until the claim is over.                      *)
(*                                                                         *)
(* DiscoveryPool, for every set of tasks and all limits: each task is in   *)
(* one place, the limits hold, and no start is overslept.                  *)
(***************************************************************************)
EXTENDS JobDiscovery, SearchSchedules, DiscoveryPool, FiniteSetTheorems, SequenceTheorems,
        WellFoundedInduction, TLAPS

-----------------------------------------------------------------------------
(* A discovery run. *)

Upserted == {p \in Postings : item[p] = "UPSERTED"}

\* The pages before the one that a copy of the row asks for have left their traces.
PagesBefore(r) == \A c \in 0..LastPage : c < Requested(r) => Listing[c] \subseteq Recorded

AllPages == \A c \in 0..LastPage : Listing[c] \subseteq Recorded

\* An execution knows only such copies; of the page it is at, what is not left has left its
\* trace; it follows a page by the next, or one it had before; it finishes past the last.
Tracing(e) ==
    /\ PagesBefore(e.row)
    /\ e.at = "items" =>
         /\ e.next = Following(Requested(e.row)) \/ e.next \in 1..Requested(e.row)
         /\ Listing[Requested(e.row)] \ e.left \subseteq Recorded
    /\ e.at = "finish" => AllPages

\* The counts of the row (0) and of each page under way are of postings of their own.
Shares(own) ==
    /\ \A a \in 0..MaxAttempts : own[a] \subseteq Upserted
    /\ \A a, b \in 0..MaxAttempts : a # b => own[a] \cap own[b] = {}
    /\ run.upserted <= Cardinality(own[0])
    /\ \A a \in Attempts : execution[a].at = "items" => execution[a].upserted <= Cardinality(own[a])

Counting == \E own \in [0..MaxAttempts -> SUBSET Postings] : Shares(own)

\* The types of what the traces and the counts do not depend on.
Rest ==
    /\ unchanged \subseteq Attempts \cup {Owner}
    /\ stored \subseteq Postings
    /\ announced \in BOOLEAN /\ cancelling \in BOOLEAN
    /\ job \in [status : {"AVAILABLE", "LEASED", "SUCCEEDED", "DEAD_LETTER", "CANCELLED"},
                attempt : 0..MaxAttempts, live : BOOLEAN]
    /\ discoveryFaults \in 0..MaxDiscoveryFaults

DiscoveryInv ==
    /\ DiscoveryTypeOK
    /\ PagesBefore(run) /\ (run.status = "SUCCEEDED" => AllPages)
    /\ \A a \in Attempts : Tracing(execution[a])
    /\ Counting
    /\ announced => Upserted # {}

LEMMA DiscoveryFacts ==
    /\ NewRow \in Rows /\ NoExecution \in Executions
    /\ NewRow.cursor = 0 /\ NewRow.next = 0 /\ NewRow.upserted = 0 /\ NewRow.status = "PENDING"
    /\ NoExecution.at = "idle" /\ NoExecution.row = NewRow
    /\ LastPage \in Nat /\ MaxAttempts \in Nat /\ Attempts \subseteq 0..MaxAttempts
    /\ 0 \in 0..MaxAttempts /\ 0 \notin Attempts
    BY DiscoveryAssumption DEF NewRow, NoExecution, Rows, Executions, RunStates, Steps, Attempts

LEMMA RowFacts ==
    ASSUME NEW r \in Rows
    PROVE  Requested(r) \in 0..LastPage /\ r.upserted \in Nat
    BY DEF Rows, Requested

LEMMA CountsAreFinite ==
    ASSUME NEW S, S \subseteq Postings
    PROVE  IsFiniteSet(S) /\ Cardinality(S) \in Nat
    BY DiscoveryAssumption, FS_Subset, FS_CardinalityType

\* Shares of the upserted postings keep the counters at most what was upserted.
LEMMA CountingIsEnough ==
    ASSUME Counting, run \in Rows
    PROVE  run.upserted <= Cardinality(Upserted) /\ (run.upserted > 0 => Upserted # {})
<1>1. PICK own \in [0..MaxAttempts -> SUBSET Postings] : Shares(own)
    BY DEF Counting
<1>2. own[0] \subseteq Upserted /\ run.upserted <= Cardinality(own[0])
    BY <1>1, DiscoveryFacts DEF Shares
<1>3. IsFiniteSet(Upserted) /\ Cardinality(Upserted) \in Nat /\ Cardinality(own[0]) \in Nat
    BY <1>2, CountsAreFinite DEF Upserted
<1>4. Cardinality(own[0]) <= Cardinality(Upserted)
    BY <1>2, <1>3, FS_Subset
<1>5. run.upserted <= Cardinality(Upserted)
    BY <1>2, <1>3, <1>4, RowFacts
<1>6. QED
    BY <1>3, <1>5, RowFacts, FS_EmptySet

LEMMA DiscoveryInitially == DiscoveryInit => DiscoveryInv
<1>1. SUFFICES ASSUME DiscoveryInit PROVE DiscoveryInv
    OBVIOUS
<1>2. run = NewRow /\ \A a \in Attempts : execution[a] = NoExecution
    BY <1>1 DEF DiscoveryInit
<1>3. DiscoveryTypeOK
    <2>1. run \in Rows /\ execution \in [Attempts -> Executions]
        BY <1>1, DiscoveryFacts DEF DiscoveryInit
    <2>2. /\ item \in [Postings -> {"none", "UPSERTED", "DUPLICATE", "FAILED"}]
          /\ unchanged = {} /\ turnedAway = {} /\ stored \subseteq Postings
          /\ announced \in BOOLEAN /\ cancelling \in BOOLEAN
        BY <1>1, DiscoveryAssumption DEF DiscoveryInit
    <2>3. /\ job \in [status : {"AVAILABLE", "LEASED", "SUCCEEDED", "DEAD_LETTER", "CANCELLED"},
                     attempt : 0..MaxAttempts, live : BOOLEAN]
          /\ discoveryFaults \in 0..MaxDiscoveryFaults
        BY <1>1, DiscoveryFacts, DiscoveryAssumption DEF DiscoveryInit
    <2>4. QED
        BY <2>1, <2>2, <2>3 DEF DiscoveryTypeOK
<1>4. PagesBefore(NewRow)
    BY DiscoveryFacts DEF PagesBefore, Requested
<1>5. \A a \in Attempts : Tracing(execution[a])
    BY <1>2, <1>4, DiscoveryFacts DEF Tracing
<1>6. Counting
    <2> DEFINE own == [a \in 0..MaxAttempts |-> {}]
    <2>1. own \in [0..MaxAttempts -> SUBSET Postings] /\ \A a \in 0..MaxAttempts : own[a] = {}
        OBVIOUS
    <2> HIDE DEF own
    <2>2. Shares(own)
        <3>1. run.upserted <= Cardinality(own[0])
            <4>1. run.upserted = 0 /\ own[0] = {}
                BY <1>2, <2>1, DiscoveryFacts
            <4>2. QED
                BY <4>1, FS_EmptySet
        <3>2. \A a \in Attempts : execution[a].at # "items"
            BY <1>2, DiscoveryFacts
        <3>3. \A a \in 0..MaxAttempts : own[a] \subseteq Upserted
            BY <2>1
        <3>4. \A a, b \in 0..MaxAttempts : own[a] \cap own[b] = {}
            BY <2>1
        <3>5. QED
            BY <3>1, <3>2, <3>3, <3>4 DEF Shares
    <2>3. QED
        BY <2>1, <2>2 DEF Counting
<1>7. QED
    BY <1>1, <1>2, <1>3, <1>4, <1>5, <1>6, DiscoveryFacts DEF DiscoveryInit, DiscoveryInv

-----------------------------------------------------------------------------
\* The step of one execution: what it leaves to show.
LEMMA ExecutionMoves ==
    ASSUME DiscoveryInv, NEW a \in Attempts, NEW r \in Executions, Step(a, r),
           run' \in Rows, item' \in [Postings -> {"none", "UPSERTED", "DUPLICATE", "FAILED"}],
           turnedAway' \subseteq Malformed, Rest', Recorded \subseteq Recorded',
           Tracing(r)', PagesBefore(run)', run'.status = "SUCCEEDED" => AllPages',
           Counting', announced' => Upserted' # {}
    PROVE  DiscoveryInv'
<1>1. execution' \in [Attempts -> Executions] /\ execution'[a] = r
      /\ \A b \in Attempts \ {a} : execution'[b] = execution[b]
    BY DEF Step, DiscoveryInv, DiscoveryTypeOK
<1>2. DiscoveryTypeOK'
    BY <1>1 DEF DiscoveryTypeOK, Rest
<1>3. ASSUME NEW b \in Attempts PROVE Tracing(execution[b])'
    <2>1. CASE b = a
        BY <1>1, <2>1 DEF Tracing, PagesBefore
    <2>2. CASE b # a
        BY <1>1, <2>2 DEF DiscoveryInv, Tracing, PagesBefore, AllPages
    <2>3. QED
        BY <2>1, <2>2
<1>4. QED
    BY <1>2, <1>3 DEF DiscoveryInv

\* What was traced stays traced, and what was counted is still there to count.
LEMMA TracesStay ==
    ASSUME Recorded \subseteq Recorded', NEW r
    PROVE  (PagesBefore(r) => PagesBefore(r)') /\ (AllPages => AllPages')
    BY DEF PagesBefore, AllPages

LEMMA CountsStay ==
    ASSUME DiscoveryInv, NEW a \in Attempts, NEW r \in Executions, Step(a, r),
           Upserted \subseteq Upserted', run'.upserted = run.upserted,
           r.at = "items" => r.upserted = 0 \/ (execution[a].at = "items" /\ r.upserted = execution[a].upserted)
    PROVE  Counting'
<1>1. PICK own \in [0..MaxAttempts -> SUBSET Postings] : Shares(own)
    BY DEF DiscoveryInv, Counting
<1>2. execution'[a] = r /\ \A b \in Attempts \ {a} : execution'[b] = execution[b]
    BY DEF Step, DiscoveryInv, DiscoveryTypeOK
<1>3. \A b \in Attempts : Cardinality(own[b]) \in Nat
    BY <1>1, DiscoveryFacts, CountsAreFinite
<1>4. \A b \in Attempts : execution'[b].at = "items" => execution'[b].upserted <= Cardinality(own[b])
    BY <1>1, <1>2, <1>3 DEF Shares
<1>5. Shares(own)'
    BY <1>1, <1>4 DEF Shares
<1>6. QED
    BY <1>5 DEF Counting

\* An execution traces and counts nothing as it goes on to r, ...
Quiet(e, r) ==
    /\ r.row \in {e.row, run, NewRow}
    /\ \/ r.at \notin {"items", "finish"}
       \/ /\ r.at = e.at /\ r.row = e.row /\ r.next = e.next
          /\ r.left = e.left /\ r.upserted = e.upserted

\* ... and the row of the run keeps its cursors and its count.
RowKept == run' \in Rows /\ run'.cursor = run.cursor /\ run'.next = run.next /\ run'.upserted = run.upserted

LEMMA QuietStep ==
    ASSUME DiscoveryInv, NEW a \in Attempts, NEW r \in Executions, Step(a, r), Rest',
           Quiet(execution[a], r), UNCHANGED <<item, turnedAway>>, RowKept,
           run'.status = "SUCCEEDED" => run.status = "SUCCEEDED" \/ execution[a].at = "finish",
           announced' => announced \/ run.upserted > 0
    PROVE  DiscoveryInv'
<1> USE DEF Quiet, RowKept
<1>1. Recorded' = Recorded /\ Upserted' = Upserted
    BY DEF Recorded, Upserted
<1>2. PagesBefore(run)'
    BY <1>1 DEF DiscoveryInv, PagesBefore, Requested
<1>3. PagesBefore(r.row)
    BY DiscoveryFacts DEF DiscoveryInv, Tracing, PagesBefore, Requested
<1>4. Tracing(r)'
    <2>1. PagesBefore(r.row)'
        BY <1>1, <1>3 DEF PagesBefore
    <2>2. r.at = "items" => /\ r.next = Following(Requested(r.row)) \/ r.next \in 1..Requested(r.row)
                            /\ Listing[Requested(r.row)] \ r.left \subseteq Recorded'
        BY <1>1 DEF DiscoveryInv, Tracing
    <2>3. r.at = "finish" => AllPages'
        BY <1>1 DEF DiscoveryInv, Tracing, AllPages
    <2>4. QED
        BY <2>1, <2>2, <2>3 DEF Tracing
<1>5. run'.status = "SUCCEEDED" => AllPages'
    BY <1>1 DEF DiscoveryInv, Tracing, AllPages
<1>6. Counting'
    BY <1>1, CountsStay
<1>7. announced' => Upserted' # {}
    BY <1>1, CountingIsEnough DEF DiscoveryInv, DiscoveryTypeOK
<1>8. QED
    BY <1>1, <1>2, <1>4, <1>5, <1>6, <1>7, ExecutionMoves DEF DiscoveryInv, DiscoveryTypeOK

\* Steps of no execution.
LEMMA StepAside ==
    ASSUME DiscoveryInv, Rest', UNCHANGED <<execution, item, turnedAway, announced>>, run' \in Rows,
           run'.cursor = run.cursor, run'.next = run.next, run'.upserted = run.upserted,
           run'.status = "SUCCEEDED" => run.status = "SUCCEEDED"
    PROVE  DiscoveryInv'
<1>1. Recorded' = Recorded /\ Upserted' = Upserted
    BY DEF Recorded, Upserted
<1>2. DiscoveryTypeOK'
    BY DEF DiscoveryInv, DiscoveryTypeOK, Rest
<1>3. PagesBefore(run)' /\ (run'.status = "SUCCEEDED" => AllPages')
    BY <1>1 DEF DiscoveryInv, PagesBefore, Requested, AllPages
<1>4. \A a \in Attempts : Tracing(execution[a])'
    BY <1>1 DEF DiscoveryInv, Tracing, PagesBefore, AllPages
<1>5. Counting'
    <2>1. PICK own \in [0..MaxAttempts -> SUBSET Postings] : Shares(own)
        BY DEF DiscoveryInv, Counting
    <2>2. Shares(own)'
        BY <1>1, <2>1 DEF Shares
    <2>3. QED
        BY <2>2 DEF Counting
<1>6. QED
    BY <1>1, <1>2, <1>3, <1>4, <1>5 DEF DiscoveryInv

-----------------------------------------------------------------------------
(* The types. *)

LEMMA RestKept ==
    ASSUME DiscoveryTypeOK, DiscoveryNext
    PROVE  Rest'
<1>1. Rest /\ MaxDiscoveryFaults \in Nat
    BY DiscoveryAssumption DEF DiscoveryTypeOK, Rest
<1> USE <1>1 DEF Rest
<1>2. Fault => discoveryFaults' \in 0..MaxDiscoveryFaults
    BY DEF Fault
<1>3. ASSUME NEW a \in Attempts, StartAttempt(a) PROVE Rest'
    BY <1>3, DiscoveryFacts DEF StartAttempt
<1>4. ASSUME NEW a \in Attempts, WorkerCrashes(a) \/ WorkerAborts(a) PROVE Rest'
    BY <1>2, <1>4 DEF WorkerCrashes, WorkerAborts
<1>5. ASSUME NEW a \in Attempts, LoadRun(a) \/ ClaimRun(a) \/ ReloadRun(a) \/ AssertAuthority(a) PROVE Rest'
    BY <1>5 DEF LoadRun, ClaimRun, ReloadRun, AssertAuthority
<1>6. ASSUME NEW a \in Attempts, NEW c \in 0..LastPage, FetchPage(a, c) PROVE Rest'
    BY <1>2, <1>6 DEF FetchPage
<1>7. ASSUME NEW a \in Attempts, NEW f, FetchFails(a, f) PROVE Rest'
    BY <1>2, <1>7 DEF FetchFails
<1>8. ASSUME NEW a \in Attempts, NEW p \in Postings, PersistItem(a, p) PROVE Rest'
    <2>1. stored' \subseteq Postings
        BY <1>8 DEF PersistItem
    <2>2. QED
        BY <1>8, <2>1 DEF PersistItem
<1>9. ASSUME NEW a \in Attempts, NEW p \in Postings, PersistFails(a, p) PROVE Rest'
    BY <1>2, <1>9 DEF PersistFails
<1>10. ASSUME NEW a \in Attempts, NEW p \in Postings, RejectItem(a, p) PROVE Rest'
    BY <1>10 DEF RejectItem
<1>11. ASSUME NEW a \in Attempts, CommitPage(a) \/ RecordFailure(a) PROVE Rest'
    BY <1>11 DEF CommitPage, RecordFailure
<1>12. ASSUME NEW a \in Attempts, FinishRun(a) PROVE Rest'
    BY <1>12 DEF FinishRun
<1>13. ASSUME NEW a \in Attempts, CommitFails(a) PROVE Rest'
    BY <1>2, <1>13 DEF CommitFails
<1>14. ASSUME NEW a \in Attempts, ReportResult(a) PROVE Rest'
    <2>1. UNCHANGED <<unchanged, stored, announced, cancelling, discoveryFaults>>
        BY <1>14 DEF ReportResult
    <2>2. PICK status \in {"SUCCEEDED", "AVAILABLE", "DEAD_LETTER"} :
            job' = job \/ job' = [job EXCEPT !.live = FALSE, !.status = status]
        BY <1>14 DEF ReportResult
    <2>3. QED
        BY <2>1, <2>2
<1>15. CASE LeaseExpires
    BY <1>2, <1>15 DEF LeaseExpires
<1>16. CASE CancelReads \/ CancelCommits
    BY <1>16 DEF CancelReads, CancelCommits
<1>17. ASSUME NEW p \in Postings, StoredElsewhere(p) PROVE Rest'
    BY <1>2, <1>17 DEF StoredElsewhere
<1> HIDE DEF Rest
<1>18. QED
    BY <1>3, <1>4, <1>5, <1>6, <1>7, <1>8, <1>9, <1>10, <1>11, <1>12, <1>13, <1>14, <1>15, <1>16, <1>17
       DEF DiscoveryNext, ExecutionStep

-----------------------------------------------------------------------------
(* The steps. *)

LEMMA OthersStep ==
    ASSUME DiscoveryInv, Rest',
           LeaseExpires \/ CancelReads \/ CancelCommits \/ \E p \in Postings : StoredElsewhere(p)
    PROVE  DiscoveryInv'
<1>1. UNCHANGED <<execution, item, turnedAway, announced>>
    BY DEF LeaseExpires, CancelReads, CancelCommits, StoredElsewhere
<1>2. run \in Rows
    BY DEF DiscoveryInv, DiscoveryTypeOK
<1>3. RowKept /\ (run'.status = "SUCCEEDED" => run.status = "SUCCEEDED")
    <2>1. CASE UNCHANGED run
        BY <1>2, <2>1 DEF RowKept
    <2>2. CASE run' = [run EXCEPT !.status = "CANCELLED", !.retryable = FALSE]
        BY <1>2, <2>2 DEF RowKept, Rows, RunStates
    <2>3. QED
        BY <2>1, <2>2 DEF LeaseExpires, CancelReads, CancelCommits, StoredElsewhere
<1>4. QED
    BY <1>1, <1>3, StepAside DEF RowKept

\* The worker's part: an attempt begins, loads and claims the run, dies or is aborted.
LEMMA WorkerStep ==
    ASSUME DiscoveryInv, Rest', NEW a \in Attempts,
           \/ StartAttempt(a) \/ WorkerCrashes(a) \/ WorkerAborts(a) \/ LoadRun(a)
           \/ ClaimRun(a) \/ ReloadRun(a) \/ ReportResult(a)
    PROVE  DiscoveryInv'
<1>1. execution[a] \in Executions /\ run \in Rows /\ execution \in [Attempts -> Executions]
    BY DEF DiscoveryInv, DiscoveryTypeOK
<1>2. UNCHANGED <<item, turnedAway, announced>>
    BY DEF StartAttempt, WorkerCrashes, WorkerAborts, LoadRun, ClaimRun, ReloadRun, ReportResult
<1>3. RowKept /\ (run'.status = "SUCCEEDED" => run.status = "SUCCEEDED")
    <2>1. CASE UNCHANGED run
        BY <1>1, <2>1 DEF RowKept
    <2>2. CASE run' = [run EXCEPT !.status = "RUNNING"]
        BY <1>1, <2>2 DEF RowKept, Rows, RunStates
    <2>3. QED
        BY <2>1, <2>2
           DEF StartAttempt, WorkerCrashes, WorkerAborts, LoadRun, ClaimRun, ReloadRun, ReportResult
<1>4. \E r \in Executions : Step(a, r) /\ Quiet(execution[a], r)
    <2>1. ASSUME NEW at \in Steps \ {"items", "finish"},
                 execution' = [execution EXCEPT ![a] = [execution[a] EXCEPT !.at = at]]
          PROVE  \E r \in Executions : Step(a, r) /\ Quiet(execution[a], r)
        <3>1. [execution[a] EXCEPT !.at = at] \in Executions
            BY <1>1 DEF Executions
        <3>2. PICK r \in Executions : r = [execution[a] EXCEPT !.at = at]
            BY <3>1
        <3>3. Step(a, r) /\ Quiet(execution[a], r)
            BY <1>1, <2>1, <3>2 DEF Executions, Step, Quiet
        <3>4. QED
            BY <3>3
    <2>2. {"load", "result", "claim", "reload", "gone"} \subseteq Steps \ {"items", "finish"}
        BY DEF Steps
    <2>3. CASE StartAttempt(a) \/ LoadRun(a) \/ ClaimRun(a)
        BY <2>1, <2>2, <2>3 DEF StartAttempt, LoadRun, ClaimRun, Step
    <2>4. CASE WorkerCrashes(a) \/ ReportResult(a)
        <3>1. [NoExecution EXCEPT !.at = "gone"] \in Executions
            BY DiscoveryFacts, <2>2 DEF Executions
        <3>2. PICK r \in Executions : r = [NoExecution EXCEPT !.at = "gone"]
            BY <3>1
        <3>3. r.at = "gone" /\ r.row = NewRow
            BY <3>2, DiscoveryFacts DEF NoExecution
        <3>4. Step(a, r)
            BY <2>4, <3>2 DEF WorkerCrashes, ReportResult, Step
        <3>5. QED
            BY <3>3, <3>4 DEF Quiet
    <2>5. CASE WorkerAborts(a)
        <3>1. [execution[a] EXCEPT !.aborted = TRUE] \in Executions
            BY <1>1 DEF Executions
        <3>2. PICK r \in Executions : r = [execution[a] EXCEPT !.aborted = TRUE]
            BY <3>1
        <3>3. Step(a, r) /\ Quiet(execution[a], r)
            BY <1>1, <2>5, <3>2 DEF Executions, WorkerAborts, Step, Quiet
        <3>4. QED
            BY <3>3
    <2>6. CASE ReloadRun(a)
        <3>1. [execution[a] EXCEPT !.at = "fetch", !.row = run] \in Executions
            BY <1>1 DEF Executions, Steps
        <3>2. PICK r \in Executions : r = [execution[a] EXCEPT !.at = "fetch", !.row = run]
            BY <3>1
        <3>3. Step(a, r) /\ Quiet(execution[a], r)
            BY <1>1, <2>6, <3>2 DEF Executions, ReloadRun, Step, Quiet
        <3>4. QED
            BY <3>3
    <2>7. QED
        BY <2>3, <2>4, <2>5, <2>6
<1>5. QED
    BY <1>2, <1>3, <1>4, QuietStep

\* An execution that goes on to a failure or to its result, asserts its authority, or ends
\* the run: nothing is traced or counted, but by then all is traced if it has finished.
LEMMA VerdictStep ==
    ASSUME DiscoveryInv, Rest', NEW a \in Attempts,
           \/ AssertAuthority(a) \/ FinishRun(a) \/ CommitFails(a) \/ RecordFailure(a)
           \/ \E f \in {"CANCELLED", "RETRYABLE", "PERMANENT"} : FetchFails(a, f)
    PROVE  DiscoveryInv'
<1> DEFINE e == execution[a]
<1>1. e \in Executions /\ run \in Rows
    BY DEF DiscoveryInv, DiscoveryTypeOK
<1>2. UNCHANGED <<item, turnedAway>>
    BY DEF AssertAuthority, FinishRun, CommitFails, RecordFailure, FetchFails
<1>3. announced' => announced \/ run.upserted > 0
    BY DEF AssertAuthority, FinishRun, CommitFails, RecordFailure, FetchFails
<1>4. RowKept /\ (run'.status = "SUCCEEDED" => run.status = "SUCCEEDED" \/ e.at = "finish")
    <2>1. CASE UNCHANGED run
        BY <1>1, <2>1 DEF RowKept
    <2>2. ASSUME NEW status \in RunStates, NEW retryable \in BOOLEAN,
                 status = "SUCCEEDED" => e.at = "finish",
                 run' = [run EXCEPT !.status = status, !.retryable = retryable]
          PROVE  RowKept /\ (run'.status = "SUCCEEDED" => run.status = "SUCCEEDED" \/ e.at = "finish")
        BY <1>1, <2>2 DEF RowKept, Rows
    <2>3. CASE FinishRun(a)
        <3>1. e.at = "finish"
            BY <2>3 DEF FinishRun
        <3>2. PICK status \in {"PARTIAL", "SUCCEEDED"} :
                run' = [run EXCEPT !.status = status, !.retryable = FALSE]
            BY <2>3 DEF FinishRun
        <3>3. QED
            BY <2>2, <3>1, <3>2 DEF RunStates
    <2>4. CASE RecordFailure(a)
        <3>1. PICK status \in {"CANCELLED", "PARTIAL", "FAILED"}, retryable \in BOOLEAN :
                run' = [run EXCEPT !.status = status, !.retryable = retryable]
            BY <2>4 DEF RecordFailure
        <3>2. QED
            BY <2>2, <3>1 DEF RunStates
    <2>5. QED
        BY <2>1, <2>3, <2>4 DEF AssertAuthority, CommitFails, FetchFails
<1>5. \E r \in Executions : Step(a, r) /\ Quiet(e, r)
    <2>1. ASSUME NEW r \in Executions, Step(a, r), r.row = e.row, r.at \notin {"items", "finish"}
          PROVE  \E q \in Executions : Step(a, q) /\ Quiet(e, q)
        BY <2>1 DEF Quiet
    <2>2. CASE AssertAuthority(a)
        <3>1. CASE Authorized(a)
            <4>1. stored \subseteq Postings
                BY DEF DiscoveryInv, DiscoveryTypeOK
            <4>2. [e EXCEPT !.verified = TRUE, !.held = stored] \in Executions
                BY <1>1, <4>1 DEF Executions
            <4>3. PICK r \in Executions : r = [e EXCEPT !.verified = TRUE, !.held = stored]
                BY <4>2
            <4>4. Step(a, r) /\ Quiet(e, r)
                BY <1>1, <2>2, <3>1, <4>3 DEF Executions, AssertAuthority, Quiet
            <4>5. QED
                BY <4>4
        <3>2. CASE ~Authorized(a)
            <4>1. [e EXCEPT !.at = "result"] \in Executions
                BY <1>1 DEF Executions, Steps
            <4>2. PICK r \in Executions : r = [e EXCEPT !.at = "result"]
                BY <4>1
            <4>3. Step(a, r) /\ r.row = e.row /\ r.at = "result"
                BY <1>1, <2>2, <3>2, <4>2 DEF Executions, AssertAuthority
            <4>4. QED
                BY <2>1, <4>3
        <3>3. QED
            BY <3>1, <3>2
    <2>3. CASE FinishRun(a) \/ RecordFailure(a)
        <3>1. [e EXCEPT !.verified = FALSE, !.at = "result"] \in Executions
            BY <1>1 DEF Executions, Steps
        <3>2. PICK r \in Executions : r = [e EXCEPT !.verified = FALSE, !.at = "result"]
            BY <3>1
        <3>3. Step(a, r) /\ r.row = e.row /\ r.at = "result"
            BY <1>1, <2>3, <3>2 DEF Executions, FinishRun, RecordFailure
        <3>4. QED
            BY <2>1, <3>3
    <2>4. ASSUME NEW f \in {"CANCELLED", "RETRYABLE", "PERMANENT"},
                 \/ Step(a, [e EXCEPT !.at = "fail", !.failure = f])
                 \/ Step(a, [e EXCEPT !.at = "fail", !.verified = FALSE, !.failure = f])
          PROVE  \E r \in Executions : Step(a, r) /\ Quiet(e, r)
        <3>1. PICK verified \in BOOLEAN :
                Step(a, [e EXCEPT !.at = "fail", !.verified = verified, !.failure = f])
            <4>1. [e EXCEPT !.at = "fail", !.failure = f]
                    = [e EXCEPT !.at = "fail", !.verified = e.verified, !.failure = f]
                BY <1>1 DEF Executions
            <4>2. e.verified \in BOOLEAN
                BY <1>1 DEF Executions
            <4>3. QED
                BY <2>4, <4>1, <4>2
        <3>2. [e EXCEPT !.at = "fail", !.verified = verified, !.failure = f] \in Executions
            BY <1>1 DEF Executions, Steps
        <3>3. PICK r \in Executions :
                r = [e EXCEPT !.at = "fail", !.verified = verified, !.failure = f]
            BY <3>2
        <3>4. Step(a, r) /\ r.row = e.row /\ r.at = "fail"
            BY <1>1, <3>1, <3>3 DEF Executions
        <3>5. QED
            BY <2>1, <3>4
    <2>5. CASE CommitFails(a)
        BY <2>4, <2>5 DEF CommitFails
    <2>6. CASE \E f \in {"CANCELLED", "RETRYABLE", "PERMANENT"} : FetchFails(a, f)
        BY <2>4, <2>6 DEF FetchFails
    <2>7. QED
        BY <2>2, <2>3, <2>5, <2>6
<1>6. QED
    BY <1>2, <1>3, <1>4, <1>5, QuietStep

\* A page is read, or one that names itself is refused.
LEMMA FetchStep ==
    ASSUME DiscoveryInv, Rest', NEW a \in Attempts, NEW answer \in 0..LastPage, FetchPage(a, answer)
    PROVE  DiscoveryInv'
<1> DEFINE e == execution[a]
           c == Requested(e.row)
<1>1. /\ e \in Executions /\ e.row \in Rows /\ run \in Rows /\ c \in 0..LastPage
      /\ Listing[c] \subseteq Postings
    BY RowFacts, DiscoveryAssumption DEF DiscoveryInv, DiscoveryTypeOK, Executions
<1>2. UNCHANGED <<run, item, turnedAway, announced>> /\ Recorded' = Recorded /\ Upserted' = Upserted
    BY DEF FetchPage, Recorded, Upserted
<1>3. answer = Following(c) \/ answer \in 1..c
    BY DEF FetchPage
<1>4. CASE answer # 0 /\ answer = c
    <2>1. Step(a, [e EXCEPT !.at = "fail", !.failure = "PERMANENT"])
        BY <1>4 DEF FetchPage
    <2>2. [e EXCEPT !.at = "fail", !.failure = "PERMANENT"] \in Executions
        BY <1>1 DEF Executions, Steps
    <2>3. PICK r \in Executions : r = [e EXCEPT !.at = "fail", !.failure = "PERMANENT"]
        BY <2>2
    <2>4. Step(a, r) /\ Quiet(e, r)
        BY <1>1, <2>1, <2>3 DEF Executions, Quiet
    <2>5. QED
        BY <1>1, <1>2, <2>4, QuietStep DEF RowKept
<1>5. CASE ~(answer # 0 /\ answer = c)
    <2> DEFINE page == [e EXCEPT !.at = "items", !.left = Listing[c], !.next = answer,
                                 !.visited = e.visited \cup {c}, !.upserted = 0, !.rejected = 0]
    <2>1. Step(a, page)
        BY <1>5 DEF FetchPage
    <2>2. page \in Executions
        <3>1. e.visited \cup {c} \in SUBSET (0..LastPage)
            BY <1>1 DEF Executions
        <3>2. QED
            BY <1>1, <3>1 DEF Executions, Steps
    <2>3. page.at = "items" /\ page.row = e.row /\ page.left = Listing[c] /\ page.next = answer
          /\ page.upserted = 0
        BY <1>1 DEF Executions
    <2> HIDE DEF page
    <2>4. PICK r \in Executions : r = page
        BY <2>2
    <2>5. PagesBefore(e.row)
        BY DEF DiscoveryInv, Tracing
    <2>6. Tracing(r)'
        <3>1. PagesBefore(r.row)'
            BY <1>2, <2>3, <2>4, <2>5 DEF PagesBefore
        <3>2. /\ r.next = Following(Requested(r.row)) \/ r.next \in 1..Requested(r.row)
              /\ Listing[Requested(r.row)] \ r.left \subseteq Recorded'
            BY <1>3, <2>3, <2>4
        <3>3. QED
            BY <2>3, <2>4, <3>1, <3>2 DEF Tracing
    <2>7. Step(a, r) /\ r.upserted = 0
        BY <2>1, <2>3, <2>4
    <2>8. Counting'
        BY <1>2, <2>7, CountsStay
    <2>9. PagesBefore(run)' /\ (run'.status = "SUCCEEDED" => AllPages') /\ (announced' => Upserted' # {})
        BY <1>2 DEF DiscoveryInv, PagesBefore, AllPages
    <2>10. QED
        BY <1>1, <1>2, <2>6, <2>7, <2>8, <2>9, ExecutionMoves DEF DiscoveryInv, DiscoveryTypeOK
<1>6. QED
    BY <1>4, <1>5

\* A page under way goes on over one posting, which has left its trace.
LEMMA PostingStep ==
    ASSUME DiscoveryInv, Rest', NEW a \in Attempts, NEW p \in Postings, NEW r \in Executions,
           Step(a, r), execution[a].at = "items",
           r.at = "items", r.row = execution[a].row, r.next = execution[a].next,
           r.left = execution[a].left \ {p},
           item' \in [Postings -> {"none", "UPSERTED", "DUPLICATE", "FAILED"}],
           turnedAway' \subseteq Malformed, Recorded \subseteq Recorded', p \in Recorded',
           UNCHANGED <<run, announced>>, Upserted \subseteq Upserted', Counting'
    PROVE  DiscoveryInv'
<1>1. Tracing(execution[a]) /\ run \in Rows
    BY DEF DiscoveryInv, DiscoveryTypeOK
<1>2. Tracing(r)'
    <2>1. PagesBefore(r.row)'
        BY <1>1 DEF Tracing, PagesBefore
    <2>2. /\ r.next = Following(Requested(r.row)) \/ r.next \in 1..Requested(r.row)
          /\ Listing[Requested(r.row)] \ r.left \subseteq Recorded'
        BY <1>1 DEF Tracing
    <2>3. QED
        BY <2>1, <2>2 DEF Tracing
<1>3. PagesBefore(run)' /\ (run'.status = "SUCCEEDED" => AllPages')
    BY DEF DiscoveryInv, PagesBefore, AllPages
<1>4. announced' => Upserted' # {}
    BY DEF DiscoveryInv
<1>5. QED
    BY <1>1, <1>2, <1>3, <1>4, ExecutionMoves

\* A posting newly upserted is counted by the execution that did it, and by no other.
LEMMA CountGrows ==
    ASSUME DiscoveryInv, NEW a \in Attempts, NEW p \in Postings, NEW r \in Executions, Step(a, r),
           execution[a].at = "items", r.upserted = execution[a].upserted + 1,
           p \notin Upserted, Upserted' = Upserted \cup {p}, UNCHANGED run
    PROVE  Counting'
<1>1. PICK own \in [0..MaxAttempts -> SUBSET Postings] : Shares(own)
    BY DEF DiscoveryInv, Counting
<1>2. /\ execution'[a] = r /\ \A b \in Attempts \ {a} : execution'[b] = execution[b]
      /\ execution[a].upserted \in Nat
    BY DEF Step, DiscoveryInv, DiscoveryTypeOK, Executions
<1>3. a \in 0..MaxAttempts /\ a # 0
    BY DiscoveryFacts
<1>4. \A b \in 0..MaxAttempts : own[b] \subseteq Upserted
    BY <1>1 DEF Shares
<1> DEFINE more == [own EXCEPT ![a] = own[a] \cup {p}]
<1>5. /\ more \in [0..MaxAttempts -> SUBSET Postings]
      /\ more[a] = own[a] \cup {p} /\ \A b \in (0..MaxAttempts) \ {a} : more[b] = own[b]
    BY <1>1, <1>3
<1> HIDE DEF more
<1>6. Cardinality(more[a]) = Cardinality(own[a]) + 1 /\ Cardinality(own[a]) \in Nat
    <2>1. p \notin own[a] /\ IsFiniteSet(own[a]) /\ Cardinality(own[a]) \in Nat
        BY <1>3, <1>4, CountsAreFinite DEF Upserted
    <2>2. QED
        BY <1>5, <2>1, FS_AddElement
<1>7. \A b \in 0..MaxAttempts : more[b] \subseteq Upserted'
    BY <1>4, <1>5
<1>8. \A b, d \in 0..MaxAttempts : b # d => more[b] \cap more[d] = {}
    <2>1. \A b, d \in 0..MaxAttempts : b # d => own[b] \cap own[d] = {}
        BY <1>1 DEF Shares
    <2>2. \A b \in 0..MaxAttempts : p \notin own[b]
        BY <1>4
    <2>3. QED
        BY <1>5, <2>1, <2>2
<1>9. run'.upserted <= Cardinality(more[0])
    BY <1>1, <1>3, <1>5, DiscoveryFacts DEF Shares
<1>10. ASSUME NEW b \in Attempts, execution'[b].at = "items"
       PROVE  execution'[b].upserted <= Cardinality(more[b])
    <2>1. CASE b = a
        BY <1>1, <1>2, <1>6, <2>1 DEF Shares
    <2>2. CASE b # a
        BY <1>1, <1>2, <1>5, <1>10, <2>2, DiscoveryFacts DEF Shares
    <2>3. QED
        BY <2>1, <2>2
<1>11. Shares(more)'
    BY <1>7, <1>8, <1>9, <1>10 DEF Shares
<1>12. QED
    BY <1>5, <1>11 DEF Counting

LEMMA PersistStep ==
    ASSUME DiscoveryInv, Rest', NEW a \in Attempts, NEW p \in Postings, PersistItem(a, p)
    PROVE  DiscoveryInv'
<1> DEFINE e == execution[a]
<1>1. /\ e \in Executions /\ e.at = "items" /\ e.upserted \in Nat
      /\ item \in [Postings -> {"none", "UPSERTED", "DUPLICATE", "FAILED"}]
      /\ turnedAway \subseteq Malformed
    BY DEF DiscoveryInv, DiscoveryTypeOK, PersistItem, Executions
<1>2. PICK k \in {"UPSERTED", "DUPLICATE", "FAILED"} :
        /\ item' = [item EXCEPT ![p] = k] /\ (item[p] # "none" => k = item[p])
        /\ Step(a, [e EXCEPT !.verified = FALSE, !.left = e.left \ {p}, !.upserted = Counted(e, p, k)])
    BY <1>1 DEF PersistItem
<1>3. UNCHANGED <<run, turnedAway, announced>>
    BY DEF PersistItem
<1>4. Counted(e, p, k) \in Nat
    BY <1>1 DEF Counted
<1>5. PICK n \in Nat : n = Counted(e, p, k)
    BY <1>4
<1>6. [e EXCEPT !.verified = FALSE, !.left = e.left \ {p}, !.upserted = n] \in Executions
    BY <1>1 DEF Executions
<1>7. PICK r \in Executions : r = [e EXCEPT !.verified = FALSE, !.left = e.left \ {p}, !.upserted = n]
    BY <1>6
<1>8. /\ Step(a, r) /\ r.at = "items" /\ r.row = e.row /\ r.next = e.next
      /\ r.left = e.left \ {p} /\ r.upserted = n
    BY <1>1, <1>2, <1>5, <1>7 DEF Executions
<1>9. /\ item' \in [Postings -> {"none", "UPSERTED", "DUPLICATE", "FAILED"}]
      /\ item'[p] = k /\ \A q \in Postings \ {p} : item'[q] = item[q]
    BY <1>1, <1>2
<1>10. Recorded \subseteq Recorded' /\ p \in Recorded' /\ Upserted \subseteq Upserted'
    BY <1>2, <1>3, <1>9 DEF Recorded, Upserted
<1>11. Counting'
    <2>1. CASE item[p] = "none" /\ k = "UPSERTED"
        <3>1. r.upserted = e.upserted + 1
            BY <1>5, <1>8, <2>1 DEF Counted
        <3>2. p \notin Upserted /\ Upserted' = Upserted \cup {p}
            BY <1>9, <2>1 DEF Upserted
        <3>3. QED
            BY <1>1, <1>3, <1>8, <3>1, <3>2, CountGrows
    <2>2. CASE ~(item[p] = "none" /\ k = "UPSERTED")
        <3>1. r.upserted = e.upserted
            BY <1>1, <1>5, <1>8, <2>2 DEF Counted
        <3>2. QED
            BY <1>1, <1>3, <1>8, <1>10, <3>1, CountsStay
    <2>3. QED
        BY <2>1, <2>2
<1>12. QED
    BY <1>1, <1>3, <1>8, <1>9, <1>10, <1>11, PostingStep

\* A posting the database or the adapter refuses.
LEMMA RefusalStep ==
    ASSUME DiscoveryInv, Rest', NEW a \in Attempts, NEW p \in Postings,
           PersistFails(a, p) \/ RejectItem(a, p)
    PROVE  DiscoveryInv'
<1> DEFINE e == execution[a]
<1>1. /\ e \in Executions /\ e.at = "items" /\ run \in Rows
      /\ item \in [Postings -> {"none", "UPSERTED", "DUPLICATE", "FAILED"}]
      /\ turnedAway \subseteq Malformed
    BY DEF DiscoveryInv, DiscoveryTypeOK, PersistFails, RejectItem
<1>2. UNCHANGED <<run, announced>>
    BY DEF PersistFails, RejectItem
<1>3. CASE \/ RejectItem(a, p)
           \/ PersistFails(a, p) /\ item[p] = "none" /\ Authorized(a)
    <2>1. Step(a, [e EXCEPT !.verified = FALSE, !.left = e.left \ {p}, !.rejected = e.rejected + 1])
        BY <1>3 DEF RejectItem, PersistFails
    <2>2. e.rejected + 1 \in Nat /\ e.left \ {p} \in SUBSET Postings
        BY <1>1 DEF Executions
    <2>3. [e EXCEPT !.verified = FALSE, !.left = e.left \ {p}, !.rejected = e.rejected + 1] \in Executions
        BY <1>1, <2>2 DEF Executions
    <2>4. PICK r \in Executions :
            r = [e EXCEPT !.verified = FALSE, !.left = e.left \ {p}, !.rejected = e.rejected + 1]
        BY <2>3
    <2>5. /\ Step(a, r) /\ r.at = "items" /\ r.row = e.row /\ r.next = e.next
          /\ r.left = e.left \ {p} /\ r.upserted = e.upserted
        BY <1>1, <2>1, <2>4 DEF Executions
    <2>6. /\ item' \in [Postings -> {"none", "UPSERTED", "DUPLICATE", "FAILED"}]
          /\ turnedAway' \subseteq Malformed
          /\ Recorded \subseteq Recorded' /\ p \in Recorded' /\ Upserted \subseteq Upserted'
        <3>1. CASE RejectItem(a, p)
            <4>1. p \in Malformed /\ turnedAway' = turnedAway \cup {p} /\ UNCHANGED item
                BY <3>1 DEF RejectItem
            <4>2. QED
                BY <1>1, <4>1 DEF Recorded, Upserted
        <3>2. CASE PersistFails(a, p) /\ item[p] = "none" /\ Authorized(a)
            <4>1. item' = [item EXCEPT ![p] = "FAILED"] /\ UNCHANGED turnedAway
                BY <3>2 DEF PersistFails, Refused
            <4>2. QED
                BY <1>1, <3>2, <4>1 DEF Recorded, Upserted
        <3>3. QED
            BY <1>3, <3>1, <3>2
    <2>7. Counting'
        BY <1>1, <1>2, <2>5, <2>6, CountsStay
    <2>8. QED
        BY <1>1, <1>2, <2>5, <2>6, <2>7, PostingStep
<1>4. CASE PersistFails(a, p) /\ ~(item[p] = "none" /\ Authorized(a))
    <2>1. PICK at \in {"fail", "result"} :
            Step(a, [e EXCEPT !.verified = FALSE, !.failure = "PERMANENT", !.at = at])
        BY <1>4 DEF PersistFails
    <2>2. [e EXCEPT !.verified = FALSE, !.failure = "PERMANENT", !.at = at] \in Executions
        BY <1>1 DEF Executions, Steps
    <2>3. PICK r \in Executions : r = [e EXCEPT !.verified = FALSE, !.failure = "PERMANENT", !.at = at]
        BY <2>2
    <2>4. Step(a, r) /\ Quiet(e, r)
        BY <1>1, <2>1, <2>3 DEF Executions, Quiet
    <2>5. UNCHANGED <<item, turnedAway>> /\ RowKept
        BY <1>1, <1>2, <1>4 DEF PersistFails, RowKept
    <2>6. QED
        BY <1>2, <2>4, <2>5, QuietStep
<1>5. QED
    BY <1>3, <1>4

\* What a page under way has counted goes over to the row.
LEMMA CountMoves ==
    ASSUME DiscoveryInv, NEW a \in Attempts, NEW r \in Executions, Step(a, r),
           execution[a].at = "items", r.at # "items",
           run'.upserted = run.upserted + execution[a].upserted, UNCHANGED item
    PROVE  Counting' /\ (announced' = announced => (announced' => Upserted' # {}))
<1>1. PICK own \in [0..MaxAttempts -> SUBSET Postings] : Shares(own)
    BY DEF DiscoveryInv, Counting
<1>2. /\ execution'[a] = r /\ \A b \in Attempts \ {a} : execution'[b] = execution[b]
      /\ execution[a].upserted \in Nat /\ run.upserted \in Nat
    BY DEF Step, DiscoveryInv, DiscoveryTypeOK, Executions, Rows
<1>3. a \in 0..MaxAttempts /\ a # 0 /\ 0 \in 0..MaxAttempts /\ Upserted' = Upserted
    BY DiscoveryFacts DEF Upserted
<1>4. /\ \A b \in 0..MaxAttempts : own[b] \subseteq Upserted
      /\ \A b, d \in 0..MaxAttempts : b # d => own[b] \cap own[d] = {}
    BY <1>1 DEF Shares
<1> DEFINE moved == [own EXCEPT ![0] = own[0] \cup own[a], ![a] = {}]
<1>5. /\ moved \in [0..MaxAttempts -> SUBSET Postings]
      /\ moved[0] = own[0] \cup own[a] /\ moved[a] = {}
      /\ \A b \in (0..MaxAttempts) \ {0, a} : moved[b] = own[b]
    BY <1>1, <1>3
<1> HIDE DEF moved
<1>6. run'.upserted <= Cardinality(moved[0])
    <2>1. /\ IsFiniteSet(own[0]) /\ IsFiniteSet(own[a]) /\ own[0] \cap own[a] = {}
          /\ Cardinality(own[0]) \in Nat /\ Cardinality(own[a]) \in Nat
        BY <1>3, <1>4, CountsAreFinite DEF Upserted
    <2>2. Cardinality(moved[0]) = Cardinality(own[0]) + Cardinality(own[a]) - Cardinality(own[0] \cap own[a])
        BY <1>5, <2>1, FS_Union
    <2>3. Cardinality(own[0] \cap own[a]) = 0
        BY <2>1, FS_EmptySet
    <2>4. run.upserted <= Cardinality(own[0]) /\ execution[a].upserted <= Cardinality(own[a])
        BY <1>1 DEF Shares
    <2>5. QED
        BY <1>2, <2>1, <2>2, <2>3, <2>4
<1>7. \A b \in 0..MaxAttempts : moved[b] \subseteq Upserted'
    BY <1>3, <1>4, <1>5
<1>8. \A b, d \in 0..MaxAttempts : b # d => moved[b] \cap moved[d] = {}
    BY <1>3, <1>4, <1>5
<1>9. \A b \in Attempts : execution'[b].at = "items" => execution'[b].upserted <= Cardinality(moved[b])
    BY <1>1, <1>2, <1>5, DiscoveryFacts DEF Shares
<1>10. Shares(moved)'
    BY <1>6, <1>7, <1>8, <1>9 DEF Shares
<1>11. QED
    BY <1>3, <1>5, <1>10 DEF Counting, DiscoveryInv

\* The cursor moves past a page that has been traced as a whole.
LEMMA CommitStep ==
    ASSUME DiscoveryInv, Rest', NEW a \in Attempts, CommitPage(a)
    PROVE  DiscoveryInv'
<1> DEFINE e == execution[a]
           c == Requested(e.row)
           counted == run.fetched + Cardinality(Listing[c])
<1>1. /\ e \in Executions /\ e.row \in Rows /\ run \in Rows /\ c \in 0..LastPage
      /\ e.next \in 0..LastPage /\ LastPage \in Nat /\ Listing[c] \subseteq Postings
    BY RowFacts, DiscoveryAssumption DEF DiscoveryInv, DiscoveryTypeOK, Executions
<1>2. UNCHANGED <<item, turnedAway, announced>> /\ Recorded' = Recorded /\ Upserted' = Upserted
    BY DEF CommitPage, Recorded, Upserted
<1>3. counted \in Nat /\ run.upserted + e.upserted \in Nat /\ run.rejected + e.rejected \in Nat
    BY <1>1, CountsAreFinite DEF Rows, Executions
<1>4. \E r \in Rows :
        /\ run' = r /\ r.cursor = c /\ r.next = e.next /\ r.status = run.status
        /\ r.upserted = run.upserted + e.upserted
        /\ Step(a, [e EXCEPT !.verified = FALSE, !.row = r,
                              !.at = IF e.next # 0 THEN "fetch" ELSE "finish"])
    <2> DEFINE fits == run.retryable /\ e.rejected = 0
               row == [run EXCEPT !.cursor = c, !.next = e.next, !.fetched = counted,
                                  !.upserted = run.upserted + e.upserted,
                                  !.rejected = run.rejected + e.rejected, !.retryable = fits]
    <2>1. fits \in BOOLEAN
        BY <1>1 DEF Rows
    <2>2. /\ run' = row
          /\ Step(a, [e EXCEPT !.verified = FALSE, !.row = row,
                                !.at = IF e.next # 0 THEN "fetch" ELSE "finish"])
        BY DEF CommitPage
    <2> HIDE DEF fits, counted, c
    <2>3. row \in Rows /\ row.cursor = c /\ row.next = e.next /\ row.status = run.status
          /\ row.upserted = run.upserted + e.upserted
        BY <1>1, <1>3, <2>1 DEF Rows
    <2>4. QED
        BY <2>2, <2>3
<1>5. PICK row \in Rows :
        /\ run' = row /\ row.cursor = c /\ row.next = e.next /\ row.status = run.status
        /\ row.upserted = run.upserted + e.upserted
        /\ Step(a, [e EXCEPT !.verified = FALSE, !.row = row,
                              !.at = IF e.next # 0 THEN "fetch" ELSE "finish"])
    BY <1>4
<1>6. PICK at \in {"fetch", "finish"} : at = IF e.next # 0 THEN "fetch" ELSE "finish"
    OBVIOUS
<1>7. [e EXCEPT !.verified = FALSE, !.row = row, !.at = at] \in Executions
    BY <1>1 DEF Executions, Steps
<1>8. PICK r \in Executions : r = [e EXCEPT !.verified = FALSE, !.row = row, !.at = at]
    BY <1>7
<1>9. Step(a, r) /\ r.row = row /\ r.at = at
    BY <1>1, <1>5, <1>6, <1>8 DEF Executions
<1>10. /\ \A d \in 0..LastPage : d <= c => Listing[d] \subseteq Recorded
       /\ e.next = Following(c) \/ e.next \in 1..c
    <2>1. Tracing(e) /\ e.at = "items" /\ e.left = {}
        BY DEF DiscoveryInv, CommitPage
    <2>2. QED
        BY <1>1, <2>1 DEF Tracing, PagesBefore
<1>11. PagesBefore(row)
    <2>1. Requested(row) <= c + 1
        BY <1>1, <1>5, <1>10 DEF Requested, Following
    <2>2. Requested(row) \in 0..LastPage
        BY RowFacts
    <2>3. \A d \in 0..LastPage : d < Requested(row) => d <= c
        BY <1>1, <2>1, <2>2
    <2>4. QED
        BY <1>10, <2>3 DEF PagesBefore
<1>12. at = "finish" => AllPages
    BY <1>1, <1>6, <1>10 DEF AllPages, Following
<1>13. Tracing(r)' /\ PagesBefore(run)'
    BY <1>2, <1>5, <1>6, <1>9, <1>11, <1>12 DEF Tracing, PagesBefore, AllPages
<1>14. run'.status = "SUCCEEDED" => AllPages'
    BY <1>2, <1>5 DEF DiscoveryInv, AllPages
<1>15. Counting' /\ (announced' => Upserted' # {})
    BY <1>2, <1>5, <1>6, <1>9, CountMoves DEF CommitPage
<1>16. run' \in Rows
    BY <1>5
<1>17. QED
    BY <1>2, <1>9, <1>13, <1>14, <1>15, <1>16, ExecutionMoves DEF DiscoveryInv, DiscoveryTypeOK

LEMMA DiscoveryStep == DiscoveryInv /\ [DiscoveryNext]_discoveryVars => DiscoveryInv'
<1>1. SUFFICES ASSUME DiscoveryInv, [DiscoveryNext]_discoveryVars PROVE DiscoveryInv'
    OBVIOUS
<1>2. CASE UNCHANGED discoveryVars
    <2>1. UNCHANGED <<run, item, turnedAway, execution, announced>> /\ Rest' /\ run \in Rows
        BY <1>1, <1>2 DEF discoveryVars, DiscoveryInv, DiscoveryTypeOK, Rest
    <2>2. QED
        BY <1>1, <2>1, StepAside
<1>3. CASE DiscoveryNext
    <2>1. Rest'
        BY <1>1, <1>3, RestKept DEF DiscoveryInv
    <2>2. CASE LeaseExpires \/ CancelReads \/ CancelCommits \/ \E p \in Postings : StoredElsewhere(p)
        BY <1>1, <2>1, <2>2, OthersStep
    <2>3. ASSUME NEW a \in Attempts,
                 \/ StartAttempt(a) \/ WorkerCrashes(a) \/ WorkerAborts(a) \/ LoadRun(a)
                 \/ ClaimRun(a) \/ ReloadRun(a) \/ ReportResult(a)
          PROVE  DiscoveryInv'
        BY <1>1, <2>1, <2>3, WorkerStep
    <2>4. ASSUME NEW a \in Attempts,
                 \/ AssertAuthority(a) \/ FinishRun(a) \/ CommitFails(a) \/ RecordFailure(a)
                 \/ \E f \in {"CANCELLED", "RETRYABLE", "PERMANENT"} : FetchFails(a, f)
          PROVE  DiscoveryInv'
        BY <1>1, <2>1, <2>4, VerdictStep
    <2>5. ASSUME NEW a \in Attempts, \E c \in 0..LastPage : FetchPage(a, c)
          PROVE  DiscoveryInv'
        BY <1>1, <2>1, <2>5, FetchStep
    <2>6. ASSUME NEW a \in Attempts,
                 \E p \in Postings : PersistItem(a, p) \/ PersistFails(a, p) \/ RejectItem(a, p)
          PROVE  DiscoveryInv'
        BY <1>1, <2>1, <2>6, PersistStep, RefusalStep
    <2>7. ASSUME NEW a \in Attempts, CommitPage(a) PROVE DiscoveryInv'
        BY <1>1, <2>1, <2>7, CommitStep
    <2>8. QED
        BY <1>3, <2>2, <2>3, <2>4, <2>5, <2>6, <2>7 DEF DiscoveryNext, ExecutionStep
<1>4. QED
    BY <1>1, <1>2, <1>3

\* The inductive invariant of a discovery run, with the types of its tables: what every
\* execution, the earlier ones too, knows of the pages behind it (job-discovery.ts).
THEOREM DiscoveryInvariant == DiscoverySpec => []DiscoveryInv
    BY DiscoveryInitially, DiscoveryStep, PTL DEF DiscoverySpec

\* The cursor passes no page, and no run succeeds, without a trace of every posting.
THEOREM CursorsPassNothingOver == DiscoverySpec => []NothingPassedOver
<1>1. DiscoveryInv => NothingPassedOver
    BY DEF DiscoveryInv, PagesBefore, AllPages, NothingPassedOver
<1>2. QED
    BY <1>1, DiscoveryInvariant, PTL

\* However executions overlap, no posting is counted twice.
THEOREM CountsAreBacked == DiscoverySpec => []CountersNeverOverstate
<1>1. DiscoveryInv => CountersNeverOverstate
    BY CountingIsEnough DEF DiscoveryInv, DiscoveryTypeOK, CountersNeverOverstate, Upserted
<1>2. QED
    BY <1>1, DiscoveryInvariant, PTL

-----------------------------------------------------------------------------
(* The scheduler of discovery. *)

\* What the operators of the library return.
LEMMA SmallestOf ==
  ASSUME NEW T, T \subseteq Nat, T # {}
  PROVE  Min(T) \in T /\ \A y \in T : Min(T) <= y
<1> DEFINE R == OpToRel(<, Nat)
<1>1. IsWellFoundedOn(R, Nat)
  BY NatLessThanWellFounded
<1>2. PICK x \in T : \A y \in T : ~(<<y, x>> \in R)
  <2> HIDE DEF R
  <2>1. QED
    BY <1>1, WFMin
<1>3. \A y \in T : ~(y < x)
  BY <1>2 DEF OpToRel
<1>4. \E z \in T : \A y \in T : z <= y
  BY <1>3
<1>5. QED
  BY <1>4 DEF Min

LEMMA OneInOrder ==
  ASSUME NEW x
  PROVE  SetToSeq({x}) = <<x>>
<1>1. Cardinality({x}) = 1
  BY FS_Singleton
<1>2. SetToSeq({x}) = CHOOSE f \in [1..1 -> {x}] : IsInjective(f)
  BY <1>1 DEF SetToSeq
<1>3. [i \in 1..1 |-> x] \in [1..1 -> {x}] /\ IsInjective([i \in 1..1 |-> x])
  BY DEF IsInjective
<1>4. SetToSeq({x}) \in [1..1 -> {x}]
  BY <1>2, <1>3
<1>5. QED
  BY <1>4

LEMMA NoneInOrder == SetToSeq({}) = <<>>
<1>1. Cardinality({}) = 0
  BY FS_EmptySet
<1>2. SetToSeq({}) = CHOOSE f \in [1..0 -> {}] : IsInjective(f)
  BY <1>1 DEF SetToSeq
<1>3. <<>> \in [1..0 -> {}] /\ IsInjective(<<>>)
  BY DEF IsInjective
<1>4. SetToSeq({}) \in [1..0 -> {}]
  BY <1>2, <1>3
<1>5. QED
  BY <1>4

Ascending(q) == \A i \in 1 .. Len(q) - 1 : q[i] < q[i + 1]

LEMMA NothingAdded == ASSUME NEW S, NEW q \in Seq(S) PROVE q \o <<>> = q
  OBVIOUS

\* A later slot at the end keeps the order.
LEMMA LaterSlot ==
  ASSUME NEW q \in Seq(1 .. LastInstant), Ascending(q), NEW x \in 1 .. LastInstant,
         q # <<>> => Last(q) < x
  PROVE  /\ q \o <<x>> \in Seq(1 .. LastInstant) /\ Ascending(q \o <<x>>)
         /\ Last(q \o <<x>>) = x /\ q \o <<x>> # <<>>
<1>1. /\ q \o <<x>> \in Seq(1 .. LastInstant) /\ Len(q \o <<x>>) = Len(q) + 1
      /\ \A i \in 1 .. Len(q) : (q \o <<x>>)[i] = q[i]
      /\ (q \o <<x>>)[Len(q) + 1] = x /\ Len(q) \in Nat
  OBVIOUS
<1>2. Last(q \o <<x>>) = x /\ q \o <<x>> # <<>>
  BY <1>1 DEF Last
<1>3. ASSUME NEW i \in 1 .. Len(q \o <<x>>) - 1 PROVE (q \o <<x>>)[i] < (q \o <<x>>)[i + 1]
  <2>1. CASE i = Len(q)
    <3>1. q # <<>> /\ Last(q) = q[i]
      BY <1>1, <2>1 DEF Last
    <3>2. QED
      BY <1>1, <2>1, <3>1
  <2>2. CASE i # Len(q)
    <3>1. i \in 1 .. Len(q) - 1 /\ i \in 1 .. Len(q) /\ i + 1 \in 1 .. Len(q)
      BY <1>1, <2>2
    <3>2. QED
      BY <1>1, <3>1 DEF Ascending
  <2>3. QED
    BY <2>1, <2>2
<1>4. QED
  BY <1>1, <1>2, <1>3 DEF Ascending

-----------------------------------------------------------------------------
TickRows == [running : BOOLEAN, at : 0 .. LastInstant, batch : 0 .. Len(Batches), failed : BOOLEAN]

ProfileRows == [state : {"active", "paused", "deleted"}, schedule : Schedules, next : Nat, accounts : BOOLEAN]

Plans == [profile : Profiles, slot : 1 .. LastInstant, next : Nat]

ClaimRows == [phase : {"none", "claiming", "settled"}, todo : Seq(Profiles), held : SUBSET Profiles,
              plan : SUBSET Plans]

\* A planned slot is still the one its profile waits for, and the next one lies behind it.
Planned(r, at) ==
  /\ r.slot = Slot(r.profile, at)
  /\ r.next = Unset \/ r.slot < r.next
  /\ profile[r.profile].next = Unset => ran[r.profile] = <<>>

\* A claim is about the profiles of its tenant, and has planned only those it holds.
Claiming(c, u, at) ==
  /\ \A i \in 1 .. Len(c.todo) : TenantOf[c.todo[i]] = u
  /\ \A p \in c.held : TenantOf[p] = u
  /\ \A r \in c.plan : r.profile \in c.held /\ Planned(r, at)

Exclusive ==
  \A s, r \in Schedulers, u, v \in Tenants :
    (s # r \/ u # v) => claim[s][u].held \cap claim[r][v].held = {}

\* Only a running tick claims.
Ticking(s) ==
  /\ tick[s].running => tick[s].at # 0
  /\ ~tick[s].running => claim[s] = NoClaims

\* A profile that is due at once begins a new series.
SeriesBegin == \A p \in Profiles : profile[p].state = "active" /\ profile[p].next = Unset => ran[p] = <<>>

ScheduleInv ==
  /\ ScheduleTypeOK /\ claim \in [Schedulers -> [Tenants -> ClaimRows]]
  /\ \A s \in Schedulers : Ticking(s)
  /\ \A s \in Schedulers, u \in Tenants : Claiming(claim[s][u], u, tick[s].at)
  /\ Exclusive /\ SeriesBegin /\ SlotsRunInOrder

LEMMA ScheduleFacts ==
  /\ NoTick \in TickRows /\ ~NoTick.running
  /\ NoClaim \in ClaimRows /\ NoClaim.todo = <<>> /\ NoClaim.held = {} /\ NoClaim.plan = {}
  /\ NoClaim.phase = "none"
  /\ Settled \in ClaimRows /\ Settled.todo = <<>> /\ Settled.held = {} /\ Settled.plan = {}
  /\ NoClaims \in [Tenants -> ClaimRows] /\ \A u \in Tenants : NoClaims[u] = NoClaim
  /\ Len(Batches) \in Nat \ {0} /\ LastInstant \in Nat \ {0}
  /\ MaxEdits \in Nat /\ MaxTickFaults \in Nat
<1>1. /\ Len(Batches) \in Nat \ {0} /\ LastInstant \in Nat \ {0}
      /\ MaxEdits \in Nat /\ MaxTickFaults \in Nat
  BY ScheduleAssumption
<1>2. NoTick \in TickRows /\ ~NoTick.running
  BY <1>1 DEF NoTick, TickRows
<1>3. /\ NoClaim \in ClaimRows /\ NoClaim.todo = <<>> /\ NoClaim.held = {} /\ NoClaim.plan = {}
      /\ NoClaim.phase = "none"
  BY DEF NoClaim, ClaimRows
<1>4. Settled \in ClaimRows /\ Settled.todo = <<>> /\ Settled.held = {} /\ Settled.plan = {}
  BY <1>3 DEF Settled, ClaimRows
<1>5. QED
  BY <1>1, <1>2, <1>3, <1>4 DEF NoClaims

LEMMA EmptyClaim ==
  ASSUME NEW c \in {NoClaim, Settled}, NEW u, NEW at
  PROVE  Claiming(c, u, at)
  BY ScheduleFacts DEF Claiming

LEMMA ScheduleTypes ==
  ASSUME ScheduleInv
  PROVE  /\ profile \in [Profiles -> ProfileRows] /\ ran \in [Profiles -> Seq(1 .. LastInstant)]
         /\ tick \in [Schedulers -> TickRows] /\ claim \in [Schedulers -> [Tenants -> ClaimRows]]
         /\ instant \in 1 .. LastInstant /\ edits \in 0 .. MaxEdits /\ tickFaults \in 0 .. MaxTickFaults
  BY DEF ScheduleInv, ScheduleTypeOK, ProfileRows, TickRows

LEMMA TypesAreOK ==
  ASSUME profile' \in [Profiles -> ProfileRows], ran' \in [Profiles -> Seq(1 .. LastInstant)],
         tick' \in [Schedulers -> TickRows], claim' \in [Schedulers -> [Tenants -> ClaimRows]],
         instant' \in 1 .. LastInstant, edits' \in 0 .. MaxEdits, tickFaults' \in 0 .. MaxTickFaults
  PROVE  ScheduleTypeOK'
  BY DEF ScheduleTypeOK, ProfileRows, TickRows, ClaimRows

LEMMA ScheduleInitially == ScheduleInit => ScheduleInv
<1>1. SUFFICES ASSUME ScheduleInit PROVE ScheduleInv
  OBVIOUS
<1>2. /\ profile \in [Profiles -> ProfileRows] /\ \A p \in Profiles : profile[p].next = Unset
  BY <1>1 DEF ScheduleInit, ProfileRows, Unset
<1>3. /\ \A p \in Profiles : ran[p] = <<>>
      /\ ran \in [Profiles -> Seq(1 .. LastInstant)]
  BY <1>1 DEF ScheduleInit
<1>4. /\ tick \in [Schedulers -> TickRows] /\ \A s \in Schedulers : tick[s] = NoTick
      /\ claim \in [Schedulers -> [Tenants -> ClaimRows]] /\ \A s \in Schedulers : claim[s] = NoClaims
  BY <1>1, ScheduleFacts DEF ScheduleInit
<1>5. \A s \in Schedulers, u \in Tenants : claim[s][u] = NoClaim
  BY <1>4, ScheduleFacts
<1>6. ScheduleTypeOK
  <2>1. instant \in 1 .. LastInstant /\ edits \in 0 .. MaxEdits /\ tickFaults \in 0 .. MaxTickFaults
    BY <1>1, ScheduleFacts DEF ScheduleInit
  <2>2. QED
    BY <1>2, <1>3, <1>4, <2>1 DEF ScheduleTypeOK, ProfileRows, TickRows, ClaimRows
<1>7. \A s \in Schedulers, u \in Tenants : Claiming(claim[s][u], u, tick[s].at)
  BY <1>5, EmptyClaim
<1>8. Exclusive
  BY <1>5, ScheduleFacts DEF Exclusive
<1>9. SlotsRunInOrder /\ SeriesBegin
  BY <1>3 DEF SlotsRunInOrder, SeriesBegin
<1>10. \A s \in Schedulers : Ticking(s)
  BY <1>4, ScheduleFacts DEF Ticking
<1>11. QED
  BY <1>4, <1>6, <1>7, <1>8, <1>9, <1>10 DEF ScheduleInv

\* One claim of a running tick changes; the profiles do not.
LEMMA ClaimChanges ==
  ASSUME ScheduleInv, NEW s \in Schedulers, NEW u \in Tenants, NEW c \in ClaimRows, SetClaim(s, u, c),
         tick[s].running, Claiming(c, u, tick[s].at),
         \A r \in Schedulers \ {s}, v \in Tenants : c.held \cap claim[r][v].held = {},
         UNCHANGED <<profile, ran, instant, edits>>, tickFaults' \in 0 .. MaxTickFaults,
         tick' \in [Schedulers -> TickRows],
         \A r \in Schedulers : tick'[r].at = tick[r].at /\ tick'[r].running = tick[r].running
  PROVE  ScheduleInv'
<1>1. /\ claim' \in [Schedulers -> [Tenants -> ClaimRows]] /\ claim'[s][u] = c
      /\ \A r \in Schedulers, v \in Tenants : r # s \/ v # u => claim'[r][v] = claim[r][v]
      /\ \A r \in Schedulers \ {s} : claim'[r] = claim[r]
  BY ScheduleTypes DEF SetClaim
<1>2. ScheduleTypeOK'
  BY <1>1, ScheduleTypes, TypesAreOK
<1>3. \A r \in Schedulers : Ticking(r)'
  BY <1>1 DEF ScheduleInv, Ticking
<1>4. ASSUME NEW r \in Schedulers, NEW v \in Tenants
      PROVE  Claiming(claim[r][v], v, tick[r].at)'
  <2>1. Claiming(claim[r][v], v, tick[r].at)
    BY DEF ScheduleInv
  <2>2. QED
    BY <1>1, <2>1 DEF Claiming, Planned, Slot
<1>5. Exclusive'
  <2>1. ASSUME NEW v \in Tenants, v # u PROVE c.held \cap claim[s][v].held = {}
    BY <2>1 DEF ScheduleInv, Claiming
  <2>2. ASSUME NEW q \in Schedulers, NEW r \in Schedulers, NEW w \in Tenants, NEW v \in Tenants,
               q # r \/ w # v
        PROVE  claim'[q][w].held \cap claim'[r][v].held = {}
    <3>1. claim[q][w].held \cap claim[r][v].held = {}
      BY <2>2 DEF ScheduleInv, Exclusive
    <3>2. CASE q = s /\ w = u
      BY <1>1, <2>1, <2>2, <3>2
    <3>3. CASE r = s /\ v = u
      BY <1>1, <2>1, <2>2, <3>3
    <3>4. CASE ~(q = s /\ w = u) /\ ~(r = s /\ v = u)
      BY <1>1, <3>1, <3>4
    <3>5. QED
      BY <3>2, <3>3, <3>4
  <2>3. QED
    BY <2>2 DEF Exclusive
<1>6. SeriesBegin' /\ SlotsRunInOrder'
  BY DEF ScheduleInv, SeriesBegin, SlotsRunInOrder
<1>7. QED
  BY <1>1, <1>2, <1>3, <1>4, <1>5, <1>6 DEF ScheduleInv

LEMMA ClaimingRuns ==
  ASSUME ScheduleInv, NEW s \in Schedulers, NEW u \in Tenants, claim[s][u].phase = "claiming" \/ claim[s][u].todo # <<>>
  PROVE  tick[s].running /\ tick[s].at \in 1 .. LastInstant
<1>1. tick[s].running
  BY ScheduleFacts DEF ScheduleInv, Ticking
<1>2. tick[s].at # 0 /\ tick[s].at \in 0 .. LastInstant
  BY <1>1, ScheduleTypes DEF ScheduleInv, Ticking, TickRows
<1>3. QED
  BY <1>1, <1>2, ScheduleFacts

\* A claim that ends in an error.
LEMMA FailsKeeps ==
  ASSUME ScheduleInv, NEW s \in Schedulers, NEW u \in Tenants, Fails(s, u),
         claim[s][u].phase = "claiming" \/ claim[s][u].todo # <<>>,
         UNCHANGED <<profile, ran, instant, edits>>, tickFaults' \in 0 .. MaxTickFaults
  PROVE  ScheduleInv'
<1>1. tick[s].running
  BY ClaimingRuns
<1>2. /\ tick' \in [Schedulers -> TickRows]
      /\ \A r \in Schedulers : tick'[r].at = tick[r].at /\ tick'[r].running = tick[r].running
  <2>1. tick[s] \in TickRows
    BY ScheduleTypes
  <2>2. [tick[s] EXCEPT !.failed = TRUE] \in TickRows
    BY <2>1 DEF TickRows
  <2>3. PICK row \in TickRows : row = [tick[s] EXCEPT !.failed = TRUE]
    BY <2>2
  <2>4. row.at = tick[s].at /\ row.running = tick[s].running /\ tick' = [tick EXCEPT ![s] = row]
    BY <2>1, <2>3 DEF TickRows, Fails
  <2>5. QED
    BY <2>4, ScheduleTypes
<1>3. SetClaim(s, u, Settled)
  BY DEF Fails
<1>4. Claiming(Settled, u, tick[s].at) /\ Settled \in ClaimRows /\ Settled.held = {}
  BY EmptyClaim, ScheduleFacts
<1>5. QED
  BY <1>1, <1>2, <1>3, <1>4, ClaimChanges

LEMMA WindowFacts ==
  ASSUME NEW u, NEW at, NEW w \in Windows(u, at)
  PROVE  w \in Seq(Profiles) /\ \A i \in 1 .. Len(w) : TenantOf[w[i]] = u
<1> DEFINE due == {p \in Profiles : TenantOf[p] = u /\ IsDue(p, at)}
           n == Min({Cardinality(due), WindowSize})
<1>1. w \in [1 .. n -> due]
  BY DEF Windows
<1>2. Cardinality(due) \in Nat /\ WindowSize \in Nat
  <2>1. due \subseteq Profiles /\ IsFiniteSet(Profiles) /\ WindowSize \in Nat
    BY ScheduleAssumption
  <2> HIDE DEF due
  <2>2. QED
    BY <2>1, FS_Subset, FS_CardinalityType
<1>3. n \in Nat
  <2> HIDE DEF due
  <2>1. {Cardinality(due), WindowSize} \subseteq Nat /\ {Cardinality(due), WindowSize} # {}
    BY <1>2
  <2>2. QED
    BY <2>1, SmallestOf
<1>4. \A p \in due : p \in Profiles /\ TenantOf[p] = u
  OBVIOUS
<1> HIDE DEF due, n
<1>5. w \in Seq(Profiles) /\ Len(w) = n
  BY <1>1, <1>3, <1>4
<1>6. QED
  BY <1>1, <1>4, <1>5

LEMMA ReadDueKeeps ==
  ASSUME ScheduleInv, NEW s \in Schedulers, NEW u \in Tenants, ReadDue(s, u)
  PROVE  ScheduleInv'
<1>1. PICK w \in Windows(u, tick[s].at) :
        SetClaim(s, u, [NoClaim EXCEPT !.phase = "claiming", !.todo = w])
  BY DEF ReadDue
<1>2. w \in Seq(Profiles) /\ \A i \in 1 .. Len(w) : TenantOf[w[i]] = u
  BY WindowFacts
<1>3. [NoClaim EXCEPT !.phase = "claiming", !.todo = w] \in ClaimRows
  BY <1>2, ScheduleFacts DEF ClaimRows
<1>4. PICK c \in ClaimRows : c = [NoClaim EXCEPT !.phase = "claiming", !.todo = w]
  BY <1>3
<1>5. c.todo = w /\ c.held = {} /\ c.plan = {}
  BY <1>4, ScheduleFacts DEF NoClaim
<1>6. Claiming(c, u, tick[s].at)
  BY <1>2, <1>5 DEF Claiming
<1>7. /\ tick[s].running /\ UNCHANGED <<profile, ran, tick, instant, edits, tickFaults>>
      /\ tick \in [Schedulers -> TickRows] /\ tickFaults \in 0 .. MaxTickFaults
  BY ScheduleTypes DEF ReadDue
<1>8. QED
  BY <1>1, <1>4, <1>5, <1>6, <1>7, ClaimChanges

\* What a planned slot is.
LEMMA PlanFacts ==
  ASSUME ScheduleInv, NEW p \in Profiles, NEW at \in 1 .. LastInstant, IsDue(p, at),
         Plannable(profile[p].schedule, Slot(p, at))
  PROVE  /\ Slot(p, at) \in 1 .. LastInstant
         /\ NextSlot(profile[p].schedule, Slot(p, at)) \in Nat
         /\ \/ NextSlot(profile[p].schedule, Slot(p, at)) = Unset
            \/ Slot(p, at) < NextSlot(profile[p].schedule, Slot(p, at))
         /\ profile[p].next = Unset => ran[p] = <<>>
<1>1. /\ profile[p].next \in Nat /\ profile[p].schedule \in Schedules
      /\ profile[p].next <= at /\ profile[p].state = "active"
  BY ScheduleTypes DEF ProfileRows, IsDue
<1>2. Slot(p, at) \in 1 .. LastInstant
  BY <1>1, ScheduleFacts DEF Slot, Unset
<1>3. profile[p].next = Unset => ran[p] = <<>>
  BY <1>1 DEF ScheduleInv, SeriesBegin
<1>4. CASE profile[p].schedule = "ONCE"
  BY <1>2, <1>3, <1>4 DEF NextSlot, Unset
<1>5. CASE profile[p].schedule # "ONCE"
  <2> DEFINE slot == Slot(p, at)
             T == Ahead(profile[p].schedule, slot)
  <2>1. T \subseteq Nat /\ \A t \in T : slot < t
    BY <1>1, <1>2, <1>5, ScheduleAssumption DEF Schedules, Ahead
  <2>2. T # {}
    BY <1>5 DEF Plannable
  <2>3. NextSlot(profile[p].schedule, slot) = Min(T)
    BY <1>5 DEF NextSlot
  <2> HIDE DEF T, slot
  <2>4. Min(T) \in T
    BY <2>1, <2>2, SmallestOf
  <2>5. Min(T) \in Nat /\ slot < Min(T)
    BY <2>1, <2>4
  <2>6. NextSlot(profile[p].schedule, slot) \in Nat /\ slot < NextSlot(profile[p].schedule, slot)
    BY <2>3, <2>5
  <2> USE DEF slot
  <2>7. QED
    BY <1>2, <1>3, <2>6
<1>6. QED
  BY <1>4, <1>5

LEMMA ClaimNextKeeps ==
  ASSUME ScheduleInv, NEW s \in Schedulers, NEW u \in Tenants, ClaimNext(s, u)
  PROVE  ScheduleInv'
<1> DEFINE c == claim[s][u]
           p == Head(c.todo)
           at == tick[s].at
           slot == Slot(p, at)
           got == [c EXCEPT !.todo = Tail(c.todo), !.held = c.held \cup {p}]
<1>1. /\ c \in ClaimRows /\ Claiming(c, u, at) /\ c.phase = "claiming" /\ c.todo # <<>>
      /\ c.todo \in Seq(Profiles) /\ c.held \subseteq Profiles /\ c.plan \subseteq Plans
  BY ScheduleTypes DEF ScheduleInv, ClaimNext, ClaimRows
<1>2. tick[s].running /\ at \in 1 .. LastInstant
  BY <1>1, ClaimingRuns
<1>3. /\ p \in Profiles /\ TenantOf[p] = u /\ Tail(c.todo) \in Seq(Profiles)
      /\ \A i \in 1 .. Len(Tail(c.todo)) : TenantOf[Tail(c.todo)[i]] = u
  BY <1>1 DEF Claiming
<1>4. /\ UNCHANGED <<profile, ran, instant, edits, tickFaults>>
      /\ \A r \in Schedulers \ {s}, v \in Tenants : p \notin claim[r][v].held
      /\ \A r \in Schedulers \ {s}, v \in Tenants : c.held \cap claim[r][v].held = {}
      /\ tick \in [Schedulers -> TickRows] /\ tickFaults \in 0 .. MaxTickFaults
  BY ScheduleTypes DEF ClaimNext, Reachable, ScheduleInv, Exclusive
<1>5. ASSUME NEW plan, plan \subseteq Plans, UNCHANGED tick,
             SetClaim(s, u, [c EXCEPT !.todo = Tail(c.todo), !.held = c.held \cup {p}, !.plan = plan]),
             \A r \in plan : r.profile \in c.held \cup {p} /\ Planned(r, at)
      PROVE  ScheduleInv'
  <2>1. [c EXCEPT !.todo = Tail(c.todo), !.held = c.held \cup {p}, !.plan = plan] \in ClaimRows
    BY <1>1, <1>3, <1>5 DEF ClaimRows
  <2>2. PICK d \in ClaimRows :
          d = [c EXCEPT !.todo = Tail(c.todo), !.held = c.held \cup {p}, !.plan = plan]
    BY <2>1
  <2>3. d.todo = Tail(c.todo) /\ d.held = c.held \cup {p} /\ d.plan = plan
    BY <1>1, <2>2 DEF ClaimRows
  <2>4. Claiming(d, u, at)
    <3>1. \A i \in 1 .. Len(d.todo) : TenantOf[d.todo[i]] = u
      BY <1>3, <2>3
    <3>2. \A q \in d.held : TenantOf[q] = u
      BY <1>1, <1>3, <2>3 DEF Claiming
    <3>3. \A r \in d.plan : r.profile \in d.held /\ Planned(r, at)
      BY <1>5, <2>3
    <3>4. QED
      BY <3>1, <3>2, <3>3 DEF Claiming
  <2>5. \A r \in Schedulers \ {s}, v \in Tenants : d.held \cap claim[r][v].held = {}
    BY <1>4, <2>3
  <2>6. SetClaim(s, u, d)
    BY <1>5, <2>2
  <2> HIDE DEF c, p, got, slot
  <2>7. QED
    BY <1>2, <1>4, <1>5, <2>4, <2>5, <2>6, ClaimChanges
<1>6. \A r \in c.plan : r.profile \in c.held /\ Planned(r, at)
  BY <1>1 DEF Claiming
<1>7. CASE SetClaim(s, u, got) /\ UNCHANGED tick
  <2>1. got = [c EXCEPT !.todo = Tail(c.todo), !.held = c.held \cup {p}, !.plan = c.plan]
    BY <1>1 DEF ClaimRows
  <2>2. SetClaim(s, u, [c EXCEPT !.todo = Tail(c.todo), !.held = c.held \cup {p}, !.plan = c.plan])
    BY <1>7, <2>1
  <2> HIDE DEF c, p, got, slot, at
  <2>3. QED
    BY <1>1, <1>5, <1>6, <1>7, <2>2
<1>8. CASE /\ IsDue(p, at) /\ Plannable(profile[p].schedule, slot) /\ UNCHANGED tick
           /\ SetClaim(s, u, [got EXCEPT !.plan =
                got.plan \cup {[profile |-> p, slot |-> slot, next |-> NextSlot(profile[p].schedule, slot)]}])
  <2> DEFINE next == NextSlot(profile[p].schedule, slot)
  <2>1. /\ slot \in 1 .. LastInstant /\ next \in Nat /\ (next = Unset \/ slot < next)
        /\ profile[p].next = Unset => ran[p] = <<>>
    BY <1>2, <1>3, <1>8, PlanFacts
  <2>2. got.plan = c.plan
    BY <1>1 DEF ClaimRows
  <2>3. [got EXCEPT !.plan = got.plan \cup {[profile |-> p, slot |-> slot, next |-> next]}]
          = [c EXCEPT !.todo = Tail(c.todo), !.held = c.held \cup {p},
                      !.plan = c.plan \cup {[profile |-> p, slot |-> slot, next |-> next]}]
    BY <1>1, <2>2 DEF ClaimRows
  <2>4. SetClaim(s, u, [c EXCEPT !.todo = Tail(c.todo), !.held = c.held \cup {p},
                           !.plan = c.plan \cup {[profile |-> p, slot |-> slot, next |-> next]}])
    BY <1>8, <2>3
  <2>5. PICK r \in Plans : r = [profile |-> p, slot |-> slot, next |-> next]
    BY <1>3, <2>1 DEF Plans
  <2>6. Planned(r, at) /\ r.profile = p
    BY <2>1, <2>5 DEF Planned
  <2>7. /\ c.plan \cup {r} \subseteq Plans
        /\ \A q \in c.plan \cup {r} : q.profile \in c.held \cup {p} /\ Planned(q, at)
    BY <1>1, <1>6, <2>6
  <2>8. SetClaim(s, u, [c EXCEPT !.todo = Tail(c.todo), !.held = c.held \cup {p}, !.plan = c.plan \cup {r}])
    BY <2>4, <2>5
  <2> HIDE DEF c, p, got, slot, at, next
  <2>9. QED
    BY <1>5, <1>8, <2>7, <2>8
<1>9. CASE Fails(s, u)
  BY <1>1, <1>4, <1>9, FailsKeeps
<1>10. QED
  BY <1>7, <1>8, <1>9 DEF ClaimNext

LEMMA BreaksKeep ==
  ASSUME ScheduleInv, NEW s \in Schedulers, NEW u \in Tenants, LosesDeadlock(s, u) \/ ClaimBreaks(s, u)
  PROVE  ScheduleInv'
<1>1. /\ Fails(s, u) /\ UNCHANGED <<profile, ran, instant, edits>>
      /\ claim[s][u].phase = "claiming" \/ claim[s][u].todo # <<>>
  BY DEF LosesDeadlock, ClaimBreaks
<1>2. tickFaults' \in 0 .. MaxTickFaults
  <2>1. \/ tickFaults' = tickFaults
        \/ tickFaults < MaxTickFaults /\ tickFaults' = tickFaults + 1
    BY DEF LosesDeadlock, ClaimBreaks
  <2>2. QED
    BY <2>1, ScheduleTypes, ScheduleFacts
<1>3. QED
  BY <1>1, <1>2, FailsKeeps

PlannedFor(s, u, p) == {r \in claim[s][u].plan : r.profile = p}
Grown(s, u, p)      == ran[p] \o SetToSeq({r.slot : r \in PlannedFor(s, u, p)})

\* The slots of the profiles at a commit: one more for those planned, at the end.
LEMMA SlotsGrow ==
  ASSUME ScheduleInv, NEW s \in Schedulers, NEW u \in Tenants,
         claim[s][u].phase = "claiming", NEW p \in Profiles
  PROVE  /\ Grown(s, u, p) \in Seq(1 .. LastInstant) /\ Ascending(Grown(s, u, p))
         /\ PlannedFor(s, u, p) = {} => Grown(s, u, p) = ran[p]
         /\ \A r \in PlannedFor(s, u, p) : Grown(s, u, p) # <<>> /\ Last(Grown(s, u, p)) = r.slot
<1> DEFINE Of == PlannedFor(s, u, p)
           q  == Grown(s, u, p)
<1>1. /\ ran[p] \in Seq(1 .. LastInstant) /\ Ascending(ran[p])
      /\ profile[p].next # Unset /\ ran[p] # <<>> => Last(ran[p]) < profile[p].next
  BY ScheduleTypes DEF ScheduleInv, SlotsRunInOrder, Ascending
<1>2. /\ claim[s][u].plan \subseteq Plans
      /\ \A r \in claim[s][u].plan : Planned(r, tick[s].at)
  BY ScheduleTypes DEF ScheduleInv, Claiming, ClaimRows
<1>3. CASE Of = {}
  <2>1. {r.slot : r \in Of} = {}
    BY <1>3
  <2>2. q = ran[p] \o <<>>
    BY <2>1, NoneInOrder DEF Grown
  <2>3. q = ran[p]
    BY <1>1, <2>2, NothingAdded
  <2>4. QED
    BY <1>1, <1>3, <2>3
<1>4. CASE Of # {}
  <2> DEFINE slot == Slot(p, tick[s].at)
  <2>1. \A r \in Of : r.slot = slot /\ r \in Plans /\ Planned(r, tick[s].at) /\ r.profile = p
    BY <1>2 DEF Planned, PlannedFor
  <2>2. PICK r \in Of : TRUE
    BY <1>4
  <2>3. {t.slot : t \in Of} = {slot} /\ slot \in 1 .. LastInstant
    BY <2>1, <2>2 DEF Plans
  <2>4. q = ran[p] \o <<slot>>
    BY <2>3, OneInOrder DEF Grown
  <2>5. ran[p] # <<>> => Last(ran[p]) < slot
    BY <1>1, <2>1, <2>2 DEF Planned, Slot
  <2> HIDE DEF slot, Of, q
  <2>6. q \in Seq(1 .. LastInstant) /\ Ascending(q) /\ q # <<>> /\ Last(q) = slot
    BY <1>1, <2>3, <2>4, <2>5, LaterSlot
  <2>7. QED
    BY <1>4, <2>1, <2>6 DEF Of, q
<1>5. QED
  BY <1>3, <1>4

\* What a commit settles, before anything is written.
LEMMA CommitFacts ==
  ASSUME ScheduleInv, NEW s \in Schedulers, NEW u \in Tenants, claim[s][u].phase = "claiming"
  PROVE  /\ tick[s].running /\ claim[s][u].plan \subseteq Plans
         /\ \A r \in claim[s][u].plan : r.profile \in claim[s][u].held /\ Planned(r, tick[s].at)
<1>1. claim[s][u] \in ClaimRows /\ Claiming(claim[s][u], u, tick[s].at)
  BY ScheduleTypes DEF ScheduleInv
<1>2. tick[s].running
  BY ClaimingRuns
<1>3. QED
  BY <1>1, <1>2 DEF Claiming, ClaimRows

LEMMA CommitKeeps ==
  ASSUME ScheduleInv, NEW s \in Schedulers, NEW u \in Tenants, Commit(s, u)
  PROVE  ScheduleInv'
<1> DEFINE plan == claim[s][u].plan
           Of(p) == {r \in plan : r.profile = p}
<1>1. /\ tick[s].running /\ plan \subseteq Plans /\ claim[s][u].phase = "claiming"
      /\ \A r \in plan : r.profile \in claim[s][u].held /\ Planned(r, tick[s].at)
      /\ UNCHANGED <<instant, edits, tickFaults>>
  <2>1. claim[s][u].phase = "claiming" /\ UNCHANGED <<instant, edits, tickFaults>>
    BY DEF Commit
  <2>2. QED
    BY <2>1, CommitFacts
<1>2. CASE Fails(s, u) /\ UNCHANGED <<profile, ran>>
  BY <1>1, <1>2, FailsKeeps, ScheduleTypes
<1>3. CASE /\ profile' = [p \in Profiles |-> IF Of(p) = {} THEN profile[p] ELSE
                 LET r == CHOOSE r \in Of(p) : TRUE
                 IN  [profile[p] EXCEPT !.next = r.next,
                        !.state = IF r.next = Unset THEN "paused" ELSE "active"]]
           /\ ran' = [p \in Profiles |-> ran[p] \o SetToSeq({r.slot : r \in Of(p)})]
           /\ SetClaim(s, u, Settled) /\ UNCHANGED tick
  <2>1. /\ claim' \in [Schedulers -> [Tenants -> ClaimRows]] /\ claim'[s][u] = Settled
        /\ \A r \in Schedulers, v \in Tenants : r # s \/ v # u => claim'[r][v] = claim[r][v]
        /\ \A r \in Schedulers \ {s} : claim'[r] = claim[r]
    BY <1>3, ScheduleTypes, ScheduleFacts DEF SetClaim
  <2>2. ASSUME NEW p \in Profiles
        PROVE  /\ ran'[p] \in Seq(1 .. LastInstant) /\ Ascending(ran'[p])
               /\ Of(p) = {} => ran'[p] = ran[p]
               /\ \A r \in Of(p) : ran'[p] # <<>> /\ Last(ran'[p]) = r.slot
    <3>1. Of(p) = PlannedFor(s, u, p)
      BY DEF PlannedFor
    <3>2. ran'[p] = Grown(s, u, p)
      BY <1>3, <3>1 DEF Grown
    <3>3. claim[s][u].phase = "claiming"
      BY <1>1
    <3> HIDE DEF Of
    <3>4. QED
      BY <3>1, <3>2, <3>3, SlotsGrow
  <2>3. ASSUME NEW p \in Profiles
        PROVE  /\ profile'[p] \in ProfileRows
               /\ Of(p) = {} => profile'[p] = profile[p]
               /\ Of(p) # {} => \E r \in Of(p) :
                    /\ profile'[p].next = r.next
                    /\ r.next = Unset => profile'[p].state = "paused"
    <3>1. profile[p] \in ProfileRows
      BY ScheduleTypes
    <3>2. CASE Of(p) = {}
      BY <1>3, <3>1, <3>2
    <3>3. CASE Of(p) # {}
      <4>1. PICK r \in Of(p) : r = CHOOSE x \in Of(p) : TRUE
        BY <3>3
      <4>2. PICK state \in {"paused", "active"} : state = IF r.next = Unset THEN "paused" ELSE "active"
        OBVIOUS
      <4>3. profile'[p] = [profile[p] EXCEPT !.next = r.next, !.state = state]
        BY <1>3, <3>3, <4>1, <4>2
      <4>4. r.next \in Nat
        BY <1>1, <4>1 DEF Plans
      <4>5. /\ [profile[p] EXCEPT !.next = r.next, !.state = state] \in ProfileRows
            /\ [profile[p] EXCEPT !.next = r.next, !.state = state].next = r.next
            /\ [profile[p] EXCEPT !.next = r.next, !.state = state].state = state
        BY <3>1, <4>4 DEF ProfileRows
      <4>6. QED
        BY <3>3, <4>1, <4>2, <4>3, <4>5
    <3>4. QED
      BY <3>2, <3>3
  <2>4. ScheduleTypeOK'
    <3>1. profile' \in [Profiles -> ProfileRows]
      BY <1>3, <2>3
    <3>2. ran' \in [Profiles -> Seq(1 .. LastInstant)]
      BY <1>3, <2>2
    <3>3. QED
      BY <1>1, <1>3, <2>1, <3>1, <3>2, ScheduleTypes, TypesAreOK
  <2>5. \A r \in Schedulers : Ticking(r)'
    BY <1>1, <1>3, <2>1 DEF ScheduleInv, Ticking
  <2>6. ASSUME NEW r \in Schedulers, NEW v \in Tenants
        PROVE  Claiming(claim[r][v], v, tick[r].at)'
    <3>1. CASE r = s /\ v = u
      <4>1. Claiming(Settled, v, tick[r].at)'
        BY ScheduleFacts DEF Claiming
      <4>2. QED
        BY <2>1, <3>1, <4>1
    <3>2. CASE ~(r = s /\ v = u)
      <4>1. Claiming(claim[r][v], v, tick[r].at) /\ claim[r][v].held \cap claim[s][u].held = {}
        BY <3>2 DEF ScheduleInv, Exclusive
      <4>2. claim[r][v].plan \subseteq Plans
        BY ScheduleTypes DEF ClaimRows
      <4>3. \A x \in claim[r][v].plan : Of(x.profile) = {}
        BY <1>1, <4>1 DEF Claiming
      <4>4. \A x \in claim[r][v].plan :
              /\ x.profile \in Profiles
              /\ profile'[x.profile] = profile[x.profile] /\ ran'[x.profile] = ran[x.profile]
        BY <2>2, <2>3, <4>2, <4>3 DEF Plans
      <4>5. \A x \in claim[r][v].plan : Planned(x, tick[r].at)'
        BY <1>3, <4>1, <4>4 DEF Claiming, Planned, Slot
      <4>6. QED
        BY <2>1, <3>2, <4>1, <4>5 DEF Claiming
    <3>3. QED
      BY <3>1, <3>2
  <2>7. Exclusive'
    BY <2>1, ScheduleFacts DEF ScheduleInv, Exclusive
  <2>8. SeriesBegin'
    <3>1. SUFFICES ASSUME NEW p \in Profiles, profile'[p].state = "active", profile'[p].next = Unset
                   PROVE  ran'[p] = <<>>
      BY DEF SeriesBegin
    <3>2. Of(p) = {}
      BY <2>3, <3>1
    <3>3. QED
      BY <2>2, <2>3, <3>1, <3>2 DEF ScheduleInv, SeriesBegin
  <2>9. SlotsRunInOrder'
    <3>1. ASSUME NEW p \in Profiles, ran'[p] # <<>>, profile'[p].next # Unset
          PROVE  Last(ran'[p]) < profile'[p].next
      <4>1. CASE Of(p) = {}
        BY <2>2, <2>3, <3>1, <4>1 DEF ScheduleInv, SlotsRunInOrder
      <4>2. CASE Of(p) # {}
        <5>1. PICK r \in Of(p) : profile'[p].next = r.next
          BY <2>3, <4>2
        <5>2. r.slot < r.next
          BY <1>1, <3>1, <5>1 DEF Planned
        <5>3. QED
          BY <2>2, <5>1, <5>2
      <4>3. QED
        BY <4>1, <4>2
    <3>2. QED
      BY <2>2, <3>1 DEF SlotsRunInOrder, Ascending
  <2>10. QED
    BY <2>1, <2>4, <2>5, <2>6, <2>7, <2>8, <2>9 DEF ScheduleInv
<1>4. QED
  BY <1>2, <1>3 DEF Commit

\* A tick begins, goes on to its next batch, or is over: it holds no claims.
LEMMA TicksKeep ==
  ASSUME ScheduleInv, NEW s \in Schedulers, TickStarts(s) \/ BatchEnds(s) \/ SchedulerCrashes(s)
  PROVE  ScheduleInv'
<1>1. UNCHANGED <<profile, ran, instant, edits>>
  BY DEF TickStarts, BatchEnds, SchedulerCrashes
<1>2. tickFaults' \in 0 .. MaxTickFaults
  <2>1. \/ tickFaults' = tickFaults
        \/ tickFaults < MaxTickFaults /\ tickFaults' = tickFaults + 1
    BY DEF TickStarts, BatchEnds, SchedulerCrashes
  <2>2. QED
    BY <2>1, ScheduleTypes, ScheduleFacts
<1>3. claim' = [claim EXCEPT ![s] = NoClaims]
  <2>1. CASE TickStarts(s)
    <3>1. claim[s] = NoClaims
      BY <2>1 DEF TickStarts, ScheduleInv, Ticking
    <3>2. QED
      BY <2>1, <3>1, ScheduleTypes DEF TickStarts
  <2>2. QED
    BY <2>1 DEF BatchEnds, SchedulerCrashes
<1>4. \E row \in TickRows : tick' = [tick EXCEPT ![s] = row] /\ (row.running => row.at # 0)
  <2>1. tick[s] \in TickRows /\ instant \in 0 .. LastInstant /\ instant # 0
    BY ScheduleTypes, ScheduleFacts
  <2>2. CASE TickStarts(s)
    <3>1. 1 \in 0 .. Len(Batches)
      BY ScheduleFacts
    <3>2. [running |-> TRUE, at |-> instant, batch |-> 1, failed |-> FALSE] \in TickRows
      BY <2>1, <3>1 DEF TickRows
    <3>3. tick' = [tick EXCEPT ![s] = [running |-> TRUE, at |-> instant, batch |-> 1, failed |-> FALSE]]
      BY <2>2 DEF TickStarts
    <3>4. PICK row \in TickRows : row = [running |-> TRUE, at |-> instant, batch |-> 1, failed |-> FALSE]
      BY <3>2
    <3>5. tick' = [tick EXCEPT ![s] = row] /\ row.at # 0
      BY <2>1, <3>3, <3>4
    <3>6. QED
      BY <3>5
  <2>3. CASE SchedulerCrashes(s)
    BY <2>3, ScheduleFacts DEF SchedulerCrashes
  <2>4. CASE BatchEnds(s)
    <3>1. CASE tick' = [tick EXCEPT ![s] = NoTick]
      BY <3>1, ScheduleFacts
    <3>2. CASE /\ tick[s].batch # Len(Batches)
               /\ tick' = [tick EXCEPT ![s] = [tick[s] EXCEPT !.batch = tick[s].batch + 1]]
      <4>1. tick[s].batch + 1 \in 0 .. Len(Batches)
        BY <2>1, <3>2, ScheduleFacts DEF TickRows
      <4>2. [tick[s] EXCEPT !.batch = tick[s].batch + 1] \in TickRows
        BY <2>1, <4>1 DEF TickRows
      <4>3. PICK row \in TickRows : row = [tick[s] EXCEPT !.batch = tick[s].batch + 1]
        BY <4>2
      <4>4. row.at = tick[s].at
        BY <2>1, <4>3 DEF TickRows
      <4>5. tick[s].at # 0
        BY <2>4 DEF BatchEnds, ScheduleInv, Ticking
      <4>6. tick' = [tick EXCEPT ![s] = row]
        BY <3>2, <4>3
      <4>7. QED
        BY <4>4, <4>5, <4>6
    <3>3. QED
      BY <2>4, <3>1, <3>2 DEF BatchEnds
  <2>5. QED
    BY <2>2, <2>3, <2>4
<1>5. PICK row \in TickRows : tick' = [tick EXCEPT ![s] = row] /\ (row.running => row.at # 0)
  BY <1>4
<1>6. /\ claim' \in [Schedulers -> [Tenants -> ClaimRows]] /\ claim'[s] = NoClaims
      /\ \A r \in Schedulers \ {s} : claim'[r] = claim[r] /\ tick'[r] = tick[r]
      /\ tick' \in [Schedulers -> TickRows] /\ tick'[s] = row
  BY <1>3, <1>5, ScheduleTypes, ScheduleFacts
<1>7. ScheduleTypeOK'
  BY <1>1, <1>2, <1>6, ScheduleTypes, TypesAreOK
<1>8. \A r \in Schedulers : Ticking(r)'
  BY <1>5, <1>6 DEF ScheduleInv, Ticking
<1>9. ASSUME NEW r \in Schedulers, NEW v \in Tenants
      PROVE  Claiming(claim[r][v], v, tick[r].at)'
  <2>1. CASE r = s
    <3>1. claim'[r][v] = NoClaim
      BY <1>6, <2>1, ScheduleFacts
    <3>2. QED
      BY <3>1, ScheduleFacts DEF Claiming
  <2>2. CASE r # s
    <3>1. Claiming(claim[r][v], v, tick[r].at)
      BY DEF ScheduleInv
    <3>2. QED
      BY <1>1, <1>6, <2>2, <3>1 DEF Claiming, Planned, Slot
  <2>3. QED
    BY <2>1, <2>2
<1>10. Exclusive'
  <2>1. \A v \in Tenants : claim'[s][v].held = {}
    BY <1>6, ScheduleFacts
  <2>2. QED
    BY <1>6, <2>1 DEF ScheduleInv, Exclusive
<1>11. SeriesBegin' /\ SlotsRunInOrder'
  BY <1>1 DEF ScheduleInv, SeriesBegin, SlotsRunInOrder
<1>12. QED
  BY <1>6, <1>7, <1>8, <1>9, <1>10, <1>11 DEF ScheduleInv

\* Another state, schedule or accounts leave the slot a profile waits for.
LEMMA OwnerWrites ==
  ASSUME ScheduleInv, NEW p \in Profiles, NEW state \in {"active", "paused", "deleted"},
         NEW schedule \in Schedules, NEW accounts \in BOOLEAN,
         profile' = [profile EXCEPT ![p] = [profile[p] EXCEPT !.state = state,
                       !.schedule = schedule, !.accounts = accounts]]
  PROVE  /\ profile' \in [Profiles -> ProfileRows]
         /\ \A q \in Profiles : profile'[q].next = profile[q].next
         /\ \A q \in Profiles \ {p} : profile'[q] = profile[q]
<1>1. profile[p] \in ProfileRows
  BY ScheduleTypes
<1>2. [profile[p] EXCEPT !.state = state, !.schedule = schedule, !.accounts = accounts] \in ProfileRows
  BY <1>1 DEF ProfileRows
<1>3. PICK row \in ProfileRows :
        row = [profile[p] EXCEPT !.state = state, !.schedule = schedule, !.accounts = accounts]
  BY <1>2
<1>4. row.next = profile[p].next
  BY <1>1, <1>3 DEF ProfileRows
<1>5. profile' = [profile EXCEPT ![p] = row]
  BY <1>3
<1>6. QED
  BY <1>4, <1>5, ScheduleTypes

\* The owner's changes keep the slot a profile waits for, and what has run for it unless a
\* new series begins.
LEMMA OwnerKeeps ==
  ASSUME ScheduleInv, NEW p \in Profiles, PutProfile(p) \/ DeleteProfile(p)
  PROVE  ScheduleInv'
<1>1. UNCHANGED <<instant, tick, claim, tickFaults>> /\ edits' \in 0 .. MaxEdits
  <2>1. UNCHANGED <<instant, tick, claim, tickFaults>> /\ edits < MaxEdits /\ edits' = edits + 1
    BY DEF PutProfile, DeleteProfile
  <2>2. QED
    BY <2>1, ScheduleTypes, ScheduleFacts
<1>2. /\ profile' \in [Profiles -> ProfileRows]
      /\ \A q \in Profiles : profile'[q].next = profile[q].next
      /\ \A q \in Profiles \ {p} : profile'[q] = profile[q]
  <2>1. CASE PutProfile(p)
    <3>1. PICK state \in {"active", "paused"}, schedule \in Schedules, accounts \in BOOLEAN :
            profile' = [profile EXCEPT ![p] = [profile[p] EXCEPT !.state = state,
                          !.schedule = schedule, !.accounts = accounts]]
      BY <2>1, ScheduleTypes DEF PutProfile, StorableSchedules
    <3>2. state \in {"active", "paused", "deleted"}
      OBVIOUS
    <3>3. QED
      BY <3>1, <3>2, OwnerWrites
  <2>2. CASE DeleteProfile(p)
    <3>1. profile[p] \in ProfileRows /\ profile' = [profile EXCEPT ![p] = [profile[p] EXCEPT !.state = "deleted"]]
      BY <2>2, ScheduleTypes DEF DeleteProfile
    <3>2. [profile[p] EXCEPT !.state = "deleted"] \in ProfileRows
      BY <3>1 DEF ProfileRows
    <3>3. PICK row \in ProfileRows : row = [profile[p] EXCEPT !.state = "deleted"]
      BY <3>2
    <3>4. row.next = profile[p].next /\ profile' = [profile EXCEPT ![p] = row]
      BY <3>1, <3>3 DEF ProfileRows
    <3>5. QED
      BY <3>4, ScheduleTypes
  <2>3. QED
    BY <2>1, <2>2
<1>3. /\ ran' \in [Profiles -> Seq(1 .. LastInstant)]
      /\ \A q \in Profiles \ {p} : ran'[q] = ran[q]
      /\ ran'[p] = ran[p] \/ ran'[p] = <<>>
  <2>1. \/ ran' = ran
        \/ ran' = [ran EXCEPT ![p] = <<>>]
        \/ ran' = [ran EXCEPT ![p] = ran[p]]
    BY DEF PutProfile, DeleteProfile
  <2>2. <<>> \in Seq(1 .. LastInstant) /\ ran \in [Profiles -> Seq(1 .. LastInstant)]
    BY ScheduleTypes
  <2>3. QED
    BY <2>1, <2>2
<1>4. profile'[p].state = "active" /\ profile'[p].next = Unset => ran'[p] = <<>>
  <2>1. CASE PutProfile(p)
    BY <1>2, <2>1, ScheduleTypes DEF PutProfile
  <2>2. CASE DeleteProfile(p)
    <3>1. profile'[p] = [profile[p] EXCEPT !.state = "deleted"] /\ profile[p] \in ProfileRows
      BY <2>2, ScheduleTypes DEF DeleteProfile
    <3>2. profile'[p].state = "deleted"
      BY <3>1 DEF ProfileRows
    <3>3. QED
      BY <3>2
  <2>3. QED
    BY <2>1, <2>2
<1>5. ScheduleTypeOK'
  BY <1>1, <1>2, <1>3, ScheduleTypes, TypesAreOK
<1>6. (\A s \in Schedulers : Ticking(s)') /\ Exclusive'
  BY <1>1 DEF ScheduleInv, Ticking, Exclusive
<1>7. ASSUME NEW s \in Schedulers, NEW u \in Tenants
      PROVE  Claiming(claim[s][u], u, tick[s].at)'
  <2>1. Claiming(claim[s][u], u, tick[s].at) /\ claim[s][u].plan \subseteq Plans
    BY ScheduleTypes DEF ScheduleInv, ClaimRows
  <2>2. ASSUME NEW r \in claim[s][u].plan PROVE Planned(r, tick[s].at)'
    <3>1. Planned(r, tick[s].at) /\ r.profile \in Profiles
      BY <2>1 DEF Claiming, Plans
    <3>2. /\ profile'[r.profile].next = profile[r.profile].next
          /\ ran'[r.profile] = ran[r.profile] \/ ran'[r.profile] = <<>>
      BY <1>2, <1>3, <3>1
    <3>3. QED
      BY <1>1, <3>1, <3>2 DEF Planned, Slot
  <2>3. QED
    BY <1>1, <2>1, <2>2 DEF Claiming
<1>8. SeriesBegin'
  BY <1>2, <1>3, <1>4 DEF ScheduleInv, SeriesBegin
<1>9. SlotsRunInOrder'
  <2>1. ASSUME NEW q \in Profiles PROVE ran'[q] = ran[q] \/ ran'[q] = <<>>
    BY <1>3
  <2>2. QED
    BY <1>2, <2>1 DEF ScheduleInv, SlotsRunInOrder
<1>10. QED
  BY <1>1, <1>5, <1>6, <1>7, <1>8, <1>9, ScheduleTypes DEF ScheduleInv

LEMMA TimeKeeps ==
  ASSUME ScheduleInv, TimePasses
  PROVE  ScheduleInv'
<1>1. UNCHANGED <<profile, ran, tick, claim, edits, tickFaults>> /\ instant' \in 1 .. LastInstant
  <2>1. /\ UNCHANGED <<profile, ran, tick, claim, edits, tickFaults>>
        /\ instant < LastInstant /\ instant' = instant + 1
    BY DEF TimePasses
  <2>2. QED
    BY <2>1, ScheduleTypes, ScheduleFacts
<1>2. ScheduleTypeOK'
  BY <1>1, ScheduleTypes, TypesAreOK
<1>3. \A s \in Schedulers, u \in Tenants : Claiming(claim[s][u], u, tick[s].at)'
  BY <1>1 DEF ScheduleInv, Claiming, Planned, Slot
<1>4. QED
  BY <1>1, <1>2, <1>3 DEF ScheduleInv, Ticking, Exclusive, SeriesBegin, SlotsRunInOrder

LEMMA ScheduleStep == ScheduleInv /\ [ScheduleNext]_scheduleVars => ScheduleInv'
<1>1. SUFFICES ASSUME ScheduleInv, [ScheduleNext]_scheduleVars PROVE ScheduleInv'
  OBVIOUS
<1>2. ASSUME NEW s \in Schedulers, SchedulerStep(s) \/ SchedulerCrashes(s) PROVE ScheduleInv'
  BY <1>1, <1>2, TicksKeep DEF SchedulerStep
<1>3. ASSUME NEW s \in Schedulers, NEW u \in Tenants, ClaimStep(s, u) \/ ClaimBreaks(s, u)
      PROVE  ScheduleInv'
  BY <1>1, <1>3, ReadDueKeeps, ClaimNextKeeps, CommitKeeps, BreaksKeep DEF ClaimStep
<1>4. CASE UNCHANGED scheduleVars
  <2>1. ScheduleTypeOK'
    BY <1>1, <1>4, ScheduleTypes, TypesAreOK DEF scheduleVars
  <2>2. \A s \in Schedulers, u \in Tenants : Claiming(claim[s][u], u, tick[s].at)'
    BY <1>1, <1>4 DEF scheduleVars, ScheduleInv, Claiming, Planned, Slot
  <2>3. QED
    BY <1>1, <1>4, <2>1, <2>2
       DEF scheduleVars, ScheduleInv, Ticking, Exclusive, SeriesBegin, SlotsRunInOrder
<1>5. QED
  BY <1>1, <1>2, <1>3, <1>4, OwnerKeeps, TimeKeeps DEF ScheduleNext

\* The schedules, the claims of the worker processes and the slots that have been run fit
\* together, whatever the owner writes between the steps of a claim.
THEOREM ScheduleInvariant == ScheduleSpec => []ScheduleInv
<1>1. QED
  BY ScheduleInitially, ScheduleStep, PTL DEF ScheduleSpec

\* claimDueSearchSchedules runs the slots of a profile one after the other, none twice, for
\* any number of worker processes, tenants and profiles.
THEOREM SlotsAreRunInOrder == ScheduleSpec => []SlotsRunInOrder
<1>1. ScheduleInv => SlotsRunInOrder
  BY DEF ScheduleInv
<1>2. QED
  BY <1>1, ScheduleInvariant, PTL

-----------------------------------------------------------------------------
(* The discovery pool. *)

PoolTasks == [task : Tasks, attempt : 1..Tries, readyAt : Nat]

\* Only an unsettled pool schedules; what it sleeps for, holds and queues is in order.
PoolInv ==
  /\ PoolTypeOK
  /\ scheduling => settled = "no"
  /\ PoolLimits /\ TasksAccounted /\ StartsAreAwaited

LEMMA LargestOfThree ==
  ASSUME NEW a \in Nat, NEW b \in Nat, NEW c \in Nat
  PROVE  Max({a, b, c}) \in Nat
<1>1. \E x \in {a, b, c} : \A y \in {a, b, c} : x >= y
  OBVIOUS
<1>2. QED
  BY <1>1 DEF Max

LEMMA LargestOfTwo ==
  ASSUME NEW a \in Nat, NEW b \in Nat
  PROVE  Max({a, b}) \in Nat
<1>1. \E x \in {a, b} : \A y \in {a, b} : x >= y
  OBVIOUS
<1>2. QED
  BY <1>1 DEF Max

\* The tasks are in the queue once each, at first.
LEMMA PoolFacts ==
  /\ IsFiniteSet(Tasks)
  /\ \A i, j \in 1..Len(TaskOrder) : TaskOrder[i] = TaskOrder[j] => i = j
  /\ \A t \in Tasks : \E i \in 1..Len(TaskOrder) : TaskOrder[i] = t
  /\ \A i \in 1..Len(TaskOrder) : TaskOrder[i] \in Tasks
<1> DEFINE D == 1..Len(TaskOrder)
<1>1. TaskOrder \in [D -> Tasks] /\ DOMAIN TaskOrder = D /\ Len(TaskOrder) \in Nat
  BY PoolAssumption
<1>2. \A t \in Tasks : \E i \in D : TaskOrder[i] = t
  BY <1>1, PoolAssumption DEF ToSet
<1>3. TaskOrder \in Surjection(D, Tasks)
  BY <1>1, <1>2 DEF Surjection
<1>4. IsFiniteSet(D) /\ Cardinality(D) = Len(TaskOrder)
  <2>1. ASSUME NEW n \in Nat PROVE IsFiniteSet(1..n) /\ Cardinality(1..n) = n
    <3>1. IF 1 > n THEN n = 0 ELSE n - 1 + 1 = n
      OBVIOUS
    <3>2. QED
      BY <3>1, FS_Interval
  <2>2. QED
    BY <1>1, <2>1
<1>5. IsFiniteSet(Tasks) /\ TaskOrder \in Injection(D, Tasks)
  BY <1>3, <1>4, FS_Surjection, PoolAssumption
<1>6. QED
  BY <1>1, <1>2, <1>5 DEF Injection, IsInjective

\* How many are under way when one begins or ends.
LEMMA ActiveCounts ==
  ASSUME NEW S \in SUBSET Tasks, NEW t \in Tasks
  PROVE  /\ Cardinality(S) \in Nat /\ (Cardinality(S) = 0 <=> S = {})
         /\ t \notin S => Cardinality(S \cup {t}) = Cardinality(S) + 1
         /\ t \in S => Cardinality(S \ {t}) = Cardinality(S) - 1
         /\ Cardinality(S \ {t}) <= Cardinality(S)
<1>1. IsFiniteSet(S)
  BY PoolFacts, FS_Subset
<1>2. Cardinality(S) \in Nat
  BY <1>1, FS_CardinalityType
<1>3. Cardinality(S) = 0 <=> S = {}
  BY <1>1, FS_EmptySet
<1>4. t \notin S => Cardinality(S \cup {t}) = Cardinality(S) + 1
  BY <1>1, FS_AddElement
<1>5. Cardinality(S \ {t}) = IF t \in S THEN Cardinality(S) - 1 ELSE Cardinality(S)
  BY <1>1, FS_RemoveElement
<1>6. QED
  BY <1>2, <1>3, <1>4, <1>5

LEMMA StartTimes ==
  ASSUME PoolTypeOK, NEW i \in DOMAIN waitingTasks
  PROVE  StartsAt(waitingTasks[i]) \in Nat
<1>1. waitingTasks[i] \in PoolTasks
  <2>1. waitingTasks \in Seq(PoolTasks)
    BY DEF PoolTypeOK, PoolTasks
  <2>2. QED
    BY <2>1
<1>2. Source[waitingTasks[i].task] \in Sources /\ waitingTasks[i].readyAt \in Nat
  BY <1>1 DEF PoolTasks, Sources
<1>3. QED
  BY <1>2, LargestOfThree DEF StartsAt, PoolTypeOK

\* What schedule() finds to be the earliest start comes before none of what it passed over.
LEMMA EarliestFacts ==
  ASSUME PoolTypeOK, NEW n \in Nat
  PROVE  /\ EarliestBefore(n) \in Nat \cup {Never}
         /\ \A i \in Eligible : i < n =>
              EarliestBefore(n) # Never /\ EarliestBefore(n) <= StartsAt(waitingTasks[i])
<1> DEFINE T == ({earliest} \ {Never}) \cup {StartsAt(waitingTasks[i]) : i \in {j \in Eligible : j < n}}
<1>1. Eligible \subseteq DOMAIN waitingTasks
  BY DEF Eligible
<1>2. T \subseteq Nat
  BY <1>1, StartTimes DEF PoolTypeOK
<1>3. EarliestBefore(n) = IF T = {} THEN Never ELSE Min(T)
  BY DEF EarliestBefore, Earliest
<1>4. \A i \in Eligible : i < n => StartsAt(waitingTasks[i]) \in T
  OBVIOUS
<1> HIDE DEF T
<1>5. T # {} => Min(T) \in T /\ \A y \in T : Min(T) <= y
  BY <1>2, SmallestOf
<1>6. QED
  BY <1>2, <1>3, <1>4, <1>5, PoolAssumption

LEMMA RemovedFrom ==
  ASSUME NEW S, NEW q \in Seq(S), NEW n \in DOMAIN q
  PROVE  /\ RemoveAt(q, n) \in Seq(S) /\ Len(RemoveAt(q, n)) = Len(q) - 1
         /\ \A i \in 1..(Len(q) - 1) : RemoveAt(q, n)[i] = q[IF i < n THEN i ELSE i + 1]
<1>1. n \in 1..Len(q) /\ Len(q) \in Nat
  OBVIOUS
<1> DEFINE a == SubSeq(q, 1, n - 1)
           b == SubSeq(q, n + 1, Len(q))
<1>2. a \in Seq(S) /\ Len(a) = n - 1 /\ \A i \in 1..(n - 1) : a[i] = q[i]
  BY <1>1
<1>3. b \in Seq(S) /\ Len(b) = Len(q) - n /\ \A i \in 1..(Len(q) - n) : b[i] = q[n + i]
  BY <1>1
<1> HIDE DEF a, b
<1>4. /\ a \o b \in Seq(S) /\ Len(a \o b) = Len(q) - 1
      /\ \A i \in 1..(Len(q) - 1) : (a \o b)[i] = IF i <= n - 1 THEN a[i] ELSE b[i - (n - 1)]
  <2>1. Len(a) + Len(b) = Len(q) - 1
    BY <1>1, <1>2, <1>3
  <2>2. a \in Seq(S) /\ b \in Seq(S) /\ Len(a) = n - 1
    BY <1>2, <1>3
  <2>3. /\ a \o b \in Seq(S) /\ Len(a \o b) = Len(a) + Len(b)
        /\ \A i \in 1..(Len(a) + Len(b)) : (a \o b)[i] = IF i <= Len(a) THEN a[i] ELSE b[i - Len(a)]
    BY <2>2, ConcatProperties, Zenon
  <2>4. QED
    BY <2>1, <2>2, <2>3
<1>5. ASSUME NEW i \in 1..(Len(q) - 1)
      PROVE  (a \o b)[i] = q[IF i < n THEN i ELSE i + 1]
  <2>1. CASE i < n
    <3>1. i \in 1..(n - 1)
      BY <2>1, <1>1
    <3>2. QED
      BY <2>1, <3>1, <1>2, <1>4
  <2>2. CASE ~(i < n)
    <3>1. i - (n - 1) \in 1..(Len(q) - n) /\ n + (i - (n - 1)) = i + 1 /\ ~(i <= n - 1)
      BY <2>2, <1>1
    <3>2. b[i - (n - 1)] = q[i + 1]
      BY <3>1, <1>3
    <3>3. QED
      BY <2>2, <3>1, <3>2, <1>4
  <2>3. QED
    BY <2>1, <2>2
<1>6. QED
  BY <1>4, <1>5 DEF RemoveAt, a, b

LEMMA QueuePlaces ==
  ASSUME PoolTypeOK
  PROVE  /\ waitingTasks \in Seq(PoolTasks) /\ Len(waitingTasks) \in Nat
         /\ DOMAIN waitingTasks = 1..Len(waitingTasks) /\ DOMAIN waitingTasks \subseteq Nat
         /\ \A i \in DOMAIN waitingTasks : waitingTasks[i] \in PoolTasks
<1>1. waitingTasks \in Seq(PoolTasks)
  BY DEF PoolTypeOK, PoolTasks
<1>2. QED
  BY <1>1

LEMMA PoolBegins ==
  ASSUME PoolInit
  PROVE  PoolInv
<1> USE PoolAssumption DEF PoolInit
<1> DEFINE D == 1..Len(TaskOrder)
<1>1. DOMAIN waitingTasks = D /\ Len(TaskOrder) \in Nat
  OBVIOUS
<1>2. \A i \in D : waitingTasks[i] = [task |-> TaskOrder[i], attempt |-> 1, readyAt |-> 0]
  OBVIOUS
<1>3. waitingTasks \in Seq(PoolTasks)
  <2>1. \A i \in D : waitingTasks[i] \in PoolTasks
    BY <1>2, PoolFacts DEF PoolTasks
  <2>2. QED
    BY <1>1, <2>1
<1>4. PoolTypeOK
  BY <1>3 DEF PoolTypeOK, PoolTasks
<1>5. Active = {} /\ \A s \in Sources : ActiveOf(s) = {}
  BY DEF Active, ActiveOf
<1>6. PoolLimits
  <2>1. Cardinality({}) = 0
    BY FS_EmptySet
  <2>2. 0 <= Concurrency /\ 0 <= PerSource
    BY PoolAssumption
  <2>3. QED
    BY <1>5, <2>1, <2>2 DEF PoolLimits
<1>7. TasksAccounted
  <2>1. \A i, j \in D : waitingTasks[i].task = waitingTasks[j].task => i = j
    BY <1>2, PoolFacts
  <2>2. \A i \in D : running[waitingTasks[i].task] = 0 /\ result[waitingTasks[i].task] = "none"
    BY <1>2, PoolFacts
  <2>3. \A t \in Tasks : \E i \in D : waitingTasks[i].task = t
    BY <1>2, PoolFacts
  <2>4. settled = "no" => \E t \in Tasks : result[t] = "none"
    OBVIOUS
  <2>5. QED
    BY <1>1, <1>5, <2>1, <2>2, <2>3, <2>4 DEF TasksAccounted
<1>8. (scheduling => settled = "no") /\ StartsAreAwaited
  BY DEF StartsAreAwaited
<1>9. QED
  BY <1>4, <1>6, <1>7, <1>8 DEF PoolInv

LEMMA StartKeepsPool ==
  ASSUME PoolInv, StartTask
  PROVE  PoolInv'
<1> DEFINE n == Min(Runnable)
           q == waitingTasks[n]
           at(i) == IF i < n THEN i ELSE i + 1
           L == Len(waitingTasks)
<1> USE DEF PoolInv
<1>1. n \in Runnable
  <2>1. Runnable \subseteq Nat /\ Runnable # {}
    <3>1. Runnable \subseteq DOMAIN waitingTasks
      BY DEF Runnable, Eligible
    <3>2. DOMAIN waitingTasks \subseteq Nat
      BY QueuePlaces
    <3>3. Runnable # {}
      BY DEF StartTask
    <3>4. QED
      BY <3>1, <3>2, <3>3
  <2>2. QED
    BY <2>1, SmallestOf
<1>2. /\ n \in Eligible /\ n \in 1..L /\ L \in Nat /\ DOMAIN waitingTasks = 1..L
      /\ waitingTasks \in Seq(PoolTasks) /\ q \in PoolTasks
  <2>1. n \in Eligible /\ n \in DOMAIN waitingTasks
    BY <1>1 DEF Runnable, Eligible
  <2> HIDE DEF n
  <2>2. QED
    BY <2>1, QueuePlaces
<1>3. /\ scheduling /\ settled = "no" /\ Cardinality(Active) < Concurrency
      /\ waitingTasks' = RemoveAt(waitingTasks, n)
      /\ running' = [running EXCEPT ![q.task] = q.attempt]
      /\ nextStart' = [nextStart EXCEPT ![Source[q.task]] = clock + Interval]
      /\ earliest' = EarliestBefore(n)
      /\ UNCHANGED <<clock, blockedUntil, result, wakeAt, scheduling, settled>>
  BY DEF StartTask
<1> HIDE DEF n
<1>4. /\ waitingTasks' \in Seq(PoolTasks) /\ DOMAIN waitingTasks' = 1..(L - 1)
      /\ \A i \in 1..(L - 1) : waitingTasks'[i] = waitingTasks[at(i)] /\ at(i) \in 1..L /\ at(i) # n
  <2>1. /\ RemoveAt(waitingTasks, n) \in Seq(PoolTasks) /\ Len(RemoveAt(waitingTasks, n)) = L - 1
        /\ \A i \in 1..(L - 1) : RemoveAt(waitingTasks, n)[i] = waitingTasks[at(i)]
    BY <1>2, RemovedFrom
  <2>2. \A i \in 1..(L - 1) : at(i) \in 1..L /\ at(i) # n
    BY <1>2
  <2>3. QED
    BY <1>3, <2>1, <2>2
<1>5. q.task \in Tasks /\ q.attempt \in 1..Tries /\ Source[q.task] \in Sources
  BY <1>2 DEF PoolTasks, Sources
<1>6. running[q.task] = 0 /\ result[q.task] = "none"
  BY <1>2 DEF TasksAccounted
<1>7. /\ Active' = Active \cup {q.task} /\ q.task \notin Active
      /\ \A s : ActiveOf(s)' = IF s = Source[q.task] THEN ActiveOf(s) \cup {q.task} ELSE ActiveOf(s)
  <2>1. \A t \in Tasks : running'[t] = IF t = q.task THEN q.attempt ELSE running[t]
    BY <1>3, <1>5 DEF PoolTypeOK
  <2>2. q.attempt # 0
    BY <1>5
  <2>3. Active' = Active \cup {q.task} /\ q.task \notin Active
    BY <1>5, <1>6, <2>1, <2>2 DEF Active
  <2>4. QED
    BY <2>3 DEF ActiveOf
<1>8. PoolTypeOK'
  <2>1. EarliestBefore(n) \in Nat \cup {Never}
    BY <1>2, EarliestFacts
  <2>2. clock + Interval \in Nat
    BY PoolAssumption DEF PoolTypeOK
  <2>3. running' \in [Tasks -> 0..Tries]
    BY <1>3, <1>5, PoolAssumption DEF PoolTypeOK
  <2>4. nextStart' \in [Sources -> Nat]
    BY <1>3, <2>2 DEF PoolTypeOK
  <2>5. waitingTasks' \in Seq([task : Tasks, attempt : 1..Tries, readyAt : Nat])
    BY <1>4 DEF PoolTasks
  <2>6. QED
    BY <1>3, <2>1, <2>3, <2>4, <2>5 DEF PoolTypeOK
<1>9. PoolLimits'
  <2>1. Cardinality(Active') <= Concurrency
    <3>1. Active \in SUBSET Tasks
      BY DEF Active
    <3>2. Cardinality(Active \cup {q.task}) = Cardinality(Active) + 1 /\ Cardinality(Active) \in Nat
      BY <1>5, <1>7, <3>1, ActiveCounts
    <3>3. QED
      BY <1>3, <1>7, <3>2, PoolAssumption
  <2>2. ASSUME NEW s \in Sources PROVE Cardinality(ActiveOf(s)') <= PerSource
    <3>1. ActiveOf(s) \in SUBSET Tasks /\ q.task \notin ActiveOf(s)
      BY <1>7 DEF Active, ActiveOf
    <3>2. Cardinality(ActiveOf(s) \cup {q.task}) = Cardinality(ActiveOf(s)) + 1 /\ Cardinality(ActiveOf(s)) \in Nat
      BY <1>5, <3>1, ActiveCounts
    <3>3. s = Source[q.task] => Cardinality(ActiveOf(s)) < PerSource
      BY <1>2 DEF Eligible
    <3>4. Cardinality(ActiveOf(s)) <= PerSource
      BY DEF PoolLimits
    <3>5. CASE s = Source[q.task]
      <4>1. ActiveOf(s)' = ActiveOf(s) \cup {q.task}
        BY <1>7, <3>5
      <4>2. QED
        BY <3>2, <3>3, <3>5, <4>1, PoolAssumption
    <3>6. CASE s # Source[q.task]
      <4>1. ActiveOf(s)' = ActiveOf(s)
        BY <1>7, <3>6
      <4>2. QED
        BY <3>4, <4>1
    <3>7. QED
      BY <3>5, <3>6
  <2>3. QED
    BY <2>1, <2>2 DEF PoolLimits
<1>10. TasksAccounted'
  <2>1. ASSUME NEW i \in 1..(L - 1), NEW j \in 1..(L - 1), waitingTasks'[i].task = waitingTasks'[j].task
        PROVE  i = j
    <3>1. at(i) = at(j)
      BY <1>2, <1>4, <2>1 DEF TasksAccounted
    <3>2. QED
      BY <3>1, <1>2
  <2>2. ASSUME NEW i \in 1..(L - 1)
        PROVE  running'[waitingTasks'[i].task] = 0 /\ result'[waitingTasks'[i].task] = "none"
    <3> DEFINE k == at(i)
    <3>1. k \in DOMAIN waitingTasks /\ k # n /\ waitingTasks'[i] = waitingTasks[k]
      BY <1>2, <1>4
    <3> HIDE DEF k
    <3>2. waitingTasks[k].task \in Tasks
      BY <3>1, QueuePlaces DEF PoolTasks
    <3>3. waitingTasks[k].task # q.task
      BY <1>2, <3>1 DEF TasksAccounted
    <3>4. running[waitingTasks[k].task] = 0 /\ result[waitingTasks[k].task] = "none"
      BY <3>1 DEF TasksAccounted
    <3>5. running'[waitingTasks[k].task] = running[waitingTasks[k].task] /\ result' = result
      BY <1>3, <3>2, <3>3 DEF PoolTypeOK
    <3>6. QED
      BY <3>1, <3>4, <3>5
  <2>3. \A t \in Active' : result'[t] = "none"
    BY <1>3, <1>6, <1>7 DEF TasksAccounted
  <2>4. \E t \in Tasks : result'[t] = "none"
    BY <1>3, <1>5, <1>6
  <2>5. ASSUME NEW t \in Tasks, result'[t] = "none", running'[t] = 0
        PROVE  \E i \in 1..(L - 1) : waitingTasks'[i].task = t
    <3>1. t # q.task /\ running[t] = 0 /\ result[t] = "none"
      BY <1>3, <1>5, <2>5 DEF PoolTypeOK
    <3>2. PICK k \in 1..L : waitingTasks[k].task = t
      BY <1>2, <1>3, <3>1 DEF TasksAccounted
    <3>3. k # n
      BY <3>1, <3>2
    <3>4. CASE k < n
      <4>1. k \in 1..(L - 1) /\ at(k) = k
        BY <3>4, <1>2
      <4>2. QED
        BY <1>4, <3>2, <4>1
    <3>5. CASE k > n
      <4>1. k - 1 \in 1..(L - 1) /\ at(k - 1) = k
        BY <3>5, <1>2
      <4>2. waitingTasks'[k - 1].task = t
        BY <1>4, <3>2, <4>1
      <4>3. QED
        BY <4>1, <4>2
    <3>6. QED
      BY <1>2, <3>3, <3>4, <3>5
  <2>6. QED
    BY <1>4, <2>1, <2>2, <2>3, <2>4, <2>5 DEF TasksAccounted
<1>11. scheduling' /\ settled' = "no" /\ StartsAreAwaited'
  BY <1>3 DEF StartsAreAwaited
<1>12. QED
  BY <1>8, <1>9, <1>10, <1>11 DEF PoolInv

LEMMA StopKeepsPool ==
  ASSUME PoolInv, StopScheduling
  PROVE  PoolInv'
<1> DEFINE L == Len(waitingTasks)
           e == EarliestBefore(L + 1)
           room == Cardinality(Active) < Concurrency
<1> USE DEF PoolInv
<1>1. /\ settled = "no" /\ earliest' = Never
      /\ wakeAt' = SleepUntil(IF room THEN e ELSE earliest)
      /\ scheduling' = FALSE
      /\ UNCHANGED <<clock, waitingTasks, running, nextStart, blockedUntil, result, settled>>
  BY DEF StopScheduling
<1>2. DOMAIN waitingTasks = 1..L /\ L \in Nat
  BY DEF PoolTypeOK
<1>3. /\ e \in Nat \cup {Never}
      /\ \A i \in Eligible : e # Never /\ e <= StartsAt(waitingTasks[i])
  <2>1. \A i \in Eligible : i < L + 1
    BY <1>2 DEF Eligible
  <2>2. QED
    BY <1>2, <2>1, EarliestFacts
<1>4. room => /\ waitingTasks # <<>> => wakeAt' = IF EndsBefore(e, wakeAt) THEN e ELSE wakeAt
              /\ waitingTasks = <<>> => wakeAt' = wakeAt
  BY <1>1 DEF SleepUntil
<1>5. ~room => wakeAt' = wakeAt
  BY <1>1 DEF SleepUntil
<1>6. UNCHANGED <<Active, Eligible>> /\ \A i \in Eligible : StartsAt(waitingTasks[i])' = StartsAt(waitingTasks[i])
  BY <1>1 DEF Active, Eligible, ActiveOf, StartsAt
<1>7. PoolTypeOK'
  BY <1>1, <1>3, <1>4, <1>5 DEF PoolTypeOK
<1>8. PoolLimits' /\ TasksAccounted'
  BY <1>1, <1>6 DEF PoolLimits, TasksAccounted, ActiveOf
<1>9. StartsAreAwaited'
  <2>1. ASSUME room, NEW i \in Eligible
        PROVE  wakeAt' # Never /\ wakeAt' <= StartsAt(waitingTasks[i])
    <3>1. i \in DOMAIN waitingTasks /\ waitingTasks # <<>>
      BY DEF Eligible
    <3>2. e # Never /\ e <= StartsAt(waitingTasks[i]) /\ e \in Nat
      BY <1>3
    <3>3. StartsAt(waitingTasks[i]) \in Nat
      BY <3>1, StartTimes
    <3>4. CASE EndsBefore(e, wakeAt)
      <4>1. wakeAt' = e
        BY <1>4, <2>1, <3>1, <3>4
      <4>2. QED
        BY <3>2, <4>1
    <3>5. CASE ~EndsBefore(e, wakeAt)
      <4>1. wakeAt' = wakeAt
        BY <1>4, <2>1, <3>1, <3>5
      <4>2. wakeAt # Never /\ wakeAt <= e /\ wakeAt \in Nat
        BY <3>2, <3>5 DEF EndsBefore, PoolTypeOK
      <4>3. QED
        BY <3>2, <3>3, <4>1, <4>2
    <3>6. QED
      BY <3>4, <3>5
  <2>2. ASSUME Active = {}
        PROVE  wakeAt' # Never
    <3>1. room
      BY <2>2, FS_EmptySet, PoolAssumption
    <3>2. PICK t \in Tasks : result[t] = "none"
      BY <1>1 DEF TasksAccounted
    <3>3. running[t] = 0
      BY <2>2 DEF Active
    <3>4. PICK i \in DOMAIN waitingTasks : waitingTasks[i].task = t
      BY <1>1, <3>2, <3>3 DEF TasksAccounted
    <3>5. ActiveOf(Source[t]) = {}
      BY <2>2 DEF ActiveOf
    <3>6. i \in Eligible
      <4>1. Cardinality(ActiveOf(Source[waitingTasks[i].task])) = 0
        BY <3>4, <3>5, FS_EmptySet
      <4>2. 0 < PerSource
        BY PoolAssumption
      <4>3. QED
        BY <4>1, <4>2 DEF Eligible
    <3>7. QED
      BY <2>1, <3>1, <3>6
  <2>3. (Cardinality(Active) < Concurrency)' <=> room
    BY <1>6
  <2>4. \A i \in Eligible' : room => wakeAt' # Never /\ wakeAt' <= StartsAt(waitingTasks[i])'
    BY <1>6, <2>1
  <2>5. Active' # {} \/ wakeAt' # Never
    BY <1>6, <2>2
  <2>6. QED
    BY <2>3, <2>4, <2>5 DEF StartsAreAwaited
<1>10. QED
  BY <1>1, <1>7, <1>8, <1>9 DEF PoolInv

LEMMA WakeKeepsPool ==
  ASSUME PoolInv, WakeUp
  PROVE  PoolInv'
<1> USE DEF PoolInv
<1>1. /\ wakeAt' = Never /\ scheduling' = TRUE /\ settled' = "no" /\ settled = "no"
      /\ UNCHANGED <<clock, waitingTasks, running, nextStart, blockedUntil, result, earliest>>
  BY DEF WakeUp, Awakened
<1>2. UNCHANGED Active /\ \A s : UNCHANGED ActiveOf(s)
  BY <1>1 DEF Active, ActiveOf
<1>3. PoolTypeOK'
  BY <1>1 DEF PoolTypeOK
<1>4. PoolLimits' /\ TasksAccounted'
  BY <1>1, <1>2 DEF PoolLimits, TasksAccounted
<1>5. StartsAreAwaited'
  BY <1>1 DEF StartsAreAwaited
<1>6. QED
  BY <1>1, <1>3, <1>4, <1>5

LEMMA AbortKeepsPool ==
  ASSUME PoolInv, AbortPool
  PROVE  PoolInv'
<1> USE DEF PoolInv
<1>1. /\ settled' = "aborted" /\ ~scheduling
      /\ UNCHANGED <<clock, waitingTasks, running, nextStart, blockedUntil, result, wakeAt, scheduling, earliest>>
  BY DEF AbortPool
<1>2. UNCHANGED Active /\ \A s : UNCHANGED ActiveOf(s)
  BY <1>1 DEF Active, ActiveOf
<1>3. PoolTypeOK'
  BY <1>1 DEF PoolTypeOK
<1>4. PoolLimits' /\ TasksAccounted'
  BY <1>1, <1>2 DEF PoolLimits, TasksAccounted
<1>5. StartsAreAwaited'
  BY <1>1 DEF StartsAreAwaited
<1>6. QED
  BY <1>1, <1>3, <1>4, <1>5

LEMMA TickKeepsPool ==
  ASSUME PoolInv, PoolTick
  PROVE  PoolInv'
<1> USE DEF PoolInv
<1>1. /\ clock' = clock + 1
      /\ UNCHANGED <<waitingTasks, running, nextStart, blockedUntil, result, wakeAt, scheduling, earliest, settled>>
  BY DEF PoolTick
<1>2. UNCHANGED <<Active, Eligible>> /\ \A s : UNCHANGED ActiveOf(s)
  BY <1>1 DEF Active, ActiveOf, Eligible
<1>3. \A i \in Eligible : StartsAt(waitingTasks[i])' = StartsAt(waitingTasks[i])
  BY <1>1 DEF StartsAt
<1>4. PoolTypeOK'
  BY <1>1 DEF PoolTypeOK
<1>5. PoolLimits' /\ TasksAccounted'
  BY <1>1, <1>2 DEF PoolLimits, TasksAccounted
<1>6. StartsAreAwaited'
  BY <1>1, <1>2, <1>3 DEF StartsAreAwaited
<1>7. QED
  BY <1>1, <1>4, <1>5, <1>6

\* A task that leaves: one fewer is under way, of its source as of all.
LEMMA LeavesPool ==
  ASSUME PoolInv, NEW t \in Tasks, running[t] # 0, running' = [running EXCEPT ![t] = 0]
  PROVE  /\ Active' = Active \ {t} /\ PoolLimits' /\ running' \in [Tasks -> 0..Tries]
         /\ result[t] = "none" /\ \A i \in DOMAIN waitingTasks : waitingTasks[i].task # t
<1> USE DEF PoolInv
<1>1. running' \in [Tasks -> 0..Tries] /\ \A u \in Tasks : running'[u] = IF u = t THEN 0 ELSE running[u]
  BY PoolAssumption DEF PoolTypeOK
<1>2. Active' = Active \ {t} /\ t \in Active
  BY <1>1 DEF Active
<1>3. \A s : ActiveOf(s)' = ActiveOf(s) \ {t}
  BY <1>2 DEF ActiveOf
<1>4. Cardinality(Active') <= Concurrency
  <2>1. Active \in SUBSET Tasks
    BY DEF Active
  <2>2. /\ Cardinality(Active \ {t}) <= Cardinality(Active)
        /\ Cardinality(Active) \in Nat /\ Cardinality(Active \ {t}) \in Nat
    BY <2>1, ActiveCounts
  <2>3. QED
    BY <1>2, <2>2, PoolAssumption DEF PoolLimits
<1>5. ASSUME NEW s \in Sources PROVE Cardinality(ActiveOf(s)') <= PerSource
  <2>1. ActiveOf(s) \in SUBSET Tasks
    BY DEF Active, ActiveOf
  <2>2. /\ Cardinality(ActiveOf(s) \ {t}) <= Cardinality(ActiveOf(s))
        /\ Cardinality(ActiveOf(s)) \in Nat /\ Cardinality(ActiveOf(s) \ {t}) \in Nat
    BY <2>1, ActiveCounts
  <2>3. Cardinality(ActiveOf(s)) <= PerSource
    BY DEF PoolLimits
  <2>4. ActiveOf(s)' = ActiveOf(s) \ {t}
    BY <1>3
  <2>5. QED
    BY <2>2, <2>3, <2>4, PoolAssumption
<1>6. result[t] = "none" /\ \A i \in DOMAIN waitingTasks : waitingTasks[i].task # t
  BY <1>2 DEF TasksAccounted
<1>7. QED
  BY <1>1, <1>2, <1>4, <1>5, <1>6 DEF PoolLimits

LEMMA EndKeepsPool ==
  ASSUME PoolInv, NEW t \in Tasks, TaskEnds(t)
  PROVE  PoolInv'
<1> USE DEF PoolInv
<1>1. /\ running[t] # 0 /\ running' = [running EXCEPT ![t] = 0] /\ ~scheduling
      /\ UNCHANGED <<clock, waitingTasks, nextStart, blockedUntil, wakeAt, earliest>>
  BY DEF TaskEnds
<1>2. /\ Active' = Active \ {t} /\ PoolLimits' /\ running' \in [Tasks -> 0..Tries]
      /\ result[t] = "none" /\ \A i \in DOMAIN waitingTasks : waitingTasks[i].task # t
  BY <1>1, LeavesPool
<1>3. \A u \in Tasks : running'[u] = IF u = t THEN 0 ELSE running[u]
  BY <1>1 DEF PoolTypeOK
<1>4. \A i \in DOMAIN waitingTasks : waitingTasks[i].task \in Tasks
  BY QueuePlaces DEF PoolTasks
<1>5. CASE settled # "no"
  <2>1. UNCHANGED <<result, settled, scheduling>>
    BY <1>5 DEF TaskEnds
  <2>2. PoolTypeOK'
    BY <1>1, <1>2, <2>1 DEF PoolTypeOK
  <2>3. TasksAccounted'
    BY <1>1, <1>2, <1>3, <1>4, <1>5, <2>1 DEF TasksAccounted
  <2>4. QED
    BY <1>1, <1>2, <1>5, <2>1, <2>2, <2>3 DEF StartsAreAwaited
<1>6. CASE settled = "no"
  <2>1. /\ result' = [result EXCEPT ![t] = "settled"]
        /\ settled' = IF \A u \in Tasks : result'[u] # "none" THEN "resolved" ELSE "no"
        /\ scheduling' = (settled' = "no")
    BY <1>6 DEF TaskEnds
  <2>2. /\ \A u \in Tasks : result'[u] = IF u = t THEN "settled" ELSE result[u]
        /\ result' \in [Tasks -> {"none", "settled"}]
    BY <2>1 DEF PoolTypeOK
  <2>3. PoolTypeOK'
    BY <1>1, <1>2, <2>1, <2>2 DEF PoolTypeOK
  <2>4. \A i \in DOMAIN waitingTasks : running'[waitingTasks[i].task] = 0 /\ result'[waitingTasks[i].task] = "none"
    BY <1>2, <1>3, <1>4, <2>2 DEF TasksAccounted
  <2>5. \A u \in Active' : result'[u] = "none"
    BY <1>2, <2>2 DEF TasksAccounted, Active
  <2>6. settled' = "no" => \E u \in Tasks : result'[u] = "none"
    BY <2>1
  <2>7. ASSUME NEW u \in Tasks, result'[u] = "none", running'[u] = 0
        PROVE  \E i \in DOMAIN waitingTasks : waitingTasks[i].task = u
    <3>1. result[u] = "none" /\ running[u] = 0
      BY <1>3, <2>2, <2>7
    <3>2. QED
      BY <1>6, <3>1 DEF TasksAccounted
  <2>8. TasksAccounted'
    BY <1>1, <2>4, <2>5, <2>6, <2>7 DEF TasksAccounted
  <2>9. (scheduling' => settled' = "no") /\ StartsAreAwaited'
    BY <2>1 DEF StartsAreAwaited
  <2>10. QED
    BY <1>2, <2>3, <2>8, <2>9
<1>7. QED
  BY <1>5, <1>6

LEMMA RetryKeepsPool ==
  ASSUME PoolInv, NEW t \in Tasks, NEW d \in Delays, TaskRetries(t, d)
  PROVE  PoolInv'
<1> DEFINE q == [task |-> t, attempt |-> running[t] + 1, readyAt |-> clock + d]
           L == Len(waitingTasks)
<1> USE DEF PoolInv
<1>1. /\ running[t] \in 1..(Tries - 1) /\ running' = [running EXCEPT ![t] = 0]
      /\ settled = "no" /\ settled' = "no" /\ scheduling' = TRUE
      /\ waitingTasks' = Append(waitingTasks, q)
      /\ blockedUntil' = [blockedUntil EXCEPT ![Source[t]] = Max({@, clock + d})]
      /\ UNCHANGED <<clock, nextStart, result, wakeAt, earliest>>
  BY DEF TaskRetries
<1>2. running[t] # 0 /\ running[t] + 1 \in 1..Tries
  BY <1>1, PoolAssumption
<1>3. /\ Active' = Active \ {t} /\ PoolLimits' /\ running' \in [Tasks -> 0..Tries]
      /\ result[t] = "none" /\ \A i \in DOMAIN waitingTasks : waitingTasks[i].task # t
  BY <1>1, <1>2, LeavesPool
<1>4. \A u \in Tasks : running'[u] = IF u = t THEN 0 ELSE running[u]
  BY <1>1 DEF PoolTypeOK
<1>5. clock + d \in Nat /\ Source[t] \in Sources
  BY PoolAssumption DEF PoolTypeOK, Sources
<1>6. /\ waitingTasks \in Seq(PoolTasks) /\ L \in Nat /\ DOMAIN waitingTasks = 1..L
      /\ \A i \in 1..L : waitingTasks[i].task \in Tasks
  BY QueuePlaces DEF PoolTasks
<1>7. q \in PoolTasks
  BY <1>2, <1>5 DEF PoolTasks
<1>8. /\ waitingTasks' \in Seq(PoolTasks) /\ DOMAIN waitingTasks' = 1..(L + 1)
      /\ \A i \in 1..L : waitingTasks'[i] = waitingTasks[i]
      /\ waitingTasks'[L + 1].task = t
  <2> HIDE DEF q
  <2>1. /\ Append(waitingTasks, q) \in Seq(PoolTasks) /\ Len(Append(waitingTasks, q)) = L + 1
        /\ \A i \in 1..L : Append(waitingTasks, q)[i] = waitingTasks[i]
        /\ Append(waitingTasks, q)[L + 1] = q
    BY <1>6, <1>7, AppendProperties
  <2>2. q.task = t
    BY DEF q
  <2>3. QED
    BY <1>1, <2>1, <2>2
<1>9. PoolTypeOK'
  <2>1. blockedUntil[Source[t]] \in Nat
    BY <1>5 DEF PoolTypeOK
  <2>2. Max({blockedUntil[Source[t]], clock + d}) \in Nat
    BY <1>5, <2>1, LargestOfTwo
  <2>3. blockedUntil' \in [Sources -> Nat]
    BY <1>1, <1>5, <2>2 DEF PoolTypeOK
  <2>4. waitingTasks' \in Seq([task : Tasks, attempt : 1..Tries, readyAt : Nat])
    BY <1>8 DEF PoolTasks
  <2>5. QED
    BY <1>1, <1>3, <2>3, <2>4 DEF PoolTypeOK
<1>10. TasksAccounted'
  <2>1. ASSUME NEW i \in 1..(L + 1), NEW j \in 1..(L + 1), waitingTasks'[i].task = waitingTasks'[j].task
        PROVE  i = j
    <3>1. CASE i \in 1..L /\ j \in 1..L
      <4>1. waitingTasks[i].task = waitingTasks[j].task
        BY <1>8, <2>1, <3>1
      <4>2. QED
        BY <1>6, <3>1, <4>1 DEF TasksAccounted
    <3>2. CASE i = L + 1 /\ j \in 1..L
      BY <1>3, <1>6, <1>8, <2>1, <3>2
    <3>3. CASE i \in 1..L /\ j = L + 1
      BY <1>3, <1>6, <1>8, <2>1, <3>3
    <3>4. QED
      BY <1>6, <3>1, <3>2, <3>3
  <2>2. ASSUME NEW i \in 1..(L + 1)
        PROVE  running'[waitingTasks'[i].task] = 0 /\ result'[waitingTasks'[i].task] = "none"
    <3>1. CASE i = L + 1
      BY <1>1, <1>3, <1>4, <1>8, <3>1
    <3>2. CASE i \in 1..L
      <4>1. waitingTasks'[i] = waitingTasks[i] /\ waitingTasks[i].task \in Tasks
        BY <1>6, <1>8, <3>2
      <4>2. running[waitingTasks[i].task] = 0 /\ result[waitingTasks[i].task] = "none"
        BY <1>6, <3>2 DEF TasksAccounted
      <4>3. QED
        BY <1>1, <1>4, <4>1, <4>2
    <3>3. QED
      BY <1>6, <3>1, <3>2
  <2>3. \A u \in Active' : result'[u] = "none"
    BY <1>1, <1>3 DEF TasksAccounted
  <2>4. \E u \in Tasks : result'[u] = "none"
    BY <1>1, <1>3
  <2>5. ASSUME NEW u \in Tasks, result'[u] = "none", running'[u] = 0
        PROVE  \E i \in 1..(L + 1) : waitingTasks'[i].task = u
    <3>1. CASE u = t
      <4>1. L + 1 \in 1..(L + 1)
        BY <1>6
      <4>2. QED
        BY <1>8, <3>1, <4>1
    <3>2. CASE u # t
      <4>1. result[u] = "none" /\ running[u] = 0
        BY <1>1, <1>4, <2>5, <3>2
      <4>2. PICK i \in 1..L : waitingTasks[i].task = u
        BY <1>1, <1>6, <4>1 DEF TasksAccounted
      <4>3. i \in 1..(L + 1) /\ waitingTasks'[i].task = u
        BY <1>6, <1>8, <4>2
      <4>4. QED
        BY <4>3
    <3>3. QED
      BY <3>1, <3>2
  <2>6. QED
    BY <1>8, <2>1, <2>2, <2>3, <2>4, <2>5 DEF TasksAccounted
<1>11. StartsAreAwaited'
  BY <1>1 DEF StartsAreAwaited
<1>12. QED
  BY <1>1, <1>3, <1>9, <1>10, <1>11

\* executeDiscovery: at every moment its queue, its starts and its sleeps are in order, for
\* every set of tasks, limits, spacing and back-off.
THEOREM PoolInvariant == PoolSpec => []PoolInv
<1>1. PoolInit => PoolInv
  BY PoolBegins
<1>2. PoolInv /\ [PoolNext]_poolVars => PoolInv'
  <2> SUFFICES ASSUME PoolInv, [PoolNext]_poolVars PROVE PoolInv'
    OBVIOUS
  <2>1. CASE StartTask
    BY <2>1, StartKeepsPool
  <2>2. CASE StopScheduling
    BY <2>2, StopKeepsPool
  <2>3. CASE WakeUp
    BY <2>3, WakeKeepsPool
  <2>4. CASE AbortPool
    BY <2>4, AbortKeepsPool
  <2>5. CASE PoolTick
    BY <2>5, TickKeepsPool
  <2>6. CASE \E t \in Tasks : TaskEnds(t)
    BY <2>6, EndKeepsPool
  <2>7. CASE \E t \in Tasks : \E d \in Delays : TaskRetries(t, d)
    BY <2>7, RetryKeepsPool
  <2>8. CASE UNCHANGED poolVars
    <3>1. UNCHANGED <<Active, Eligible>> /\ \A s : UNCHANGED ActiveOf(s)
      BY <2>8 DEF Active, ActiveOf, Eligible, poolVars
    <3>2. \A i \in Eligible : StartsAt(waitingTasks[i])' = StartsAt(waitingTasks[i])
      BY <2>8 DEF StartsAt, poolVars
    <3>3. PoolTypeOK'
      BY <2>8 DEF PoolInv, PoolTypeOK, poolVars
    <3>4. PoolLimits' /\ TasksAccounted'
      BY <2>8, <3>1 DEF PoolInv, PoolLimits, TasksAccounted, poolVars
    <3>5. StartsAreAwaited'
      BY <2>8, <3>1, <3>2 DEF PoolInv, StartsAreAwaited, poolVars
    <3>6. QED
      BY <2>8, <3>3, <3>4, <3>5 DEF PoolInv, poolVars
  <2>9. QED
    BY <2>1, <2>2, <2>3, <2>4, <2>5, <2>6, <2>7, <2>8 DEF PoolNext
<1>3. QED
  BY <1>1, <1>2, PTL DEF PoolSpec

\* schedule() never leaves the pool asleep past a start: whichever sleep it replaced, shortened
\* or skipped, the one that counts ends no later than the first task it could start.
THEOREM StartsAwaited == PoolSpec => []StartsAreAwaited
<1>1. PoolInv => StartsAreAwaited
  BY DEF PoolInv
<1>2. QED
  BY <1>1, PoolInvariant, PTL

\* No more than options.concurrency tasks are under way, nor than the limit of a source.
THEOREM PoolKeepsLimits == PoolSpec => []PoolLimits
<1>1. PoolInv => PoolLimits
  BY DEF PoolInv
<1>2. QED
  BY <1>1, PoolInvariant, PTL

\* However often it is retried, a task is queued once, under way once or done: no result of a
\* task is awaited that nothing will bring.
THEOREM TasksAreAccounted == PoolSpec => []TasksAccounted
<1>1. PoolInv => TasksAccounted
  BY DEF PoolInv
<1>2. QED
  BY <1>1, PoolInvariant, PTL

=============================================================================
