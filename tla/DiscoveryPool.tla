---------------------------- MODULE DiscoveryPool ----------------------------
(***************************************************************************)
(* executeDiscovery: a pool that runs discovery tasks, at most Concurrency *)
(* at a time and PerSource of one source, spaces the starts of a source,   *)
(* stops a whole source while one of its tasks backs off, and sleeps when  *)
(* nothing may start.  schedule() is synchronous; while it runs nothing    *)
(* but the clock moves.  Of the sleeps only the latest counts: an earlier  *)
(* one finds its version superseded and does nothing.                      *)
(***************************************************************************)
EXTENDS Integers, Sequences, FiniteSets, SequencesExt, FiniteSetsExt

CONSTANTS
    Tasks,          \* the materialised tasks
    TaskOrder,      \* and their order in the queue
    Source,         \* the source of each task
    Concurrency,    \* options.concurrency
    PerSource,      \* sourceRateLimits: concurrency of every source
    Interval,       \* sourceRateLimits: minIntervalMs of every source
    Tries,          \* retry.maxAttempts
    Delays,         \* what backoff and Retry-After may come to
    Never           \* Number.POSITIVE_INFINITY, as a time

ASSUME PoolAssumption ==
    /\ TaskOrder \in Seq(Tasks) /\ ToSet(TaskOrder) = Tasks
    /\ Len(TaskOrder) = Cardinality(Tasks)
    /\ Concurrency \in Nat \ {0} /\ PerSource \in Nat \ {0} /\ Tries \in Nat \ {0}
    /\ Interval \in Nat /\ Delays \subseteq Nat /\ Never \notin Nat

VARIABLES
    clock,          \* options.now()
    waitingTasks,   \* queue: tasks with their attempt and readyAt
    running,        \* attempt of each task under way, 0 if none
    nextStart,      \* SourceState.nextStartAt
    blockedUntil,   \* SourceState.blockedUntil
    result,         \* results: fulfilled or rejected, one here
    wakeAt,         \* scheduledWakeAt
    scheduling,     \* inside schedule()
    earliest,       \* earliestWake of that call
    settled         \* the promise

poolVars == <<clock, waitingTasks, running, nextStart, blockedUntil, result, wakeAt, scheduling,
              earliest, settled>>

Sources == {Source[t] : t \in Tasks}

Earliest(times) == IF times = {} THEN Never ELSE Min(times)
EndsBefore(at, than) == at # Never /\ (than = Never \/ at < than)

-----------------------------------------------------------------------------
(* Types *)

PoolTypeOK ==
    /\ clock \in Nat
    /\ waitingTasks \in Seq([task : Tasks, attempt : 1..Tries, readyAt : Nat])
    /\ running \in [Tasks -> 0..Tries]
    /\ nextStart \in [Sources -> Nat] /\ blockedUntil \in [Sources -> Nat]
    /\ result \in [Tasks -> {"none", "settled"}]
    /\ {wakeAt, earliest} \subseteq Nat \cup {Never}
    /\ scheduling \in BOOLEAN
    /\ settled \in {"no", "resolved", "aborted"}

PoolInit ==
    /\ clock = 0
    /\ waitingTasks = [i \in 1..Len(TaskOrder) |->
                         [task |-> TaskOrder[i], attempt |-> 1, readyAt |-> 0]]
    /\ running = [t \in Tasks |-> 0]
    /\ nextStart = [s \in Sources |-> 0] /\ blockedUntil = [s \in Sources |-> 0]
    /\ result = [t \in Tasks |-> "none"]
    /\ wakeAt = Never /\ earliest = Never
    /\ scheduling = (Tasks # {})
    /\ settled = IF Tasks = {} THEN "resolved" ELSE "no"

-----------------------------------------------------------------------------
(* schedule() *)

Active == {t \in Tasks : running[t] # 0}

ActiveOf(s) == {t \in Active : Source[t] = s}

\* From when on a queued task may start.
StartsAt(q) ==
    LET s == Source[q.task]
    IN Max({q.readyAt, nextStart[s], blockedUntil[s]})

\* The positions selectRunnable considers: the source has a free place.
Eligible == {i \in DOMAIN waitingTasks :
               Cardinality(ActiveOf(Source[waitingTasks[i].task])) < PerSource}

Runnable == {i \in Eligible : StartsAt(waitingTasks[i]) <= clock}

\* The earliest start among the positions it passed over before stopping.
EarliestBefore(n) ==
    Earliest(({earliest} \ {Never}) \cup {StartsAt(waitingTasks[i]) : i \in {j \in Eligible : j < n}})

StartTask ==
    /\ scheduling /\ Cardinality(Active) < Concurrency /\ Runnable # {}
    /\ LET n == Min(Runnable)
           q == waitingTasks[n]
       IN /\ waitingTasks' = RemoveAt(waitingTasks, n)
          /\ running' = [running EXCEPT ![q.task] = q.attempt]
          /\ nextStart' = [nextStart EXCEPT ![Source[q.task]] = clock + Interval]
          /\ earliest' = EarliestBefore(n)
    /\ UNCHANGED <<clock, blockedUntil, result, wakeAt, scheduling, settled>>

\* Variant: a sleep under way is never replaced.
SleepKept(at) == IF Cardinality(Active) < Concurrency /\ waitingTasks # <<>> /\ wakeAt = Never
                 THEN at ELSE wakeAt

\* A sleep is started only if there is room, and only if it ends before the one
\* already under way.
SleepUntil(at) == IF Cardinality(Active) < Concurrency /\ waitingTasks # <<>> /\ EndsBefore(at, wakeAt)
                  THEN at ELSE wakeAt

StopScheduling ==
    /\ scheduling /\ (Cardinality(Active) >= Concurrency \/ Runnable = {})
    /\ scheduling' = FALSE
    /\ earliest' = Never
    /\ wakeAt' = SleepUntil(IF Cardinality(Active) < Concurrency
                            THEN EarliestBefore(Len(waitingTasks) + 1) ELSE earliest)
    /\ UNCHANGED <<clock, waitingTasks, running, nextStart, blockedUntil, result, settled>>

-----------------------------------------------------------------------------
(* Its callers *)

\* Variant: keeps the time of the wake that was.
AwakenedBefore == wakeAt

\* The sleep ends: the wake is forgotten before schedule() runs again.
Awakened == Never

WakeUp ==
    /\ settled = "no" /\ ~scheduling /\ wakeAt # Never /\ wakeAt <= clock
    /\ wakeAt' = Awakened
    /\ scheduling' = TRUE
    /\ UNCHANGED <<clock, waitingTasks, running, nextStart, blockedUntil, result, earliest, settled>>

\* A task has its result: the last one resolves the promise.
TaskEnds(t) ==
    /\ running[t] # 0 /\ ~scheduling
    /\ running' = [running EXCEPT ![t] = 0]
    /\ IF settled # "no" THEN UNCHANGED <<result, settled, scheduling>>
       ELSE /\ result' = [result EXCEPT ![t] = "settled"]
            /\ settled' = IF \A u \in Tasks : result'[u] # "none" THEN "resolved" ELSE "no"
            /\ scheduling' = (settled' = "no")
    /\ UNCHANGED <<clock, waitingTasks, nextStart, blockedUntil, wakeAt, earliest>>

\* A failed try: the task goes back to the queue and its source waits with it.
TaskRetries(t, delay) ==
    /\ running[t] \in 1..(Tries - 1) /\ ~scheduling /\ settled = "no"
    /\ running' = [running EXCEPT ![t] = 0]
    /\ waitingTasks' = Append(waitingTasks, [task |-> t, attempt |-> running[t] + 1,
                                             readyAt |-> clock + delay])
    /\ blockedUntil' = [blockedUntil EXCEPT ![Source[t]] = Max({@, clock + delay})]
    /\ scheduling' = TRUE
    /\ UNCHANGED <<clock, nextStart, result, wakeAt, earliest, settled>>

\* The caller's signal: the promise is rejected, tasks under way run out.
AbortPool ==
    /\ settled = "no" /\ ~scheduling
    /\ settled' = "aborted"
    /\ UNCHANGED <<clock, waitingTasks, running, nextStart, blockedUntil, result, wakeAt, scheduling,
                   earliest>>

\* The clock passes the moments something waits for; beyond them time means nothing.
Moments == {q.readyAt : q \in ToSet(waitingTasks)} \cup {nextStart[s] : s \in Sources}
           \cup {blockedUntil[s] : s \in Sources} \cup ({wakeAt} \ {Never})

PoolTick ==
    /\ settled = "no" /\ clock < Max(Moments)
    /\ clock' = clock + 1
    /\ UNCHANGED <<waitingTasks, running, nextStart, blockedUntil, result, wakeAt, scheduling,
                   earliest, settled>>

-----------------------------------------------------------------------------
(* Specification *)

PoolNext ==
    \/ StartTask \/ StopScheduling \/ WakeUp \/ AbortPool \/ PoolTick
    \/ \E t \in Tasks : \/ TaskEnds(t)
                        \/ \E d \in Delays : TaskRetries(t, d)

PoolSpec == PoolInit /\ [][PoolNext]_poolVars

\* schedule() returns, a timer that is due fires, the clock advances, and a task
\* is settled by its own time limit.
PoolFairness ==
    /\ WF_poolVars(StartTask \/ StopScheduling) /\ WF_poolVars(WakeUp) /\ WF_poolVars(PoolTick)
    /\ \A t \in Tasks : WF_poolVars(TaskEnds(t))

-----------------------------------------------------------------------------
(* Properties *)

\* No wake-up is lost: sleeps are replaced, shortened and skipped, and still a pool that
\* has started a task ends.
PoolSettles == Active # {} ~> settled # "no"

\* Nothing is overslept: between two calls of schedule() a task is under way or a sleep is,
\* and while there is room no queued task whose source has a free place may start before
\* that sleep ends, whichever source was spaced, blocked or freed since it began.
StartsAreAwaited ==
    settled = "no" /\ ~scheduling =>
        /\ Active # {} \/ wakeAt # Never
        /\ Cardinality(Active) < Concurrency =>
               \A i \in Eligible : wakeAt # Never /\ wakeAt <= StartsAt(waitingTasks[i])

\* sourceRateLimits and concurrency bound what is under way, retries included.
PoolLimits ==
    /\ Cardinality(Active) <= Concurrency
    /\ \A s \in Sources : Cardinality(ActiveOf(s)) <= PerSource

\* No task is lost and none runs twice at once: it is queued in one place, or under way, or
\* has its result.
TasksAccounted ==
    /\ \A i, j \in DOMAIN waitingTasks : waitingTasks[i].task = waitingTasks[j].task => i = j
    /\ \A i \in DOMAIN waitingTasks : running[waitingTasks[i].task] = 0 /\ result[waitingTasks[i].task] = "none"
    /\ \A t \in Active : result[t] = "none"
    /\ settled = "no" => /\ \E t \in Tasks : result[t] = "none"
                         /\ \A t \in Tasks : result[t] = "none" /\ running[t] = 0
                                => \E i \in DOMAIN waitingTasks : waitingTasks[i].task = t
=============================================================================
