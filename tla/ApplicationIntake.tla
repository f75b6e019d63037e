-------------------------- MODULE ApplicationIntake --------------------------
(***************************************************************************)
(* How a posting becomes an application of one owner that may be filled    *)
(* in: createApplicationIntent (services/application-creation.ts),         *)
(* executeApplicationQuality (services/application-quality.ts) with its    *)
(* daily budget, prepareApplicationForForm                                 *)
(* (services/application-form-preparation.ts), and the other doors that    *)
(* queue a form job for an application that has been started: the          *)
(* complete-greenhouse and complete-lever routes and scheduleApplicationRun*)
(* (services/durable-scheduler.ts).                                        *)
(*                                                                         *)
(* Most are one transaction that takes an advisory lock first.  What it    *)
(* reads under the lock and what it writes at its commit are two steps     *)
(* here, so that other transactions, and the owner, may act in between.    *)
(***************************************************************************)
EXTENDS Naturals, FiniteSets, Sequences

CONSTANTS Vacancies,      \* jobs with a match, a verified resume version and ATS evidence
          Transactions,  \* database sessions serving requests and worker jobs
          RequestKeys,   \* idempotency keys of the requests
          DailyLimit,    \* maxApplicationsPerDay
          Rules,         \* the owner's enabled rules, the highest priority first: the postings
                         \* a rule is about, and the reservations of the day it asks for
          LastDay,       \* bound on the calendar
          MaxOrders,     \* bound on the form jobs of preparation, and on those the owner orders
          Nothing

ASSUME IntakeAssumption ==
  /\ {DailyLimit, MaxOrders} \subseteq Nat /\ LastDay \in Nat \ {0}
  /\ IsFiniteSet(Vacancies)
  /\ Rules \in Seq([jobs : SUBSET Vacancies, reserved : Nat,
                   action : {"REVIEW", "APPLY", "SKIP", "NOTIFY"}])
  /\ Nothing \notin Transactions \cup Vacancies \cup RequestKeys

VARIABLES
  application,  \* [Vacancies -> status and version]; unique per owner and posting
  evaluation,   \* [Vacancies -> key of its EVALUATE_APPLICATION_QUALITY job, or Nothing]
  reservation,  \* [Vacancies -> day reserved for its application, or 0]
  passed,       \* postings whose application has a PASS decision
  formJob,      \* <<posting, key>> of the provider form jobs that preparation queued
  ordered,      \* <<posting, key>> of those the owner queued or scheduled
  byHand,       \* history: postings whose application the owner moved past the quality gate
  txn,          \* [Transactions -> the transaction under way]
  today

intakeVars == <<application, evaluation, reservation, passed, formJob, ordered, byHand, txn, today>>

Verdicts == {"PASS", "FAIL", "SKIPPED"}
NoApplication == [status |-> "none", version |-> 0]

\* The statuses on the way to the form, the first of which the owner or the quality gate
\* enters; RESUME_GENERATED to QUEUED are one here.
IntakeStatuses == {"none", "DISCOVERED", "QUALIFIED", "QUEUED", "APPLICATION_STARTED", "SKIPPED", "FAILED"}
NoTxn    == [kind |-> "none", posting |-> Nothing, key |-> Nothing, seen |-> NoApplication,
             others |-> 0, reserved |-> FALSE, day |-> 0]

IntakeTypeOK ==
  /\ application \in [Vacancies -> [status : IntakeStatuses, version : Nat]]
  /\ evaluation \in [Vacancies -> RequestKeys \cup {Nothing}]
  /\ reservation \in [Vacancies -> 0 .. LastDay] /\ passed \subseteq Vacancies
  /\ formJob \subseteq Vacancies \X RequestKeys /\ today \in 1 .. LastDay
  /\ ordered \subseteq Vacancies \X (Vacancies \cup RequestKeys)
  /\ byHand \subseteq Vacancies
  /\ \A t \in Transactions : txn[t].kind \in {"none", "create", "evaluate"}

IntakeInit ==
  /\ application = [p \in Vacancies |-> NoApplication]
  /\ evaluation = [p \in Vacancies |-> Nothing]
  /\ reservation = [p \in Vacancies |-> 0] /\ passed = {} /\ formJob = {}
  /\ ordered = {} /\ byHand = {}
  /\ txn = [t \in Transactions |-> NoTxn] /\ today = 1

-----------------------------------------------------------------------------
Status(p) == application[p].status
Moved(p, status) == [application EXCEPT ![p] = [status |-> status, version |-> @.version + 1]]

Running(kind) == {t \in Transactions : txn[t].kind = kind}

\* Variant: evaluations do not wait for each other.
QualityUnlocked == TRUE

\* pg_advisory_xact_lock: on the posting and on the key for a creation; one lock of the
\* owner for every evaluation.
CreateLockFree(p, k) == \A t \in Running("create") : txn[t].posting # p /\ txn[t].key # k
QualityLockFree == Running("evaluate") = {}

Reserved(d) == {p \in Vacancies : reservation[p] = d}

\* createApplicationIntent, under its locks: an application that exists is replayed to the
\* same request and refused to any other.
CreateReads(t, p, k) ==
  /\ txn[t] = NoTxn
  /\ CreateLockFree(p, k)
  /\ Status(p) = "none"
  /\ txn' = [txn EXCEPT ![t] = [NoTxn EXCEPT !.kind = "create", !.posting = p, !.key = k]]
  /\ UNCHANGED <<application, evaluation, reservation, passed, formJob, ordered, byHand, today>>

\* The application and its evaluation job are written together; the key of a job is unique.
CreateCommits(t) ==
  LET p == txn[t].posting  k == txn[t].key
  IN  /\ txn[t].kind = "create"
      /\ \A q \in Vacancies : evaluation[q] # k
      /\ application' = Moved(p, "DISCOVERED")
      /\ evaluation' = [evaluation EXCEPT ![p] = k]
      /\ txn' = [txn EXCEPT ![t] = NoTxn]
      /\ UNCHANGED <<reservation, passed, formJob, ordered, byHand, today>>

\* executeApplicationQuality, under the owner's lock: the application, its reservation, the
\* calendar day and the reservations of the owner's other applications that day.
EvaluateReads(t, p) ==
  /\ txn[t] = NoTxn
  /\ QualityLockFree
  /\ evaluation[p] # Nothing
  /\ txn' = [txn EXCEPT ![t] = [NoTxn EXCEPT !.kind = "evaluate", !.posting = p,
       !.seen = application[p], !.reserved = reservation[p] # 0, !.day = today,
       !.others = Cardinality(Reserved(today) \ {p})]]
  /\ UNCHANGED <<application, evaluation, reservation, passed, formJob, ordered, byHand, today>>

\* A day whose budget is spent skips an application that has no reservation.
Available(t) == txn[t].reserved \/ txn[t].others < DailyLimit

ConditionsMatch(rule, t) == txn[t].posting \in rule.jobs /\ txn[t].others >= rule.reserved

\* matchedRule: of the rules that match, only the first has a say.
MatchedRule(t, i) ==
  /\ ConditionsMatch(Rules[i], t)
  /\ \A j \in 1 .. i - 1 : ~ConditionsMatch(Rules[j], t)

UserSkips(t) == \E i \in DOMAIN Rules : MatchedRule(t, i) /\ Rules[i].action = "SKIP"

\* evaluateApplicationQuality: what fails wins over what skips; scores, truth and profile
\* have a verdict of their own, the checks.
Decision(t, checks) ==
  IF checks = "FAIL" THEN "FAIL"
  ELSE IF checks = "SKIPPED" \/ UserSkips(t) \/ ~Available(t) THEN "SKIPPED"
  ELSE "PASS"

\* The decision, the reservation and the transition commit together; the transition expects
\* the version that was read.
EvaluateCommits(t, checks) ==
  LET p == txn[t].posting
      decision == Decision(t, checks)
      moves == decision \in {"PASS", "SKIPPED"} /\ txn[t].seen.status = "DISCOVERED"
  IN  /\ txn[t].kind = "evaluate"
      /\ moves => application[p] = txn[t].seen
      /\ reservation' = IF decision = "PASS" /\ ~txn[t].reserved
                        THEN [reservation EXCEPT ![p] = txn[t].day] ELSE reservation
      /\ passed' = IF decision = "PASS" THEN passed \cup {p} ELSE passed
      /\ application' = IF moves THEN Moved(p, IF decision = "PASS" THEN "QUALIFIED" ELSE "SKIPPED")
                        ELSE application
      /\ txn' = [txn EXCEPT ![t] = NoTxn]
      /\ UNCHANGED <<evaluation, formJob, ordered, byHand, today>>

\* Any transaction may roll back: a conflict, an error, a lost connection.
RollBack(t) ==
  /\ txn[t] # NoTxn
  /\ txn' = [txn EXCEPT ![t] = NoTxn]
  /\ UNCHANGED <<application, evaluation, reservation, passed, formJob, ordered, byHand, today>>

\* prepareInTransaction: from QUALIFIED along the path to APPLICATION_STARTED in one
\* transaction, and a provider form job under the request's key, which no other
\* application's may have.
Prepare(p, k) ==
  /\ p \in passed /\ \A job \in formJob : job[2] = k => job[1] = p
  /\ Status(p) \in {"QUALIFIED", "QUEUED", "APPLICATION_STARTED"}
  /\ <<p, k>> \in formJob \/ Cardinality(formJob) < MaxOrders
  /\ application' = IF Status(p) = "APPLICATION_STARTED" THEN application ELSE Moved(p, "APPLICATION_STARTED")
  /\ formJob' = formJob \cup {<<p, k>>}
  /\ UNCHANGED <<evaluation, reservation, passed, ordered, byHand, txn, today>>

\* POST /:id/complete-greenhouse, /:id/complete-lever: under a key of the application.  The
\* job is queued in a transaction of its own, after the status was read; its handler reads
\* the status again.
OrderForm(p) ==
  /\ Status(p) = "APPLICATION_STARTED" /\ Cardinality(ordered) < MaxOrders
  /\ ordered' = ordered \cup {<<p, p>>}
  /\ UNCHANGED <<application, evaluation, reservation, passed, formJob, byHand, txn, today>>

\* scheduleApplicationRun, within 90 days: the key is replayed to the same request only.
ScheduleRun(p, k) ==
  /\ Status(p) = "APPLICATION_STARTED" /\ Cardinality(ordered) < MaxOrders
  /\ \A job \in ordered : job[2] = k => job[1] = p
  /\ ordered' = ordered \cup {<<p, k>>}
  /\ UNCHANGED <<application, evaluation, reservation, passed, formJob, byHand, txn, today>>

\* PATCH /applications/:id/status: the owner moves the application along the allowed graph,
\* also past the quality gate; its reservation and its decisions stay.
OwnerMoves(p, to) ==
  /\ \/ Status(p) = "DISCOVERED" /\ to \in {"QUALIFIED", "SKIPPED"}
     \/ Status(p) = "QUALIFIED" /\ to \in {"QUEUED", "SKIPPED", "FAILED"}
     \/ Status(p) = "QUEUED" /\ to \in {"APPLICATION_STARTED", "FAILED"}
     \/ Status(p) = "APPLICATION_STARTED" /\ to = "FAILED"
  /\ application' = Moved(p, to)
  /\ byHand' = IF to = "QUALIFIED" THEN byHand \cup {p} ELSE byHand
  /\ UNCHANGED <<evaluation, reservation, passed, formJob, ordered, txn, today>>

NextDay ==
  /\ today < LastDay
  /\ today' = today + 1
  /\ UNCHANGED <<application, evaluation, reservation, passed, formJob, ordered, byHand, txn>>

IntakeNext ==
  \/ \E t \in Transactions :
       \/ \E p \in Vacancies, k \in RequestKeys : CreateReads(t, p, k)
       \/ CreateCommits(t)
       \/ \E p \in Vacancies : EvaluateReads(t, p)
       \/ \E checks \in Verdicts : EvaluateCommits(t, checks)
       \/ RollBack(t)
  \/ \E p \in Vacancies, k \in RequestKeys : Prepare(p, k) \/ ScheduleRun(p, k)
  \/ \E p \in Vacancies : OrderForm(p)
  \/ \E p \in Vacancies, to \in IntakeStatuses : OwnerMoves(p, to)
  \/ NextDay

IntakeSpec == IntakeInit /\ [][IntakeNext]_intakeVars

-----------------------------------------------------------------------------
\* No day holds more reservations than the owner allows, however many evaluations run at
\* once, roll back, or run twice over a change of day; and whichever door queues the filling
\* of a form, its application has a reservation, unless the owner moved it past the quality
\* gate by hand, which is not enough for prepareApplicationForForm.
DailyBudgetKept ==
  /\ \A d \in 1 .. LastDay : Cardinality(Reserved(d)) <= DailyLimit
  /\ \A job \in formJob : reservation[job[1]] # 0
  /\ \A job \in ordered : reservation[job[1]] # 0 \/ job[1] \in byHand

=============================================================================
