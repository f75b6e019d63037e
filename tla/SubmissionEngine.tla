-------------------------- MODULE SubmissionEngine --------------------------
(***************************************************************************)
(* Submitting one application: the owner authorizes, which opens a job; a  *)
(* worker's call claims the authorization, drives a browser up to the      *)
(* provider's submit control, and records what came of it; a reconciler    *)
(* gives up on executions that take too long; a verifier confirms from     *)
(* recorded evidence; a person may have to answer a CAPTCHA in between.    *)
(* All of them, and the owner's own status changes, meet in the            *)
(* application's status and version.                                       *)
(*                                                                         *)
(* Every withTenant block is one transaction and so one action.  What      *)
(* happens in the browser is several: between them the rows are free to    *)
(* change.                                                                 *)
(***************************************************************************)
EXTENDS Naturals

CONSTANTS
    Auths,           \* ids of submission_authorizations of the application
    Calls,           \* concurrent calls of the submission job's handler
    None,            \* no value
    OwnerStatuses,   \* the statuses the owner asks for with PATCH
    MaxReplays,      \* bound: replays of an authorization's dead-lettered job
    ReplayAttempts,  \* the maxAttempts a replay is asked for, 3 by default
    CloseMayFail,    \* may closing the browser session throw?
    RecordMayFail    \* may the database refuse to record an outcome?

Statuses == {"DISCOVERED", "QUALIFIED", "SKIPPED", "RESUME_GENERATED", "RESUME_VALIDATED",
             "ATS_VALIDATED", "QUEUED", "APPLICATION_STARTED", "FORM_FILLED",
             "WAITING_FOR_USER", "READY_TO_SUBMIT", "SUBMISSION_PENDING", "SUBMITTED",
             "UNCONFIRMED", "CONFIRMED", "ASSESSMENT", "FAILED", "RETRY_PENDING",
             "INTERVIEW", "REJECTED", "OFFER", "ACCEPTED", "WITHDRAWN"}

ASSUME SubmissionAssumption ==
    /\ None \notin Auths
    /\ OwnerStatuses \subseteq Statuses
    /\ MaxReplays \in Nat /\ ReplayAttempts \in Nat \ {0}
    /\ CloseMayFail \in BOOLEAN /\ RecordMayFail \in BOOLEAN

VARIABLES
    app,         \* applications: status, version, appliedAt
    auth,        \* submission_authorizations
    attempt,     \* application_attempts: the status of each authorization's attempt
    job,         \* the EXECUTE_AUTHORIZED_SUBMISSION job of each authorization
    call,        \* what each handler call is doing
    evidence,    \* authorizations whose confirmation a verification job carries
    hv,          \* human_verifications, by the authorization that asked
    clickedAt,   \* when the submit control was activated for an authorization
    clock        \* the number of activations: the model's time

vars == <<app, auth, attempt, job, call, evidence, hv, clickedAt, clock>>

-----------------------------------------------------------------------------
(* Types *)

\* since is the authorization whose own transition was the application's last
\* one: every transition adds 1 to the version, so version equals
\* applicationVersion + 1 of exactly that authorization.  appliedAt counts
\* activations; 0 is SQL NULL.
Apps == [status : Statuses, since : Auths \cup {None}, appliedAt : Nat]

AuthStatuses == {"NONE", "AUTHORIZED", "EXECUTING", "CONSUMED", "OUTCOME_UNKNOWN",
                 "FAILED", "EXPIRED"}
Authorizations == [status : AuthStatuses, late : BOOLEAN]

AttemptStatuses == {"NONE", "EXECUTING", "UNCONFIRMED", "OUTCOME_UNKNOWN",
                    "WAITING_FOR_USER", "FAILED", "CONFIRMED"}

JobRows == [status  : {"NONE", "AVAILABLE", "LEASED", "SUCCEEDED", "CANCELLED", "DEAD_LETTER"},
            replays : 0..MaxReplays, attempts : Nat]

\* round tells which of the job's rows the call was started for.
CallStates == [pc        : {"idle", "dead", "claiming", "preparing", "opening", "inPage",
                            "closing", "recording"},
               auth      : Auths \cup {None},
               round     : 0..MaxReplays,
               verdict   : {"NONE", "SUBMITTED", "HUMAN", "FAILED", "UNKNOWN"},
               confirmed : BOOLEAN]

\* resumable: the job that resumes the application is still to run.
Verifications == [status    : {"NONE", "PENDING", "RESOLVED", "EXPIRED", "CANCELLED"},
                  resumeTo  : {"READY_TO_SUBMIT", "FORM_FILLED"},
                  late      : BOOLEAN,
                  resumable : BOOLEAN]

NoCall == [pc |-> "idle", auth |-> None, round |-> 0, verdict |-> "NONE", confirmed |-> FALSE]
NoVerification == [status |-> "NONE", resumeTo |-> "FORM_FILLED", late |-> FALSE,
                   resumable |-> FALSE]

\* An application that has been prepared and reviewed.
Init ==
    /\ app = [status |-> "READY_TO_SUBMIT", since |-> None, appliedAt |-> 0]
    /\ auth = [a \in Auths |-> [status |-> "NONE", late |-> FALSE]]
    /\ attempt = [a \in Auths |-> "NONE"]
    /\ job = [a \in Auths |-> [status |-> "NONE", replays |-> 0, attempts |-> 0]]
    /\ call = [x \in Calls |-> NoCall]
    /\ evidence = {}
    /\ hv = [a \in Auths |-> NoVerification]
    /\ clickedAt = [a \in Auths |-> 0]
    /\ clock = 0

-----------------------------------------------------------------------------
(* The application state machine *)

CanTransition(from, to) ==
    \/ from = "DISCOVERED" /\ to \in {"QUALIFIED", "SKIPPED"}
    \/ from = "QUALIFIED" /\ to \in {"RESUME_GENERATED", "SKIPPED", "FAILED"}
    \/ from = "RESUME_GENERATED" /\ to \in {"RESUME_VALIDATED", "FAILED"}
    \/ from = "RESUME_VALIDATED" /\ to \in {"ATS_VALIDATED", "FAILED"}
    \/ from = "ATS_VALIDATED" /\ to \in {"QUEUED", "SKIPPED", "FAILED"}
    \/ from = "QUEUED" /\ to \in {"APPLICATION_STARTED", "RETRY_PENDING", "FAILED", "WITHDRAWN"}
    \/ from = "APPLICATION_STARTED"
         /\ to \in {"FORM_FILLED", "WAITING_FOR_USER", "RETRY_PENDING", "FAILED", "WITHDRAWN"}
    \/ from = "FORM_FILLED"
         /\ to \in {"WAITING_FOR_USER", "READY_TO_SUBMIT", "RETRY_PENDING", "FAILED", "WITHDRAWN"}
    \/ from = "WAITING_FOR_USER"
         /\ to \in {"FORM_FILLED", "READY_TO_SUBMIT", "FAILED", "WITHDRAWN"}
    \/ from = "READY_TO_SUBMIT"
         /\ to \in {"SUBMISSION_PENDING", "WAITING_FOR_USER", "FAILED", "WITHDRAWN"}
    \/ from = "SUBMISSION_PENDING"
         /\ to \in {"READY_TO_SUBMIT", "WAITING_FOR_USER", "UNCONFIRMED", "RETRY_PENDING", "FAILED"}
    \/ from = "SUBMITTED" /\ to = "UNCONFIRMED"
    \/ from = "UNCONFIRMED" /\ to \in {"CONFIRMED", "RETRY_PENDING", "FAILED"}
    \/ from = "CONFIRMED" /\ to \in {"ASSESSMENT", "INTERVIEW", "REJECTED", "OFFER", "WITHDRAWN"}
    \/ from = "ASSESSMENT" /\ to \in {"INTERVIEW", "OFFER", "REJECTED", "WITHDRAWN"}
    \/ from = "FAILED" /\ to \in {"RETRY_PENDING", "WITHDRAWN"}
    \/ from = "RETRY_PENDING" /\ to \in {"QUEUED", "APPLICATION_STARTED", "FAILED", "WITHDRAWN"}
    \/ from = "INTERVIEW" /\ to \in {"INTERVIEW", "OFFER", "REJECTED", "WITHDRAWN"}
    \/ from = "OFFER" /\ to \in {"ACCEPTED", "REJECTED", "WITHDRAWN"}

\* A moment after the latest activation of a submit control and before the next.
Now == clock + 1

\* transitionApplicationInTenant; the version it expects was read in the same
\* transaction, or is the one the owner's client has just been shown.
Transition(to, since, at) ==
    /\ CanTransition(app.status, to)
    /\ app' = [status |-> to, since |-> since,
               appliedAt |-> IF to = "UNCONFIRMED" THEN at ELSE app.appliedAt]

\* The owner's PATCH: everything but the two statuses that have a door of their own.
Patch(to) ==
    /\ to \notin {"SUBMISSION_PENDING", "CONFIRMED"}
    /\ Transition(to, None, Now)
    /\ UNCHANGED <<auth, attempt, job, call, evidence, hv, clickedAt, clock>>

-----------------------------------------------------------------------------
(* Authorization, and the job that carries it *)

\* Variant: an unknown outcome does not keep the owner from authorizing again.
ActiveBeforeOutcome(a) == auth[a].status \in {"AUTHORIZED", "EXECUTING"}

Active(a) == auth[a].status \in {"AUTHORIZED", "EXECUTING", "OUTCOME_UNKNOWN"}

\* Quality, documents and answers are taken to be in order.
AuthorizeSubmission(a) ==
    /\ auth[a].status = "NONE"
    /\ app.status = "READY_TO_SUBMIT"
    /\ \A b \in Auths : hv[b].status \notin {"PENDING", "EXPIRED"} /\ ~Active(b)
    /\ auth' = [auth EXCEPT ![a] = [status |-> "AUTHORIZED", late |-> FALSE]]
    /\ Transition("SUBMISSION_PENDING", a, Now)
    /\ job' = [job EXCEPT ![a] = [status |-> "AVAILABLE", replays |-> 0, attempts |-> 0]]
    /\ UNCHANGED <<attempt, call, evidence, hv, clickedAt, clock>>

\* expiresAt passes.
AuthorizationExpires(a) ==
    /\ auth[a].status = "AUTHORIZED" /\ ~auth[a].late
    /\ auth' = [auth EXCEPT ![a].late = TRUE]
    /\ UNCHANGED <<app, attempt, job, call, evidence, hv, clickedAt, clock>>

MaxAttempts(row) == IF row.replays = 0 THEN 1 ELSE ReplayAttempts

\* A lease of the job reaches its handler.
StartCall(x, a) ==
    /\ call[x].pc \in {"idle", "dead"} /\ job[a].status = "AVAILABLE"
    /\ job' = [job EXCEPT ![a] = [status |-> "LEASED", replays |-> @.replays,
                                 attempts |-> @.attempts + 1]]
    /\ call' = [call EXCEPT ![x] = [pc |-> "claiming", auth |-> a, round |-> job[a].replays,
                                    verdict |-> "NONE", confirmed |-> FALSE]]
    /\ UNCHANGED <<app, auth, attempt, evidence, hv, clickedAt, clock>>

\* A failed attempt, or one whose lease ran out.
Retried(row) == [row EXCEPT !.status = IF row.attempts < MaxAttempts(row) THEN "AVAILABLE"
                                       ELSE "DEAD_LETTER"]

\* The lease runs out, with its handler still at work or not.
LeaseExpires(a) ==
    /\ job[a].status = "LEASED"
    /\ job' = [job EXCEPT ![a] = Retried(job[a])]
    /\ UNCHANGED <<app, auth, attempt, call, evidence, hv, clickedAt, clock>>

CancelJob(a) ==
    /\ job[a].status \in {"AVAILABLE", "LEASED"}
    /\ job' = [job EXCEPT ![a].status = "CANCELLED"]
    /\ UNCHANGED <<app, auth, attempt, call, evidence, hv, clickedAt, clock>>

\* The replay is a new row with the same payload.
ReplayJob(a) ==
    /\ job[a].status = "DEAD_LETTER" /\ job[a].replays < MaxReplays
    /\ job' = [job EXCEPT ![a] = [status |-> "AVAILABLE", replays |-> @.replays + 1,
                                 attempts |-> 0]]
    /\ UNCHANGED <<app, auth, attempt, call, evidence, hv, clickedAt, clock>>

\* The handler of x returns or throws; its row may meanwhile have been settled otherwise.
EndCall(x, outcome) ==
    /\ call' = [call EXCEPT ![x] = NoCall]
    /\ job' = [a \in Auths |->
                 IF a = call[x].auth /\ job[a].status = "LEASED" /\ job[a].replays = call[x].round
                 THEN IF outcome = "RETURNED" THEN [job[a] EXCEPT !.status = "SUCCEEDED"]
                      ELSE Retried(job[a])
                 ELSE job[a]]

-----------------------------------------------------------------------------
(* Claiming the authorization *)

\* The application is as the authorization left it.
Matches(a) == app.status = "SUBMISSION_PENDING" /\ app.since = a

Claimable(a) == auth[a].status = "AUTHORIZED" /\ ~auth[a].late

ClaimAuthorized(x) ==
    LET a == call[x].auth IN
    /\ call[x].pc = "claiming" /\ Claimable(a) /\ Matches(a)
    /\ auth' = [auth EXCEPT ![a].status = "EXECUTING"]
    /\ attempt' = [attempt EXCEPT ![a] = "EXECUTING"]
    /\ call' = [call EXCEPT ![x].pc = "preparing"]
    /\ UNCHANGED <<app, job, evidence, hv, clickedAt, clock>>

\* Expired before it was claimed: the application goes back to the owner.
ClaimExpired(x) ==
    LET a == call[x].auth IN
    /\ call[x].pc = "claiming"
    /\ auth[a].status = "AUTHORIZED" /\ auth[a].late
    /\ Transition("READY_TO_SUBMIT", None, Now)
    /\ auth' = [auth EXCEPT ![a].status = "EXPIRED"]
    /\ EndCall(x, "THROWN")
    /\ UNCHANGED <<attempt, evidence, hv, clickedAt, clock>>

\* Everything else changes nothing: a consumed authorization is a successful
\* replay, the others throw, an impossible transition of the application too.
ClaimRefused(x) ==
    LET a == call[x].auth IN
    /\ call[x].pc = "claiming"
    /\ ~(Claimable(a) /\ Matches(a))
    /\ ~(/\ auth[a].status = "AUTHORIZED" /\ auth[a].late
         /\ CanTransition(app.status, "READY_TO_SUBMIT"))
    /\ EndCall(x, IF auth[a].status = "CONSUMED" THEN "RETURNED" ELSE "THROWN")
    /\ UNCHANGED <<app, auth, attempt, evidence, hv, clickedAt, clock>>

-----------------------------------------------------------------------------
(* The provider execution *)

Goto(x, pc, verdict) == call' = [call EXCEPT ![x].pc = pc, ![x].verdict = verdict]

\* The evidence of the authorization is compared with the application once.
Prepare(x) ==
    /\ call[x].pc = "preparing"
    /\ IF auth[call[x].auth].status = "EXECUTING" /\ app.since = call[x].auth
       THEN Goto(x, "opening", "NONE")
       ELSE Goto(x, "recording", "FAILED")
    /\ UNCHANGED <<app, auth, attempt, job, evidence, hv, clickedAt, clock>>

OpenSession(x) ==
    /\ call[x].pc = "opening"
    /\ Goto(x, "inPage", "NONE")
    /\ UNCHANGED <<app, auth, attempt, job, evidence, hv, clickedAt, clock>>

\* A document, the database or the browser fails before a session is open.
PreparationFails(x) ==
    /\ call[x].pc \in {"preparing", "opening"}
    /\ Goto(x, "recording", "FAILED")
    /\ UNCHANGED <<app, auth, attempt, job, evidence, hv, clickedAt, clock>>

\* The form cannot be completed, or an error of the page leaves things open.
PageFails(x) ==
    /\ call[x].pc = "inPage"
    /\ \E v \in {"FAILED", "UNKNOWN"} : Goto(x, "closing", v)
    /\ UNCHANGED <<app, auth, attempt, job, evidence, hv, clickedAt, clock>>

\* parseProviderConfirmation: the page shows a marker and an identifier, or there is
\* nothing to verify the submission by.
ParseConfirmation(x) ==
    \E found \in BOOLEAN :
        call' = [call EXCEPT ![x].pc = "closing", ![x].verdict = "SUBMITTED", ![x].confirmed = found]

\* The irreversible step.  An error in it makes the outcome unknown.
ClickSubmit(x) ==
    /\ call[x].pc = "inPage"
    /\ clock' = clock + 1
    /\ clickedAt' = [clickedAt EXCEPT ![call[x].auth] = clock + 1]
    /\ ParseConfirmation(x) \/ Goto(x, "closing", "UNKNOWN")
    /\ UNCHANGED <<app, auth, attempt, job, evidence, hv>>

\* validateProviderExecutionResult: a result with another provider, inconsistent evidence or
\* a click more than five minutes after the start is refused, and the outcome unknown.
Validated(verdict) == IF verdict = "SUBMITTED" THEN {"SUBMITTED", "UNKNOWN"} ELSE {verdict}

CloseSession(x) ==
    /\ call[x].pc = "closing"
    /\ \E verdict \in Validated(call[x].verdict) : Goto(x, "recording", verdict)
    /\ UNCHANGED <<app, auth, attempt, job, evidence, hv, clickedAt, clock>>

\* The finally block throws: its error takes the place of result and verdict.
CloseFails(x) ==
    /\ CloseMayFail
    /\ call[x].pc = "closing"
    /\ Goto(x, "recording", "FAILED")
    /\ UNCHANGED <<app, auth, attempt, job, evidence, hv, clickedAt, clock>>

-----------------------------------------------------------------------------
(* Recording the outcome *)

FailPending == IF app.status = "SUBMISSION_PENDING" THEN Transition("FAILED", None, Now)
               ELSE UNCHANGED app

DoubtPending == IF app.status = "SUBMISSION_PENDING" THEN Transition("UNCONFIRMED", None, Now)
                ELSE UNCHANGED app

Recording(x, verdict) == call[x].pc = "recording" /\ call[x].verdict = verdict

\* Each of these is skipped when the authorization is no longer EXECUTING.
Settles(x, authStatus, attemptStatus) ==
    /\ auth' = [auth EXCEPT ![call[x].auth].status = authStatus]
    /\ attempt' = [attempt EXCEPT ![call[x].auth] = attemptStatus]

RecordSubmitted(x) ==
    LET a == call[x].auth IN
    /\ Recording(x, "SUBMITTED")
    /\ auth[a].status = "EXECUTING" /\ Matches(a)
    /\ Transition("UNCONFIRMED", None, clickedAt[a])
    /\ Settles(x, "CONSUMED", "UNCONFIRMED")
    /\ evidence' = IF call[x].confirmed THEN evidence \cup {a} ELSE evidence
    /\ EndCall(x, "RETURNED")
    /\ UNCHANGED <<hv, clickedAt, clock>>

\* The transaction's promise is returned without await, so what it throws
\* passes the catch clause by: the call ends with nothing recorded.
RecordingThrows(x) ==
    LET a == call[x].auth IN
    /\ Recording(x, "SUBMITTED")
    /\ ~(auth[a].status = "EXECUTING" /\ Matches(a))
    /\ EndCall(x, "THROWN")
    /\ UNCHANGED <<app, auth, attempt, evidence, hv, clickedAt, clock>>

\* Variant: the attempt is not closed when a person has to step in.
RecordHumanAuthOnly(x) ==
    LET a == call[x].auth IN
    /\ Recording(x, "HUMAN")
    /\ IF auth[a].status = "EXECUTING"
       THEN auth' = [auth EXCEPT ![a].status = "FAILED"] /\ UNCHANGED attempt
       ELSE UNCHANGED <<auth, attempt>>
    /\ EndCall(x, "THROWN")
    /\ UNCHANGED <<app, evidence, hv, clickedAt, clock>>

RecordHuman(x) ==
    /\ Recording(x, "HUMAN")
    /\ IF auth[call[x].auth].status = "EXECUTING"
       THEN Settles(x, "FAILED", "WAITING_FOR_USER")
       ELSE UNCHANGED <<auth, attempt>>
    /\ EndCall(x, "THROWN")
    /\ UNCHANGED <<app, evidence, hv, clickedAt, clock>>

RecordFailed(x) ==
    /\ Recording(x, "FAILED")
    /\ IF auth[call[x].auth].status = "EXECUTING"
       THEN FailPending /\ Settles(x, "FAILED", "FAILED")
       ELSE UNCHANGED <<app, auth, attempt>>
    /\ EndCall(x, "THROWN")
    /\ UNCHANGED <<evidence, hv, clickedAt, clock>>

\* Variant: an unknown outcome is recorded like a failure.
RecordUnknownAsFailed(x) ==
    /\ Recording(x, "UNKNOWN")
    /\ IF auth[call[x].auth].status = "EXECUTING"
       THEN FailPending /\ Settles(x, "FAILED", "FAILED")
       ELSE UNCHANGED <<app, auth, attempt>>
    /\ EndCall(x, "THROWN")
    /\ UNCHANGED <<evidence, hv, clickedAt, clock>>

RecordUnknown(x) ==
    /\ Recording(x, "UNKNOWN")
    /\ IF auth[call[x].auth].status = "EXECUTING"
       THEN DoubtPending /\ Settles(x, "OUTCOME_UNKNOWN", "OUTCOME_UNKNOWN")
       ELSE UNCHANGED <<app, auth, attempt>>
    /\ EndCall(x, "THROWN")
    /\ UNCHANGED <<evidence, hv, clickedAt, clock>>

\* The database refuses any of them: rolled back, and nothing tries again.
RecordFails(x) ==
    /\ RecordMayFail
    /\ call[x].pc = "recording"
    /\ EndCall(x, "THROWN")
    /\ UNCHANGED <<app, auth, attempt, evidence, hv, clickedAt, clock>>

\* The worker process dies; the job's lease is left to run out.
Crash(x) ==
    /\ call[x].pc \notin {"idle", "dead"}
    /\ call' = [call EXCEPT ![x] = [NoCall EXCEPT !.pc = "dead"]]
    /\ UNCHANGED <<app, auth, attempt, job, evidence, hv, clickedAt, clock>>

\* Variant: an execution is given up only while the application still waits for it.
ReconcileIfPending(a) ==
    /\ auth[a].status = "EXECUTING" /\ app.status = "SUBMISSION_PENDING"
    /\ \E b \in Auths :
         /\ attempt[b] = "EXECUTING"
         /\ attempt' = [attempt EXCEPT ![b] = "OUTCOME_UNKNOWN"]
    /\ auth' = [auth EXCEPT ![a].status = "OUTCOME_UNKNOWN"]
    /\ DoubtPending
    /\ UNCHANGED <<job, call, evidence, hv, clickedAt, clock>>

\* reconcileStaleSubmissionAuthorizations: 15 minutes after the start of an
\* attempt of the application, however far its call has come.
ReconcileStale(a) ==
    /\ auth[a].status = "EXECUTING"
    /\ \E b \in Auths :
         /\ attempt[b] = "EXECUTING"
         /\ attempt' = [attempt EXCEPT ![b] = "OUTCOME_UNKNOWN"]
    /\ auth' = [auth EXCEPT ![a].status = "OUTCOME_UNKNOWN"]
    /\ DoubtPending
    /\ UNCHANGED <<job, call, evidence, hv, clickedAt, clock>>

-----------------------------------------------------------------------------
(* Independent verification, from the evidence a call has recorded *)

\* Variant: evidence is not compared with the time of the latest attempt.
FreshAnyEvidence(a) == app.appliedAt # 0

Fresh(a) == app.appliedAt # 0 /\ clickedAt[a] >= app.appliedAt

\* selectDurableSubmissionAttempt: the attempt the evidence names has ended without a confirmation.
DurableAttempt(a) == attempt[a] \in {"UNCONFIRMED", "OUTCOME_UNKNOWN"}

VerifySubmission(a) ==
    /\ a \in evidence
    /\ DurableAttempt(a)
    /\ Fresh(a)
    /\ app.status = "UNCONFIRMED"
    /\ Transition("CONFIRMED", None, Now)
    /\ attempt' = [attempt EXCEPT ![a] = "CONFIRMED"]
    /\ UNCHANGED <<auth, job, call, evidence, hv, clickedAt, clock>>

-----------------------------------------------------------------------------
(* Human verification *)

\* Variant: the application resumes where it was interrupted.
ResumeStatusAsBefore(status) == status

ResumeStatusFor(status) ==
    IF status \in {"READY_TO_SUBMIT", "SUBMISSION_PENDING"} THEN "READY_TO_SUBMIT"
    ELSE "FORM_FILLED"

\* The executor meets a CAPTCHA or the like.  When the request is refused, the
\* error makes the outcome unknown, see PageFails.
RequestVerification(x) ==
    LET a == call[x].auth IN
    /\ call[x].pc = "inPage"
    /\ hv[a].status = "NONE"
    /\ app.status \in {"APPLICATION_STARTED", "FORM_FILLED", "READY_TO_SUBMIT",
                       "SUBMISSION_PENDING", "WAITING_FOR_USER"}
    /\ \A b \in Auths : hv[b].status = "PENDING" => hv[b].late
    /\ hv' = [b \in Auths |->
                IF b = a THEN [status |-> "PENDING", resumeTo |-> ResumeStatusFor(app.status),
                               late |-> FALSE, resumable |-> FALSE]
                ELSE IF hv[b].status = "PENDING" THEN [hv[b] EXCEPT !.status = "EXPIRED"]
                ELSE hv[b]]
    /\ IF app.status = "WAITING_FOR_USER" THEN UNCHANGED app
       ELSE Transition("WAITING_FOR_USER", None, Now)
    /\ Goto(x, "closing", "HUMAN")
    /\ UNCHANGED <<auth, attempt, job, evidence, clickedAt, clock>>

\* expiresAt passes.
VerificationExpires(a) ==
    /\ hv[a].status = "PENDING" /\ ~hv[a].late
    /\ hv' = [hv EXCEPT ![a].late = TRUE]
    /\ UNCHANGED <<app, auth, attempt, job, call, evidence, clickedAt, clock>>

\* Too late an answer throws inside its transaction, which takes the EXPIRED
\* it has just written back with it: then nothing changes.
ResolveVerification(a) ==
    /\ hv[a].status = "PENDING" /\ ~hv[a].late
    /\ hv' = [hv EXCEPT ![a].status = "RESOLVED", ![a].resumable = TRUE]
    /\ UNCHANGED <<app, auth, attempt, job, call, evidence, clickedAt, clock>>

CancelVerification(a) ==
    /\ hv[a].status = "PENDING"
    /\ hv' = [hv EXCEPT ![a].status = "CANCELLED"]
    /\ IF app.status = "WAITING_FOR_USER" THEN Transition("WITHDRAWN", None, Now)
       ELSE UNCHANGED app
    /\ UNCHANGED <<auth, attempt, job, call, evidence, clickedAt, clock>>

\* The RESUME_APPLICATION_AFTER_VERIFICATION job.
ResumeVerification(a) ==
    /\ hv[a].status = "RESOLVED" /\ hv[a].resumable
    /\ hv' = [hv EXCEPT ![a].resumable = FALSE]
    /\ IF app.status = "WAITING_FOR_USER" THEN Transition(hv[a].resumeTo, None, Now)
       ELSE UNCHANGED app
    /\ UNCHANGED <<auth, attempt, job, call, evidence, clickedAt, clock>>

-----------------------------------------------------------------------------

OwnerStep ==
    \/ \E to \in OwnerStatuses : Patch(to)
    \/ \E a \in Auths : AuthorizeSubmission(a) \/ CancelJob(a) \/ ReplayJob(a)
    \/ \E a \in Auths : ResolveVerification(a) \/ CancelVerification(a)

ClockStep == \E a \in Auths : AuthorizationExpires(a) \/ LeaseExpires(a) \/ VerificationExpires(a)

ProviderStep(x) ==
    \/ Prepare(x) \/ OpenSession(x) \/ PreparationFails(x) \/ PageFails(x)
    \/ RequestVerification(x) \/ ClickSubmit(x) \/ CloseSession(x) \/ CloseFails(x)

RecordStep(x) ==
    \/ RecordSubmitted(x) \/ RecordingThrows(x) \/ RecordHuman(x)
    \/ RecordFailed(x) \/ RecordUnknown(x) \/ RecordFails(x)

CallStep(x) ==
    \/ ClaimAuthorized(x) \/ ClaimExpired(x) \/ ClaimRefused(x)
    \/ ProviderStep(x) \/ RecordStep(x)

Next ==
    \/ OwnerStep \/ ClockStep
    \/ \E x \in Calls : CallStep(x) \/ Crash(x) \/ \E a \in Auths : StartCall(x, a)
    \/ \E a \in Auths : ReconcileStale(a) \/ VerifySubmission(a) \/ ResumeVerification(a)

Spec == Init /\ [][Next]_vars

\* Jobs are carried to calls, calls go on unless their process dies, time
\* passes, and the dispatcher's timer keeps reconciling stale executions.  The
\* owner promises nothing.
Fairness ==
    /\ \A a \in Auths : /\ WF_vars(\E x \in Calls : StartCall(x, a))
                        /\ WF_vars(LeaseExpires(a)) /\ WF_vars(AuthorizationExpires(a))
                        /\ WF_vars(ReconcileStale(a)) /\ WF_vars(VerifySubmission(a))
    /\ \A x \in Calls : WF_vars(CallStep(x))

FairSpec == Spec /\ Fairness

-----------------------------------------------------------------------------
(* Properties *)

TypeOK ==
    /\ app \in Apps
    /\ auth \in [Auths -> Authorizations]
    /\ attempt \in [Auths -> AttemptStatuses]
    /\ job \in [Auths -> JobRows]
    /\ call \in [Calls -> CallStates]
    /\ evidence \subseteq Auths
    /\ hv \in [Auths -> Verifications]
    /\ clickedAt \in [Auths -> Nat]
    /\ clock \in Nat

\* A call that has claimed an authorization and may still act on the provider.
AtProvider(x) == call[x].pc \in {"preparing", "opening", "inPage"}

\* Never do two calls work on the provider's form for one application, although
\* a job can be replayed while its first call is still at work, a stale
\* execution is given up while its call goes on, and the owner moves the
\* application's status at will: whatever is at the provider holds an
\* authorization that keeps the owner from authorizing another.
OneCallAtProvider ==
    \A x, y \in Calls : AtProvider(x) /\ AtProvider(y) => x = y

\* An activated submit control is never forgotten: the authorization it was
\* activated for is being executed, is known to have been used, or is kept as
\* unknown, but never counts as failed or expired, which would let the owner
\* submit a second time unawares.
ClicksAreRemembered ==
    \A a \in Auths : clickedAt[a] # 0 =>
        auth[a].status \in {"EXECUTING", "CONSUMED", "OUTCOME_UNKNOWN"}

\* The authorization's row and its attempt's row are open together, whoever
\* closes them: reconciliation, which needs both, never finds half of an
\* execution.
ExecutionHasAttempt ==
    \A a \in Auths : auth[a].status = "EXECUTING" <=> attempt[a] = "EXECUTING"

\* One authorization in force at a time, at most one activation for each and
\* none without it, and a confirmation that is about the latest activation and
\* the end of it.
InForce == {a \in Auths : auth[a].status \in {"AUTHORIZED", "EXECUTING", "OUTCOME_UNKNOWN"}}
Holder  == IF InForce = {} THEN None ELSE CHOOSE a \in InForce : TRUE

Gate == INSTANCE SubmissionGate WITH
    holder    <- Holder,
    granted   <- {a \in Auths : auth[a].status # "NONE"},
    confirmed <- {a \in Auths : attempt[a] = "CONFIRMED"}

ImplementsGate == Gate!Spec

\* A provider execution never stays open: whatever its call does, whoever
\* changed the application meanwhile and however often its process died, its
\* outcome is recorded or given up as unknown.
ExecutionsSettle ==
    \A a \in Auths : auth[a].status = "EXECUTING" ~> auth[a].status # "EXECUTING"

\* An application never stays in SUBMISSION_PENDING for good.
PendingIsLeft == app.status = "SUBMISSION_PENDING" ~> app.status # "SUBMISSION_PENDING"

\* A call that ran the provider and returns or throws has settled its execution.
ReturnedCallsSettle ==
    [][\A x \in Calls :
          call[x].pc = "recording" /\ call'[x].pc = "idle"
              => auth'[call[x].auth].status # "EXECUTING"]_vars

=============================================================================
