----------------------- MODULE SubmissionEngineProofs -----------------------
(***************************************************************************)
(* What is proved of SubmissionEngine, for any number of authorizations,   *)
(* calls and replays.                                                      *)
(***************************************************************************)
EXTENDS SubmissionEngine, TLAPS

USE SubmissionAssumption

-----------------------------------------------------------------------------
(* Types *)

\* A call at work knows its authorization.
HasAuth == \A x \in Calls : call[x].pc \in {"idle", "dead"} \/ call[x].auth \in Auths

\* What a transition of the application does to its row.
LEMMA TransitionFacts ==
    ASSUME app \in Apps, NEW to \in Statuses, NEW since \in Auths \cup {None}, NEW at \in Nat,
           Transition(to, since, at)
    PROVE  /\ app' \in Apps
           /\ app'.status = to /\ app'.since = since
           /\ app'.appliedAt = IF to = "UNCONFIRMED" THEN at ELSE app.appliedAt
           /\ CanTransition(app.status, to)
  BY DEF Transition, Apps

\* The same where the code makes the transition only in a certain status.
LEMMA PendingFacts ==
    ASSUME app \in Apps, clock \in Nat, FailPending \/ DoubtPending
    PROVE  app' \in Apps
  BY TransitionFacts DEF FailPending, DoubtPending, Now, Statuses

\* A call that ends leaves well-typed calls and jobs behind.
LEMMA EndCallTypes ==
    ASSUME TypeOK, NEW x \in Calls, NEW outcome,
           EndCall(x, outcome)
    PROVE  call' \in [Calls -> CallStates] /\ job' \in [Auths -> JobRows]
<1>1. NoCall \in CallStates
  BY DEF NoCall, CallStates
<1>2. call' \in [Calls -> CallStates]
  BY <1>1 DEF EndCall, TypeOK
<1>3. ASSUME NEW a \in Auths
      PROVE  [job[a] EXCEPT !.status = "SUCCEEDED"] \in JobRows /\ Retried(job[a]) \in JobRows
  BY DEF TypeOK, JobRows, Retried
<1>4. job' \in [Auths -> JobRows]
  BY <1>3 DEF EndCall, TypeOK
<1> QED
  BY <1>2, <1>4

Pcs == {"idle", "dead", "claiming", "preparing", "opening", "inPage", "closing", "recording"}
Verdicts == {"NONE", "SUBMITTED", "HUMAN", "FAILED", "UNKNOWN"}

\* A call that goes on, with or without a verdict, is still a call.
LEMMA CallTypes ==
    ASSUME NEW c \in CallStates, NEW pc \in Pcs, NEW verdict \in Verdicts,
           NEW confirmed \in BOOLEAN
    PROVE  /\ [c EXCEPT !.pc = pc] \in CallStates
           /\ [c EXCEPT !.pc = pc, !.verdict = verdict] \in CallStates
           /\ [c EXCEPT !.pc = pc, !.verdict = verdict, !.confirmed = confirmed] \in CallStates
<1>1. [c EXCEPT !.pc = pc] \in CallStates
  BY ONLY c \in CallStates, pc \in Pcs, Zenon DEF CallStates, Pcs
<1>2. [c EXCEPT !.pc = pc, !.verdict = verdict] \in CallStates
  BY ONLY c \in CallStates, pc \in Pcs, verdict \in Verdicts, Zenon
     DEF CallStates, Pcs, Verdicts
<1>3. [c EXCEPT !.pc = pc, !.verdict = verdict, !.confirmed = confirmed] \in CallStates
  BY ONLY c \in CallStates, pc \in Pcs, verdict \in Verdicts, confirmed \in BOOLEAN, Zenon
     DEF CallStates, Pcs, Verdicts
<1> QED
  BY <1>1, <1>2, <1>3

LEMMA GotoTypes ==
    ASSUME TypeOK, NEW x \in Calls, NEW pc \in Pcs, NEW verdict \in Verdicts,
           Goto(x, pc, verdict)
    PROVE  call' \in [Calls -> CallStates]
<1>1. [call[x] EXCEPT !.pc = pc, !.verdict = verdict] \in CallStates
  BY CallTypes DEF TypeOK
<1> QED
  BY <1>1 DEF Goto, TypeOK

\* Settling an authorization, by whatever outcome, keeps its table's types.
LEMMA SettledTypes ==
    ASSUME TypeOK, NEW a, NEW s \in AuthStatuses, auth' = [auth EXCEPT ![a].status = s]
    PROVE  auth' \in [Auths -> Authorizations]
<1>1. ASSUME NEW r \in Authorizations PROVE [r EXCEPT !.status = s] \in Authorizations
  BY ONLY r \in Authorizations, s \in AuthStatuses, Zenon DEF Authorizations
<1> QED
  BY <1>1 DEF TypeOK

\* No transaction and no step of a call leaves the types of the tables.
LEMMA TypeStep ==
    ASSUME TypeOK, HasAuth, [Next]_vars
    PROVE  TypeOK'
<1>0. Now \in Nat /\ app \in Apps /\ clock \in Nat
  BY DEF Now, TypeOK
<1>1. ASSUME NEW to \in OwnerStatuses, Patch(to) PROVE TypeOK'
  BY <1>0, <1>1, TransitionFacts DEF Patch, TypeOK
<1>2. ASSUME NEW a \in Auths, AuthorizeSubmission(a) PROVE TypeOK'
  <2>1. app' \in Apps
    BY <1>0, <1>2, TransitionFacts DEF AuthorizeSubmission, Statuses
  <2>2. auth' \in [Auths -> Authorizations] /\ job' \in [Auths -> JobRows]
    BY <1>2 DEF AuthorizeSubmission, TypeOK, Authorizations, AuthStatuses, JobRows
  <2> QED
    BY <1>2, <2>1, <2>2 DEF AuthorizeSubmission, TypeOK
<1>3. ASSUME NEW a \in Auths, AuthorizationExpires(a) PROVE TypeOK'
  <2>1. ASSUME NEW r \in Authorizations PROVE [r EXCEPT !.late = TRUE] \in Authorizations
    BY ONLY r \in Authorizations, Zenon DEF Authorizations
  <2>2. auth' \in [Auths -> Authorizations]
    BY <1>3, <2>1 DEF AuthorizationExpires, TypeOK
  <2> QED
    BY <1>3, <2>2 DEF AuthorizationExpires, TypeOK
<1>4. ASSUME NEW a \in Auths, NEW x \in Calls, StartCall(x, a) PROVE TypeOK'
  <2>1. [status |-> "LEASED", replays |-> job[a].replays, attempts |-> job[a].attempts + 1] \in JobRows
    BY DEF TypeOK, JobRows
  <2>2. [pc |-> "claiming", auth |-> a, round |-> job[a].replays, verdict |-> "NONE",
         confirmed |-> FALSE] \in CallStates
    BY DEF TypeOK, JobRows, CallStates
  <2> QED
    BY <1>4, <2>1, <2>2 DEF StartCall, TypeOK
<1>5. ASSUME NEW a \in Auths, LeaseExpires(a) \/ CancelJob(a) PROVE TypeOK'
  <2>1. [job[a] EXCEPT !.status = "CANCELLED"] \in JobRows /\ Retried(job[a]) \in JobRows
    BY DEF TypeOK, JobRows, Retried
  <2> QED
    BY <1>5, <2>1 DEF LeaseExpires, CancelJob, TypeOK
<1>6. ASSUME NEW a \in Auths, ReplayJob(a) PROVE TypeOK'
  <2>1. [status |-> "AVAILABLE", replays |-> job[a].replays + 1, attempts |-> 0] \in JobRows
    BY <1>6 DEF ReplayJob, TypeOK, JobRows
  <2>2. job' \in [Auths -> JobRows]
    BY <1>6, <2>1 DEF ReplayJob, TypeOK
  <2> QED
    BY <1>6, <2>2 DEF ReplayJob, TypeOK
<1>7. ASSUME NEW x \in Calls, ClaimAuthorized(x) PROVE TypeOK'
  <2>1. auth' \in [Auths -> Authorizations]
    BY <1>7, SettledTypes DEF ClaimAuthorized, AuthStatuses
  <2>2. [call[x] EXCEPT !.pc = "preparing"] \in CallStates
    BY CallTypes DEF TypeOK, Pcs, Verdicts
  <2>3. call' \in [Calls -> CallStates] /\ attempt' \in [Auths -> AttemptStatuses]
    BY <1>7, <2>2 DEF ClaimAuthorized, TypeOK, AttemptStatuses
  <2> QED
    BY <1>7, <2>1, <2>3 DEF ClaimAuthorized, TypeOK
<1>8. ASSUME NEW x \in Calls, ClaimExpired(x) PROVE TypeOK'
  <2>1. app' \in Apps
    BY <1>0, <1>8, TransitionFacts DEF ClaimExpired, Statuses
  <2>2. auth' \in [Auths -> Authorizations]
    BY <1>8, SettledTypes DEF ClaimExpired, AuthStatuses
  <2> QED
    BY <1>8, <2>1, <2>2, EndCallTypes DEF ClaimExpired, TypeOK
<1>9. ASSUME NEW x \in Calls, ClaimRefused(x) PROVE TypeOK'
  BY <1>9, EndCallTypes DEF ClaimRefused, TypeOK
<1>10. ASSUME NEW x \in Calls,
              Prepare(x) \/ OpenSession(x) \/ PreparationFails(x) \/ PageFails(x) \/ CloseFails(x)
       PROVE  TypeOK'
  <2>1. call' \in [Calls -> CallStates]
    BY <1>10, GotoTypes DEF Prepare, OpenSession, PreparationFails, PageFails, CloseFails, Pcs,
                            Verdicts
  <2> QED
    BY <1>10, <2>1 DEF Prepare, OpenSession, PreparationFails, PageFails, CloseFails, TypeOK
<1>11. ASSUME NEW x \in Calls, ClickSubmit(x) PROVE TypeOK'
  <2>1. call' \in [Calls -> CallStates]
    <3>1. ASSUME NEW c \in BOOLEAN
          PROVE  [call[x] EXCEPT !.pc = "closing", !.verdict = "SUBMITTED", !.confirmed = c]
                     \in CallStates
      BY CallTypes DEF TypeOK, Pcs, Verdicts
    <3>2. CASE Goto(x, "closing", "UNKNOWN")
      BY <3>2, GotoTypes DEF Pcs, Verdicts
    <3>3. CASE \E c \in BOOLEAN :
                 call' = [call EXCEPT ![x].pc = "closing", ![x].verdict = "SUBMITTED",
                                      ![x].confirmed = c]
      <4>1. PICK c \in BOOLEAN :
                 call' = [call EXCEPT ![x].pc = "closing", ![x].verdict = "SUBMITTED",
                                      ![x].confirmed = c]
        BY <3>3
      <4>2. call' = [call EXCEPT ![x] = [call[x] EXCEPT !.pc = "closing",
                                           !.verdict = "SUBMITTED", !.confirmed = c]]
        BY <4>1
      <4> QED
        BY <3>1, <4>2 DEF TypeOK
    <3> QED
      BY <1>11, <3>2, <3>3 DEF ClickSubmit, ParseConfirmation
  <2>2. clickedAt' \in [Auths -> Nat] /\ clock' \in Nat
    <3>1. clock + 1 \in Nat
      BY <1>0
    <3> QED
      BY <1>11, <3>1 DEF ClickSubmit, TypeOK
  <2> QED
    BY <1>11, <2>1, <2>2 DEF ClickSubmit, TypeOK
<1>12. ASSUME NEW x \in Calls, CloseSession(x) PROVE TypeOK'
  <2>1. call[x].verdict \in Verdicts
    BY DEF TypeOK, CallStates, Verdicts
  <2>2. Validated(call[x].verdict) \subseteq Verdicts
    BY <2>1 DEF Validated, Verdicts
  <2>3. call' \in [Calls -> CallStates]
    BY <1>12, <2>2, GotoTypes DEF CloseSession, Pcs
  <2> QED
    BY <1>12, <2>3 DEF CloseSession, TypeOK
<1>13. ASSUME NEW x \in Calls, RequestVerification(x) PROVE TypeOK'
  <2>1. app' \in Apps
    BY <1>0, <1>13, TransitionFacts DEF RequestVerification, Statuses
  <2>2. call' \in [Calls -> CallStates]
    BY <1>13, GotoTypes DEF RequestVerification, Pcs, Verdicts
  <2>3. ASSUME NEW b \in Auths
        PROVE  /\ [status |-> "PENDING", resumeTo |-> ResumeStatusFor(app.status),
                   late |-> FALSE, resumable |-> FALSE] \in Verifications
               /\ [hv[b] EXCEPT !.status = "EXPIRED"] \in Verifications
    <3>1. hv[b] \in Verifications
      BY DEF TypeOK
    <3>2. [hv[b] EXCEPT !.status = "EXPIRED"] \in Verifications
      BY ONLY <3>1, Zenon DEF Verifications
    <3> QED
      BY <3>2 DEF ResumeStatusFor, Verifications
  <2>4. hv' \in [Auths -> Verifications]
    BY <1>13, <2>3 DEF RequestVerification, TypeOK
  <2> QED
    BY <1>13, <2>1, <2>2, <2>4 DEF RequestVerification, TypeOK
<1>14. ASSUME NEW x \in Calls, RecordSubmitted(x) PROVE TypeOK'
  <2>1. call[x].auth \in Auths
    BY <1>14 DEF RecordSubmitted, Recording, HasAuth
  <2>2. app' \in Apps
    BY <1>0, <1>14, <2>1, TransitionFacts DEF RecordSubmitted, Statuses, TypeOK
  <2>3. auth' \in [Auths -> Authorizations] /\ attempt' \in [Auths -> AttemptStatuses]
    BY <1>14, SettledTypes DEF RecordSubmitted, Settles, TypeOK, AuthStatuses, AttemptStatuses
  <2> QED
    BY <1>14, <2>1, <2>2, <2>3, EndCallTypes DEF RecordSubmitted, TypeOK
<1>15. ASSUME NEW x \in Calls, RecordingThrows(x) \/ RecordFails(x) PROVE TypeOK'
  BY <1>15, EndCallTypes DEF RecordingThrows, RecordFails, TypeOK
<1>16. ASSUME NEW x \in Calls, RecordHuman(x) \/ RecordFailed(x) \/ RecordUnknown(x)
       PROVE  TypeOK'
  <2>1. app' \in Apps
    BY <1>0, <1>16, PendingFacts DEF RecordHuman, RecordFailed, RecordUnknown
  <2>2. auth' \in [Auths -> Authorizations] /\ attempt' \in [Auths -> AttemptStatuses]
    BY <1>16, SettledTypes DEF RecordHuman, RecordFailed, RecordUnknown, Settles, TypeOK,
                               AuthStatuses, AttemptStatuses
  <2> QED
    BY <1>16, <2>1, <2>2, EndCallTypes DEF RecordHuman, RecordFailed, RecordUnknown, TypeOK
<1>17. ASSUME NEW x \in Calls, Crash(x) PROVE TypeOK'
  <2>1. [NoCall EXCEPT !.pc = "dead"] \in CallStates
    <3>1. NoCall \in CallStates
      BY DEF NoCall, CallStates
    <3> QED
      BY <3>1, CallTypes DEF Pcs, Verdicts
  <2> QED
    BY <1>17, <2>1 DEF Crash, TypeOK
<1>18. ASSUME NEW a \in Auths, ReconcileStale(a) PROVE TypeOK'
  <2>1. app' \in Apps
    BY <1>0, <1>18, PendingFacts DEF ReconcileStale
  <2>2. auth' \in [Auths -> Authorizations] /\ attempt' \in [Auths -> AttemptStatuses]
    BY <1>18, SettledTypes DEF ReconcileStale, TypeOK, AuthStatuses, AttemptStatuses
  <2> QED
    BY <1>18, <2>1, <2>2 DEF ReconcileStale, TypeOK
<1>19. ASSUME NEW a \in Auths, VerifySubmission(a) PROVE TypeOK'
  <2>1. app' \in Apps
    BY <1>0, <1>19, TransitionFacts DEF VerifySubmission, Statuses
  <2>2. attempt' \in [Auths -> AttemptStatuses]
    BY <1>19 DEF VerifySubmission, TypeOK, AttemptStatuses
  <2> QED
    BY <1>19, <2>1, <2>2 DEF VerifySubmission, TypeOK
<1>20. ASSUME NEW a \in Auths, VerificationExpires(a) \/ ResolveVerification(a) PROVE TypeOK'
  <2>1. hv[a] \in Verifications
    BY DEF TypeOK
  <2>2. [hv[a] EXCEPT !.late = TRUE] \in Verifications
    BY ONLY <2>1, Zenon DEF Verifications
  <2>3. [hv[a] EXCEPT !.status = "RESOLVED", !.resumable = TRUE] \in Verifications
    BY ONLY <2>1, Zenon DEF Verifications
  <2>4. hv' \in [Auths -> Verifications]
    BY <1>20, <2>2, <2>3 DEF VerificationExpires, ResolveVerification, TypeOK
  <2> QED
    BY <1>20, <2>4 DEF VerificationExpires, ResolveVerification, TypeOK
<1>21. ASSUME NEW a \in Auths, CancelVerification(a) PROVE TypeOK'
  <2>1. app' \in Apps
    BY <1>0, <1>21, TransitionFacts DEF CancelVerification, Statuses
  <2> QED
    BY <1>21, <2>1 DEF CancelVerification, TypeOK, Verifications
<1>22. ASSUME NEW a \in Auths, ResumeVerification(a) PROVE TypeOK'
  <2>1. hv[a].resumeTo \in Statuses
    BY DEF TypeOK, Verifications, Statuses
  <2>2. app' \in Apps
    BY <1>0, <1>22, <2>1, TransitionFacts DEF ResumeVerification
  <2> QED
    BY <1>22, <2>2 DEF ResumeVerification, TypeOK, Verifications
<1>23. CASE UNCHANGED vars
  BY <1>23 DEF vars, TypeOK
<1> QED
  BY <1>1, <1>2, <1>3, <1>4, <1>5, <1>6, <1>7, <1>8, <1>9, <1>10, <1>11, <1>12, <1>13, <1>14,
     <1>15, <1>16, <1>17, <1>18, <1>19, <1>20, <1>21, <1>22, <1>23
     DEF Next, OwnerStep, ClockStep, CallStep, ProviderStep, RecordStep

-----------------------------------------------------------------------------
(* The invariant *)

Claimed(x) == call[x].pc \in {"preparing", "opening", "inPage", "closing", "recording"}

\* A call that has claimed its authorization: nobody else has, and it was AUTHORIZED.
ClaimsHeld ==
    \A x \in Calls : Claimed(x) => auth[call[x].auth].status \notin {"NONE", "AUTHORIZED"}

ClaimsApart ==
    \A x, y \in Calls : Claimed(x) /\ Claimed(y) /\ call[x].auth = call[y].auth => x = y

\* Before it has clicked, a call's authorization is executing or given up as unknown.
ProviderHolds ==
    \A x \in Calls : AtProvider(x) =>
        /\ auth[call[x].auth].status \in {"EXECUTING", "OUTCOME_UNKNOWN"}
        /\ clickedAt[call[x].auth] = 0

OneActive == \A a, b \in Auths : Active(a) /\ Active(b) => a = b

\* Activations are counted, and an active authorization's is the latest.
ClicksCounted ==
    \A a \in Auths :
        /\ clickedAt[a] <= clock
        /\ auth[a].status \in {"NONE", "AUTHORIZED"} => clickedAt[a] = 0
        /\ Active(a) /\ clickedAt[a] # 0 => clickedAt[a] = clock

\* A verdict tells the truth about the click, unless closing the session has replaced it.
VerdictsTrue ==
    \A x \in Calls : call[x].pc \in {"closing", "recording"} =>
        /\ call[x].verdict = "SUBMITTED" => clickedAt[call[x].auth] # 0
        /\ ~CloseMayFail /\ call[x].verdict \in {"HUMAN", "FAILED"}
               => clickedAt[call[x].auth] = 0

Remembered == ~CloseMayFail => ClicksAreRemembered

EvidenceUsed == \A a \in evidence : auth[a].status = "CONSUMED" /\ clickedAt[a] # 0

\* Evidence as fresh as the verifier wants it is about the latest activation.
FreshIsLatest ==
    app.status = "UNCONFIRMED" =>
        \A a \in evidence : clickedAt[a] >= app.appliedAt =>
            clickedAt[a] = clock /\ \A b \in Auths : ~Active(b)

\* What an application can become once it is confirmed.
Post == {"CONFIRMED", "ASSESSMENT", "INTERVIEW", "REJECTED", "OFFER", "ACCEPTED", "WITHDRAWN"}

ConfirmedIsLast ==
    \A a \in Auths : attempt[a] = "CONFIRMED" =>
        app.status \in Post /\ \A b \in Auths : ~Active(b)

Inv ==
    /\ TypeOK /\ HasAuth
    /\ ClaimsHeld /\ ClaimsApart /\ ProviderHolds
    /\ OneActive /\ ExecutionHasAttempt
    /\ ClicksCounted /\ VerdictsTrue /\ Remembered
    /\ EvidenceUsed /\ FreshIsLatest /\ ConfirmedIsLast

-----------------------------------------------------------------------------
(* Steps that leave the ledger alone *)

AtPage == {"preparing", "opening", "inPage"}

\* How a call may go on without claiming, clicking or getting a verdict it has not earned.
Forward(c, d) ==
    \/ d = c
    \/ d.pc \in {"idle", "dead"}
    \/ d.pc = "claiming" /\ d.auth \in Auths
    \/ d.auth = c.auth /\ c.pc \in AtPage /\ d.pc \in AtPage
    \/ d.auth = c.auth /\ c.pc \in AtPage /\ d.pc \in {"closing", "recording"}
         /\ d.verdict # "SUBMITTED"
    \/ d.auth = c.auth /\ c.pc = "closing" /\ d.pc = "recording"
         /\ \/ d.verdict \in {c.verdict, "UNKNOWN"}
            \/ CloseMayFail /\ d.verdict = "FAILED"

CallsForward == \A x \in Calls : Forward(call[x], call'[x])

\* A transition of the application that anyone may make.
AppMoved ==
    \/ app' = app
    \/ /\ CanTransition(app.status, app'.status)
       /\ app'.status \notin {"SUBMISSION_PENDING", "CONFIRMED"}
       /\ app'.status = "UNCONFIRMED" => app'.appliedAt = clock + 1

Quiet ==
    /\ CallsForward /\ AppMoved
    /\ \A a \in Auths : auth'[a].status = auth[a].status
    /\ UNCHANGED <<attempt, evidence, clickedAt, clock>>

\* A call that holds a claim after such a step held it before.
LEMMA ForwardClaims ==
    ASSUME CallsForward, NEW x \in Calls
    PROVE  /\ Claimed(x)' => Claimed(x) /\ call'[x].auth = call[x].auth
           /\ AtProvider(x)' => AtProvider(x)
<1>1. Forward(call[x], call'[x])
  BY DEF CallsForward
<1> QED
  BY ONLY <1>1 DEF Forward, Claimed, AtProvider, AtPage

\* So its verdict is still true, when nothing is clicked.
LEMMA ForwardVerdicts ==
    ASSUME CallsForward, VerdictsTrue, ProviderHolds, clickedAt' = clickedAt
    PROVE  VerdictsTrue'
<1> SUFFICES ASSUME NEW x \in Calls, call'[x].pc \in {"closing", "recording"}
             PROVE  /\ call'[x].verdict = "SUBMITTED" => clickedAt[call'[x].auth] # 0
                    /\ ~CloseMayFail /\ call'[x].verdict \in {"HUMAN", "FAILED"}
                           => clickedAt[call'[x].auth] = 0
  BY DEF VerdictsTrue
<1>1. Forward(call[x], call'[x])
  BY DEF CallsForward
<1>2. AtProvider(x) => clickedAt[call[x].auth] = 0
  BY DEF ProviderHolds
<1>3. call[x].pc \in {"closing", "recording"} =>
          /\ call[x].verdict = "SUBMITTED" => clickedAt[call[x].auth] # 0
          /\ ~CloseMayFail /\ call[x].verdict \in {"HUMAN", "FAILED"}
                 => clickedAt[call[x].auth] = 0
  BY DEF VerdictsTrue
<1> QED
  BY ONLY <1>1, <1>2, <1>3, call'[x].pc \in {"closing", "recording"}
     DEF Forward, AtProvider, AtPage

LEMMA ForwardAuth ==
    ASSUME CallsForward, HasAuth
    PROVE  HasAuth'
<1> SUFFICES ASSUME NEW x \in Calls
             PROVE  call'[x].pc \in {"idle", "dead"} \/ call'[x].auth \in Auths
  BY DEF HasAuth
<1>1. Forward(call[x], call'[x])
  BY DEF CallsForward
<1>2. call[x].pc \in {"idle", "dead"} \/ call[x].auth \in Auths
  BY DEF HasAuth
<1> QED
  BY ONLY <1>1, <1>2 DEF Forward, AtPage

\* A confirmed application stays one, whoever moves it.
LEMMA PostMoves ==
    ASSUME AppMoved, app.status \in Post
    PROVE  app'.status \in Post
  BY DEF AppMoved, CanTransition, Post

LEMMA QuietPreserves ==
    ASSUME Inv, Quiet, TypeOK'
    PROVE  Inv'
<1>0. /\ CallsForward /\ AppMoved
      /\ \A a \in Auths : auth'[a].status = auth[a].status
      /\ attempt' = attempt /\ evidence' = evidence /\ clickedAt' = clickedAt /\ clock' = clock
  BY DEF Quiet
<1>1. \A a \in Auths : Active(a)' <=> Active(a)
  BY <1>0 DEF Active
<1>2. HasAuth'
  BY <1>0, ForwardAuth DEF Inv
<1>3. \A x \in Calls : Claimed(x)' => Claimed(x) /\ call'[x].auth = call[x].auth
                                      /\ call[x].auth \in Auths
  BY <1>0, ForwardClaims DEF Inv, HasAuth, Claimed
<1>4. ClaimsHeld' /\ ClaimsApart'
  BY <1>0, <1>3 DEF Inv, ClaimsHeld, ClaimsApart
<1>5. ProviderHolds'
  <2>1. \A x \in Calls : AtProvider(x)' => Claimed(x)' /\ AtProvider(x)
    BY <1>0, ForwardClaims DEF AtProvider, Claimed
  <2> QED
    BY <1>0, <1>3, <2>1 DEF Inv, ProviderHolds
<1>6. OneActive'
  BY <1>1 DEF Inv, OneActive
<1>7. ExecutionHasAttempt'
  BY <1>0 DEF Inv, ExecutionHasAttempt
<1>8. ClicksCounted'
  BY <1>0, <1>1 DEF Inv, ClicksCounted
<1>9. VerdictsTrue'
  BY <1>0, ForwardVerdicts DEF Inv
<1>10. Remembered'
  BY <1>0 DEF Inv, Remembered, ClicksAreRemembered
<1>11. EvidenceUsed'
  BY <1>0 DEF Inv, EvidenceUsed, TypeOK
<1>12. FreshIsLatest'
  <2>1. CASE app' = app
    BY <1>0, <1>1, <2>1 DEF Inv, FreshIsLatest
  <2>2. CASE app'.status = "UNCONFIRMED" => app'.appliedAt = clock + 1
    <3>1. \A a \in evidence : clickedAt[a] \in Nat /\ clock \in Nat /\ clickedAt[a] <= clock
      BY DEF Inv, TypeOK, ClicksCounted
    <3> QED
      BY <1>0, <2>2, <3>1 DEF FreshIsLatest
  <2> QED
    BY <1>0, <2>1, <2>2 DEF AppMoved
<1>13. ConfirmedIsLast'
  BY <1>0, <1>1, PostMoves DEF Inv, ConfirmedIsLast, AppMoved
<1> QED
  BY <1>2, <1>4, <1>5, <1>6, <1>7, <1>8, <1>9, <1>10, <1>11, <1>12, <1>13 DEF Inv


-----------------------------------------------------------------------------
(* Steps that write the ledger *)

\* An execution is closed without a confirmation to look for.
Settling(a) ==
    /\ CallsForward /\ AppMoved
    /\ auth[a].status = "EXECUTING"
    /\ \E s \in {"FAILED", "OUTCOME_UNKNOWN"} :
         /\ auth' = [auth EXCEPT ![a].status = s]
         /\ s = "FAILED" => /\ \A x \in Calls : AtProvider(x)' => call'[x].auth # a
                            /\ CloseMayFail \/ clickedAt[a] = 0
    /\ \E t \in {"FAILED", "WAITING_FOR_USER", "OUTCOME_UNKNOWN"} :
         attempt' = [attempt EXCEPT ![a] = t]
    /\ UNCHANGED <<evidence, clickedAt, clock>>

LEMMA SettlingPreserves ==
    ASSUME Inv, NEW a \in Auths, Settling(a), TypeOK'
    PROVE  Inv'
<1>0. /\ CallsForward /\ AppMoved /\ auth[a].status = "EXECUTING"
      /\ evidence' = evidence /\ clickedAt' = clickedAt /\ clock' = clock
  BY DEF Settling
<1>1. /\ \A b \in Auths : b # a => auth'[b] = auth[b] /\ attempt'[b] = attempt[b]
      /\ auth'[a].status \in {"FAILED", "OUTCOME_UNKNOWN"}
      /\ auth'[a].status = "FAILED" => /\ \A x \in Calls : AtProvider(x)' => call'[x].auth # a
                                       /\ CloseMayFail \/ clickedAt[a] = 0
      /\ attempt'[a] \in {"FAILED", "WAITING_FOR_USER", "OUTCOME_UNKNOWN"}
  BY DEF Settling, Inv, TypeOK, Authorizations
<1>2. \A b \in Auths : Active(b)' => Active(b)
  BY <1>0, <1>1 DEF Active
<1>3. Active(a)
  BY <1>0 DEF Active
<1>4. \A x \in Calls : Claimed(x)' => Claimed(x) /\ call'[x].auth = call[x].auth
                                      /\ call[x].auth \in Auths
  BY <1>0, ForwardClaims DEF Inv, HasAuth, Claimed
<1>5. ClaimsHeld' /\ ClaimsApart'
  BY <1>1, <1>4 DEF Inv, ClaimsHeld, ClaimsApart
<1>6. ProviderHolds'
  <2>1. \A x \in Calls : AtProvider(x)' => Claimed(x)' /\ AtProvider(x)
    BY <1>0, ForwardClaims DEF AtProvider, Claimed
  <2> QED
    BY <1>0, <1>1, <1>4, <2>1 DEF Inv, ProviderHolds
<1>7. OneActive'
  BY <1>2 DEF Inv, OneActive
<1>8. ExecutionHasAttempt'
  BY <1>1 DEF Inv, ExecutionHasAttempt
<1>9. ClicksCounted'
  BY <1>0, <1>1, <1>2 DEF Inv, ClicksCounted
<1>10. Remembered'
  BY <1>0, <1>1 DEF Inv, Remembered, ClicksAreRemembered
<1>11. EvidenceUsed'
  BY <1>0, <1>1 DEF Inv, EvidenceUsed, TypeOK
<1>12. FreshIsLatest'
  <2>1. CASE app' = app
    BY <1>0, <1>3, <2>1 DEF Inv, FreshIsLatest
  <2>2. CASE app'.status = "UNCONFIRMED" => app'.appliedAt = clock + 1
    <3>1. \A b \in evidence : clickedAt[b] \in Nat /\ clock \in Nat /\ clickedAt[b] <= clock
      BY DEF Inv, TypeOK, ClicksCounted
    <3> QED
      BY <1>0, <2>2, <3>1 DEF FreshIsLatest
  <2> QED
    BY <1>0, <2>1, <2>2 DEF AppMoved
<1>13. ConfirmedIsLast'
  BY <1>1, <1>3 DEF Inv, ConfirmedIsLast
<1> QED
  BY <1>0, <1>5, <1>6, <1>7, <1>8, <1>9, <1>10, <1>11, <1>12, <1>13, ForwardVerdicts, ForwardAuth
     DEF Inv

LEMMA AuthorizePreserves ==
    ASSUME Inv, NEW a \in Auths, AuthorizeSubmission(a), TypeOK'
    PROVE  Inv'
<1>0. /\ auth[a].status = "NONE" /\ app.status = "READY_TO_SUBMIT"
      /\ \A b \in Auths : ~Active(b)
      /\ \A b \in Auths : b # a => auth'[b] = auth[b]
      /\ auth'[a].status = "AUTHORIZED"
      /\ app'.status = "SUBMISSION_PENDING"
      /\ attempt' = attempt /\ call' = call /\ evidence' = evidence
      /\ clickedAt' = clickedAt /\ clock' = clock
  BY DEF AuthorizeSubmission, Transition, Inv, TypeOK
<1>1. \A b \in Auths : Active(b)' => b = a
  BY <1>0 DEF Active
<1>2. \A x \in Calls : Claimed(x) => call[x].auth \in Auths /\ call[x].auth # a
  BY <1>0 DEF Inv, HasAuth, Claimed, ClaimsHeld
<1>3. \A x \in Calls : ~AtProvider(x)
  BY <1>0, <1>2 DEF Inv, ProviderHolds, Active, AtProvider, Claimed
<1>4. HasAuth' /\ ClaimsHeld' /\ ClaimsApart'
  BY <1>0, <1>2 DEF Inv, HasAuth, ClaimsHeld, ClaimsApart, Claimed
<1>5. ProviderHolds'
  BY <1>0, <1>3 DEF ProviderHolds, AtProvider
<1>6. OneActive'
  BY <1>1 DEF OneActive
<1>7. ExecutionHasAttempt'
  BY <1>0 DEF Inv, ExecutionHasAttempt
<1>8. ClicksCounted'
  BY <1>0, <1>1 DEF Inv, ClicksCounted
<1>9. VerdictsTrue'
  BY <1>0 DEF Inv, VerdictsTrue
<1>10. Remembered'
  BY <1>0 DEF Inv, Remembered, ClicksAreRemembered, ClicksCounted
<1>11. EvidenceUsed'
  BY <1>0 DEF Inv, EvidenceUsed, TypeOK
<1>12. FreshIsLatest' /\ ConfirmedIsLast'
  BY <1>0 DEF Inv, FreshIsLatest, ConfirmedIsLast, Post
<1> QED
  BY <1>4, <1>5, <1>6, <1>7, <1>8, <1>9, <1>10, <1>11, <1>12 DEF Inv

LEMMA ClaimPreserves ==
    ASSUME Inv, NEW x \in Calls, ClaimAuthorized(x), TypeOK'
    PROVE  Inv'
<1> DEFINE a == call[x].auth
<1>0. /\ a \in Auths /\ auth[a].status = "AUTHORIZED"
      /\ app' = app /\ evidence' = evidence /\ clickedAt' = clickedAt /\ clock' = clock
      /\ \A b \in Auths : b # a => auth'[b] = auth[b] /\ attempt'[b] = attempt[b]
      /\ auth'[a].status = "EXECUTING" /\ attempt'[a] = "EXECUTING"
  BY DEF ClaimAuthorized, Claimable, Inv, HasAuth, TypeOK, Authorizations
<1>1. /\ call[x].pc = "claiming"
      /\ call'[x].auth = a /\ call'[x].pc = "preparing"
      /\ \A y \in Calls : y # x => call'[y] = call[y]
  BY DEF ClaimAuthorized, Inv, TypeOK, CallStates
<1>2. Active(a) /\ clickedAt[a] = 0 /\ \A b \in Auths : Active(b)' <=> Active(b)
  BY <1>0 DEF Active, Inv, ClicksCounted
<1>3. \A y \in Calls : Claimed(y) => call[y].auth \in Auths /\ call[y].auth # a
  BY <1>0 DEF Inv, HasAuth, Claimed, ClaimsHeld
<1>4. HasAuth'
  BY <1>0, <1>1 DEF Inv, HasAuth
<1>5. ClaimsHeld' /\ ClaimsApart'
  BY <1>0, <1>1, <1>3 DEF Inv, ClaimsHeld, ClaimsApart, Claimed
<1>6. ProviderHolds'
  BY <1>0, <1>1, <1>2, <1>3 DEF Inv, ProviderHolds, AtProvider, Claimed
<1>7. OneActive' /\ ExecutionHasAttempt' /\ ClicksCounted'
  BY <1>0, <1>2 DEF Inv, OneActive, ExecutionHasAttempt, ClicksCounted
<1>8. VerdictsTrue'
  BY <1>0, <1>1 DEF Inv, VerdictsTrue
<1>9. Remembered'
  BY <1>0, <1>2 DEF Inv, Remembered, ClicksAreRemembered
<1>10. EvidenceUsed'
  BY <1>0 DEF Inv, EvidenceUsed, TypeOK
<1>11. FreshIsLatest' /\ ConfirmedIsLast'
  BY <1>0, <1>2 DEF Inv, FreshIsLatest, ConfirmedIsLast
<1> QED
  BY <1>4, <1>5, <1>6, <1>7, <1>8, <1>9, <1>10, <1>11 DEF Inv

LEMMA ClaimExpiredPreserves ==
    ASSUME Inv, NEW x \in Calls, ClaimExpired(x), TypeOK'
    PROVE  Inv'
<1> DEFINE a == call[x].auth
<1>0. /\ a \in Auths /\ auth[a].status = "AUTHORIZED"
      /\ app'.status = "READY_TO_SUBMIT"
      /\ attempt' = attempt /\ evidence' = evidence /\ clickedAt' = clickedAt /\ clock' = clock
      /\ \A b \in Auths : b # a => auth'[b] = auth[b]
      /\ auth'[a].status = "EXPIRED"
  BY DEF ClaimExpired, Transition, Inv, HasAuth, TypeOK, Authorizations
<1>1. CallsForward
  BY DEF ClaimExpired, EndCall, CallsForward, Forward, NoCall, Inv, TypeOK
<1>2. Active(a) /\ clickedAt[a] = 0 /\ \A b \in Auths : Active(b)' => Active(b)
  BY <1>0 DEF Active, Inv, ClicksCounted
<1>3. \A y \in Calls : Claimed(y)' => Claimed(y) /\ call'[y].auth = call[y].auth
                                      /\ call[y].auth \in Auths /\ call[y].auth # a
  BY <1>0, <1>1, ForwardClaims DEF Inv, HasAuth, Claimed, ClaimsHeld
<1>4. ClaimsHeld' /\ ClaimsApart'
  BY <1>0, <1>3 DEF Inv, ClaimsHeld, ClaimsApart
<1>5. ProviderHolds'
  <2>1. \A y \in Calls : AtProvider(y)' => Claimed(y)' /\ AtProvider(y)
    BY <1>1, ForwardClaims DEF AtProvider, Claimed
  <2> QED
    BY <1>0, <1>3, <2>1 DEF Inv, ProviderHolds
<1>6. OneActive'
  BY <1>2 DEF Inv, OneActive
<1>7. ExecutionHasAttempt'
  BY <1>0 DEF Inv, ExecutionHasAttempt
<1>8. ClicksCounted'
  BY <1>0, <1>2 DEF Inv, ClicksCounted
<1>9. Remembered'
  BY <1>0, <1>2 DEF Inv, Remembered, ClicksAreRemembered
<1>10. EvidenceUsed'
  BY <1>0 DEF Inv, EvidenceUsed, TypeOK
<1>11. FreshIsLatest' /\ ConfirmedIsLast'
  BY <1>0, <1>2 DEF Inv, FreshIsLatest, ConfirmedIsLast
<1> QED
  BY <1>0, <1>1, <1>4, <1>5, <1>6, <1>7, <1>8, <1>9, <1>10, <1>11, ForwardVerdicts, ForwardAuth
     DEF Inv

LEMMA ClickPreserves ==
    ASSUME Inv, NEW x \in Calls, ClickSubmit(x), TypeOK'
    PROVE  Inv'
<1> DEFINE a == call[x].auth
<1>0. /\ call[x].pc = "inPage" /\ a \in Auths
      /\ app' = app /\ auth' = auth /\ attempt' = attempt /\ evidence' = evidence
      /\ clock' = clock + 1 /\ clock \in Nat
      /\ clickedAt'[a] = clock + 1
      /\ \A b \in Auths : b # a => clickedAt'[b] = clickedAt[b]
      /\ \A b \in Auths : clickedAt[b] \in Nat
  BY DEF ClickSubmit, Inv, HasAuth, TypeOK
<1>1. /\ call'[x].auth = a /\ call'[x].pc = "closing"
      /\ call'[x].verdict \in {"SUBMITTED", "UNKNOWN"}
      /\ \A y \in Calls : y # x => call'[y] = call[y]
  BY DEF ClickSubmit, ParseConfirmation, Goto, Inv, TypeOK, CallStates
<1>2. AtProvider(x) /\ Claimed(x)
  BY <1>0 DEF AtProvider, Claimed
<1>3. Active(a) /\ auth[a].status \in {"EXECUTING", "OUTCOME_UNKNOWN"} /\ clickedAt[a] = 0
  BY <1>0, <1>2 DEF Inv, ProviderHolds, Active
<1>4. \A y \in Calls : Claimed(y) /\ y # x => call[y].auth # a /\ call[y].auth \in Auths
  BY <1>0, <1>2 DEF Inv, ClaimsApart, HasAuth, Claimed
<1>5. HasAuth'
  BY <1>0, <1>1 DEF Inv, HasAuth
<1>6. ClaimsHeld' /\ ClaimsApart'
  BY <1>0, <1>1, <1>2 DEF Inv, ClaimsHeld, ClaimsApart, Claimed
<1>7. ProviderHolds'
  BY <1>0, <1>1, <1>4 DEF Inv, ProviderHolds, AtProvider, Claimed
<1>8. OneActive' /\ ExecutionHasAttempt'
  BY <1>0 DEF Inv, OneActive, ExecutionHasAttempt, Active
<1>9. ClicksCounted'
  <2>1. \A b \in Auths : Active(b)' => b = a
    BY <1>0, <1>3 DEF Inv, OneActive, Active
  <2> QED
    BY <1>0, <1>3, <2>1 DEF Inv, ClicksCounted
<1>10. VerdictsTrue'
  <2>1. \A y \in Calls : y # x /\ call[y].pc \in {"closing", "recording"}
                           => clickedAt'[call[y].auth] = clickedAt[call[y].auth]
    BY <1>0, <1>4 DEF Claimed
  <2> QED
    BY <1>0, <1>1, <2>1 DEF Inv, VerdictsTrue
<1>11. Remembered'
  BY <1>0, <1>3 DEF Inv, Remembered, ClicksAreRemembered
<1>12. EvidenceUsed'
  BY <1>0 DEF Inv, EvidenceUsed, TypeOK
<1>13. FreshIsLatest'
  <2>1. a \notin evidence
    BY <1>3 DEF Inv, EvidenceUsed
  <2>2. \A b \in evidence : clickedAt'[b] = clickedAt[b]
    BY <1>0, <2>1 DEF Inv, TypeOK
  <2> QED
    BY <1>0, <1>3, <2>2 DEF Inv, FreshIsLatest, Active
<1>14. ConfirmedIsLast'
  BY <1>0, <1>3 DEF Inv, ConfirmedIsLast
<1> QED
  BY <1>5, <1>6, <1>7, <1>8, <1>9, <1>10, <1>11, <1>12, <1>13, <1>14 DEF Inv

LEMMA SubmittedPreserves ==
    ASSUME Inv, NEW x \in Calls, RecordSubmitted(x), TypeOK'
    PROVE  Inv'
<1> DEFINE a == call[x].auth
<1>0. /\ a \in Auths /\ auth[a].status = "EXECUTING"
      /\ app.status = "SUBMISSION_PENDING"
      /\ app'.status = "UNCONFIRMED" /\ app'.appliedAt = clickedAt[a]
      /\ evidence' \subseteq evidence \cup {a}
      /\ clickedAt' = clickedAt /\ clock' = clock
      /\ \A b \in Auths : b # a => auth'[b] = auth[b] /\ attempt'[b] = attempt[b]
      /\ auth'[a].status = "CONSUMED" /\ attempt'[a] = "UNCONFIRMED"
  BY DEF RecordSubmitted, Recording, Matches, Transition, Settles, Inv, HasAuth, TypeOK,
         Authorizations
<1>1. CallsForward
  BY DEF RecordSubmitted, EndCall, CallsForward, Forward, NoCall, Inv, TypeOK
<1>2. call[x].pc = "recording" /\ clickedAt[a] # 0
  BY DEF RecordSubmitted, Recording, Inv, VerdictsTrue
<1>3. Active(a) /\ clickedAt[a] = clock
  BY <1>0, <1>2 DEF Active, Inv, ClicksCounted
<1>4. \A b \in Auths : ~Active(b)'
  BY <1>0, <1>3 DEF Inv, OneActive, Active
<1>5. \A y \in Calls : Claimed(y)' => Claimed(y) /\ call'[y].auth = call[y].auth
                                      /\ call[y].auth \in Auths
  BY <1>1, ForwardClaims DEF Inv, HasAuth, Claimed
<1>6. ClaimsHeld' /\ ClaimsApart'
  BY <1>0, <1>5 DEF Inv, ClaimsHeld, ClaimsApart
<1>7. ProviderHolds'
  <2>1. \A y \in Calls : AtProvider(y)' => Claimed(y)' /\ AtProvider(y)
    BY <1>1, ForwardClaims DEF AtProvider, Claimed
  <2>2. ASSUME NEW y \in Calls, AtProvider(y) PROVE call[y].auth # a
    BY <1>2, <2>2 DEF Inv, ProviderHolds
  <2> QED
    BY <1>0, <1>5, <2>1, <2>2 DEF Inv, ProviderHolds
<1>8. OneActive'
  BY <1>4 DEF OneActive
<1>9. ExecutionHasAttempt'
  BY <1>0 DEF Inv, ExecutionHasAttempt
<1>10. ClicksCounted'
  BY <1>0, <1>4 DEF Inv, ClicksCounted
<1>11. Remembered'
  BY <1>0 DEF Inv, Remembered, ClicksAreRemembered
<1>12. EvidenceUsed'
  <2>1. \A b \in evidence : b \in Auths /\ b # a
    BY <1>0 DEF Inv, EvidenceUsed, TypeOK
  <2> QED
    BY <1>0, <1>2, <2>1 DEF Inv, EvidenceUsed
<1>13. FreshIsLatest'
  <2>1. \A b \in evidence' : clickedAt[b] \in Nat /\ clock \in Nat /\ clickedAt[b] <= clock
    BY <1>0 DEF Inv, TypeOK, ClicksCounted
  <2> QED
    BY <1>0, <1>3, <1>4, <2>1 DEF FreshIsLatest
<1>14. ConfirmedIsLast'
  BY <1>0, <1>3 DEF Inv, ConfirmedIsLast
<1> QED
  BY <1>0, <1>1, <1>6, <1>7, <1>8, <1>9, <1>10, <1>11, <1>12, <1>13, <1>14, ForwardVerdicts,
     ForwardAuth DEF Inv

LEMMA VerifyPreserves ==
    ASSUME Inv, NEW a \in Auths, VerifySubmission(a), TypeOK'
    PROVE  Inv'
<1>0. /\ app'.status = "CONFIRMED"
      /\ a \in evidence /\ app.status = "UNCONFIRMED" /\ clickedAt[a] >= app.appliedAt
      /\ attempt[a] \in {"UNCONFIRMED", "OUTCOME_UNKNOWN"}
      /\ auth' = auth /\ call' = call /\ evidence' = evidence
      /\ clickedAt' = clickedAt /\ clock' = clock
      /\ \A b \in Auths : b # a => attempt'[b] = attempt[b]
      /\ attempt'[a] = "CONFIRMED"
  BY DEF VerifySubmission, DurableAttempt, Fresh, Transition, Inv, TypeOK
<1>1. \A b \in Auths : ~Active(b)
  BY <1>0 DEF Inv, FreshIsLatest
<1>2. HasAuth' /\ ClaimsHeld' /\ ClaimsApart' /\ ProviderHolds' /\ OneActive'
  BY <1>0 DEF Inv, HasAuth, ClaimsHeld, ClaimsApart, ProviderHolds, OneActive, Claimed,
              AtProvider, Active
<1>3. ExecutionHasAttempt'
  BY <1>0 DEF Inv, ExecutionHasAttempt
<1>4. ClicksCounted' /\ VerdictsTrue' /\ Remembered' /\ EvidenceUsed'
  BY <1>0 DEF Inv, ClicksCounted, VerdictsTrue, Remembered, ClicksAreRemembered, EvidenceUsed,
              Active
<1>5. FreshIsLatest' /\ ConfirmedIsLast'
  BY <1>0, <1>1 DEF FreshIsLatest, ConfirmedIsLast, Active, Post
<1> QED
  BY <1>2, <1>3, <1>4, <1>5 DEF Inv

-----------------------------------------------------------------------------
(* Every step *)

LEMMA TransitionMoves ==
    ASSUME NEW to, NEW since, Transition(to, since, Now),
           to \notin {"SUBMISSION_PENDING", "CONFIRMED"}
    PROVE  AppMoved
  BY DEF Transition, AppMoved, Now

LEMMA PendingMoves ==
    ASSUME FailPending \/ DoubtPending
    PROVE  AppMoved
  BY TransitionMoves DEF FailPending, DoubtPending, AppMoved

LEMMA EndCallForward ==
    ASSUME TypeOK, NEW x \in Calls, NEW outcome, EndCall(x, outcome)
    PROVE  CallsForward
  BY DEF EndCall, CallsForward, Forward, NoCall, TypeOK

\* What the owner, the clock and the verification's own rows do.
LEMMA RowsQuiet ==
    ASSUME TypeOK, UNCHANGED vars \/ ClockStep
                       \/ (\E to \in OwnerStatuses : Patch(to))
                       \/ (\E a \in Auths : CancelJob(a) \/ ReplayJob(a))
                       \/ (\E a \in Auths : ResolveVerification(a) \/ CancelVerification(a)
                                                \/ ResumeVerification(a))
    PROVE  Quiet
<1>1. CASE UNCHANGED vars
  BY <1>1 DEF vars, Quiet, CallsForward, Forward, AppMoved
<1>2. ASSUME NEW to \in OwnerStatuses, Patch(to) PROVE Quiet
  BY <1>2, TransitionMoves DEF Patch, Quiet, CallsForward, Forward
<1>3. ASSUME NEW a \in Auths, CancelJob(a) \/ ReplayJob(a) \/ LeaseExpires(a) PROVE Quiet
  BY <1>3 DEF CancelJob, ReplayJob, LeaseExpires, Quiet, CallsForward, Forward, AppMoved
<1>4. ASSUME NEW a \in Auths, VerificationExpires(a) \/ ResolveVerification(a) PROVE Quiet
  BY <1>4 DEF VerificationExpires, ResolveVerification, Quiet, CallsForward, Forward, AppMoved
<1>5. ASSUME NEW a \in Auths, AuthorizationExpires(a) PROVE Quiet
  <2>1. \A b \in Auths : auth'[b].status = auth[b].status
    BY <1>5 DEF AuthorizationExpires, TypeOK, Authorizations
  <2> QED
    BY <1>5, <2>1 DEF AuthorizationExpires, Quiet, CallsForward, Forward, AppMoved
<1>6. ASSUME NEW a \in Auths, CancelVerification(a) \/ ResumeVerification(a) PROVE Quiet
  <2>1. hv[a].resumeTo \in {"READY_TO_SUBMIT", "FORM_FILLED"}
    BY DEF TypeOK, Verifications
  <2>2. AppMoved
    BY <1>6, <2>1, TransitionMoves DEF CancelVerification, ResumeVerification, AppMoved
  <2> QED
    BY <1>6, <2>2 DEF CancelVerification, ResumeVerification, Quiet, CallsForward, Forward
<1> QED
  BY <1>1, <1>2, <1>3, <1>4, <1>5, <1>6 DEF ClockStep

\* What a call does up to the click, and after it until it records.
LEMMA CallsQuiet ==
    ASSUME Inv, NEW x \in Calls,
           \/ ClaimRefused(x) \/ Crash(x) \/ \E a \in Auths : StartCall(x, a)
           \/ Prepare(x) \/ OpenSession(x) \/ PreparationFails(x) \/ PageFails(x)
           \/ RequestVerification(x) \/ CloseSession(x) \/ CloseFails(x)
           \/ RecordingThrows(x) \/ RecordFails(x)
    PROVE  Quiet
<1>0. TypeOK /\ call \in [Calls -> CallStates]
      /\ call[x] = [call[x] EXCEPT !.pc = call[x].pc]
      /\ \A pc : [call[x] EXCEPT !.pc = pc].pc = pc
  BY DEF Inv, TypeOK, CallStates
<1>1. CASE ClaimRefused(x) \/ RecordingThrows(x) \/ RecordFails(x)
  <2>1. CallsForward
    BY <1>0, <1>1, EndCallForward DEF ClaimRefused, RecordingThrows, RecordFails
  <2> QED
    BY <1>1, <2>1 DEF ClaimRefused, RecordingThrows, RecordFails, Quiet, AppMoved
<1>2. CASE Crash(x)
  <2>1. [NoCall EXCEPT !.pc = "dead"].pc = "dead"
    BY DEF NoCall
  <2>2. CallsForward
    BY <1>0, <1>2, <2>1 DEF Crash, CallsForward, Forward
  <2> QED
    BY <1>2, <2>2 DEF Crash, Quiet, AppMoved
<1>3. ASSUME NEW a \in Auths, StartCall(x, a) PROVE Quiet
  <2>1. CallsForward
    BY <1>0, <1>3 DEF StartCall, CallsForward, Forward
  <2> QED
    BY <1>3, <2>1 DEF StartCall, Quiet, AppMoved
<1>4. CASE Prepare(x) \/ OpenSession(x) \/ PreparationFails(x) \/ PageFails(x)
           \/ RequestVerification(x) \/ CloseSession(x) \/ CloseFails(x)
  <2>1. /\ \A y \in Calls : y # x => call'[y] = call[y]
        /\ call'[x].auth = call[x].auth
    BY <1>0, <1>4 DEF Prepare, OpenSession, PreparationFails, PageFails, RequestVerification,
                      CloseSession, CloseFails, Goto, CallStates
  <2>2. ASSUME \/ Prepare(x) \/ OpenSession(x) \/ PreparationFails(x) \/ PageFails(x)
               \/ RequestVerification(x)
        PROVE  Forward(call[x], call'[x])
    <3>1. call[x].pc \in AtPage
          /\ \/ call'[x].pc \in AtPage
             \/ call'[x].pc \in {"closing", "recording"} /\ call'[x].verdict # "SUBMITTED"
      BY <1>0, <2>2 DEF Prepare, OpenSession, PreparationFails, PageFails, RequestVerification,
                        Goto, AtPage, CallStates
    <3> QED
      BY <2>1, <3>1 DEF Forward
  <2>3. ASSUME CloseSession(x) \/ CloseFails(x)
        PROVE  Forward(call[x], call'[x])
    <3>1. call[x].pc = "closing" /\ call'[x].pc = "recording"
          /\ \/ call'[x].verdict \in {call[x].verdict, "UNKNOWN"}
             \/ CloseMayFail /\ call'[x].verdict = "FAILED"
      BY <1>0, <2>3 DEF CloseSession, CloseFails, Validated, Goto, CallStates
    <3> QED
      BY <2>1, <3>1 DEF Forward
  <2>4. CallsForward
    <3>1. \A y \in Calls : y # x => Forward(call[y], call'[y])
      BY <2>1 DEF Forward
    <3> QED
      BY <1>4, <2>2, <2>3, <3>1 DEF CallsForward
  <2>5. AppMoved
    BY <1>4, TransitionMoves DEF Prepare, OpenSession, PreparationFails, PageFails,
                                 RequestVerification, CloseSession, CloseFails, AppMoved
  <2> QED
    BY <1>4, <2>4, <2>5 DEF Prepare, OpenSession, PreparationFails, PageFails,
                            RequestVerification, CloseSession, CloseFails, Quiet
<1> QED
  BY <1>1, <1>2, <1>3, <1>4

\* The steps that record an outcome for a call, and the one that gives up on it.
LEMMA RecordsSettle ==
    ASSUME Inv, NEW x \in Calls, RecordHuman(x) \/ RecordFailed(x) \/ RecordUnknown(x)
    PROVE  Quiet \/ (Settling(call[x].auth) /\ call[x].auth \in Auths)
<1> DEFINE a == call[x].auth
<1>1. /\ TypeOK /\ a \in Auths /\ Claimed(x) /\ call[x].pc = "recording"
      /\ call[x].verdict \in {"HUMAN", "FAILED"} => CloseMayFail \/ clickedAt[a] = 0
  BY DEF RecordHuman, RecordFailed, RecordUnknown, Recording, Inv, HasAuth, Claimed, VerdictsTrue
<1>2. CallsForward /\ UNCHANGED <<evidence, clickedAt, clock>>
  BY <1>1, EndCallForward DEF RecordHuman, RecordFailed, RecordUnknown
<1>3. AppMoved
  BY PendingMoves DEF RecordHuman, RecordFailed, RecordUnknown, AppMoved
<1>4. CASE auth[a].status # "EXECUTING"
  <2>1. UNCHANGED <<auth, attempt>>
    BY <1>4 DEF RecordHuman, RecordFailed, RecordUnknown
  <2> QED
    BY <1>2, <1>3, <2>1 DEF Quiet
<1>5. CASE auth[a].status = "EXECUTING"
  <2>1. \A y \in Calls : AtProvider(y)' => call'[y].auth # a
    <3> SUFFICES ASSUME NEW y \in Calls, AtProvider(y)', call'[y].auth = a
                 PROVE  FALSE
      OBVIOUS
    <3>1. Claimed(y)' /\ AtProvider(y) /\ Claimed(y) /\ call[y].auth = a
      BY <1>2, ForwardClaims DEF AtProvider, Claimed
    <3>2. y = x
      BY <1>1, <3>1 DEF Inv, ClaimsApart
    <3> QED
      BY <1>1, <3>1, <3>2 DEF AtProvider
  <2>2. CASE RecordHuman(x) \/ RecordFailed(x)
    BY <1>1, <1>2, <1>3, <1>5, <2>1, <2>2
       DEF RecordHuman, RecordFailed, Recording, Settles, Settling
  <2>3. CASE RecordUnknown(x)
    BY <1>1, <1>2, <1>3, <1>5, <2>3 DEF RecordUnknown, Settles, Settling
  <2> QED
    BY <2>2, <2>3
<1> QED
  BY <1>4, <1>5

LEMMA ReconcileSettles ==
    ASSUME Inv, NEW a \in Auths, ReconcileStale(a)
    PROVE  Settling(a)
<1>1. auth[a].status = "EXECUTING"
  BY DEF ReconcileStale
<1>2. PICK b \in Auths :
        attempt[b] = "EXECUTING" /\ attempt' = [attempt EXCEPT ![b] = "OUTCOME_UNKNOWN"]
  BY DEF ReconcileStale
<1>3. b = a
  BY <1>1, <1>2 DEF Inv, ExecutionHasAttempt, OneActive, Active
<1>4. AppMoved
  BY PendingMoves DEF ReconcileStale
<1> QED
  BY <1>1, <1>2, <1>3, <1>4 DEF ReconcileStale, Settling, CallsForward, Forward

\* The cases of every proof about a step.
LEMMA StepCases ==
    ASSUME Inv, [Next]_vars
    PROVE  \/ Quiet
           \/ \E a \in Auths : Settling(a) \/ AuthorizeSubmission(a) \/ VerifySubmission(a)
           \/ \E x \in Calls : \/ ClaimAuthorized(x) \/ ClaimExpired(x)
                               \/ ClickSubmit(x) \/ RecordSubmitted(x)
<1>1. TypeOK
  BY DEF Inv
<1>2. CASE UNCHANGED vars \/ ClockStep
  BY <1>1, <1>2, RowsQuiet
<1>3. CASE OwnerStep
  BY <1>1, <1>3, RowsQuiet DEF OwnerStep
<1>4. ASSUME NEW x \in Calls, CallStep(x) \/ Crash(x) \/ \E a \in Auths : StartCall(x, a)
      PROVE  \/ Quiet
             \/ \E a \in Auths : Settling(a)
             \/ ClaimAuthorized(x) \/ ClaimExpired(x) \/ ClickSubmit(x) \/ RecordSubmitted(x)
  BY <1>4, CallsQuiet, RecordsSettle DEF CallStep, ProviderStep, RecordStep
<1>5. ASSUME NEW a \in Auths, ReconcileStale(a) \/ VerifySubmission(a) \/ ResumeVerification(a)
      PROVE  Quiet \/ Settling(a) \/ VerifySubmission(a)
  BY <1>1, <1>5, RowsQuiet, ReconcileSettles
<1> QED
  BY <1>2, <1>3, <1>4, <1>5 DEF Next

LEMMA InvInit == Init => Inv
<1> SUFFICES ASSUME Init PROVE Inv
  OBVIOUS
<1>1. TypeOK
  BY DEF Init, TypeOK, Apps, Statuses, Authorizations, AuthStatuses, AttemptStatuses, JobRows,
         CallStates, NoCall, Verifications, NoVerification
<1>2. HasAuth /\ ClaimsHeld /\ ClaimsApart /\ ProviderHolds /\ VerdictsTrue
  BY DEF Init, NoCall, HasAuth, ClaimsHeld, ClaimsApart, ProviderHolds, VerdictsTrue, Claimed,
         AtProvider
<1>3. /\ OneActive /\ ExecutionHasAttempt /\ ClicksCounted /\ Remembered /\ EvidenceUsed
      /\ FreshIsLatest /\ ConfirmedIsLast
  BY DEF Init, OneActive, Active, ExecutionHasAttempt, ClicksCounted, Remembered,
         ClicksAreRemembered, EvidenceUsed, FreshIsLatest, ConfirmedIsLast
<1> QED
  BY <1>1, <1>2, <1>3 DEF Inv

LEMMA InvStep == Inv /\ [Next]_vars => Inv'
<1> SUFFICES ASSUME Inv, [Next]_vars PROVE Inv'
  OBVIOUS
<1>1. TypeOK'
  BY TypeStep DEF Inv
<1> QED
  BY <1>1, StepCases, QuietPreserves, SettlingPreserves, AuthorizePreserves, VerifyPreserves,
     ClaimPreserves, ClaimExpiredPreserves, ClickPreserves, SubmittedPreserves

THEOREM Invariance == Spec => []Inv
  BY InvInit, InvStep, PTL DEF Spec

-----------------------------------------------------------------------------
(* Theorems *)

\* No transaction and no step of a call leaves the types of the tables.
THEOREM TypeInvariant == Spec => []TypeOK
<1>1. Inv => TypeOK
  BY DEF Inv
<1> QED
  BY <1>1, Invariance, PTL

\* However jobs are replayed, executions given up and statuses moved, never do
\* two calls work on the provider's form for one application.
THEOREM OneCall == Spec => []OneCallAtProvider
<1>1. Inv => OneCallAtProvider
  <2> SUFFICES ASSUME Inv, NEW x \in Calls, NEW y \in Calls, AtProvider(x), AtProvider(y)
               PROVE  x = y
    BY DEF OneCallAtProvider
  <2>1. Claimed(x) /\ Claimed(y) /\ call[x].auth \in Auths /\ call[y].auth \in Auths
    BY DEF Inv, HasAuth, Claimed, AtProvider
  <2>2. Active(call[x].auth) /\ Active(call[y].auth)
    BY DEF Inv, ProviderHolds, Active
  <2>3. call[x].auth = call[y].auth
    BY <2>1, <2>2 DEF Inv, OneActive
  <2> QED
    BY <2>1, <2>3 DEF Inv, ClaimsApart
<1> QED
  BY <1>1, Invariance, PTL

\* Authorization and attempt are open together, so that reconciliation never
\* finds half of an execution.
THEOREM AttemptsOpen == Spec => []ExecutionHasAttempt
<1>1. Inv => ExecutionHasAttempt
  BY DEF Inv
<1> QED
  BY <1>1, Invariance, PTL

\* As long as closing the browser session does not throw, an activated submit
\* control never counts as failed or expired.
THEOREM ClicksRemembered ==
    ASSUME CloseMayFail = FALSE
    PROVE  Spec => []ClicksAreRemembered
<1>1. Inv => ClicksAreRemembered
  BY DEF Inv, Remembered
<1> QED
  BY <1>1, Invariance, PTL

-----------------------------------------------------------------------------
(* The engine implements the gate *)

LEMMA HolderFacts ==
    ASSUME OneActive, OneActive'
    PROVE  /\ \A a \in Auths : Active(a) => Holder = a
           /\ (\A a \in Auths : ~Active(a)) => Holder = None
           /\ \A a \in Auths : Active(a)' => Holder' = a
           /\ (\A a \in Auths : ~Active(a)') => Holder' = None
<1>1. \A a \in Auths : Active(a) => InForce = {a}
  BY DEF OneActive, Active, InForce
<1>2. (\A a \in Auths : ~Active(a)) => InForce = {}
  BY DEF Active, InForce
<1>3. \A a \in Auths : Active(a)' => InForce' = {a}
  BY DEF OneActive, Active, InForce
<1>4. (\A a \in Auths : ~Active(a)') => InForce' = {}
  BY DEF Active, InForce
<1> QED
  BY <1>1, <1>2, <1>3, <1>4 DEF Holder

\* Who is in force, who ever was and what is confirmed is all the gate sees of the tables.
LEMMA GateSees ==
    ASSUME \A a \in Auths : /\ Active(a)' <=> Active(a)
                            /\ (auth'[a].status = "NONE") <=> (auth[a].status = "NONE")
                            /\ (attempt'[a] = "CONFIRMED") <=> (attempt[a] = "CONFIRMED"),
           UNCHANGED <<clickedAt, clock>>
    PROVE  UNCHANGED Gate!gateVars
<1>1. InForce' = InForce
  BY DEF Active, InForce
<1>2. /\ {a \in Auths : auth'[a].status # "NONE"} = {a \in Auths : auth[a].status # "NONE"}
      /\ {a \in Auths : attempt'[a] = "CONFIRMED"} = {a \in Auths : attempt[a] = "CONFIRMED"}
  OBVIOUS
<1> QED
  BY <1>1, <1>2 DEF Gate!gateVars, Holder

\* The end of an authorization that was in force.
LEMMA GateSettles ==
    ASSUME Inv, Inv', NEW a \in Auths, Active(a), ~Active(a)',
           \A b \in Auths : b # a => auth'[b] = auth[b],
           auth'[a].status # "NONE",
           \A b \in Auths : (attempt'[b] = "CONFIRMED") <=> (attempt[b] = "CONFIRMED"),
           UNCHANGED <<clickedAt, clock>>
    PROVE  Gate!Settle(a)
<1>1. Holder = a
  BY HolderFacts DEF Inv
<1>2. \A b \in Auths : ~Active(b)'
  BY DEF Inv, OneActive, Active
<1>3. Holder' = None
  BY <1>2, HolderFacts DEF Inv
<1>4. /\ {b \in Auths : auth'[b].status # "NONE"} = {b \in Auths : auth[b].status # "NONE"}
      /\ {b \in Auths : attempt'[b] = "CONFIRMED"} = {b \in Auths : attempt[b] = "CONFIRMED"}
  BY DEF Active
<1> QED
  BY <1>1, <1>3, <1>4 DEF Gate!Settle

LEMMA GateStep ==
    ASSUME Inv, Inv', [Next]_vars
    PROVE  [Gate!Next]_(Gate!gateVars)
<1>1. CASE Quiet
  BY <1>1, GateSees DEF Quiet, Active
<1>2. ASSUME NEW a \in Auths, Settling(a) PROVE [Gate!Next]_(Gate!gateVars)
  <2>1. /\ Active(a) /\ auth'[a].status \in {"FAILED", "OUTCOME_UNKNOWN"}
        /\ auth[a].status = "EXECUTING" /\ attempt[a] = "EXECUTING"
        /\ attempt'[a] # "CONFIRMED"
        /\ \A b \in Auths : b # a => auth'[b] = auth[b] /\ attempt'[b] = attempt[b]
        /\ UNCHANGED <<clickedAt, clock>>
    BY <1>2 DEF Settling, Active, Inv, TypeOK, Authorizations, ExecutionHasAttempt
  <2>2. CASE Active(a)'
    <3>1. \A b \in Auths : Active(b)' <=> Active(b)
      BY <2>1, <2>2 DEF Active
    <3> QED
      BY <2>1, <3>1, GateSees
  <2>3. CASE ~Active(a)'
    <3>1. Gate!Settle(a)
      BY <2>1, <2>3, GateSettles
    <3> QED
      BY <3>1 DEF Gate!Next
  <2> QED
    BY <2>2, <2>3
<1>3. ASSUME NEW a \in Auths, AuthorizeSubmission(a) PROVE [Gate!Next]_(Gate!gateVars)
  <2>1. /\ auth[a].status = "NONE" /\ app.status = "READY_TO_SUBMIT"
        /\ \A b \in Auths : ~Active(b)
        /\ \A b \in Auths : b # a => auth'[b] = auth[b]
        /\ auth'[a].status = "AUTHORIZED"
        /\ UNCHANGED <<attempt, clickedAt, clock>>
    BY <1>3 DEF AuthorizeSubmission, Inv, TypeOK
  <2>2. Holder = None /\ Holder' = a
    BY <2>1, HolderFacts DEF Inv, Active
  <2>3. {b \in Auths : attempt[b] = "CONFIRMED"} = {}
    BY <2>1 DEF Inv, ConfirmedIsLast, Post
  <2>4. {b \in Auths : auth'[b].status # "NONE"}
            = {b \in Auths : auth[b].status # "NONE"} \cup {a}
    BY <2>1
  <2>5. Gate!Grant(a)
    BY <2>1, <2>2, <2>3, <2>4 DEF Gate!Grant
  <2> QED
    BY <2>5 DEF Gate!Next
<1>4. ASSUME NEW x \in Calls, ClaimAuthorized(x) PROVE [Gate!Next]_(Gate!gateVars)
  <2> DEFINE a == call[x].auth
  <2>1. /\ a \in Auths /\ auth[a].status = "AUTHORIZED" /\ auth'[a].status = "EXECUTING"
        /\ attempt'[a] = "EXECUTING"
        /\ \A b \in Auths : b # a => auth'[b] = auth[b] /\ attempt'[b] = attempt[b]
        /\ UNCHANGED <<clickedAt, clock>>
    BY <1>4 DEF ClaimAuthorized, Claimable, Inv, HasAuth, TypeOK, Authorizations
  <2>2. attempt[a] # "CONFIRMED"
    BY <2>1 DEF Inv, ConfirmedIsLast, Active
  <2>3. \A b \in Auths : Active(b)' <=> Active(b)
    BY <2>1 DEF Active
  <2> QED
    BY <2>1, <2>2, <2>3, GateSees
<1>5. ASSUME NEW x \in Calls, ClaimExpired(x) PROVE [Gate!Next]_(Gate!gateVars)
  <2>1. /\ call[x].auth \in Auths /\ auth[call[x].auth].status = "AUTHORIZED"
        /\ auth'[call[x].auth].status = "EXPIRED"
        /\ \A b \in Auths : b # call[x].auth => auth'[b] = auth[b]
        /\ UNCHANGED <<attempt, clickedAt, clock>>
    BY <1>5 DEF ClaimExpired, Inv, HasAuth, TypeOK, Authorizations
  <2>2. Gate!Settle(call[x].auth)
    BY <2>1, GateSettles DEF Active
  <2> QED
    BY <2>1, <2>2 DEF Gate!Next
<1>6. ASSUME NEW x \in Calls, ClickSubmit(x) PROVE [Gate!Next]_(Gate!gateVars)
  <2> DEFINE a == call[x].auth
  <2>1. /\ call[x].pc = "inPage" /\ a \in Auths
        /\ auth' = auth /\ attempt' = attempt /\ clock' = clock + 1
        /\ clickedAt' = [clickedAt EXCEPT ![a] = clock + 1]
    BY <1>6 DEF ClickSubmit, Inv, HasAuth
  <2>2. Active(a) /\ clickedAt[a] = 0
    BY <2>1 DEF Inv, ProviderHolds, AtProvider, Active
  <2>3. Holder = a /\ Holder' = a
    BY <2>1, <2>2, HolderFacts DEF Inv, Active
  <2>4. {b \in Auths : attempt[b] = "CONFIRMED"} = {}
    BY <2>1, <2>2 DEF Inv, ConfirmedIsLast
  <2>5. Gate!Click(a)
    BY <2>1, <2>2, <2>3, <2>4 DEF Gate!Click
  <2> QED
    BY <2>1, <2>5 DEF Gate!Next
<1>7. ASSUME NEW x \in Calls, RecordSubmitted(x) PROVE [Gate!Next]_(Gate!gateVars)
  <2>1. /\ call[x].auth \in Auths /\ auth[call[x].auth].status = "EXECUTING"
        /\ auth'[call[x].auth].status = "CONSUMED"
        /\ attempt'[call[x].auth] = "UNCONFIRMED"
        /\ \A b \in Auths : b # call[x].auth => auth'[b] = auth[b] /\ attempt'[b] = attempt[b]
        /\ UNCHANGED <<clickedAt, clock>>
    BY <1>7 DEF RecordSubmitted, Recording, Settles, Inv, HasAuth, TypeOK, Authorizations
  <2>2. attempt[call[x].auth] # "CONFIRMED"
    BY <2>1 DEF Inv, ExecutionHasAttempt
  <2>3. Gate!Settle(call[x].auth)
    BY <2>1, <2>2, GateSettles DEF Active
  <2> QED
    BY <2>1, <2>3 DEF Gate!Next
<1>8. ASSUME NEW a \in Auths, VerifySubmission(a) PROVE [Gate!Next]_(Gate!gateVars)
  <2>1. /\ a \in evidence /\ app.status = "UNCONFIRMED" /\ clickedAt[a] >= app.appliedAt
        /\ auth' = auth
        /\ \A b \in Auths : b # a => attempt'[b] = attempt[b]
        /\ attempt'[a] = "CONFIRMED"
        /\ UNCHANGED <<clickedAt, clock>>
    BY <1>8 DEF VerifySubmission, Fresh, Inv, TypeOK
  <2>2. clickedAt[a] = clock /\ \A b \in Auths : ~Active(b)
    BY <2>1 DEF Inv, FreshIsLatest
  <2>3. clickedAt[a] > 0
    BY <2>1 DEF Inv, EvidenceUsed, TypeOK
  <2>4. Holder = None /\ Holder' = None
    BY <2>1, <2>2, HolderFacts DEF Inv, Active
  <2>5. {b \in Auths : attempt[b] = "CONFIRMED"} = {}
    BY <2>1 DEF Inv, ConfirmedIsLast, Post
  <2>6. {b \in Auths : attempt'[b] = "CONFIRMED"} = {a}
    BY <2>1, <2>5
  <2>7. Gate!Confirm(a)
    BY <2>1, <2>2, <2>3, <2>4, <2>5, <2>6 DEF Gate!Confirm
  <2> QED
    BY <2>7 DEF Gate!Next
<1> QED
  BY StepCases, <1>1, <1>2, <1>3, <1>4, <1>5, <1>6, <1>7, <1>8

\* One authorization in force at a time, one press for each and none without
\* it, and a confirmation that is about the latest press and the last thing to
\* happen: every step of the engine is one of the gate or none.
THEOREM EngineImplementsGate == Spec => ImplementsGate
<1>1. Init => Gate!Init
  <2> SUFFICES ASSUME Init PROVE Gate!Init
    OBVIOUS
  <2>1. InForce = {}
    BY DEF Init, InForce
  <2> QED
    BY <2>1 DEF Init, Gate!Init, Holder
<1>2. Inv /\ Inv' /\ [Next]_vars => [Gate!Next]_(Gate!gateVars)
  BY GateStep
<1> QED
  BY <1>1, <1>2, Invariance, PTL DEF Spec, ImplementsGate, Gate!Spec

=============================================================================
