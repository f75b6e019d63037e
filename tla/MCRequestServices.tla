------------------------- MODULE MCRequestServices -------------------------
(***************************************************************************)
(* Small instances, for TLC, of the components whose transactions race     *)
(* with each other: refresh sessions, browser sessions, live events,       *)
(* application intake, forms and outcomes, job discovery with its schedules*)
(* and the pipeline behind it, mailbox consent and syncs, documents, and   *)
(* the worker process that starts and shuts down.                          *)
(* They share no state: each behaviour is one of the component that focus  *)
(* names, and a run visits the sum of their state spaces.                  *)
(***************************************************************************)
EXTENDS RefreshSessions, BrowserSessions, LiveEvents, ApplicationIntake, JobDiscovery,
        Mailbox, MailboxConsent, Documents, ApplicationOutcomes, SearchSchedules,
        ResumePipeline, MCApplicationForm, WorkerProcess

CONSTANTS p1, p2, p3, p4, h1, h2, m1, v1

\* Two pages: the second repeats a posting of the first and has two postings with the same
\* fingerprint; p3 cannot be normalised.
TwoPages  == (0 :> {p1, p3}) @@ (1 :> {p1, p2, p4})
SamePrint == [p \in Postings |-> IF p = p4 THEN p2 ELSE p]

\* The first rule shields v1 from the second, which skips what is evaluated while another
\* application has a reservation of the day.
OwnerRules == << [jobs |-> {v1}, reserved |-> 0, action |-> "APPLY"],
                 [jobs |-> Vacancies, reserved |-> 1, action |-> "SKIP"] >>

\* A mail that says an offer was made.
OfferMail == m1 :> {"OFFER"}

\* Two profiles of one owner; a schedule for every instant and one with a gap behind which
\* no slot is left within the horizon.
TwoProfiles == (h1 :> 1) @@ (h2 :> 2)
OneOwner    == [p \in Profiles |-> "owner"]
OneBatch    == <<{"owner"}>>
FallsOn     == [HOURLY |-> 1 .. 6, RARE |-> {1, 4, 5}]

VARIABLE focus

requestVars == <<sessionVars, browserVars, liveVars, intakeVars, formVars,
                 discoveryVars, mailboxVars, consentVars, docVars, outcomeVars, scheduleVars,
                 pipelineVars, workerVars, focus>>

Init ==
    /\ focus \in {"sessions", "browsers", "events", "intake", "forms", "discovery",
                 "mailbox", "consent", "documents", "outcomes", "schedules", "pipeline",
                 "worker"}
    /\ SessionInit /\ BrowserInit /\ LiveInit /\ IntakeInit /\ FormInit
    /\ DiscoveryInit /\ MailboxInit /\ ConsentInit /\ DocInit /\ OutcomeInit /\ ScheduleInit
    /\ PipelineInit /\ WorkerInit
    \* The choices of the profiles matter only where they run.
    /\ focus # "schedules" => \A p \in Profiles : profile[p].schedule = "ONCE" /\ profile[p].accounts

Next ==
    /\ UNCHANGED focus
    /\ \/ /\ focus = "sessions" /\ SessionNext
          /\ UNCHANGED <<browserVars, liveVars, intakeVars, formVars, discoveryVars,
                         mailboxVars, consentVars, docVars, outcomeVars, scheduleVars,
                         pipelineVars, workerVars>>
       \/ /\ focus = "browsers" /\ BrowserNext
          /\ UNCHANGED <<sessionVars, liveVars, intakeVars, formVars, discoveryVars,
                         mailboxVars, consentVars, docVars, outcomeVars, scheduleVars,
                         pipelineVars, workerVars>>
       \/ /\ focus = "events" /\ LiveNext
          /\ UNCHANGED <<sessionVars, browserVars, intakeVars, formVars, discoveryVars,
                         mailboxVars, consentVars, docVars, outcomeVars, scheduleVars,
                         pipelineVars, workerVars>>
       \/ /\ focus = "intake" /\ IntakeNext
          /\ UNCHANGED <<sessionVars, browserVars, liveVars, formVars, discoveryVars,
                         mailboxVars, consentVars, docVars, outcomeVars, scheduleVars,
                         pipelineVars, workerVars>>
       \/ /\ focus = "forms" /\ FormNext
          /\ UNCHANGED <<sessionVars, browserVars, liveVars, intakeVars, discoveryVars,
                         mailboxVars, consentVars, docVars, outcomeVars, scheduleVars,
                         pipelineVars, workerVars>>
       \/ /\ focus = "discovery" /\ DiscoveryNext
          /\ UNCHANGED <<sessionVars, browserVars, liveVars, intakeVars, formVars,
                         mailboxVars, consentVars, docVars, outcomeVars, scheduleVars,
                         pipelineVars, workerVars>>
       \/ /\ focus = "mailbox" /\ MailboxNext
          /\ UNCHANGED <<sessionVars, browserVars, liveVars, intakeVars, formVars,
                         discoveryVars, consentVars, docVars, outcomeVars, scheduleVars,
                         pipelineVars, workerVars>>
       \/ /\ focus = "consent" /\ ConsentNext
          /\ UNCHANGED <<sessionVars, browserVars, liveVars, intakeVars, formVars,
                         discoveryVars, mailboxVars, docVars, outcomeVars, scheduleVars,
                         pipelineVars, workerVars>>
       \/ /\ focus = "documents" /\ DocNext
          /\ UNCHANGED <<sessionVars, browserVars, liveVars, intakeVars, formVars,
                         discoveryVars, mailboxVars, consentVars, outcomeVars,
                         scheduleVars, pipelineVars, workerVars>>
       \/ /\ focus = "outcomes" /\ OutcomeNext
          /\ UNCHANGED <<sessionVars, browserVars, liveVars, intakeVars, formVars,
                         discoveryVars, mailboxVars, consentVars, docVars, scheduleVars,
                         pipelineVars, workerVars>>
       \/ /\ focus = "schedules" /\ ScheduleNext
          /\ UNCHANGED <<sessionVars, browserVars, liveVars, intakeVars, formVars,
                         discoveryVars, mailboxVars, consentVars, docVars, outcomeVars,
                         pipelineVars, workerVars>>
       \/ /\ focus = "pipeline" /\ PipelineNext
          /\ UNCHANGED <<sessionVars, browserVars, liveVars, intakeVars, formVars,
                         discoveryVars, mailboxVars, consentVars, docVars, outcomeVars,
                         scheduleVars, workerVars>>
       \/ /\ focus = "worker" /\ WorkerNext
          /\ UNCHANGED <<sessionVars, browserVars, liveVars, intakeVars, formVars,
                         discoveryVars, mailboxVars, consentVars, docVars, outcomeVars,
                         scheduleVars, pipelineVars>>

Spec == Init /\ [][Next]_requestVars

=============================================================================
