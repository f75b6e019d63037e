------------------------ MODULE MCBackgroundServices ------------------------
(***************************************************************************)
(* Small instances, for TLC, of the components that have to get something  *)
(* done although they fail and are retried: the outbox, mailbox syncs,     *)
(* document retention, the discovery pool and the discovery schedules.     *)
(* They share no state: each behaviour is one of the component that focus  *)
(* names, and a run visits the sum of their state spaces.                  *)
(***************************************************************************)
EXTENDS Outbox, Mailbox, Documents, DiscoveryPool, SearchSchedules

CONSTANTS x1, x2, x3, h1, h2, h3, y1, y2

\* Two tasks of one source around one of another.
InOrder  == <<x1, x2, x3>>
SourceOf == [t \in Tasks |-> IF t = x2 THEN "greenhouse" ELSE "lever"]

\* Two profiles of the owner in the first batch, one of the owner in the second.
ThreeProfiles == (h1 :> 1) @@ (h2 :> 2) @@ (h3 :> 3)
TwoOwners     == (h1 :> y1) @@ (h2 :> y1) @@ (h3 :> y2)
TwoBatches    == <<{y1}, {y2}>>
FallsOn       == [HOURLY |-> 1 .. 6, RARE |-> {1, 4, 5}]

VARIABLE focus

backgroundVars == <<outboxVars, mailboxVars, docVars, poolVars, scheduleVars, focus>>

Init ==
    /\ focus \in {"outbox", "mailbox", "documents", "pool", "schedules"}
    /\ OutboxInit /\ MailboxInit /\ DocInit /\ PoolInit /\ ScheduleInit
    \* The choices of the profiles matter only where they run.
    /\ focus # "schedules" => \A p \in Profiles : profile[p].schedule = "ONCE" /\ profile[p].accounts

Next ==
    /\ UNCHANGED focus
    /\ \/ /\ focus = "outbox" /\ OutboxNext
          /\ UNCHANGED <<mailboxVars, docVars, poolVars, scheduleVars>>
       \/ /\ focus = "mailbox" /\ MailboxNext
          /\ UNCHANGED <<outboxVars, docVars, poolVars, scheduleVars>>
       \/ /\ focus = "documents" /\ DocNext
          /\ UNCHANGED <<outboxVars, mailboxVars, poolVars, scheduleVars>>
       \/ /\ focus = "pool" /\ PoolNext
          /\ UNCHANGED <<outboxVars, mailboxVars, docVars, scheduleVars>>
       \/ /\ focus = "schedules" /\ ScheduleNext
          /\ UNCHANGED <<outboxVars, mailboxVars, docVars, poolVars>>

\* The fairness of each component, asked only of the one that runs.
Runs(component) == focus = component

Fairness ==
    /\ \A e \in Events : /\ WF_outboxVars(Runs("outbox") /\ LeaseLapses(e))
                         /\ WF_outboxVars(Runs("outbox") /\ RetryDue(e))
    /\ \A u \in Publishers : WF_outboxVars(Runs("outbox") /\ PublisherStep(u))
    /\ WF_mailboxVars(Runs("mailbox") /\ MailboxTick)
    /\ SF_mailboxVars(Runs("mailbox") /\ \E c \in Calls : ClaimDue(c))
    /\ \A c \in Calls : WF_mailboxVars(Runs("mailbox") /\ SyncStep(c))
    /\ \A p \in Purges : WF_docVars(Runs("documents") /\ PurgeStep(p))
    /\ WF_docVars(Runs("documents") /\ \E p, q \in Purges : LoseDeadlock(p, q))
    /\ WF_poolVars(Runs("pool") /\ (StartTask \/ StopScheduling))
    /\ WF_poolVars(Runs("pool") /\ WakeUp)
    /\ WF_poolVars(Runs("pool") /\ PoolTick)
    /\ \A t \in Tasks : WF_poolVars(Runs("pool") /\ TaskEnds(t))
    /\ \A s \in Schedulers : /\ WF_scheduleVars(Runs("schedules") /\ SchedulerStep(s))
                             /\ \A u \in Tenants : WF_scheduleVars(Runs("schedules") /\ ClaimStep(s, u))

Spec == Init /\ [][Next]_backgroundVars /\ Fairness

\* The promise of the schedules, asked where they run.
EveryDueSlotRuns == Runs("schedules") => EverySlotRuns

=============================================================================
