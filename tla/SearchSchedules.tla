--------------------------- MODULE SearchSchedules ---------------------------
(***************************************************************************)
(* The durable scheduler of discovery (services/durable-scheduler.ts,      *)
(* services/scheduler.ts) and the owner's search profiles                  *)
(* (routes/search-profiles.ts): every worker process ticks, walks the      *)
(* tenants in batches and, in one transaction per tenant, claims the due   *)
(* slots of its profiles, each turned into discovery runs.                 *)
(*                                                                         *)
(* Time is counted in instants a schedule may fall on.  The writes of a    *)
(* claim become visible with its commit; the owner may write in between.   *)
(***************************************************************************)
EXTENDS Naturals, Sequences, SequencesExt, FiniteSets, FiniteSetsExt

CONSTANTS Profiles,
          ProfileId,   \* [Profiles -> Nat], the order of their ids
          TenantOf,    \* [Profiles -> tenant]
          Batches,     \* sequence of sets of tenants, MAX_SCHEDULER_TENANT_CONCURRENCY each
          Schedulers,  \* worker processes
          Falls,       \* [schedule -> instants it falls on]; ONCE is not among them
          Horizon,     \* the year that nextScheduledRun looks ahead
          WindowSize,  \* perUserLimit
          LastInstant, MaxEdits, MaxTickFaults  \* bounds

Unset     == 0   \* nextRunAt IS NULL
Schedules == DOMAIN Falls \cup {"ONCE"}
Tenants   == UNION ToSet(Batches)

ASSUME ScheduleAssumption ==
  /\ IsFiniteSet(Profiles) /\ Len(Batches) \in Nat \ {0}
  /\ ProfileId \in [Profiles -> Nat] /\ TenantOf \in [Profiles -> Tenants]
  /\ \A p, q \in Profiles : ProfileId[p] = ProfileId[q] => p = q
  /\ \A s \in DOMAIN Falls : Falls[s] \subseteq Nat \ {0}
  /\ {Horizon, WindowSize, LastInstant} \subseteq Nat \ {0} /\ {MaxEdits, MaxTickFaults} \subseteq Nat

VARIABLES
  profile,  \* [Profiles -> state, schedule, nextRunAt, whether it names discovery accounts]
  ran,      \* [Profiles -> the slots discovery runs were created for, in order]
  tick,     \* [Schedulers -> the tick under way]
  claim,    \* [Schedulers -> [Tenants -> its claiming transaction]]
  instant, edits, tickFaults

scheduleVars == <<profile, ran, tick, claim, instant, edits, tickFaults>>

NoTick   == [running |-> FALSE, at |-> 0, batch |-> 0, failed |-> FALSE]
NoClaim  == [phase |-> "none", todo |-> <<>>, held |-> {}, plan |-> {}]
Settled  == [NoClaim EXCEPT !.phase = "settled"]
NoClaims == [u \in Tenants |-> NoClaim]

ScheduleTypeOK ==
  /\ profile \in [Profiles -> [state : {"active", "paused", "deleted"}, schedule : Schedules,
                               next : Nat, accounts : BOOLEAN]]
  /\ ran \in [Profiles -> Seq(1 .. LastInstant)]
  /\ tick \in [Schedulers -> [running : BOOLEAN, at : 0 .. LastInstant,
                              batch : 0 .. Len(Batches), failed : BOOLEAN]]
  /\ \A s \in Schedulers, u \in Tenants : claim[s][u].phase \in {"none", "claiming", "settled"}
  /\ instant \in 1 .. LastInstant /\ edits \in 0 .. MaxEdits /\ tickFaults \in 0 .. MaxTickFaults

\* Profiles as POST /api/search-profiles leaves them: active, due at once.
ScheduleInit ==
  /\ profile \in [Profiles -> [state : {"active"}, schedule : Schedules, next : {Unset}, accounts : BOOLEAN]]
  /\ ran = [p \in Profiles |-> <<>>]
  /\ tick = [s \in Schedulers |-> NoTick]
  /\ claim = [s \in Schedulers |-> NoClaims]
  /\ instant = 1 /\ edits = 0 /\ tickFaults = 0

-----------------------------------------------------------------------------
\* nextScheduledRun: the first instant after from, within the horizon, that the schedule
\* falls on; it throws when there is none.
Ahead(schedule, from) == {t \in Falls[schedule] : t > from /\ t <= from + Horizon}
Plannable(schedule, from) == schedule # "ONCE" => Ahead(schedule, from) # {}
NextSlot(schedule, from) == IF schedule = "ONCE" THEN Unset ELSE Min(Ahead(schedule, from))

IsDue(p, at) == profile[p].state = "active" /\ profile[p].next <= at

\* current.nextRunAt ?? now
Slot(p, at) == IF profile[p].next = Unset THEN at ELSE profile[p].next

\* orderBy nextRunAt, id; NULL comes last.
Sooner(p, q) ==
  LET Key(r) == IF profile[r].next = Unset THEN LastInstant + 1 ELSE profile[r].next
  IN  Key(p) < Key(q) \/ (Key(p) = Key(q) /\ ProfileId[p] < ProfileId[q])

\* take: the first WindowSize due profiles of a tenant, the soonest first.
Windows(u, at) ==
  LET due == {p \in Profiles : TenantOf[p] = u /\ IsDue(p, at)}
      n == Min({Cardinality(due), WindowSize})
  IN  {w \in [1 .. n -> due] : /\ \A i, j \in 1 .. n : i < j => Sooner(w[i], w[j])
                               /\ \A p \in due \ ToSet(w), i \in 1 .. n : Sooner(w[i], p)}

\* Variant: profiles are not locked.
ReachableUnlocked(s, p) == TRUE

\* pg_advisory_xact_lock: a profile a transaction has got to stays locked until it ends.
Reachable(s, p) == \A r \in Schedulers \ {s}, u \in Tenants : p \notin claim[r][u].held

SetClaim(s, u, c) == claim' = [claim EXCEPT ![s][u] = c]

-----------------------------------------------------------------------------
\* startDurableScheduler: an interval fires; a tick still running makes it do nothing.
TickStarts(s) ==
  /\ ~tick[s].running
  /\ tick' = [tick EXCEPT ![s] = [running |-> TRUE, at |-> instant, batch |-> 1, failed |-> FALSE]]
  /\ UNCHANGED <<profile, ran, claim, instant, edits, tickFaults>>

\* claimDueSearchSchedules: the transaction of a tenant of the batch reads its due profiles.
ReadDue(s, u) ==
  /\ tick[s].running /\ u \in Batches[tick[s].batch] /\ claim[s][u] = NoClaim
  /\ \E window \in Windows(u, tick[s].at) :
       SetClaim(s, u, [NoClaim EXCEPT !.phase = "claiming", !.todo = window])
  /\ UNCHANGED <<profile, ran, tick, instant, edits, tickFaults>>

\* A claim ends in an error: all of its writes are rolled back.
Fails(s, u) ==
  /\ SetClaim(s, u, Settled)
  /\ tick' = [tick EXCEPT ![s].failed = TRUE]

\* The next profile of the list: lock it, read it again, and plan its slot, pass it over
\* (no longer due, no accounts) or fail.
ClaimNext(s, u) ==
  LET c == claim[s][u]
      p == Head(c.todo)
      slot == Slot(p, tick[s].at)
      got == [c EXCEPT !.todo = Tail(c.todo), !.held = @ \cup {p}]
  IN  /\ c.phase = "claiming" /\ c.todo # <<>>
      /\ Reachable(s, p)
      /\ \/ /\ ~IsDue(p, tick[s].at) \/ ~profile[p].accounts
            /\ SetClaim(s, u, got) /\ UNCHANGED tick
         \/ /\ IsDue(p, tick[s].at) /\ profile[p].accounts
            /\ Plannable(profile[p].schedule, slot)
            /\ SetClaim(s, u, [got EXCEPT !.plan =
                 @ \cup {[profile |-> p, slot |-> slot, next |-> NextSlot(profile[p].schedule, slot)]}])
            /\ UNCHANGED tick
         \/ /\ IsDue(p, tick[s].at) /\ profile[p].accounts
            /\ ~Plannable(profile[p].schedule, slot)
            /\ Fails(s, u)
      /\ UNCHANGED <<profile, ran, instant, edits, tickFaults>>

\* The commit: each planned profile moves on, or is done, and its discovery runs exist.  A
\* profile deleted meanwhile makes the update of its row fail.
Commit(s, u) ==
  LET plan == claim[s][u].plan
      Of(p) == {r \in plan : r.profile = p}
  IN  /\ claim[s][u].phase = "claiming" /\ claim[s][u].todo = <<>>
      /\ IF \E r \in plan : profile[r.profile].state = "deleted"
         THEN Fails(s, u) /\ UNCHANGED <<profile, ran>>
         ELSE /\ profile' = [p \in Profiles |-> IF Of(p) = {} THEN profile[p] ELSE
                   LET r == CHOOSE r \in Of(p) : TRUE
                   IN  [profile[p] EXCEPT !.next = r.next,
                          !.state = IF r.next = Unset THEN "paused" ELSE "active"]]
              /\ ran' = [p \in Profiles |-> ran[p] \o SetToSeq({r.slot : r \in Of(p)})]
              /\ SetClaim(s, u, Settled) /\ UNCHANGED tick
      /\ UNCHANGED <<instant, edits, tickFaults>>

\* PostgreSQL ends one of two claims that wait for each other's profiles.
LosesDeadlock(s, u) ==
  /\ claim[s][u].todo # <<>>
  /\ \E r \in Schedulers \ {s} :
       /\ claim[r][u].todo # <<>>
       /\ Head(claim[s][u].todo) \in claim[r][u].held
       /\ Head(claim[r][u].todo) \in claim[s][u].held
  /\ Fails(s, u)
  /\ UNCHANGED <<profile, ran, instant, edits, tickFaults>>

\* A claim loses its connection.
ClaimBreaks(s, u) ==
  /\ claim[s][u].phase = "claiming" /\ tickFaults < MaxTickFaults
  /\ Fails(s, u)
  /\ tickFaults' = tickFaults + 1
  /\ UNCHANGED <<profile, ran, instant, edits>>

BatchSettled(s) == \A u \in Batches[tick[s].batch] : claim[s][u].phase = "settled"

\* Variant: a tick that failed leaves the flag up.
BatchEndsStuck(s) ==
  /\ tick[s].running /\ BatchSettled(s)
  /\ claim' = [claim EXCEPT ![s] = NoClaims]
  /\ IF tick[s].failed THEN UNCHANGED tick
     ELSE tick' = [tick EXCEPT ![s] = IF tick[s].batch = Len(Batches) THEN NoTick
                                      ELSE [@ EXCEPT !.batch = @ + 1]]
  /\ UNCHANGED <<profile, ran, instant, edits, tickFaults>>

\* runTenantClaims: when all of a batch are settled, a failure is thrown and ends the tick;
\* otherwise the next batch begins, and after the last one the tick is over.
BatchEnds(s) ==
  /\ tick[s].running /\ BatchSettled(s)
  /\ claim' = [claim EXCEPT ![s] = NoClaims]
  /\ tick' = [tick EXCEPT ![s] = IF tick[s].failed \/ tick[s].batch = Len(Batches) THEN NoTick
                                 ELSE [tick[s] EXCEPT !.batch = @ + 1]]
  /\ UNCHANGED <<profile, ran, instant, edits, tickFaults>>

\* The process dies; another takes its place.
SchedulerCrashes(s) ==
  /\ tick[s].running /\ tickFaults < MaxTickFaults
  /\ tick' = [tick EXCEPT ![s] = NoTick]
  /\ claim' = [claim EXCEPT ![s] = NoClaims]
  /\ tickFaults' = tickFaults + 1
  /\ UNCHANGED <<profile, ran, instant, edits>>

-----------------------------------------------------------------------------
\* validateProfile checks a cron expression only when the body names the schedule as well:
\* any schedule may be stored, also one that does not fall within the horizon.
StorableSchedules == Schedules

\* PUT /api/search-profiles/:id writes the fields it is given; nextRunAt is not one of them.
\* With none, the profile is due at once and begins a new series of slots.
PutProfile(p) ==
  /\ edits < MaxEdits /\ profile[p].state # "deleted"
  /\ \E state \in {"active", "paused"}, schedule \in StorableSchedules, accounts \in BOOLEAN :
       profile' = [profile EXCEPT ![p] =
                     [@ EXCEPT !.state = state, !.schedule = schedule, !.accounts = accounts]]
  /\ ran' = [ran EXCEPT ![p] = IF profile[p].next = Unset THEN <<>> ELSE @]
  /\ edits' = edits + 1
  /\ UNCHANGED <<tick, claim, instant, tickFaults>>

DeleteProfile(p) ==
  /\ edits < MaxEdits /\ profile[p].state # "deleted"
  /\ profile' = [profile EXCEPT ![p].state = "deleted"]
  /\ edits' = edits + 1
  /\ UNCHANGED <<ran, tick, claim, instant, tickFaults>>

TimePasses ==
  /\ instant < LastInstant
  /\ instant' = instant + 1
  /\ UNCHANGED <<profile, ran, tick, claim, edits, tickFaults>>

-----------------------------------------------------------------------------
ClaimStep(s, u)  == ReadDue(s, u) \/ ClaimNext(s, u) \/ Commit(s, u) \/ LosesDeadlock(s, u)
SchedulerStep(s) == TickStarts(s) \/ BatchEnds(s)

ScheduleNext ==
  \/ \E s \in Schedulers :
       \/ SchedulerStep(s) \/ SchedulerCrashes(s)
       \/ \E u \in Tenants : ClaimStep(s, u) \/ ClaimBreaks(s, u)
  \/ \E p \in Profiles : PutProfile(p) \/ DeleteProfile(p)
  \/ TimePasses

ScheduleFairness ==
  \A s \in Schedulers : /\ WF_scheduleVars(SchedulerStep(s))
                        /\ \A u \in Tenants : WF_scheduleVars(ClaimStep(s, u))

ScheduleSpec == ScheduleInit /\ [][ScheduleNext]_scheduleVars /\ ScheduleFairness

-----------------------------------------------------------------------------
\* Discovery is run for the slots of a profile one after the other: none twice, none out of
\* order, and the next one lies ahead, although every worker process claims, claims are
\* rolled back, and the owner changes the profile meanwhile.  The keys of discovery runs are
\* random (createDiscoveryRunsInTransaction), so only the claim keeps a slot from running
\* twice.
SlotsRunInOrder ==
  \A p \in Profiles :
    /\ \A i \in 1 .. Len(ran[p]) - 1 : ran[p][i] < ran[p][i + 1]
    /\ ran[p] # <<>> /\ profile[p].next # Unset => Last(ran[p]) < profile[p].next

Awaits(p) == IsDue(p, instant) /\ profile[p].accounts

\* A profile with no slot ahead makes its tenant's transaction fail, and the batches behind
\* it wait; and profiles without accounts stay at the head of their tenant's window.
BatchOf(u)    == CHOOSE i \in DOMAIN Batches : u \in Batches[i]
Throwing(p)   == Awaits(p) /\ ~Plannable(profile[p].schedule, Slot(p, instant))
Obstructed(p) ==
  \/ \E q \in Profiles : /\ Throwing(q)
                         /\ \/ TenantOf[q] = TenantOf[p]
                            \/ BatchOf(TenantOf[q]) < BatchOf(TenantOf[p])
  \/ Cardinality({q \in Profiles \ {p} : /\ TenantOf[q] = TenantOf[p] /\ IsDue(q, instant)
                                         /\ ~profile[q].accounts}) >= WindowSize

\* A due slot is run in the end, after claims that failed, deadlocks and crashed schedulers,
\* unless another profile obstructs it (runTenantClaims, startDurableScheduler).
EverySlotRuns == \A p \in Profiles : Awaits(p) ~> ~Awaits(p) \/ Obstructed(p)

=============================================================================
