---------------------------- MODULE WorkerProcess ----------------------------
(***************************************************************************)
(* One worker process, from main() to process.exit: the loops and the      *)
(* queue workers it starts, what they have under way, and a shutdown that  *)
(* a signal or a failed start begins while they run.  Everything up to the *)
(* first await of dispatcher.start() is one turn of the event loop, and so *)
(* are the end of a first run and what main() does with it.  The close of  *)
(* a part may time out or fail at any moment of it.                        *)
(***************************************************************************)
EXTENDS FiniteSets

CONSTANT Queues     \* QUEUE_NAMES

Loops == {"scheduler", "outbox", "retention", "dispatcher"}
Parts == Loops \cup Queues \cup {"connections"}

ShutdownSignals == {"SIGINT", "SIGTERM"}

ASSUME WorkerAssumption == Queues \cap (Loops \cup {"connections"}) = {}

VARIABLES
    startup,    \* how far main() is
    workers,    \* the queue workers it has started
    underWay,   \* the loops in a tick and the queues with a job
    ticking,    \* AutomationDispatcherRuntime.timer
    closes,     \* the close of each part
    closer,     \* what made close() run: closing, unless "none"
    armed,      \* the signals whose once-handler is registered
    exit        \* process.exit

workerVars == <<startup, workers, underWay, ticking, closes, closer, armed, exit>>

\* What close() has to close.
Begun == Loops \cup workers \cup {"connections"}

WorkerTypeOK ==
    /\ startup \in {"none", "dispatching", "retaining", "started", "failing", "exiting"}
    /\ workers \subseteq Queues
    /\ underWay \subseteq Loops \cup workers
    /\ ticking \in BOOLEAN
    /\ closes \in [Parts -> {"open", "waits", "ends", "closed", "failed"}]
    /\ closer \in {"none", "signal", "main"}
    /\ armed \subseteq ShutdownSignals
    /\ exit \in {"none", "clean", "failure"}

WorkerInit ==
    /\ startup = "none" /\ workers = {} /\ underWay = {} /\ ticking = FALSE
    /\ closes = [p \in Parts |-> "open"]
    /\ closer = "none" /\ armed = {} /\ exit = "none"

-----------------------------------------------------------------------------
(* close() *)

\* Variant: no close waits for what is under way.
CloseAtOnce(who, started, busy) ==
    /\ closer' = who
    /\ closes' = [p \in Parts |-> IF p \in started THEN "ends" ELSE "open"]
    /\ ticking' = FALSE

\* All closes begin at once; those of parts with something under way wait for it.
BeginClose(who, started, busy) ==
    /\ closer' = who
    /\ closes' = [p \in Parts |-> IF p \notin started THEN "open"
                                  ELSE IF p \in busy THEN "waits" ELSE "ends"]
    /\ ticking' = FALSE

\* The close that waited for p goes on.
CloseGoesOn(p) == [closes EXCEPT ![p] = IF @ = "waits" THEN "ends" ELSE @]

PartCloses(p) ==
    /\ closes[p] = "ends"
    /\ closes' = [closes EXCEPT ![p] = "closed"]
    /\ UNCHANGED <<startup, workers, underWay, ticking, closer, armed, exit>>

\* It throws, or its time is over.
CloseFails(p) ==
    /\ closes[p] \in {"waits", "ends"}
    /\ closes' = [closes EXCEPT ![p] = "failed"]
    /\ UNCHANGED <<startup, workers, underWay, ticking, closer, armed, exit>>

\* closeWorkerResources settles: the handler exits, main() throws what failed it.
CloseSettles ==
    /\ closer # "none" /\ \A p \in Begun : closes[p] \in {"closed", "failed"}
    /\ \/ /\ closer = "signal"
          /\ exit' = IF \E p \in Begun : closes[p] = "failed" THEN "failure" ELSE "clean"
          /\ UNCHANGED startup
       \/ /\ closer = "main" /\ startup = "failing"
          /\ startup' = "exiting"
          /\ UNCHANGED exit
    /\ UNCHANGED <<workers, underWay, ticking, closes, closer, armed>>

\* handleShutdown: a close() that finds another under way returns at once.
ShutdownSignal(s) ==
    /\ s \in armed
    /\ armed' = armed \ {s}
    /\ IF closer = "none"
       THEN BeginClose("signal", Begun, underWay) /\ UNCHANGED exit
       ELSE exit' = "clean" /\ UNCHANGED <<ticking, closes, closer>>
    /\ UNCHANGED <<startup, workers, underWay>>

-----------------------------------------------------------------------------
(* main() *)

\* The configuration is refused or the recovery of browser sessions fails.
NotBooted ==
    /\ startup = "none"
    /\ exit' = "failure"
    /\ UNCHANGED <<startup, workers, underWay, ticking, closes, closer, armed>>

\* The scheduler and the outbox tick at once; starting a queue worker may throw.
Boot(some) ==
    /\ startup = "none"
    /\ workers' = some
    /\ armed' = ShutdownSignals
    /\ \/ /\ some = Queues
          /\ startup' = "dispatching"
          /\ underWay' = {"scheduler", "outbox", "dispatcher"}
          /\ UNCHANGED <<ticking, closes, closer>>
       \/ /\ some # Queues
          /\ startup' = "failing"
          /\ underWay' = {"scheduler", "outbox"}
          /\ BeginClose("main", Loops \cup some \cup {"connections"}, underWay')
    /\ UNCHANGED exit

\* dispatcher.start() sets its timer, whatever happened since; documentRetention.start()
\* refuses if it is closed, and the close() that follows returns at once.
DispatcherStarts ==
    /\ startup = "dispatching"
    /\ ticking' = TRUE
    /\ closes' = CloseGoesOn("dispatcher")
    /\ \/ /\ closes["retention"] = "open"
          /\ startup' = "retaining"
          /\ underWay' = (underWay \ {"dispatcher"}) \cup {"retention"}
       \/ /\ closes["retention"] # "open"
          /\ startup' = "exiting"
          /\ underWay' = underWay \ {"dispatcher"}
    /\ UNCHANGED <<workers, closer, armed, exit>>

RetentionStarts ==
    /\ startup = "retaining"
    /\ startup' = "started"
    /\ underWay' = underWay \ {"retention"}
    /\ closes' = CloseGoesOn("retention")
    /\ UNCHANGED <<workers, ticking, closer, armed, exit>>

\* The first run of p, which main() awaits.
FirstTick(p) == \/ p = "dispatcher" /\ startup = "dispatching"
                \/ p = "retention" /\ startup = "retaining"

FirstRunFails(p) ==
    /\ FirstTick(p)
    /\ underWay' = underWay \ {p}
    /\ \/ /\ closer = "none"
          /\ startup' = "failing"
          /\ BeginClose("main", Begun, underWay')
       \/ /\ closer # "none"
          /\ startup' = "exiting"
          /\ closes' = [closes EXCEPT ![p] = IF @ = "waits" THEN "failed" ELSE @]
          /\ UNCHANGED <<ticking, closer>>
    /\ UNCHANGED <<workers, armed, exit>>

\* main().catch has disconnected.
StartFailureExits ==
    /\ startup = "exiting"
    /\ exit' = "failure"
    /\ UNCHANGED <<startup, workers, underWay, ticking, closes, closer, armed>>

-----------------------------------------------------------------------------
(* Ticks and jobs *)

\* Who would begin: a closed scheduler, outbox, retention or queue worker does not, the
\* dispatcher does while it has a timer.
MayBegin(p) == CASE p \in {"scheduler", "outbox"} \cup workers -> startup # "none" /\ closes[p] = "open"
                 [] p = "retention"  -> startup = "started" /\ closes[p] = "open"
                 [] p = "dispatcher" -> ticking
                 [] OTHER            -> FALSE

WorkBegins(p) ==
    /\ MayBegin(p) /\ p \notin underWay
    /\ underWay' = underWay \cup {p}
    /\ UNCHANGED <<startup, workers, ticking, closes, closer, armed, exit>>

WorkEnds(p) ==
    /\ p \in underWay /\ ~FirstTick(p)
    /\ underWay' = underWay \ {p}
    /\ closes' = CloseGoesOn(p)
    /\ UNCHANGED <<startup, workers, ticking, closer, armed, exit>>

-----------------------------------------------------------------------------
(* Specification *)

WorkerNext ==
    /\ exit = "none"
    /\ \/ NotBooted \/ DispatcherStarts \/ RetentionStarts \/ CloseSettles \/ StartFailureExits
       \/ \E some \in SUBSET Queues : Boot(some)
       \/ \E s \in ShutdownSignals : ShutdownSignal(s)
       \/ \E p \in Parts : \/ FirstRunFails(p) \/ WorkBegins(p) \/ WorkEnds(p)
                           \/ PartCloses(p) \/ CloseFails(p)

WorkerSpec == WorkerInit /\ [][WorkerNext]_workerVars

-----------------------------------------------------------------------------
(* Properties *)

\* The shutdown that a signal began exits 0 only when it has drained the process: every part
\* is closed and nothing is under way, except that a dispatcher whose start was overtaken by
\* the signal may dispatch again.  (A second signal does exit 0 at once.)
CleanExitDrained ==
    exit = "clean" /\ closer = "signal" /\ armed # {} =>
        /\ \A p \in Begun : closes[p] = "closed"
        /\ underWay \subseteq (IF startup = "exiting" THEN {"dispatcher"} ELSE {})
=============================================================================
