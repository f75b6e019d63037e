----------------------------- MODULE JobLedger -----------------------------
(***************************************************************************)
(* What the table of automation jobs promises whoever looks at it, with    *)
(* dispatchers, queues, owners, clocks and processor calls out of sight:   *)
(* which moves a row may make, and when its attempt count and its delivery *)
(* generation change.  Any number of rows may move in one step.            *)
(***************************************************************************)
EXTENDS Naturals

CONSTANTS Jobs, MaxAttempts, Runs, RunOf, None

VARIABLES
    ledger,   \* for each job: status, attempts, gen
    run       \* for each run: its status

Unborn == [status |-> "ABSENT", attempts |-> 0, gen |-> 0]

Init ==
    /\ ledger = [j \in Jobs |-> Unborn]
    /\ run = [r \in Runs |-> "ABSENT"]

RunAllows(j) == RunOf[j] # None => run[RunOf[j]] = "RUNNING"

Becomes(j, status, attempts, gen) ==
    ledger'[j] = [status |-> status, attempts |-> attempts, gen |-> gen]

Accept(j) ==
    /\ ledger[j].status = "ABSENT"
    /\ Becomes(j, "AVAILABLE", 0, 1)

\* The only move that counts an attempt, and the only one a run can forbid.
Grant(j) ==
    /\ ledger[j].status = "AVAILABLE"
    /\ ledger[j].attempts < MaxAttempts[j]
    /\ RunAllows(j)
    /\ Becomes(j, "LEASED", ledger[j].attempts + 1, ledger[j].gen)

Keeps(j, status) == Becomes(j, status, ledger[j].attempts, ledger[j].gen)

\* The holder records success, gives the job back, or buries it.
Succeed(j) == ledger[j].status = "LEASED" /\ Keeps(j, "SUCCEEDED")
GiveBack(j) == ledger[j].status = "LEASED" /\ Keeps(j, "AVAILABLE")
Bury(j) ==
    /\ ledger[j].status = "LEASED"
    /\ ledger[j].attempts = MaxAttempts[j]
    /\ Keeps(j, "DEAD_LETTER")

Cancel(j) == ledger[j].status \in {"AVAILABLE", "LEASED"} /\ Keeps(j, "CANCELLED")

\* A lease that ran out: the only move that opens a new delivery generation.
Expire(j) ==
    /\ ledger[j].status = "LEASED"
    /\ Becomes(j, IF ledger[j].attempts = MaxAttempts[j] THEN "DEAD_LETTER" ELSE "AVAILABLE",
               ledger[j].attempts, ledger[j].gen + 1)

Move(j) ==
    \/ Accept(j) \/ Grant(j) \/ Succeed(j) \/ GiveBack(j) \/ Bury(j) \/ Cancel(j) \/ Expire(j)

MoveRows ==
    /\ ledger' = [j \in Jobs |-> ledger'[j]]
    /\ \A j \in Jobs : ledger'[j] # ledger[j] => Move(j)
    /\ UNCHANGED run

\* Runs that have ended stay ended.
ControlRuns ==
    /\ run' = [r \in Runs |-> run'[r]]
    /\ \A r \in Runs : run'[r] # run[r] => run[r] \in {"ABSENT", "RUNNING", "PAUSED"}
    /\ UNCHANGED ledger

Next == MoveRows \/ ControlRuns

Spec == Init /\ [][Next]_<<ledger, run>>

=============================================================================
