-------------------------- MODULE MCAutomationJobs --------------------------
(* Small instances of AutomationJobs for TLC. *)
EXTENDS AutomationJobs, TLC

CONSTANTS j1, j2, r1, w1, w2, s1, s2

\* Rows: j1 is created by a producer, j2 can only be the replay of a dead letter.
OneJob    == {j1}
TwoJobs   == {j1, j2}
MaxTwo    == [j \in Jobs |-> 2]
MaxTwoOne == [j \in Jobs |-> IF j = j1 THEN 2 ELSE 1]
NoRuns    == [j \in Jobs |-> None]
InRun     == [j \in Jobs |-> r1]

\* Two slots of one process, and two processes with one slot each.
SharedWorker  == [s \in Slots |-> w1]
OneSlotEach   == [s \in Slots |-> IF s = s1 THEN w1 ELSE w2]

Symmetric == Permutations({s1, s2})
=============================================================================
