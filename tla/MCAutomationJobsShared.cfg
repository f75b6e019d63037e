SPECIFICATION Spec
CONSTANTS
    j1 = j1
    j2 = j2
    r1 = r1
    w1 = w1
    w2 = w2
    s1 = s1
    s2 = s2
    None = None
    Jobs <- TwoJobs
    Originals <- OneJob
    MaxAttempts <- MaxTwoOne
    AttemptLimit = 2
    Workers = {w1}
    Slots = {s1, s2}
    WorkerOf <- SharedWorker
    Runs = {}
    RunOf <- NoRuns
    LeaseTicks = 1
    MaxStalls = 1
    MaxCrashes = 1
    MaxLockLosses = 1
    MaxOutages = 0
    StableWorkerId = TRUE
SYMMETRY Symmetric
INVARIANTS
    TypeOK
    OneExecutionPerAttempt
    AttemptFixesGeneration
    DeadLetterExhausted
PROPERTIES
    TerminalIsFinal
CHECK_DEADLOCK FALSE
