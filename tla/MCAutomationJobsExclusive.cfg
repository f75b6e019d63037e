SPECIFICATION Spec
CONSTANTS
    j1 = j1
    j2 = j2
    r1 = r1
    w1 = w1
    w2 = w2
    s1 = s1
    s2 = s2
    None = None
    Jobs <- OneJob
    Originals <- OneJob
    MaxAttempts <- MaxTwo
    AttemptLimit = 2
    Workers = {w1, w2}
    Slots = {s1, s2}
    WorkerOf <- OneSlotEach
    Runs = {r1}
    RunOf <- InRun
    LeaseTicks = 2
    MaxStalls = 1
    MaxCrashes = 1
    MaxLockLosses = 0
    MaxOutages = 1
    StableWorkerId = FALSE
INVARIANTS
    SucceededByLatestAttempt
PROPERTIES
    RenewalExtendsOwnAttempt
    StoppedRunStartsNothing
    ImplementsLedger
CHECK_DEADLOCK FALSE
