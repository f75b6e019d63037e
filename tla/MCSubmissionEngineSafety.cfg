SPECIFICATION Spec
CONSTANTS
    a1 = a1
    a2 = a2
    x1 = x1
    x2 = x2
    None = None
    Auths = {a1, a2}
    Calls = {x1, x2}
    OwnerStatuses <- RetryStatuses
    MaxReplays = 1
    ReplayAttempts = 1
    CloseMayFail = FALSE
    RecordMayFail = FALSE
SYMMETRY Symmetric
INVARIANTS
    TypeOK
    OneCallAtProvider
    ClicksAreRemembered
    ExecutionHasAttempt
PROPERTIES
    ImplementsGate
CHECK_DEADLOCK FALSE
