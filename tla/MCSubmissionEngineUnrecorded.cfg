SPECIFICATION Spec
CONSTANTS
    a1 = a1
    a2 = a2
    x1 = x1
    x2 = x2
    None = None
    Auths = {a1}
    Calls = {x1}
    OwnerStatuses <- RetryStatuses
    MaxReplays = 0
    ReplayAttempts = 2
    CloseMayFail = FALSE
    RecordMayFail = FALSE
PROPERTIES
    ReturnedCallsSettle
CHECK_DEADLOCK FALSE
