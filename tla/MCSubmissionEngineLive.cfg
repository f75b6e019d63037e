SPECIFICATION FairSpec
CONSTANTS
    a1 = a1
    a2 = a2
    x1 = x1
    x2 = x2
    None = None
    Auths = {a1}
    Calls = {x1, x2}
    OwnerStatuses <- RetryStatuses
    MaxReplays = 1
    ReplayAttempts = 2
    CloseMayFail = TRUE
    RecordMayFail = TRUE
PROPERTIES
    ExecutionsSettle
CHECK_DEADLOCK FALSE
