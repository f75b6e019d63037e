SPECIFICATION Spec
CONSTANTS
    Events = {e1, e2}
    Notifying = {e1}
    Publishers = {u1, u2}
    None = None
    MaxAttempts = 2
    BatchSize = 2
    MaxFaults = 1
    LastMessage = 3
    MaxCalls = 1
    PageLimit = 1
    JobAttempts = 2
    Elsewhere = {}
    Unreadable = {1}
    Unstorable = {}
    LongTokens = {}
    ForeignTokens = {}
    MaxSyncFaults = 1
    Docs = {d1, d2}
    Infected = {}
    Held = {}
    Uploads = {l1}
    Deletes = {}
    Purges = {g1, g2}
    Readers = {}
    NoDoc = NoDoc
    MaxDocFaults = 1
    x1 = x1
    x2 = x2
    x3 = x3
    Tasks = {x1, x2, x3}
    TaskOrder <- InOrder
    Source <- SourceOf
    Concurrency = 2
    PerSource = 1
    Interval = 1
    Tries = 2
    Delays = {2}
    Never = Never
    h1 = h1
    h2 = h2
    h3 = h3
    y1 = y1
    y2 = y2
    Profiles = {h1, h2, h3}
    ProfileId <- ThreeProfiles
    TenantOf <- TwoOwners
    Batches <- TwoBatches
    Schedulers = {z1}
    Falls <- FallsOn
    Horizon = 2
    WindowSize = 1
    LastInstant = 2
    MaxEdits = 0
    MaxTickFaults = 1
INVARIANTS
    RetriesAccounted
    StartsAreAwaited
PROPERTIES
    ClaimEndedByHolder
    EventuallySettled
    ImplementsDelivery
    EveryMessageStored
    RetentionCompletes
    PoolSettles
    EveryDueSlotRuns
CHECK_DEADLOCK FALSE
