SPECIFICATION Spec
CONSTANTS
    p1 = p1
    p2 = p2
    p3 = p3
    p4 = p4
    None = None
    Nothing = Nothing
    Families = {f1, f2}
    Requests = {r1, r2}
    MaxTokens = 3
    Keys = {k1, k2}
    Workers = {w1, w2}
    MaxStarts = 3
    LastNotice = 3
    Streams = {s1, s2}
    MaxConnections = 1
    PageSize = 2
    MaxPending = 2
    MaxConnects = 2
    email = email
    salary = salary
    cv = cv
    note = note
    code = code
    agree = agree
    widget = widget
    Fields = {email, salary, cv, note, code, agree, widget}
    Kind <- KindOf
    Topic <- TopicOf
    Required = {email, cv, note, widget, agree, salary}
    RevealedBy <- Reveals
    Form <- ThreeSteps
    Values = {"a", "yes", "no", "nothing"}
    Sort <- SortOfValue
    Offered = {"a", "nothing"}
    Profiled = {email}
    Stored = {"resume", "coverText"}
    MaxFormSteps = 3
    MaxPasses = 3
    MaxVersion = 2
    Edited = {salary, agree}
    NoValue = NoValue
    v1 = v1
    Vacancies = {v1, v2}
    Rules <- OwnerRules
    Transactions = {t1, t2}
    RequestKeys = {q1, q2}
    DailyLimit = 1
    LastDay = 2
    MaxOrders = 1
    Postings = {p1, p2, p3, p4}
    LastPage = 1
    Listing <- TwoPages
    Malformed = {p3}
    Fingerprint <- SamePrint
    Known = {}
    Owner = Owner
    MaxAttempts = 2
    MaxDiscoveryFaults = 2
    LastMessage = 3
    MaxCalls = 2
    PageLimit = 1
    JobAttempts = 1
    Elsewhere = {2}
    Unreadable = {}
    Unstorable = {}
    LongTokens = {3}
    ForeignTokens = {}
    MaxSyncFaults = 1
    OAuthStates = {y1, y2}
    Flows = {x1, x2}
    NoState = NoState
    LastVersion = 3
    Docs = {d1, d2}
    Infected = {d2}
    Held = {}
    Uploads = {l1, l2}
    Deletes = {o1, o2}
    Purges = {g1, g2}
    Readers = {b1}
    NoDoc = NoDoc
    MaxDocFaults = 1
    NoSubject = NoSubject
    Confirmed = {a1}
    m1 = m1
    Mails = {m1}
    Signals <- OfferMail
    SourceEvents = {e1, e2}
    OutcomeCalls = {c1, c2}
    MaxMoves = 3
    h1 = h1
    h2 = h2
    Profiles = {h1, h2}
    ProfileId <- TwoProfiles
    TenantOf <- OneOwner
    Batches <- OneBatch
    Schedulers = {z1, z2}
    Falls <- FallsOn
    Horizon = 2
    WindowSize = 2
    LastInstant = 2
    MaxEdits = 1
    MaxTickFaults = 0
    ResumeFacts = {n1}
    MaxClaims = 2
    JobTries = 2
    MaxJobOrders = 1
    MaxMishaps = 1
    Queues = {"applications"}
INVARIANTS
    CleanExitDrained
    OneLiveToken
    EndedFamiliesStayEnded
    EndedOnce
    HandoverExact
    DailyBudgetKept
    FilledLeavesNothingRequired
    NothingPassedOver
    CountersNeverOverstate
    NoMessagePassedOver
    DocumentsAccountedFor
    DecidedOffersAgree
    SlotsRunInOrder
    NoPostingStranded
    TokensDescend
CHECK_DEADLOCK FALSE
