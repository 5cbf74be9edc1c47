SPECIFICATION Spec
CONSTANTS
    a1 = a1
    a2 = a2
    a3 = a3
    p1 = p1
    p2 = p2
    m1 = m1
    m2 = m2
    Accounts = {a1, a2, a3}
    FirstAdmin = a1
    Clients = {c1, c0}
    NoClient = c0
    MaxBatches = 2
    Threads = {h1}
    MaxSessions = 2
    Windows = {0, 1}
    Ttls = {1, 3}
    Endings = {0, 1}
    LimitChoices = {0, 1}
    MaxTicks = 2
    MaxAccountOps = 3
    Providers = {p1, p2}
    Models = {m1, m2}
    AnyModel = AnyModel
    Executors = {w, t}
    Testers = {t}
    Profiles <- SomeProfiles
    Requests <- SomeRequests
    Payloads <- SomePayloads
    MaxSteps = 3
    MaxAttempts = 2
    Cooldown = 1
    MaxAiTicks = 1
    MaxAiOps = 4
SYMMETRY Symmetric
INVARIANTS
    AdminTypeOK
    OpenIsCurrent
    LimitIsKept
    AccountsAreKept
    RoutesAreWhole
CHECK_DEADLOCK FALSE
