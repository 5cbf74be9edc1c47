SPECIFICATION Spec
CONSTANTS
    c1 = c1
    c2 = c2
    q1 = q1
    q2 = q2
    CheckTasks = {c1, c2}
    CheckProcs = {api, wk}
    Api = api
    NoCheck = NoCheck
    MaxCheckAsks = 3
    MaxMessage = 3
    MaxLinks = 2
    BatchTarget = 2
    LinkLimit = 2
    WindowOverlap = 1
    MaxBatches = 2
    MaxPlanEdits = 1
    MaxPlanFaults = 1
    PublishTargets = {x}
    PublishItems = {i}
    Waiters = {q1, q2}
    HistoryLimit = 2
    MaxRecords = 2
    MaxMessages = 3
    MaxSlots = 1
    MaxPublishOps = 3
    Messages = {m1, m2}
    MaxClicks = 2
    MaxCatalogOps = 2
    ChannelKeys = {n1, n2}
    Posts = {p1, p2}
    MaxRows = 2
    MaxWrites = 2
    MaxChannelEdits = 2
    MaxIngestFaults = 1
SYMMETRY Symmetric
INVARIANTS
    ServicesTypeOK
    MarkerGuards
    StopIsObeyed
    
    ReclaimedIsGone
    CatalogAgrees
    PostsAreAccounted
PROPERTY
    RetiredStays
CHECK_DEADLOCK FALSE
