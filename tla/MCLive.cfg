SPECIFICATION LiveSpec
CONSTANTS
    BackupTargets = {t1}
    RemoteTargets = {}
    BackupWorkers = {w1, w2}
    NoThread = NoThread
    Retention = 1
    MaxBackups = 2
    MaxSeconds = 0
    MaxDisturbances = 1
    Links = {l1, l2}
    Resolvers = {r1}
    Askers = {a1}
    NoLink = NoLink
    MaxTries = 2
    MaxAsks = 2
    MaxRecFaults = 1
    MaxMessage = 3
    MaxLinks = 1
    BatchTarget = 1
    LinkLimit = 2
    WindowOverlap = 1
    MaxBatches = 2
    MaxPlanEdits = 0
    MaxPlanFaults = 1
    ChannelKeys = {n1, n2}
    Posts = {q1}
    MaxRows = 2
    MaxWrites = 1
    MaxChannelEdits = 2
    MaxIngestFaults = 1
    b1 = b1
    i1 = i1
    i2 = i2
    Batches = {b1}
    Items = {i1, i2}
    BatchOf <- OneBatch
    ReuseItems = {}
    Workers = {w1}
    NoItem = NoItem
    MaxAttempts = 2
    MaxCrashes = 1
    MaxRetries = 0
    MaxRuns = 9
    Overlap = "slow"
PROPERTIES
    WorkEnds
    PendingEnds
    AskedIsServed
    WindowCompletes
    AddedIsMonitored
CHECK_DEADLOCK FALSE
