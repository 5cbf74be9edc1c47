SPECIFICATION Spec
CONSTANTS
    w1 = w1
    w2 = w2
    l1 = l1
    l2 = l2
    r1 = r1
    r2 = r2
    BackupTargets = {t1, t2}
    RemoteTargets = {t2}
    BackupWorkers = {w1, w2}
    NoThread = NoThread
    Retention = 1
    MaxBackups = 2
    MaxSeconds = 1
    MaxDisturbances = 2
    Links = {l1, l2}
    Resolvers = {r1, r2}
    Askers = {a1}
    NoLink = NoLink
    MaxTries = 2
    MaxAsks = 2
    MaxRecFaults = 1
    Ids = {1, 2, 3}
    Urls = {u, v}
    Times <- MCTimes
    CloseWindow = 2
    MaxPasses = 1
    MaxRewrites = 1
    MaxClock = 3
    MaxSaves = 3
    MaxRunFaults = 1
    ShareDirs = {"d"}
    ShareFiles = {"a", "b"}
    DriveRoot = "root"
    Inside <- MCInside
    MaxRequests = 2
    MaxEvents = 3
SYMMETRY Symmetric
INVARIANTS
    JobsTypeOK
    RunningIsExecuted
    PendingIsServed
    RequestsAreKept
    OneDedupExecutes
    DriveIsWhole
PROPERTIES
    DedupIsSafe
    BackupsAreKept
    MatchStays
    SettingStays
CHECK_DEADLOCK FALSE
