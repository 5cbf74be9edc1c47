SPECIFICATION FairSpec
CONSTANTS
    Tasks = {t1}
    Batches = {b1}
    Clients = {c1}
    None = None
    MaxAttempts = 2
    MaxRequests = 1
    MaxCrashes = 1
PROPERTY EventuallyChecked
CHECK_DEADLOCK FALSE
