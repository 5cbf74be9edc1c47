SPECIFICATION Spec
CONSTANTS
    b1 = b1
    i1 = i1
    i2 = i2
    Batches = {b1}
    Items = {i1, i2}
    BatchOf <- OneBatch
    ReuseItems = {i2}
    Workers = {w1}
    NoItem = NoItem
    MaxAttempts = 2
    MaxCrashes = 1
    MaxRetries = 1
    MaxRuns = 9
    Overlap = "prompt"
INVARIANT
    CancelledItemsLeave
CHECK_DEADLOCK FALSE
