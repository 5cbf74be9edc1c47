SPECIFICATION Spec
CONSTANTS
    Tasks = {t1}
    Batches = {b1, b2}
    Clients = {c1}
    None = None
    MaxAttempts = 1
    MaxRequests = 2
    MaxCrashes = 1
SYMMETRY BatchSymmetry
INVARIANT NotForgotten
CHECK_DEADLOCK FALSE
