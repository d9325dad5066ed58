SPECIFICATION FairSpec
CONSTANTS
    Parts = {"locks", "leases", "crowd", "waiting"}
    N = 2
    Workers = {w1}
    x1 = x1
    x2 = x2
    Tx = {x1, x2}
    ClaimOrder <- LastFirst
    Lease = 1
    Timeout = 2
    Deadlines <- LastDeadline
    MaxAttempts = 2
    MaxClaims = 1
    MaxTime = 0
    Never = 9
    n1 = n1
    p1 = p1
    NoWorker = NoWorker
    NoName = NoName
PROPERTIES
    BatchesEnd
    MaintenanceSettles
CHECK_DEADLOCK FALSE
