SPECIFICATION MCSpec
CONSTANTS
    Parts = {"locks", "batches", "ends"}
    N = 2
    Workers = {w1}
    x1 = x1
    x2 = x2
    Tx = {x1, x2}
    ClaimOrder <- LastFirst
    Lease = 1
    Timeout = 2
    Deadlines <- LastDeadline
    MaxAttempts = 2
    MaxClaims = 2
    MaxTime = 3
    Never = 9
    n1 = n1
    p1 = p1
    NoWorker = NoWorker
    NoName = NoName
SYMMETRY Symmetry
INVARIANT
    OnlyClaimsDeadlock
PROPERTY
    FastTierDecides
CHECK_DEADLOCK FALSE
