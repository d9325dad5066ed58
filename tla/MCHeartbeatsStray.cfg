SPECIFICATION MCSpec
CONSTANTS
    Parts = {"sessions"}
    w1 = w1
    w2 = w2
    w3 = w3
    t1 = t1
    t2 = t2
    Workers = {w1, w2}
    RoundTimes = {1, 2}
    BatchCounts = {1}
    Lasting = {}
    Attempts = 2
    Tasks = {t1, t2}
    Objects = {1, 2, 3, 4, 5}
    Interval = 3
    RoundMs = 2
    LeaseMs = 10
    RetryDelays = {1}
    ClaimAges = {0, 1}
SYMMETRY Symmetry
INVARIANTS
    NoStrayTransaction
