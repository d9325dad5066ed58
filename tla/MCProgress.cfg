SPECIFICATION FairSpec
CONSTANTS
    Parts = {"ends", "lost", "gate", "wakes", "runs", "exits", "task"}
    Workers = {w1, w2}
    Probes = TRUE
    MaxRuns = 2
    MaxStops = 2
    w1 = w1
    n1 = n1
    p1 = p1
    NoWorker = NoWorker
    NoName = NoName
INVARIANTS
    ProcessPromises
    RegistryTrue
PROPERTIES
    EndsWhenAsked
    NothingStaysUnnoticed
CHECK_DEADLOCK FALSE
