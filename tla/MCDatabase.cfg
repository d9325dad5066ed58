SPECIFICATION Spec
CONSTANTS
    Parts = {"wakes", "caps", "budgets", "rate", "steps", "timers", "children"}
    None = None
    Past = Past
    n1 = n1
    n2 = n2
    p1 = p1
    p2 = p2
    T = T
INVARIANTS
    NoIdleRoom
    LimitsHold
    ReplayFaithful
PROPERTY
    CapHolds
CHECK_DEADLOCK FALSE
