SPECIFICATION Spec
CONSTANTS
    Parts = {"shards"}
    None = None
    Past = Past
    n1 = n1
    n2 = n2
    p1 = p1
    p2 = p2
    T = T
INVARIANT
    NoIdleShare
CHECK_DEADLOCK FALSE
