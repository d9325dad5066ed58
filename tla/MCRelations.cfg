SPECIFICATION Spec
CONSTANTS
    Parts = {"resolution", "overdue", "counts", "locks"}
    x1 = x1
    x2 = x2
SYMMETRY Symmetry
INVARIANTS
    DependentsFollowEdges
    GroupCountsMembers
    NoDeadlock
PROPERTIES
    ClosedToMembers
CHECK_DEADLOCK FALSE
