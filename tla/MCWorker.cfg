SPECIFICATION MCSpec
CONSTANTS
    Parts = {"races", "window", "shares", "slots", "drain"}
    Lease = 2
    Deadline = 2
    Timeout = 1
    Lead = 1
    Outside = {"cancel", "shutdown"}
    Off <- Unset
INVARIANTS
    ConfirmedAbort
    RecordedTruth
    LapsedOutsideWindow
    DispatchKept
PROPERTIES
    HandlerStartsOwned
CHECK_DEADLOCK FALSE
