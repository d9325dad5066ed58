SPECIFICATION Spec
CONSTANTS
    Tasks = {1}
    Workers = {w1}
    Definitions <- BoundedDefinitions
    StartDelays = {0}
    RetryDelays = {0}
    WaitNames = {}
    WaitSpans = {}
    Payloads = {}
    PauseCalls = {}
    Lease = 3
    Limit = 1
    Slip = 1
    Never <- MCNever
    Horizon = 5
    MaxFence = 2
    NoWorker = NoWorker
    NoName = NoName
INVARIANT BudgetIntact
