SPECIFICATION Spec
CONSTANTS
    Tasks = {1}
    Workers = {w1}
    Definitions <- BoundedDefinitions
    StartDelays = {0}
    RetryDelays = {1}
    WaitNames = {n1}
    WaitSpans = {1, 2}
    Payloads = {p1, p2}
    PauseCalls = {}
    Lease = 2
    Limit = 1
    Slip = 1
    Never <- MCNever
    Horizon = 4
    MaxFence = 3
    NoWorker = NoWorker
    NoName = NoName
INVARIANTS
    TypeOK
    OneHome
    ConstraintsHold
    SuccessByLatestClaim
    AttemptLedger
    DeadlineRestored
    BudgetKept
    OpenWaitSuspends
    SucceededInTime
PROPERTIES
    OutcomeFinal
    CancelSticks
    FirstBoundaryDecides
    AnswersKept
    ContractKept
