\* A reconcile request that read the job before a worker claimed it.
SPECIFICATION Spec
CONSTANTS
    Job = {j1}
    Worker = {w1}
    Client = {c1}
    NoWorker = NoWorker
    IdemKey <- MCIdemKey
    Unsupported = {}
    MaxAttempts = 2
    LeaseSeconds = 1
    StagingTTL = 1
    Deadline <- MCDeadline
    DeadlineAt = 0
    MaxClock = 2
    MaxHandles = 1
PROPERTY ReconcileSparesNewClaims
CHECK_DEADLOCK FALSE
