\* One worker that may die or hang, one request thread, and two jobs created
\* under one idempotency key, one of them an operation no worker executes.
SPECIFICATION FairSpec
CONSTANTS
    Job = {j1, j2}
    Worker = {w1}
    Client = {c1}
    NoWorker = NoWorker
    IdemKey <- MCSharedKey
    Unsupported = {j2}
    MaxAttempts = 2
    LeaseSeconds = 0
    StagingTTL = 1
    Deadline <- MCDeadline
    DeadlineAt = 1
    MaxClock = 2
    MaxHandles = 2
PROPERTY ReconcileConverges
CHECK_DEADLOCK FALSE
