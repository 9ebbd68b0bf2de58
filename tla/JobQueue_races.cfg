\* Two workers and two request threads over one job, at two instants.
SPECIFICATION Spec
CONSTANTS
    Job = {j1}
    Worker = {w1, w2}
    Client = {c1, c2}
    NoWorker = NoWorker
    IdemKey <- MCIdemKey
    Unsupported = {}
    MaxAttempts = 2
    LeaseSeconds = 0
    StagingTTL = 1
    Deadline <- MCDeadline
    DeadlineAt = 0
    MaxClock = 1
    MaxHandles = 2
SYMMETRY Symmetry
INVARIANTS
    TypeOK
    RowCoherent
    PayloadHeld
    ResultOfLastClaim
    AttemptBudget
PROPERTY TerminalNeverReopens
CHECK_DEADLOCK FALSE
