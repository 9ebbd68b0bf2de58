SPECIFICATION Spec
CONSTANTS
    w1 = w1  w2 = w2  ext1 = ext1  ext2 = ext2  build = build
    subj1 = subj1
    o1 = o1  o2 = o2  o3 = o3  r1 = r1
    Workflow = {w1}
    Step = {ext1}
    ExtStep = {ext1}
    Subject = {subj1}
    ObsId = {o1, o2, o3}
    Remote = {r1}
    NoStep = NoStep
    NoRemote = NoRemote
    Unseen = Unseen
    WorkflowOf <- RecoveryWorkflowOf
    DependsOn <- RecoveryDependsOn
    SubjectOf <- RecoverySubjectOf
    Expires <- RecoveryExpires
    ManualOnly = {}
    MaxConcurrent = 2
    MaxProviderAttempts = 2
    MaxOperations = 1
    MaxCalls = 4
    MaxQueries = 3
    MaxExecution = 5
    QuerySeconds = 2
    MaxRecords = 2
    MaxManual = 1
    Horizon = 3
    Freshness = 1
    MaxEpoch = 1
    MaxClock = 3
SYMMETRY Symmetry
INVARIANTS
    TypeOK
    OneSubmit
    NotExecutedIsTrue
    OneLiveQuery
    CallsPaid
PROPERTY
    EvidenceIsSticky
CHECK_DEADLOCK FALSE
