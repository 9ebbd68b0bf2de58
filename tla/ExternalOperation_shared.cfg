SPECIFICATION Spec
CONSTANTS
    w1 = w1  w2 = w2  ext1 = ext1  ext2 = ext2  build = build
    subj1 = subj1
    o1 = o1  o2 = o2  o3 = o3  r1 = r1
    Workflow = {w1, w2}
    Step = {ext1, ext2, build}
    ExtStep = {ext1, ext2}
    Subject = {subj1}
    ObsId = {o1, o2}
    Remote = {}
    NoStep = NoStep
    NoRemote = NoRemote
    Unseen = Unseen
    WorkflowOf <- SharedWorkflowOf
    DependsOn <- SharedDependsOn
    SubjectOf <- SharedSubjectOf
    Expires <- SharedExpires
    ManualOnly = {}
    MaxConcurrent = 2
    MaxProviderAttempts = 2
    MaxOperations = 1
    MaxCalls = 2
    MaxQueries = 1
    MaxExecution = 3
    QuerySeconds = 1
    MaxRecords = 2
    MaxManual = 1
    Horizon = 1
    Freshness = 1
    MaxEpoch = 2
    MaxClock = 1
SYMMETRY Symmetry
INVARIANTS
    CountersAgree
    CompletedIsConfirmed
    ConfirmedEndsStep
PROPERTIES
    EndIsFinal
    KeepsPromise
CHECK_DEADLOCK FALSE
