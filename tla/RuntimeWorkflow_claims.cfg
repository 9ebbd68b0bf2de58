SPECIFICATION Spec
CONSTANTS
    build = build  verify = verify  review = review
    Step = {build, verify, review}
    Kind <- PlanKind
    DependsOn <- PlanDependsOn
    MaxAttempts <- PlanMaxAttempts
    Budgets <- PlanBudgets
    LeaseSeconds = {1}
    EventBytes = {1}
    ReportBytes = {1, 2}
    MaxClock = 2
    Lag = 1
INVARIANTS
    TypeOK
    ClaimsAgree
    Metered
    AttemptsInOrder
    ReceiptTells
PROPERTIES
    SupersededStays
    LeaseIsKept
CHECK_DEADLOCK FALSE
