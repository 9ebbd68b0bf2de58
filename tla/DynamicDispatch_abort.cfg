SPECIFICATION DispatchSpec
CONSTANTS
    tool = tool  review = review
    Step = {tool, review}
    Kind <- PlanKind
    DependsOn <- PlanDependsOn
    MaxAttempts <- PlanMaxAttempts
    Budgets <- PlanBudgets
    LeaseSeconds = {1}
    EventBytes = {}
    ReportBytes = {0}
    MaxClock = 2
    Lag = 0
    Worker = {"x1", "x2"}
    PolicyExpires <- PlanExpires
    ReceiptBytes = 1
    OutputBytes = 1
    MaxDeaths = 1
INVARIANT
    NotStartedIsTrue
CHECK_DEADLOCK FALSE
