SPECIFICATION Spec
CONSTANTS
    o1 = o1
    w1 = w1
    Walkers = {w1}
    Operators = {o1}
    ReviewPerTask = FALSE
    StrictReview = FALSE
    FailurePause = TRUE
    MaxRetriesPerSub = 2
    TaskRetryEnabled = FALSE
    MaxTaskRetries = 1
    MaxSubTasks = 3
    MinReviewedSubTasks = 2
    MaxTotalTokens = 0
    PlanSizes = {1, 2}
    TokenCosts = {0}
    TaskReviews <- NoTaskReviews
    Events = {"resume", "interrupt", "parent_cancel", "crash", "panic", "store_fault", "sweep"}
    MaxEvents = 4
INVARIANTS TypeOK ResolvedPrefix DoneMeansResolved
PROPERTIES DoneWorkKept RuntimeImplementsLifecycle
CHECK_DEADLOCK FALSE
