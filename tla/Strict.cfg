SPECIFICATION Spec
CONSTANTS
    o1 = o1
    w1 = w1
    Walkers = {w1}
    Operators = {o1}
    ReviewPerTask = FALSE
    StrictReview = TRUE
    FailurePause = FALSE
    MaxRetriesPerSub = 2
    TaskRetryEnabled = FALSE
    MaxTaskRetries = 1
    MaxSubTasks = 3
    MinReviewedSubTasks = 2
    MaxTotalTokens = 0
    PlanSizes = {2}
    TokenCosts = {0, 1}
    TaskReviews <- NoTaskReviews
    Events = {"resume", "crash", "panic", "store_fault", "interrupt"}
    MaxEvents = 3
INVARIANTS AttemptsBounded
PROPERTIES RunReturns
CHECK_DEADLOCK FALSE
