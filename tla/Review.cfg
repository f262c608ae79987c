SPECIFICATION Spec
CONSTANTS
    o1 = o1
    w1 = w1
    Walkers = {w1}
    Operators = {o1}
    ReviewPerTask = TRUE
    StrictReview = FALSE
    FailurePause = FALSE
    MaxRetriesPerSub = 2
    TaskRetryEnabled = TRUE
    MaxTaskRetries = 2
    MaxSubTasks = 3
    MinReviewedSubTasks = 2
    MaxTotalTokens = 2
    PlanSizes = {1, 2}
    TokenCosts = {0, 2}
    TaskReviews <- AllReviews
    Events = {"resume", "panic", "wallclock", "crash"}
    MaxEvents = 3
INVARIANTS OvershootBounded NoOvercharge ReplanBounded
PROPERTIES RunEndsParked RunReturns
CHECK_DEADLOCK FALSE
