SPECIFICATION Spec
CONSTANTS
    o1 = o1
    o2 = o2
    w1 = w1
    w2 = w2
    Walkers = {w1, w2}
    Operators = {o1, o2}
    ReviewPerTask = FALSE
    StrictReview = FALSE
    FailurePause = TRUE
    MaxRetriesPerSub = 2
    TaskRetryEnabled = FALSE
    MaxTaskRetries = 1
    MaxSubTasks = 3
    MinReviewedSubTasks = 2
    MaxTotalTokens = 0
    PlanSizes = {1}
    TokenCosts = {0}
    TaskReviews <- NoTaskReviews
    Events = {"resume", "run_sync", "interrupt", "crash"}
    MaxEvents = 3
PROPERTIES TerminalStatusImmutable InterruptDurable
CHECK_DEADLOCK FALSE
