SPECIFICATION Spec
CONSTANTS
    Configs <- LoopConfigs
    MaxRetriesPerSub = 1
    MaxSubTasks = 2
    MinReviewedSubTasks = 2
    PlanSizes = {1, 2}
    Events = {"resume", "interrupt", "crash", "panic", "store_fault", "sweep", "wallclock", "retry", "resolve"}
    MaxEvents = 3
INVARIANTS TypeOK AttemptsHonest OvershootBounded
PROPERTIES LoopImplementsLifecycle AdvanceOverResolved RunLeavesTerminal RunReturns
CHECK_DEADLOCK FALSE
