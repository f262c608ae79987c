SPECIFICATION Spec
CONSTANTS
    w1 = w1
    w2 = w2
    Writers = {w1, w2}
    Updates <- MCUpdates
    Mutex = FALSE
    MaxCommits = 2
INVARIANTS NoLostUpdate
CHECK_DEADLOCK FALSE
