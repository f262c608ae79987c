SPECIFICATION Spec
CONSTANTS
    w1 = w1
    w2 = w2
    w3 = w3
    Writers = {w1, w2, w3}
    Updates <- MCUpdates
    Mutex = FALSE
    MaxCommits = 3
INVARIANTS TypeOK LinearHistory
CHECK_DEADLOCK FALSE
