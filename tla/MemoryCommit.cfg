SPECIFICATION Spec
CONSTANTS
    w1 = w1
    w2 = w2
    Writers = {w1, w2}
    Updates <- MCUpdates
    Mutex = TRUE
    MaxCommits = 4
INVARIANTS NoLostUpdate
PROPERTIES SerializedSpec TerminalImmutable
CHECK_DEADLOCK FALSE
