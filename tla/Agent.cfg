SPECIFICATION FairSpec
CONSTANTS
    Callers = {c1, c2}
    Models <- ThreeModels
    Backend <- BackendOf
    SessionIds <- ThreeSessions
    Issuer <- IssuerOf
    Sticky = TRUE
    TypedReject = TRUE
    MaxRuns = 2
    MaxEvents = 2
INVARIANTS TypeOK AbortReaches BusyVisible RejectedNotResumed
PROPERTIES RunReturns
CHECK_DEADLOCK FALSE
