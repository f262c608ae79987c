SPECIFICATION Spec
CONSTANTS
    Callers = {c1, c2}
    Models <- ThreeModels
    Backend <- BackendOf
    SessionIds <- ThreeSessions
    Issuer <- IssuerOf
    Sticky = TRUE
    TypedReject = FALSE
    MaxRuns = 2
    MaxEvents = 1
INVARIANTS IdleNotProcessing
CHECK_DEADLOCK FALSE
