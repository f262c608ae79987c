SPECIFICATION Spec
CONSTANTS
    Models <- TwoModels
    MaxContextTokens = 5
    CallTokens = {1, 3}
    Drivers = {"run", "resume", "graph"}
    FailurePause = FALSE
    Feedbacks = {"text"}
    MaxCalls = 7
INVARIANTS TypeOK SlimPromptSafe ContextBounded MirrorsLegacy
