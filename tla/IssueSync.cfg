SPECIFICATION Spec
CONSTANTS
    Texts = {"a", "b", "c"}
    Issues <- TwoItemIssues
    Events = {"tick", "untick", "add", "block", "insert", "restart", "gh_error", "rerun"}
    MaxEvents = 3
INVARIANTS TypeOK TicksCovered ClosedMeansDone DoneWorkTicked
PROPERTIES ChecklistKept
CHECK_DEADLOCK FALSE
