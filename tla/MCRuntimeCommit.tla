-------------------------- MODULE MCRuntimeCommit --------------------------
(***************************************************************************)
(* RuntimeCommit with the commits that race in production: a walker's node *)
(* commits, InterruptWith, and an operator's retry.                        *)
(***************************************************************************)
EXTENDS RuntimeCommit

PlanReady   == [NoUpdate EXCEPT !.status = "executing", !.plan = <<PendingSubTask>>]
ModelCall   == [NoUpdate EXCEPT !.tokens = 1]
UserStop    == [NoUpdate EXCEPT !.status = "interrupted",
                   !.intr = [reason |-> "user_interrupt", idx |-> -1, resume |-> NoStep]]
UserRetry   == [NoUpdate EXCEPT !.clearIntr = TRUE]
TaskDone    == [NoUpdate EXCEPT !.status = "done"]

MCUpdates == {PlanReady, ModelCall, UserStop, UserRetry, TaskDone}

=============================================================================
