--------------------------- MODULE TaskLifecycle ---------------------------
(***************************************************************************)
(* What a run of a Hermes task promises about the task, whichever engine   *)
(* drives it: the graph walker (HermesRuntime) and the legacy loop         *)
(* (PlanExecute) both implement this specification.                        *)
(*                                                                         *)
(* The state is the HermesState of the latest snapshot.  Settled work, a   *)
(* sub-task that is done or skipped, is never run again unless a planner   *)
(* replaces the plan; a task is done only when every sub-task is resolved; *)
(* the status of a finished task never changes, and its plan is never      *)
(* replaced.                                                               *)
(***************************************************************************)
EXTENDS HermesState

VARIABLE state

Settled == {"done", "skipped"}

Init == state = CreatedState

Active == state.status \notin TerminalStatus

\* a planner commits a plan; only an active task gets one
NewPlan ==
    /\ Active
    /\ state'.status = "executing" /\ state'.idx = 0 /\ state'.plan # <<>>

\* within a plan, settled sub-tasks stay settled
SettledStays ==
    /\ Len(state'.plan) = Len(state.plan)
    /\ \A i \in 1..Len(state.plan) :
          state.plan[i].st \in Settled => state'.plan[i].st \in Settled

\* the plan is worked on: also by goroutines a finished task has not stopped yet
Work == state'.status = state.status /\ SettledStays

\* a resume marks the task executing whatever its planner had reached
Resume == Active /\ state'.status = "executing" /\ state'.plan = state.plan

AllResolved(plan) == plan # <<>> /\ \A i \in 1..Len(plan) : plan[i].st \in ResolvedStatus

Finish == Active /\ state'.status = "done" /\ SettledStays /\ AllResolved(state'.plan)

\* failed or interrupted; a walker's last commit may still carry its sub-task's result
Stop == Active /\ state'.status \in {"failed", "interrupted"} /\ SettledStays

Next == NewPlan \/ Work \/ Resume \/ Finish \/ Stop

Spec == Init /\ [][Next]_state

=============================================================================
