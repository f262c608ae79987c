---------------------------- MODULE HermesState ----------------------------
(***************************************************************************)
(* The canonical Hermes task state and the reducer every durable commit    *)
(* goes through (hermes/state.go, hermes/snapshot.go, hermes/reducer.go).  *)
(*                                                                         *)
(* Data is abstracted to what routing depends on.  A sub-task is its       *)
(* status, its attempt counter and whether reviewer feedback is waiting    *)
(* for the next run; a nil pointer of the code is the No... record of its  *)
(* type; result texts, accumulated text and per-model cost lines are left  *)
(* out.  CurrentIdx is 0-based as in the code, so the sub-task it points   *)
(* at is plan[idx + 1].                                                    *)
(***************************************************************************)
EXTENDS Integers, Sequences

TaskStatus == {"planning", "executing", "done", "failed", "interrupted"}

\* TaskState.IsTerminal and the walker's isTerminalTaskStatus
TerminalStatus == {"done", "failed", "interrupted"}

SubTaskStatus == {"pending", "in_progress", "done", "skipped", "failed"}

\* isResolvedSubTaskStatus
ResolvedStatus == {"done", "skipped", "failed"}

RuntimeStep == {"planner", "replan_setup", "executor", "reviewer",
                "strict_review", "approval", "terminal"}

\* "" is the zero RuntimeStep: no snapshot yet, or no resume step recorded
NoStep == ""

InterruptReason == {"none", "subtask_failure_pause", "ctx_cancelled",
                    "budget_exceeded", "user_interrupt", "legacy_interrupted_by"}

SubTask == [st : SubTaskStatus, att : Nat, fb : BOOLEAN]

PendingSubTask == [st |-> "pending", att |-> 0, fb |-> FALSE]

\* HermesInterrupt; idx is the payload's sub_task_idx, -1 when it has none
Interrupt == [reason : InterruptReason, idx : Int, resume : RuntimeStep \cup {NoStep}]

NoInterrupt == [reason |-> "none", idx |-> -1, resume |-> NoStep]

\* ReplanContext
Replan == [on : BOOLEAN, preserved : Seq(SubTask)]

NoReplan == [on |-> FALSE, preserved |-> <<>>]

\* HermesState, and the part of it TaskState has columns for
State == [status : TaskStatus, idx : Int, plan : Seq(SubTask),
          intr : Interrupt, replan : Replan, used : Nat]

Task == [status : TaskStatus, idx : Int, plan : Seq(SubTask), used : Nat, by : {0, 1}]

CreatedState == [status |-> "planning", idx |-> 0, plan |-> <<>>,
                 intr |-> NoInterrupt, replan |-> NoReplan, used |-> 0]

Snapshot == [state : State, next : RuntimeStep \cup {NoStep}]

-----------------------------------------------------------------------------
(***************************************************************************)
(* StateUpdate: what one commit writes.  "" and -1 and <<>> stand for the  *)
(* nil pointers of fields that are not written (no caller writes an empty  *)
(* plan: the planner rejects one).                                         *)
(***************************************************************************)
StateUpdate == [status : TaskStatus \cup {""}, idx : Int, plan : Seq(SubTask),
                clearIntr : BOOLEAN, intr : Interrupt,
                clearReplan : BOOLEAN, replan : Replan, tokens : Nat]

NoUpdate == [status |-> "", idx |-> -1, plan |-> <<>>,
             clearIntr |-> FALSE, intr |-> NoInterrupt,
             clearReplan |-> FALSE, replan |-> NoReplan, tokens |-> 0]

\* a terminal state left by a bug in the transition table: used by mutants only
ValidTaskStatusTransition_Reopen(from, to) ==
    \/ from = to
    \/ from \in {"planning", "executing", "interrupted"} /\ to \in TaskStatus \ {"planning"}

ValidTaskStatusTransition(from, to) ==
    \/ from = to
    \/ from \in {"planning", "executing"} /\ to \in TaskStatus \ {"planning"}

\* ApplyStateUpdates rejects the whole batch when the status write is illegal
Accepts(s, u) == u.status = "" \/ ValidTaskStatusTransition(s.status, u.status)

ApplyStateUpdates_NilStatus(s, u) ==
    [status |-> u.status,
     idx    |-> IF u.idx = -1 THEN s.idx ELSE u.idx,
     plan   |-> IF u.plan = <<>> THEN s.plan ELSE u.plan,
     intr   |-> IF u.intr # NoInterrupt THEN u.intr
                ELSE IF u.clearIntr THEN NoInterrupt ELSE s.intr,
     replan |-> IF u.replan # NoReplan THEN u.replan
                ELSE IF u.clearReplan THEN NoReplan ELSE s.replan,
     used   |-> s.used + u.tokens]

ApplyStateUpdates(s, u) ==
    [status |-> IF u.status = "" THEN s.status ELSE u.status,
     idx    |-> IF u.idx = -1 THEN s.idx ELSE u.idx,
     plan   |-> IF u.plan = <<>> THEN s.plan ELSE u.plan,
     intr   |-> IF u.intr # NoInterrupt THEN u.intr
                ELSE IF u.clearIntr THEN NoInterrupt ELSE s.intr,
     replan |-> IF u.replan # NoReplan THEN u.replan
                ELSE IF u.clearReplan THEN NoReplan ELSE s.replan,
     used   |-> s.used + u.tokens]

\* only a user interrupt carries the Telegram message id InterruptedBy stores; 0 is nil
HermesStateToTaskState(s) ==
    [status |-> s.status, idx |-> s.idx, plan |-> s.plan, used |-> s.used,
     by |-> IF s.intr.reason = "user_interrupt" THEN 1 ELSE 0]

HermesStateFromTaskState(t) ==
    [status |-> t.status, idx |-> t.idx, plan |-> t.plan,
     intr |-> IF t.by # 0 THEN [reason |-> "legacy_interrupted_by", idx |-> -1, resume |-> NoStep]
              ELSE NoInterrupt,
     replan |-> NoReplan, used |-> t.used]

CarryForwardSnapshotFields_ReplanOnly(seed, prev) ==
    [seed EXCEPT !.replan = IF prev.replan # NoReplan THEN prev.replan ELSE @]

CarryForwardSnapshotFields(seed, prev) ==
    [seed EXCEPT !.intr = IF prev.intr # NoInterrupt THEN prev.intr ELSE @,
                 !.replan = IF prev.replan # NoReplan THEN prev.replan ELSE @]

\* the seed of the next commit, read back from the task row and the snapshot
CommitSeed(s) ==
    CarryForwardSnapshotFields(HermesStateFromTaskState(HermesStateToTaskState(s)), s)

-----------------------------------------------------------------------------
(* Replanning (engine/task_retry.go), shared by the graph nodes and the legacy loop *)

\* mergePartialRetryPlan and PlannerNode: fresh sub-tasks behind the preserved ones
MergePreservedSubTasks(preserved, n) == preserved \o [i \in 1..n |-> PendingSubTask]

DoneIdx(plan) == {i \in 1..Len(plan) : plan[i].st = "done"}

\* buildPartialRetryPlan: which done sub-tasks scored well is up to the review; all
\* of the plan, or none of it, gives the full replan
PreservedChoices(plan) ==
    {<<>>} \cup
    UNION {{[i \in 1..k |-> plan[f[i]]] :
               f \in {g \in [1..k -> DoneIdx(plan)] : \A i, j \in 1..k : i < j => g[i] < g[j]}} :
           k \in 1..Len(plan) - 1}

=============================================================================
