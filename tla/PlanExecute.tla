---------------------------- MODULE PlanExecute ----------------------------
(***************************************************************************)
(* The legacy run loop of engine/plan_execute.go: one goroutine plans a    *)
(* task, executes its sub-tasks in order, reviews, replans and finishes,   *)
(* keeping a local copy of the plan (tasks) next to the durable snapshot.  *)
(* PlanExecuteEngine.run drives a new task; RunFromState resumes one after *)
(* a restart.  InterruptWith, crashes, startup sweeps and the operator of  *)
(* an orphaned pause act on the same task.                                 *)
(*                                                                         *)
(* Unlike the walker of HermesRuntime, the loop never reads a routing step *)
(* back: NextStep is only written.  It reads the task's status, plan and   *)
(* budget through GetTask at the places marked below.                      *)
(***************************************************************************)
EXTENDS HermesState, FiniteSets

CONSTANTS
    Configs,             \* the engine configurations a behaviour may have, see Config
    MaxRetriesPerSub,    \* StrictModeConfig.MaxRetriesPerSub, 2 unless set
    MaxSubTasks,         \* the complexity limit of run: 15
    MinReviewedSubTasks, \* PlanExecuteConfig.ReviewMinSubTasks
    PlanSizes,           \* lengths of the plans the planner may emit
    Events,              \* the environment events a run includes
    MaxEvents            \* bound on how many of them happen

(***************************************************************************)
(* review:    "task" is per_task; "strict" is per_subtask with strict mode *)
(*            on; "none" is per_subtask with strict mode off               *)
(* pause:     OnSubTaskFailurePause is set                                 *)
(* continue:  ContinueCh is set: the operator may lift an exceeded budget  *)
(* retries:   TaskRetry.MaxTaskRetries, 0 when task retry is disabled      *)
(* limit:     TokenBudget.MaxTotalTokens, 0 is unlimited                   *)
(* costs:     tokens one model call may report                             *)
(***************************************************************************)
Config == [review : {"task", "strict", "none"}, pause : BOOLEAN, continue : BOOLEAN,
           retries : Nat, limit : Nat, costs : SUBSET Nat]

EnvEvent == {"resume", "interrupt", "crash", "panic", "store_fault", "sweep",
             "wallclock", "retry", "resolve"}

ASSUME LoopAssumption ==
    /\ Configs \subseteq Config
    /\ \A c \in Configs : c.costs # {} /\ IsFiniteSet(c.costs)
    /\ {MaxRetriesPerSub, MaxSubTasks, MinReviewedSubTasks, MaxEvents} \subseteq Nat
    /\ PlanSizes \subseteq Nat \ {0}
    /\ Events \subseteq EnvEvent

VARIABLES
    conf,    \* the engine's configuration
    snap,    \* the latest snapshot
    run,     \* the goroutine, see Run
    eng,     \* the engine: taskID set, e.mu held by InterruptWith
    late,    \* MaxWallclockSeconds has elapsed since TokenBudget.StartedAt
    execs,   \* history: executor calls made for this task
    events   \* environment events so far

vars == <<conf, snap, run, eng, late, execs, events>>

(***************************************************************************)
(* pc: idle, or the next step of the goroutine:                            *)
(*     replan   persist the replan context    plan     call the planner    *)
(*     planned  commit the plan               resumed  RunFromState began  *)
(*     budget, ctx   the two gates at the top of the sub-task loop         *)
(*     ask      waiting on ContinueCh         pick     choose tasks[idx]   *)
(*     exec     call the executor             strict   call the reviewer   *)
(*     judged   the strict verdict is in hand                              *)
(*     pausing  persist a failure pause       paused   wait for its answer *)
(*     finish   record the sub-task           review   call the task review*)
(*     reviewed the review is in hand         final    commit done         *)
(*     fail     commit failed                 exit     the deferred checks *)
(*     cleanup  release the engine                                         *)
(* tasks is the local plan, tries the strict attempts of this sub-task, out*)
(* its outcome, bad the verdict in hand, attempt the task attempt, keep    *)
(* the preserved sub-tasks of a partial replan.                            *)
(***************************************************************************)
Run == [pc : {"idle", "replan", "plan", "planned", "resumed", "budget", "ctx", "ask", "pick",
              "exec", "strict", "judged", "pausing", "paused", "finish", "review",
              "reviewed", "final", "fail", "exit", "cleanup"},
        kind : {"run", "resume"}, cancelled : BOOLEAN, tasks : Seq(SubTask), idx : Nat,
        tries : Nat, out : {"done", "partial", "failed"}, bad : BOOLEAN,
        attempt : Nat, keep : Seq(SubTask)]

IdleRun == [pc |-> "idle", kind |-> "run", cancelled |-> FALSE, tasks |-> <<>>, idx |-> 0,
            tries |-> 0, out |-> "done", bad |-> FALSE, attempt |-> 0, keep |-> <<>>]

\* Start has created the task and launched run
Init ==
    /\ conf \in Configs
    /\ snap = [state |-> CreatedState, next |-> NoStep]
    /\ run = [IdleRun EXCEPT !.pc = "plan"]
    /\ eng = [task |-> TRUE, mu |-> FALSE]
    /\ late = FALSE
    /\ execs = 0
    /\ events = 0

Event(e) == e \in Events /\ events < MaxEvents /\ events' = events + 1

At(pc) == run.pc = pc

Goto(pc) == run' = [run EXCEPT !.pc = pc]

-----------------------------------------------------------------------------
(* Commits.  A commit is one step; the store may fail it. *)

Committed(u, next) == [state |-> ApplyStateUpdates(CommitSeed(snap.state), u), next |-> next]

CanCommit(u) == Accepts(CommitSeed(snap.state), u)

\* a boundary whose error is only logged; the fallback write of the task row is hidden by
\* the snapshot overlay of GetTask
Logged(u, next) ==
    \/ snap' = (IF CanCommit(u) THEN Committed(u, next) ELSE snap) /\ UNCHANGED events
    \/ Event("store_fault") /\ UNCHANGED snap

\* where an error of a checked boundary takes the goroutine: run marks the task failed,
\* RunFromState only returns the error
ErrorPc == IF run.kind = "run" THEN "fail" ELSE "cleanup"

\* a boundary whose error ends the loop; good is the goroutine to go on with
Checked(u, next, good) ==
    \/ CanCommit(u) /\ snap' = Committed(u, next) /\ run' = good /\ UNCHANGED events
    \/ ~CanCommit(u) /\ UNCHANGED <<snap, events>> /\ Goto(ErrorPc)
    \/ Event("store_fault") /\ UNCHANGED snap /\ Goto(ErrorPc)

Failed == [NoUpdate EXCEPT !.status = "failed"]

\* commitTelemetryBoundary: nothing is written for a call that reported no tokens
Telemetry(t, step) ==
    IF t = 0 THEN UNCHANGED <<snap, events>> ELSE Logged([NoUpdate EXCEPT !.tokens = t], step)

-----------------------------------------------------------------------------
(* Planning *)

\* commitAccumulatedBoundary before a retry attempt, partial or full
ReplanContext ==
    /\ At("replan")
    /\ \E keep \in PreservedChoices(run.tasks) :
          Checked(NoUpdate, "planner", [run EXCEPT !.pc = "plan", !.keep = keep])
    /\ UNCHANGED <<conf, eng, late, execs>>

\* the planner's plan, its telemetry, and the complexity limit
PlanReady ==
    /\ At("plan")
    /\ \E n \in PlanSizes, t \in conf.costs :
          LET tasks == MergePreservedSubTasks(run.keep, n) IN
          /\ Telemetry(t, "planner")
          /\ run' = [run EXCEPT !.tasks = tasks,
                        !.pc = IF Len(tasks) > MaxSubTasks THEN "fail" ELSE "planned"]
    /\ UNCHANGED <<conf, eng, late, execs>>

\* handlePlanningError; the tokens of the failed call are not charged
PlanError ==
    /\ At("plan")
    /\ Goto("fail")
    /\ UNCHANGED <<conf, snap, eng, late, execs, events>>

\* the first gate of an iteration: RunFromState checks the context before the budget
LoopPc == IF run.kind = "run" THEN "budget" ELSE "ctx"

CommitPlan ==
    /\ At("planned")
    /\ Checked([NoUpdate EXCEPT !.status = "executing", !.idx = 0, !.plan = run.tasks],
               "executor", [run EXCEPT !.pc = LoopPc, !.idx = 0])
    /\ UNCHANGED <<conf, eng, late, execs>>

-----------------------------------------------------------------------------
(* The gates and the choice of the next sub-task *)

Exceeded(s) == (conf.limit > 0 /\ s.used >= conf.limit) \/ late

BudgetGate_Skipped ==
    /\ At("budget")
    /\ Goto(IF run.kind = "run" THEN "ctx" ELSE "pick")
    /\ UNCHANGED <<conf, snap, eng, late, execs, events>>

\* GetTask and checkBudget
BudgetGate ==
    /\ At("budget")
    /\ Goto(IF ~Exceeded(snap.state) THEN IF run.kind = "run" THEN "ctx" ELSE "pick"
            ELSE IF conf.continue THEN "ask"
            ELSE "fail")
    /\ UNCHANGED <<conf, snap, eng, late, execs, events>>

\* the operator continues: only the wall clock starts again, the tokens stay spent
BudgetContinue ==
    /\ At("ask")
    /\ late' = FALSE
    /\ Logged(NoUpdate, "executor")
    /\ Goto(IF run.kind = "run" THEN "ctx" ELSE "pick")
    /\ UNCHANGED <<conf, eng, execs>>

\* ContinueTimeout, 15 minutes unless set
BudgetTimeout ==
    /\ At("ask")
    /\ Goto("fail")
    /\ UNCHANGED <<conf, snap, eng, late, execs, events>>

BudgetCancelled ==
    /\ At("ask") /\ run.cancelled
    /\ Goto("exit")
    /\ UNCHANGED <<conf, snap, eng, late, execs, events>>

\* e.interrupted and ctx.Err, read under e.mu
CtxGate ==
    /\ At("ctx") /\ ~eng.mu
    /\ Goto(IF run.cancelled THEN "exit" ELSE IF run.kind = "run" THEN "pick" ELSE "budget")
    /\ UNCHANGED <<conf, snap, eng, late, execs, events>>

\* where the loop goes once sub-task i is behind it
AfterSubTask(i) ==
    IF i < Len(run.tasks) THEN LoopPc
    ELSE IF run.kind = "run" /\ conf.review = "task" THEN "review" ELSE "final"

PassedOver_Never(st) == FALSE

\* only RunFromState passes over skipped sub-tasks
PassedOver(st) == st = "done" \/ (st = "skipped" /\ run.kind = "resume")

SkipSettled_Stay ==
    /\ At("pick") /\ PassedOver(run.tasks[run.idx + 1].st)
    /\ Goto(LoopPc)
    /\ UNCHANGED <<conf, snap, eng, late, execs, events>>

SkipSettled ==
    /\ At("pick") /\ PassedOver(run.tasks[run.idx + 1].st)
    /\ run' = [run EXCEPT !.idx = @ + 1, !.pc = AfterSubTask(run.idx + 1)]
    /\ UNCHANGED <<conf, snap, eng, late, execs, events>>

\* commitSubTaskStartBoundary: the stored plan with tasks[idx] in progress
SubTaskStart ==
    LET plan == snap.state.plan IN
    /\ At("pick") /\ ~PassedOver(run.tasks[run.idx + 1].st)
    /\ IF run.idx < Len(plan)
         THEN Logged([NoUpdate EXCEPT !.plan = [plan EXCEPT ![run.idx + 1].st = "in_progress"],
                                      !.idx = run.idx], "executor")
         ELSE UNCHANGED <<snap, events>>
    /\ run' = [run EXCEPT !.pc = "exec", !.tries = 0]
    /\ UNCHANGED <<conf, eng, late, execs>>

-----------------------------------------------------------------------------
(* executeSubTask: execute, review, retry *)

\* a failed or partial sub-task pauses run when the callback is set
OutcomePc(out) ==
    IF out # "done" /\ conf.pause /\ run.kind = "run" THEN "pausing" ELSE "finish"

Outcome(out) == run' = [run EXCEPT !.out = out, !.pc = OutcomePc(out), !.bad = FALSE]

\* direct.Run succeeded or failed; a cancelled context is one way to fail
Execute(ok) ==
    /\ At("exec")
    /\ \E t \in conf.costs : Telemetry(t, "executor")
    /\ IF ~ok THEN Outcome("failed")
       ELSE IF conf.review = "strict" THEN Goto("strict")
       ELSE Outcome("done")
    /\ execs' = execs + 1
    /\ UNCHANGED <<conf, eng, late>>

\* the reviewer blocks or does not; a review error or an unreadable task lets it through
StrictReview ==
    /\ At("strict")
    /\ \/ \E block \in BOOLEAN, t \in conf.costs :
             /\ Telemetry(t, "reviewer")
             /\ run' = [run EXCEPT !.pc = "judged", !.bad = block]
       \/ Outcome("done") /\ UNCHANGED <<snap, events>>
    /\ UNCHANGED <<conf, eng, late, execs>>

StrictAccept ==
    /\ At("judged") /\ ~run.bad
    /\ Outcome("done")
    /\ UNCHANGED <<conf, snap, eng, late, execs, events>>

\* decideStrictReviewRecovery
StrictRetryLeft(tries) == tries < MaxRetriesPerSub

Recounted(plan, i) == [plan EXCEPT ![i] = [plan[i] EXCEPT !.st = "in_progress", !.att = @ + 2]]

\* the stored plan with the blocked attempt counted
Counted(plan, i) == [plan EXCEPT ![i] = [plan[i] EXCEPT !.st = "in_progress", !.att = @ + 1]]

\* commitSubTaskRetryBoundary; a retry whose commit fails runs all the same
StrictRetry ==
    LET plan == snap.state.plan IN
    /\ At("judged") /\ run.bad /\ StrictRetryLeft(run.tries)
    /\ IF run.idx < Len(plan)
         THEN Logged([NoUpdate EXCEPT !.plan = Counted(plan, run.idx + 1), !.idx = run.idx],
                     "executor")
         ELSE UNCHANGED <<snap, events>>
    /\ run' = [run EXCEPT !.pc = "exec", !.tries = @ + 1, !.bad = FALSE]
    /\ UNCHANGED <<conf, eng, late, execs>>

StrictGiveUp ==
    /\ At("judged") /\ run.bad /\ ~StrictRetryLeft(run.tries)
    /\ Outcome("partial")
    /\ UNCHANGED <<conf, snap, eng, late, execs, events>>

-----------------------------------------------------------------------------
(* The failure pause and the outcome of a sub-task *)

\* commitInterruptBoundary, then the callback blocks
PauseSubTask ==
    /\ At("pausing")
    /\ Logged([NoUpdate EXCEPT !.intr = [reason |-> "subtask_failure_pause", idx |-> run.idx,
                                         resume |-> "executor"]], "approval")
    /\ Goto("paused")
    /\ UNCHANGED <<conf, eng, late, execs>>

WithOutcome_Lost(st) == run.tasks

\* applySubTaskOutcome: the attempts are those of the stored plan, plus one
WithOutcome(st) ==
    LET i == run.idx + 1
        att == IF i <= Len(snap.state.plan) THEN snap.state.plan[i].att ELSE run.tasks[i].att
    IN  [run.tasks EXCEPT ![i] = [@ EXCEPT !.st = st, !.att = att + 1]]

\* commitInterruptCleared clears whatever interrupt is pending, then the choice is made;
\* the sub-task of an abort is recorded in the local plan only
AnswerPause(choice) ==
    /\ At("paused")
    /\ IF choice = "retry"
         THEN /\ Event("retry")
              /\ snap' = Committed([NoUpdate EXCEPT !.clearIntr = TRUE], "executor")
         ELSE Logged([NoUpdate EXCEPT !.clearIntr = TRUE], "executor")
    /\ Goto(CASE choice = "retry" -> LoopPc [] choice = "abort" -> "fail" [] OTHER -> "finish")
    /\ UNCHANGED <<conf, eng, late, execs>>

OutcomeStatus == [done |-> "done", partial |-> "skipped", failed |-> "failed"]

NextAfter(i) ==
    IF i < Len(run.tasks) THEN "executor"
    ELSE IF run.kind = "run" /\ conf.review = "task" THEN "reviewer" ELSE "terminal"

\* commitExecutorBoundary writes the local plan; the status is left to the terminal boundary
FinishSubTask ==
    LET tasks == WithOutcome(OutcomeStatus[run.out]) IN
    /\ At("finish")
    /\ Checked([NoUpdate EXCEPT !.plan = tasks, !.idx = run.idx + 1], NextAfter(run.idx + 1),
               [run EXCEPT !.tasks = tasks, !.idx = @ + 1, !.pc = AfterSubTask(run.idx + 1)])
    /\ UNCHANGED <<conf, eng, late, execs>>

-----------------------------------------------------------------------------
(* The task review, the end of a run *)

\* runReview; a plan below the minimum is not reviewed and never replanned
ReviewTask ==
    /\ At("review")
    /\ \/ /\ Len(snap.state.plan) >= MinReviewedSubTasks
          /\ \E low \in BOOLEAN, t \in conf.costs :
                /\ Telemetry(t, "reviewer")
                /\ run' = [run EXCEPT !.pc = "reviewed", !.bad = low]
       \/ run' = [run EXCEPT !.pc = "reviewed", !.bad = FALSE] /\ UNCHANGED <<snap, events>>
    /\ UNCHANGED <<conf, eng, late, execs>>

\* decideTaskReviewRecovery: failed or low, with an attempt left
ReviewDecide ==
    /\ At("reviewed")
    /\ run' = IF run.bad /\ run.attempt < conf.retries
                THEN [run EXCEPT !.pc = "replan", !.attempt = @ + 1, !.bad = FALSE]
                ELSE [run EXCEPT !.pc = "final", !.bad = FALSE]
    /\ UNCHANGED <<conf, snap, eng, late, execs, events>>

\* commitTerminalBoundary
CommitTerminal ==
    /\ At("final")
    /\ Checked([NoUpdate EXCEPT !.status = "done"], "terminal", [run EXCEPT !.pc = "exit"])
    /\ UNCHANGED <<conf, eng, late, execs>>

\* commitFailureBoundary
CommitFailure ==
    /\ At("fail")
    /\ Logged(Failed, "terminal")
    /\ Goto("exit")
    /\ UNCHANGED <<conf, eng, late, execs>>

Exit_NoCheck ==
    /\ At("exit")
    /\ Goto("cleanup")
    /\ UNCHANGED <<conf, snap, eng, late, execs, events>>

\* run's deferred function fails a task that is not terminal; RunFromState has no such check
Exit ==
    /\ At("exit")
    /\ IF run.kind = "run" /\ snap.state.status \notin TerminalStatus
         THEN Logged(Failed, "terminal")
         ELSE UNCHANGED <<snap, events>>
    /\ Goto("cleanup")
    /\ UNCHANGED <<conf, eng, late, execs>>

\* the deferred function clears cancelFn and taskID under e.mu
Cleanup ==
    /\ At("cleanup") /\ ~eng.mu
    /\ run' = IdleRun
    /\ eng' = [eng EXCEPT !.task = FALSE]
    /\ UNCHANGED <<conf, snap, late, execs, events>>

\* recovered by run's deferred function; a panic in RunFromState ends the process (Crash)
Panic ==
    /\ run.kind = "run" /\ run.pc \in {"plan", "exec", "strict", "paused", "review"}
    /\ Event("panic")
    /\ snap' = IF CanCommit(Failed) THEN Committed(Failed, "terminal") ELSE snap
    /\ Goto("cleanup")
    /\ UNCHANGED <<conf, eng, late, execs>>

-----------------------------------------------------------------------------
(* RunFromState *)

\* DecideTaskResume: the first sub-task that is neither done nor skipped
Unsettled(plan) == {i \in 1..Len(plan) : plan[i].st \notin {"done", "skipped"}}

FromIdx_OffByOne(plan) ==
    IF Unsettled(plan) = {} THEN Len(plan)
    ELSE (CHOOSE i \in Unsettled(plan) : \A j \in Unsettled(plan) : i <= j) - 2

FromIdx(plan) ==
    IF Unsettled(plan) = {} THEN Len(plan)
    ELSE (CHOOSE i \in Unsettled(plan) : \A j \in Unsettled(plan) : i <= j) - 1

\* a task without a plan cannot be resumed, a terminal one is returned as it is
ResumeStart ==
    LET plan == snap.state.plan IN
    /\ Event("resume")
    /\ At("idle") /\ ~eng.mu
    /\ snap.state.status \notin TerminalStatus /\ plan # <<>>
    /\ run' = [IdleRun EXCEPT !.pc = "resumed", !.kind = "resume", !.tasks = plan,
                              !.idx = FromIdx(plan)]
    /\ eng' = [eng EXCEPT !.task = TRUE]
    /\ UNCHANGED <<conf, snap, late, execs>>

\* resume_start; a pending pause interrupt is not cleared
ResumeCommit ==
    /\ At("resumed") /\ run.idx < Len(run.tasks)
    /\ Checked([NoUpdate EXCEPT !.status = "executing", !.idx = run.idx], "executor",
               [run EXCEPT !.pc = LoopPc])
    /\ UNCHANGED <<conf, eng, late, execs>>

\* plan_complete_mark_done: the review is made and charged, its verdict is not used; the
\* error of the terminal boundary is dropped
ResumeMarkDone ==
    /\ At("resumed") /\ run.idx >= Len(run.tasks)
    /\ \/ /\ conf.review = "task" /\ Len(run.tasks) >= MinReviewedSubTasks
          /\ \E t \in conf.costs : Telemetry(t, "reviewer")
       \/ UNCHANGED <<snap, events>>
    /\ Goto("final")
    /\ UNCHANGED <<conf, eng, late, execs>>

-----------------------------------------------------------------------------
(* InterruptWith, crashes, sweeps, the operator of an orphaned pause, the clock *)

\* InterruptWith holds e.mu over both steps; the cancel is visible before the commit
InterruptWithCancel ==
    /\ Event("interrupt") /\ ~eng.mu /\ eng.task
    /\ run' = [run EXCEPT !.cancelled = TRUE]
    /\ eng' = [eng EXCEPT !.mu = TRUE]
    /\ UNCHANGED <<conf, snap, late, execs>>

InterruptWithCommit ==
    LET u == [NoUpdate EXCEPT !.status = "interrupted",
                 !.intr = [reason |-> "user_interrupt", idx |-> -1, resume |-> NoStep]] IN
    /\ eng.mu
    /\ snap' = IF CanCommit(u) THEN Committed(u, "terminal") ELSE snap
    /\ eng' = [eng EXCEPT !.mu = FALSE]
    /\ UNCHANGED <<conf, run, late, execs, events>>

Crash ==
    /\ Event("crash")
    /\ ~At("idle")
    /\ run' = IdleRun
    /\ eng' = [task |-> FALSE, mu |-> FALSE]
    /\ UNCHANGED <<conf, snap, late, execs>>

\* startup: SweepZombieTasks and the stale-interrupt sweep
Sweep ==
    /\ Event("sweep") /\ At("idle")
    /\ snap.state.status \notin TerminalStatus
    /\ snap.state.intr.reason # "legacy_interrupted_by"
    /\ snap' = Committed(Failed, "terminal")
    /\ UNCHANGED <<conf, run, eng, late, execs>>

\* ApplyInterruptResolution for a pause whose goroutine died with its process
Resolve ==
    LET s == snap.state IN
    /\ Event("resolve") /\ At("idle") /\ s.intr # NoInterrupt
    /\ \/ snap' = IF CanCommit(Failed) THEN Committed(Failed, "terminal") ELSE snap
       \/ snap' = Committed([NoUpdate EXCEPT !.clearIntr = TRUE], "executor")
       \/ /\ s.intr.idx \in 0..Len(s.plan) - 1
          /\ snap' = Committed([NoUpdate EXCEPT
                        !.plan = [s.plan EXCEPT ![s.intr.idx + 1].st = "skipped"],
                        !.idx = s.intr.idx + 1, !.clearIntr = TRUE], "executor")
    /\ UNCHANGED <<conf, run, eng, late, execs>>

WallclockElapses ==
    /\ Event("wallclock")
    /\ ~late /\ late' = TRUE
    /\ UNCHANGED <<conf, snap, run, eng, execs>>

-----------------------------------------------------------------------------
\* what the goroutine does by itself
Step ==
    \/ ReplanContext \/ PlanReady \/ PlanError \/ CommitPlan
    \/ BudgetGate \/ BudgetContinue \/ BudgetTimeout \/ BudgetCancelled \/ CtxGate
    \/ SkipSettled \/ SubTaskStart
    \/ \E ok \in BOOLEAN : Execute(ok)
    \/ StrictReview \/ StrictAccept \/ StrictRetry \/ StrictGiveUp
    \/ PauseSubTask \/ FinishSubTask
    \/ ReviewTask \/ ReviewDecide \/ CommitTerminal \/ CommitFailure \/ Exit \/ Cleanup
    \/ ResumeCommit \/ ResumeMarkDone

Next ==
    \/ Step
    \/ \E choice \in {"retry", "skip", "abort"} : AnswerPause(choice)
    \/ Panic \/ ResumeStart
    \/ InterruptWithCancel \/ InterruptWithCommit
    \/ Crash \/ Sweep \/ Resolve \/ WallclockElapses

\* the goroutine keeps running and its calls return; nobody has to answer a pause
Fairness == WF_vars(Step) /\ WF_vars(InterruptWithCommit)

Spec == Init /\ [][Next]_vars /\ Fairness

-----------------------------------------------------------------------------
(* Properties *)

\* The snapshot, the goroutine and the engine hold values of their Go types.
TypeOK ==
    /\ conf \in Configs
    /\ snap \in Snapshot
    /\ run \in Run
    /\ eng \in [task : BOOLEAN, mu : BOOLEAN]
    /\ late \in BOOLEAN
    /\ execs \in Nat
    /\ events \in 0..MaxEvents

Lifecycle == INSTANCE TaskLifecycle WITH state <- snap.state

\* The legacy loop implements TaskLifecycle, as the graph runtime does: whatever retries,
\* replans, resumes, crashes and operators do, settled work is not run again, a task is
\* done only when its plan is resolved, and a task that ends stays ended.
LoopImplementsLifecycle == Lifecycle!Spec

\* one pair for each attempt of each sub-task
AttemptSlots(plan) == UNION {{i} \X (1..plan[i].att) : i \in DOMAIN plan}

SumAttempts(plan) == Cardinality(AttemptSlots(plan))

\* The attempt counters of the plan never add up to more than the executor calls made,
\* although retries count in the stored plan and outcomes in the local one
\* (commitSubTaskRetryBoundary, applySubTaskOutcome).
AttemptsHonest == SumAttempts(snap.state.plan) <= execs

\* The loop moves CurrentIdx forward only over sub-tasks that are done, skipped or failed
\* in the stored plan, although it decides on its local copy: across partial replans,
\* resumes and retries no sub-task is left out.
AdvanceOverResolved ==
    [][~At("idle")
         => \A i \in snap.state.idx + 1 .. snap'.state.idx :
               snap'.state.plan[i].st \in ResolvedStatus]_vars

MaxCost == CHOOSE c \in conf.costs : \A d \in conf.costs : d <= c

\* model calls between two budget gates: a sub-task with all its strict retries, or the
\* last sub-task, its task review and the next plan
CallsPerGate ==
    IF conf.review = "strict" THEN 2 * (MaxRetriesPerSub + 1)
    ELSE IF conf.review = "task" THEN 3 ELSE 1

\* Without an operator who continues, the tokens charged overshoot the limit by no more
\* than the calls between two gates; each crash may add a review (plan_complete_mark_done).
OvershootBounded ==
    (conf.limit > 0 /\ ~conf.continue)
        => snap.state.used < conf.limit + (CallsPerGate + events) * MaxCost

\* run never returns from a task that is still planning or executing, whatever exit it
\* takes, unless the store fails the boundary of the deferred check.
RunLeavesTerminal ==
    [][run.kind = "run" /\ run'.pc = "cleanup" /\ run.pc # "cleanup"
         => \/ snap'.state.status \in TerminalStatus
            \/ events' # events /\ snap' = snap]_vars

\* The loop returns or waits for an operator: retries, replans and gates all end.
RunReturns == run.pc # "idle" ~> run.pc \in {"idle", "paused"}

=============================================================================
