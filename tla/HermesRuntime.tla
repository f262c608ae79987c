--------------------------- MODULE HermesRuntime ---------------------------
(***************************************************************************)
(* The graph runtime of a Hermes task: the Walker (engine/graph/runtime.go)*)
(* dispatching the planner, executor, strict-review, reviewer,             *)
(* replan-setup and approval nodes, the engine that launches and           *)
(* interrupts walkers (engine/graph_bridge.go, engine/plan_execute.go),    *)
(* and the operators and startup sweeps that write to the same task from   *)
(* outside (hermes/store.go).                                              *)
(*                                                                         *)
(* One task.  All writers go through CommitRuntimeStep, an atomic step     *)
(* here, as MemoryTaskStore's mutex makes it.  A walker loads a snapshot,  *)
(* runs a node on it and commits later, so every node commit may be based  *)
(* on a state that another writer has replaced in between.                 *)
(***************************************************************************)
EXTENDS HermesState

CONSTANTS
    Walkers,             \* goroutines that may be running Walker.Run
    Operators,           \* callers of ApplyInterruptResolution
    ReviewPerTask,       \* reviewMode() = per_task
    StrictReview,        \* strict mode on, in per_subtask mode
    FailurePause,        \* OnSubTaskFailurePause is set
    MaxRetriesPerSub,    \* StrictModeConfig.MaxRetriesPerSub, 2 unless set
    TaskRetryEnabled,    \* TaskRetryConfig.Enabled
    MaxTaskRetries,      \* TaskRetryConfig.MaxTaskRetries as configured
    MaxSubTasks,         \* PlannerNode.MaxSubTasks
    MinReviewedSubTasks, \* PlanExecuteConfig.ReviewMinSubTasks
    MaxTotalTokens,      \* TokenBudget.MaxTotalTokens, 0 is unlimited
    PlanSizes,           \* lengths of the plans the planner model may emit
    TokenCosts,          \* tokens one model call may report
    TaskReviews,         \* [verdict, low] the task reviewer may return
    Events,              \* the environment events a run includes
    MaxEvents            \* bound on how many of them happen

EnvEvent == {"resume", "run_sync", "interrupt", "parent_cancel", "crash", "panic",
             "store_fault", "sweep", "wallclock"}

Verdict == {"", "pass", "allow", "partial", "block", "fail", "error"}

ASSUME ConfigAssumption ==
    /\ {ReviewPerTask, StrictReview, FailurePause, TaskRetryEnabled} \subseteq BOOLEAN
    /\ ~(ReviewPerTask /\ StrictReview)
    /\ MaxRetriesPerSub \in Nat \ {0}
    /\ {MaxTaskRetries, MaxSubTasks, MinReviewedSubTasks, MaxTotalTokens, MaxEvents} \subseteq Nat
    /\ PlanSizes \subseteq Nat \ {0}
    /\ TokenCosts \subseteq Nat
    /\ TaskReviews \subseteq [verdict : Verdict, low : BOOLEAN]
    /\ Events \subseteq EnvEvent

VARIABLES
    snap,    \* the latest snapshot; next = NoStep while only the task row exists
    run,     \* walker goroutines, see Run
    eng,     \* PlanExecuteEngine: taskID set, owner of cancelFn, e.mu held by InterruptWith
    op,      \* operators between reading the interrupt and committing a resolution
    late,    \* MaxWallclockSeconds has elapsed since TokenBudget.StartedAt
    spent,   \* history: tokens the model calls of this task reported
    events,  \* environment events so far
    running, \* walkers inside RunSubTask: the executor is called, nothing is committed
    calls    \* history: executor calls made for each sub-task of the plan, see OneMore

calling == <<running, calls>>

vars == <<snap, run, eng, op, late, spent, events, running, calls>>

(***************************************************************************)
(* pc: idle     no goroutine                                               *)
(*     starting the task id is set, the walker is not launched yet         *)
(*     loop     at the ctx check at the top of the loop of Walker.Run      *)
(*     load     past the ctx check, before GetLatestSnapshot               *)
(*     budget   the loaded snapshot exceeds the budget                     *)
(*     node     node.Handle of the loaded snapshot's NextStep              *)
(*     reviewed the reviewer answered and its telemetry is committed       *)
(*     failing  Run returned an error that gets a failure boundary         *)
(*     end      Run returned; the deferred clearGraphRunState is left      *)
(* last is Run's lastSnapshot (next = NoStep when none), rev the review in *)
(* hand, attempt and recorded the replanCoordinator's attemptIdx and       *)
(* lastPlan.                                                               *)
(***************************************************************************)
Run == [pc : {"idle", "starting", "loop", "load", "budget", "node", "reviewed",
              "failing", "end"},
        sync : BOOLEAN, cancelled : BOOLEAN, last : Snapshot,
        rev : [verdict : Verdict, low : BOOLEAN, tokens : Nat],
        attempt : Nat, recorded : Seq(SubTask)]

NoSnapshot == [state |-> CreatedState, next |-> NoStep]

NoReview == [verdict |-> "", low |-> FALSE, tokens |-> 0]

IdleRun == [pc |-> "idle", sync |-> FALSE, cancelled |-> FALSE, last |-> NoSnapshot,
            rev |-> NoReview, attempt |-> 0, recorded |-> <<>>]

IdleOp == [decision |-> "none", seen |-> NoSnapshot]

\* CreateTask has just run for StartViaGraph, or for RunViaGraph (sync)
Init ==
    /\ snap = NoSnapshot
    /\ \E w \in Walkers, sync \in {FALSE} \cup {e = "run_sync" : e \in Events} :
          run = [v \in Walkers |-> IF v = w THEN [IdleRun EXCEPT !.pc = "starting", !.sync = sync]
                                            ELSE IdleRun]
    /\ eng = [task |-> TRUE, cancel |-> {}, mu |-> FALSE]
    /\ op = [o \in Operators |-> IdleOp]
    /\ late = FALSE
    /\ spent = 0
    /\ events = 0
    /\ running = {} /\ calls = <<>>

Event(e) == e \in Events /\ events < MaxEvents /\ events' = events + 1

-----------------------------------------------------------------------------
(* CommitRuntimeStep *)

Committed(u, next) == [state |-> ApplyStateUpdates(CommitSeed(snap.state), u), next |-> next]

CanCommit(u) == Accepts(CommitSeed(snap.state), u)

\* a commit whose rejection the caller only logs
TryCommit(u, next) == snap' = IF CanCommit(u) THEN Committed(u, next) ELSE snap

-----------------------------------------------------------------------------
(* Engine: launching and ending runs *)

\* ResumeViaGraph sets e.taskID; nothing checks whether another run is active
ResumeViaGraph(w) ==
    /\ Event("resume")
    /\ run[w].pc = "idle" /\ ~eng.mu
    /\ run' = [run EXCEPT ![w] = [IdleRun EXCEPT !.pc = "starting"]]
    /\ eng' = [eng EXCEPT !.task = TRUE]
    /\ UNCHANGED <<snap, op, late, spent, calling>>

\* RunViaGraph joins the engine's current task when there is one
RunViaGraph(w) ==
    /\ Event("run_sync")
    /\ run[w].pc = "idle" /\ ~eng.mu /\ eng.task
    /\ run' = [run EXCEPT ![w] = [IdleRun EXCEPT !.pc = "starting", !.sync = TRUE]]
    /\ UNCHANGED <<snap, eng, op, late, spent, calling>>

\* startGraphRun takes over cancelFn; seedPlannerSnapshot is a no-op on a seeded task
StartGraphRun(w) ==
    /\ run[w].pc = "starting" /\ ~eng.mu
    /\ run' = [run EXCEPT ![w].pc = "loop"]
    /\ eng' = IF run[w].sync THEN eng ELSE [eng EXCEPT !.cancel = {w}]
    /\ snap' = IF snap.next # NoStep THEN snap ELSE [snap EXCEPT !.next = "planner"]
    /\ UNCHANGED <<op, late, spent, events, calling>>

\* clearGraphRunState compares task ids only: it also clears a newer run's cancelFn
ClearGraphRunState == IF eng.task THEN [eng EXCEPT !.task = FALSE, !.cancel = {}] ELSE eng

EndRun(w) ==
    /\ run[w].pc = "end" /\ ~eng.mu
    /\ run' = [run EXCEPT ![w] = IdleRun]
    /\ eng' = ClearGraphRunState
    /\ UNCHANGED <<snap, op, late, spent, events, calling>>

\* commitFailureBoundary after an error of Walker.Run that is no pause or cancel
CommitFailureBoundary(w) ==
    /\ run[w].pc = "failing"
    /\ TryCommit([NoUpdate EXCEPT !.status = "failed"], "terminal")
    /\ run' = [run EXCEPT ![w].pc = "end"]
    /\ UNCHANGED <<eng, op, late, spent, events, calling>>

-----------------------------------------------------------------------------
(* Walker.Run *)

ErrorPc_NoBoundary(w) == "end"

\* where an error takes the goroutine: RunViaGraph returns it to its caller
ErrorPc(w) == IF run[w].sync THEN "end" ELSE "failing"

\* commitCtxInterrupt
CtxInterrupt(step) == [reason |-> "ctx_cancelled", idx |-> -1, resume |-> step]

WalkerCtxErr(w) ==
    LET last == run[w].last IN
    /\ run[w].pc = "loop" /\ run[w].cancelled
    /\ IF last.next = NoStep
         THEN UNCHANGED snap
         ELSE TryCommit([NoUpdate EXCEPT !.intr = CtxInterrupt(last.next)], last.next)
    /\ run' = [run EXCEPT ![w].pc = "end"]
    /\ UNCHANGED <<eng, op, late, spent, events, calling>>

WalkerCtxOk(w) ==
    /\ run[w].pc = "loop" /\ ~run[w].cancelled
    /\ run' = [run EXCEPT ![w].pc = "load"]
    /\ UNCHANGED <<snap, eng, op, late, spent, events, calling>>

Exceeded_Late(s) == (MaxTotalTokens > 0 /\ s.used > MaxTotalTokens) \/ late

\* TokenBudget.Exceeded
Exceeded(s) == (MaxTotalTokens > 0 /\ s.used >= MaxTotalTokens) \/ late

\* GetLatestSnapshot, then the terminal, interrupt and budget gates
WalkerLoad(w) ==
    /\ run[w].pc = "load"
    /\ run' = [run EXCEPT
         ![w].last = snap,
         ![w].pc = IF \/ snap.next = "terminal"
                      \/ snap.state.intr # NoInterrupt /\ snap.next # "approval" THEN "end"
                   ELSE IF Exceeded(snap.state) THEN "budget"
                   ELSE "node"]
    /\ UNCHANGED <<snap, eng, op, late, spent, events, calling>>

CommitBudgetInterrupt(w) ==
    LET step == run[w].last.next IN
    /\ run[w].pc = "budget"
    /\ TryCommit([NoUpdate EXCEPT !.intr =
                    [reason |-> "budget_exceeded", idx |-> -1, resume |-> step]], step)
    /\ run' = [run EXCEPT ![w].pc = "end"]
    /\ UNCHANGED <<eng, op, late, spent, events, calling>>

\* a terminal step without a status write finishes the task
FinishingUpdate(w, u, next) ==
    IF next = "terminal" /\ u.status = "" /\ run[w].last.state.status \notin TerminalStatus
      THEN [u EXCEPT !.status = "done"] ELSE u

\* Walker.Run's commit of a node's output; r is the goroutine's record to go on with
NodeCommit(w, r, out, next, halt) ==
    LET u == FinishingUpdate(w, out, next) IN
    /\ IF CanCommit(u)
         THEN /\ snap' = Committed(u, next)
              /\ run' = [run EXCEPT ![w] = [r EXCEPT
                            !.last = Committed(u, next), !.rev = NoReview,
                            !.pc = IF next = "terminal" \/ halt THEN "end" ELSE "loop"]]
         ELSE /\ snap' = snap
              /\ run' = [run EXCEPT ![w] = [r EXCEPT !.rev = NoReview, !.pc = ErrorPc(w)]]
    /\ UNCHANGED <<eng, op, late, events>>

\* node.Handle returned an error
NodeError(w) ==
    /\ run' = [run EXCEPT ![w].pc = ErrorPc(w)]
    /\ UNCHANGED <<snap, eng, op, late, spent, events, calling>>

AtNode(w, step) == run[w].pc = "node" /\ run[w].last.next = step

Spend(t) == spent' = spent + t

-----------------------------------------------------------------------------
(* Nodes *)

PlannerPlan(w) ==
    /\ AtNode(w, "planner")
    /\ \E n \in PlanSizes, t \in TokenCosts :
          LET s == run[w].last.state
              plan == MergePreservedSubTasks(s.replan.preserved, n)
              u == [NoUpdate EXCEPT !.status = "executing", !.idx = 0, !.plan = plan,
                                    !.clearReplan = s.replan.on, !.tokens = t]
          IN  /\ MaxSubTasks = 0 \/ Len(plan) <= MaxSubTasks
              /\ NodeCommit(w, run[w], u, "executor", FALSE)
              /\ calls' = IF CanCommit(u) THEN [i \in 1..Len(plan) |-> 0] ELSE calls
              /\ Spend(t)
              /\ UNCHANGED running

\* no usable plan after the planner's own retries, or more than MaxSubTasks
PlannerError(w) == AtNode(w, "planner") /\ NodeError(w)

\* the planner's error wraps context.Canceled: no boundary is written for it
PlannerCancelled(w) ==
    /\ AtNode(w, "planner") /\ run[w].cancelled
    /\ run' = [run EXCEPT ![w].pc = "end"]
    /\ UNCHANGED <<snap, eng, op, late, spent, events, calling>>

NextStepAfter_Early(i, total) ==
    IF i + 1 < total THEN "executor" ELSE IF ReviewPerTask THEN "reviewer" ELSE "terminal"

\* ExecutorNode.nextStepAfter, StrictReviewNode.routeAfterAdvance
NextStepAfter(i, total) ==
    IF i < total THEN "executor" ELSE IF ReviewPerTask THEN "reviewer" ELSE "terminal"

InRange(s) == s.idx \in 0 .. Len(s.plan) - 1

\* ExecutorNode and StrictReviewNode refuse an index outside the plan
NodeOutOfRange(w) ==
    /\ AtNode(w, "executor") \/ AtNode(w, "strict_review")
    /\ ~InRange(run[w].last.state)
    /\ NodeError(w)

\* advanceWithoutRunning
ExecutorAdvance(w) ==
    LET s == run[w].last.state IN
    /\ AtNode(w, "executor") /\ InRange(s)
    /\ s.plan[s.idx + 1].st \in {"done", "skipped"}
    /\ NodeCommit(w, run[w], [NoUpdate EXCEPT !.idx = s.idx + 1],
                  NextStepAfter(s.idx + 1, Len(s.plan)), FALSE)
    /\ UNCHANGED <<spent, calling>>

Attempted_Uncounted(plan, i) == plan

Attempted(plan, i) == [plan EXCEPT ![i].att = @ + 1]

\* outputForApprovalPause
ApprovalPause(idx, tried, t) ==
    [NoUpdate EXCEPT !.plan = tried, !.tokens = t,
                     !.intr = [reason |-> "subtask_failure_pause", idx |-> idx,
                               resume |-> "executor"]]

\* calls are counted as far as the first one that AttemptsBounded does not allow
OneMore(n) == IF n <= MaxRetriesPerSub + events THEN n + 1 ELSE n

\* the executor is called; until its result is committed the plan does not know
RunSubTask(w) ==
    LET s == run[w].last.state IN
    /\ AtNode(w, "executor") /\ InRange(s) /\ w \notin running
    /\ s.plan[s.idx + 1].st \notin {"done", "skipped"}
    /\ running' = running \cup {w}
    /\ calls' = [calls EXCEPT ![s.idx + 1] = OneMore(@)]
    /\ UNCHANGED <<snap, run, eng, op, late, spent, events>>

\* RunSubTask succeeded (ok) or failed; a cancelled context is one way to fail
ExecutorRun(w, ok) ==
    LET s == run[w].last.state
        tried == Attempted(s.plan, s.idx + 1)
        next == NextStepAfter(s.idx + 1, Len(s.plan))
        Finish(st, t) ==
            NodeCommit(w, run[w], [NoUpdate EXCEPT !.idx = s.idx + 1, !.tokens = t,
                              !.plan = [tried EXCEPT ![s.idx + 1].st = st]], next, FALSE)
    IN  /\ AtNode(w, "executor") /\ InRange(s)
        /\ w \in running /\ running' = running \ {w}
        /\ s.plan[s.idx + 1].st \notin {"done", "skipped"}
        /\ \E t \in TokenCosts :
              /\ \/ ~ok /\ FailurePause
                    /\ NodeCommit(w, run[w], ApprovalPause(s.idx, tried, t), "approval", FALSE)
                 \/ ~ok /\ ~FailurePause /\ Finish("failed", t)
                 \/ ok /\ StrictReview
                    /\ NodeCommit(w, run[w],
                          [NoUpdate EXCEPT !.plan = [tried EXCEPT ![s.idx + 1].fb = FALSE],
                                           !.tokens = t], "strict_review", FALSE)
                 \/ ok /\ ~StrictReview /\ Finish("done", t)
              /\ Spend(t)
        /\ UNCHANGED calls

\* what runReview may return for a plan; a review is skipped below MinReviewedSubTasks
TaskReviewResults(plan) ==
    IF Len(plan) < MinReviewedSubTasks THEN {[verdict |-> "", low |-> TRUE]}
    ELSE TaskReviews \cup {[verdict |-> "error", low |-> FALSE]}

StrictReviewResults == [verdict : {"block", "allow", "error"}, low : {FALSE}]

\* runReview: an answer's tokens are committed at once by commitTelemetryBoundary,
\* whose NextStep is always the reviewer step
RunReview(w, results) ==
    /\ \E r \in results, t \in TokenCosts :
          /\ r.verdict \in {"", "error"} => t = 0
          /\ IF t > 0 THEN TryCommit([NoUpdate EXCEPT !.tokens = t], "reviewer")
                      ELSE UNCHANGED snap
          /\ run' = [run EXCEPT ![w].pc = "reviewed",
                        ![w].rev = [verdict |-> r.verdict, low |-> r.low, tokens |-> t]]
          /\ Spend(t)
    /\ UNCHANGED <<eng, op, late, events, calling>>

ReviewTask(w) == AtNode(w, "reviewer") /\ RunReview(w, TaskReviewResults(snap.state.plan))

ReviewSubTask(w) ==
    /\ AtNode(w, "strict_review") /\ InRange(run[w].last.state)
    /\ RunReview(w, StrictReviewResults)

\* TaskRetryConfig.WithDefaults
EffectiveTaskRetries == IF MaxTaskRetries = 0 THEN 1 ELSE MaxTaskRetries

WantReplan_OffByOne(r) ==
    /\ TaskRetryEnabled /\ r.attempt <= EffectiveTaskRetries
    /\ r.rev.verdict \notin {"", "error"}
    /\ r.rev.verdict = "fail" \/ r.rev.low

\* decideTaskReviewRecovery and taskReviewerAdapter's wantReplan
WantReplan(r) ==
    /\ TaskRetryEnabled /\ r.attempt < EffectiveTaskRetries
    /\ r.rev.verdict \notin {"", "error"}
    /\ r.rev.verdict = "fail" \/ r.rev.low

ReviewerUpdate_Recharge(rev) ==
    [NoUpdate EXCEPT !.status = IF rev.verdict = "fail" THEN "failed" ELSE "",
                     !.tokens = rev.tokens]

\* runReview has charged the tokens: the adapter leaves its token fields zero
ReviewerUpdate(rev) ==
    [NoUpdate EXCEPT !.status = IF rev.verdict = "fail" THEN "failed" ELSE ""]

\* ReviewerNode, after the recordReview of the adapter
ReviewerCommit(w) ==
    LET r == run[w] IN
    /\ r.pc = "reviewed" /\ r.last.next = "reviewer"
    /\ NodeCommit(w, [r EXCEPT !.recorded = IF WantReplan(r) THEN r.last.state.plan ELSE @],
                  ReviewerUpdate(r.rev),
                  IF r.rev.verdict = "block" /\ WantReplan(r) THEN "replan_setup" ELSE "terminal",
                  FALSE)
    /\ UNCHANGED <<spent, calling>>

RetryLeft_OffByOne(att) == att <= MaxRetriesPerSub

RetryLeft(att) == att < MaxRetriesPerSub

\* StrictReviewNode: retry with feedback, give up as skipped, or accept
StrictReviewCommit(w) ==
    LET r == run[w]
        s == r.last.state
        Set(st, fb) == [s.plan EXCEPT ![s.idx + 1] = [@ EXCEPT !.st = st, !.fb = fb]]
        Advance(st) ==
            NodeCommit(w, r, [NoUpdate EXCEPT !.plan = Set(st, FALSE), !.idx = s.idx + 1,
                                              !.tokens = r.rev.tokens],
                       NextStepAfter(s.idx + 1, Len(s.plan)), FALSE)
    IN  /\ r.pc = "reviewed" /\ r.last.next = "strict_review"
        /\ IF r.rev.verdict # "block" THEN Advance("done")
           ELSE IF RetryLeft(s.plan[s.idx + 1].att)
             THEN NodeCommit(w, r, [NoUpdate EXCEPT !.plan = Set(s.plan[s.idx + 1].st, TRUE),
                                                    !.tokens = r.rev.tokens],
                             "executor", FALSE)
           ELSE Advance("skipped")
        /\ UNCHANGED <<spent, calling>>

ReplanSetupNoop(w) ==
    /\ AtNode(w, "replan_setup") /\ run[w].recorded = <<>>
    /\ NodeCommit(w, run[w], NoUpdate, "planner", FALSE)
    /\ UNCHANGED <<spent, calling>>

ReplanSetup_Uncounted(w) ==
    /\ AtNode(w, "replan_setup") /\ run[w].recorded # <<>>
    /\ \E p \in PreservedChoices(run[w].recorded) :
          NodeCommit(w, run[w], [NoUpdate EXCEPT !.replan = [on |-> TRUE, preserved |-> p]],
                     "planner", FALSE)
    /\ UNCHANGED <<spent, calling>>

\* consumeForReplan and DecideReplan
ReplanSetup(w) ==
    /\ AtNode(w, "replan_setup") /\ run[w].recorded # <<>>
    /\ \E p \in PreservedChoices(run[w].recorded) :
          NodeCommit(w, [run[w] EXCEPT !.attempt = @ + 1],
                     [NoUpdate EXCEPT !.replan = [on |-> TRUE, preserved |-> p]],
                     "planner", FALSE)
    /\ UNCHANGED <<spent, calling>>

ApprovalPending(w) ==
    /\ AtNode(w, "approval") /\ run[w].last.state.intr # NoInterrupt
    /\ NodeCommit(w, run[w], NoUpdate, "approval", TRUE)
    /\ UNCHANGED <<spent, calling>>

\* routeAfterResolution
ApprovalRoute(w) ==
    LET s == run[w].last.state IN
    /\ AtNode(w, "approval") /\ s.intr = NoInterrupt
    /\ IF s.status = "failed"
         THEN NodeCommit(w, run[w], NoUpdate, "terminal", FALSE) /\ UNCHANGED <<spent, calling>>
       ELSE IF s.plan = <<>> \/ s.idx \notin 0..Len(s.plan)
         THEN NodeError(w)
       ELSE /\ NodeCommit(w, run[w], NoUpdate, NextStepAfter(s.idx, Len(s.plan)), FALSE)
            /\ UNCHANGED <<spent, calling>>

\* safeHandle recovers a panic and commitPanicTerminal records it
NodePanic(w) ==
    LET u == IF run[w].last.state.status \in TerminalStatus THEN NoUpdate
             ELSE [NoUpdate EXCEPT !.status = "failed"]
    IN  /\ run[w].pc \in {"node", "reviewed"}
        /\ Event("panic")
        /\ TryCommit(u, "terminal")
        /\ run' = [run EXCEPT ![w].pc = ErrorPc(w), ![w].rev = NoReview]
        /\ running' = running \ {w}
        /\ UNCHANGED <<eng, op, late, spent, calls>>

\* the store fails a load or the commit of a node
StoreFault(w) ==
    /\ run[w].pc \in {"load", "node", "reviewed"}
    /\ Event("store_fault")
    /\ run' = [run EXCEPT ![w].pc = ErrorPc(w), ![w].rev = NoReview]
    /\ running' = running \ {w}
    /\ UNCHANGED <<snap, eng, op, late, spent, calls>>

\* the store fails an interrupt or failure boundary, which is only logged; the fallback
\* write of the status column is hidden by the snapshot overlay of GetTask
BoundaryFault(w) ==
    /\ \/ run[w].pc \in {"budget", "failing"}
       \/ run[w].pc = "loop" /\ run[w].cancelled
    /\ Event("store_fault")
    /\ run' = [run EXCEPT ![w].pc = "end"]
    /\ UNCHANGED <<snap, eng, op, late, spent, calling>>

-----------------------------------------------------------------------------
(* InterruptWith, the parent context, crashes, sweeps and the clock *)

\* InterruptWith holds e.mu over both steps; the cancel is visible before the commit
InterruptWithCancel ==
    /\ Event("interrupt") /\ ~eng.mu
    /\ run' = [w \in Walkers |-> IF w \in eng.cancel /\ ~run[w].sync
                                 THEN [run[w] EXCEPT !.cancelled = TRUE] ELSE run[w]]
    /\ eng' = [eng EXCEPT !.mu = TRUE]
    /\ UNCHANGED <<snap, op, late, spent, calling>>

\* commitInterruptedBoundary
InterruptWithCommit ==
    /\ eng.mu
    /\ IF eng.task
         THEN TryCommit([NoUpdate EXCEPT !.status = "interrupted",
                            !.intr = [reason |-> "user_interrupt", idx |-> -1, resume |-> NoStep]],
                        "terminal")
         ELSE UNCHANGED snap
    /\ eng' = [eng EXCEPT !.mu = FALSE]
    /\ UNCHANGED <<run, op, late, spent, events, calling>>

ParentCancel(w) ==
    /\ Event("parent_cancel")
    /\ run[w].pc # "idle" /\ ~run[w].cancelled
    /\ run' = [run EXCEPT ![w].cancelled = TRUE]
    /\ UNCHANGED <<snap, eng, op, late, spent, calling>>

\* the process dies: what is not in the store is gone
Crash ==
    /\ Event("crash")
    /\ run' = [w \in Walkers |-> IdleRun]
    /\ eng' = [task |-> FALSE, cancel |-> {}, mu |-> FALSE]
    /\ op' = [o \in Operators |-> IdleOp]
    /\ running' = {}
    /\ UNCHANGED <<snap, late, spent, calls>>

MarkTaskFailedDurable == TryCommit([NoUpdate EXCEPT !.status = "failed"], "terminal")

AllIdle == \A w \in Walkers : run[w].pc = "idle"

\* startup: SweepZombieTasks leaves paused tasks alone, the stale-interrupt sweep does
\* not, but skips an interrupt without CreatedAt
Sweep ==
    /\ Event("sweep") /\ AllIdle
    /\ snap.state.status \notin TerminalStatus
    /\ snap.state.intr.reason # "legacy_interrupted_by"
    /\ MarkTaskFailedDurable
    /\ UNCHANGED <<run, eng, op, late, spent, calling>>

WallclockElapses ==
    /\ Event("wallclock")
    /\ ~late /\ late' = TRUE
    /\ UNCHANGED <<snap, run, eng, op, spent, calling>>

-----------------------------------------------------------------------------
(* ApplyInterruptResolution: GetLatestSnapshot, then a commit *)

\* skip needs the sub_task_idx of the interrupt payload, in range
SkipAllowed(s) == s.intr.idx \in 0 .. Len(s.plan) - 1

OperatorRead(o) ==
    /\ op[o] = IdleOp /\ events < MaxEvents
    /\ snap.state.intr # NoInterrupt
    /\ \E d \in {"retry", "skip", "abort"} :
          /\ d = "skip" => SkipAllowed(snap.state)
          /\ op' = [op EXCEPT ![o] = [decision |-> d, seen |-> snap]]
    /\ events' = events + 1
    /\ UNCHANGED <<snap, run, eng, late, spent, calling>>

RetryStep(intr) ==
    IF intr.reason = "budget_exceeded" /\ intr.resume # NoStep THEN intr.resume ELSE "executor"

SkipUpdate_Previous(s) ==
    [NoUpdate EXCEPT !.plan = [s.plan EXCEPT ![s.intr.idx].st = "skipped"],
                     !.idx = s.intr.idx + 1, !.clearIntr = TRUE]

SkipUpdate_Unmarked(s) ==
    [NoUpdate EXCEPT !.idx = s.intr.idx + 1, !.clearIntr = TRUE]

\* the plan is the one read with the interrupt
SkipUpdate(s) ==
    [NoUpdate EXCEPT !.plan = [s.plan EXCEPT ![s.intr.idx + 1].st = "skipped"],
                     !.idx = s.intr.idx + 1, !.clearIntr = TRUE]

OperatorCommit(o) ==
    LET s == op[o].seen.state IN
    /\ \/ op[o].decision = "abort" /\ MarkTaskFailedDurable /\ UNCHANGED late
       \/ /\ op[o].decision = "skip"
          /\ TryCommit(SkipUpdate(s), "executor")
          /\ UNCHANGED late
       \/ /\ op[o].decision = "retry"
          /\ TryCommit([NoUpdate EXCEPT !.clearIntr = TRUE], RetryStep(s.intr))
          /\ late' = (late /\ s.intr.reason # "budget_exceeded")
    /\ op' = [op EXCEPT ![o] = IdleOp]
    /\ UNCHANGED <<run, eng, spent, events, calling>>

-----------------------------------------------------------------------------
\* what a launched goroutine does by itself
WalkerStep(w) ==
    \/ StartGraphRun(w)
    \/ WalkerCtxErr(w) \/ WalkerCtxOk(w) \/ WalkerLoad(w) \/ CommitBudgetInterrupt(w)
    \/ PlannerPlan(w) \/ PlannerError(w) \/ PlannerCancelled(w)
    \/ NodeOutOfRange(w) \/ ExecutorAdvance(w) \/ RunSubTask(w)
    \/ \E ok \in BOOLEAN : ExecutorRun(w, ok)
    \/ ReviewTask(w) \/ ReviewerCommit(w)
    \/ ReviewSubTask(w) \/ StrictReviewCommit(w)
    \/ ReplanSetupNoop(w) \/ ReplanSetup(w)
    \/ ApprovalPending(w) \/ ApprovalRoute(w)
    \/ CommitFailureBoundary(w) \/ EndRun(w)

Next ==
    \/ \E w \in Walkers :
          WalkerStep(w) \/ ResumeViaGraph(w) \/ RunViaGraph(w) \/ NodePanic(w)
          \/ StoreFault(w) \/ BoundaryFault(w) \/ ParentCancel(w)
    \/ \E o \in Operators : OperatorRead(o) \/ OperatorCommit(o)
    \/ InterruptWithCancel \/ InterruptWithCommit
    \/ Crash \/ Sweep \/ WallclockElapses

\* a launched goroutine keeps running, its model calls return (ExecTimeout,
\* ReviewTimeout), and InterruptWith runs to its unlock
Fairness ==
    /\ \A w \in Walkers : WF_vars(WalkerStep(w))
    /\ WF_vars(InterruptWithCommit)

Spec == Init /\ [][Next]_vars /\ Fairness
-----------------------------------------------------------------------------
(* Properties *)

OpState == [decision : {"none", "retry", "skip", "abort"}, seen : Snapshot]

TaskOK ==
    /\ snap \in Snapshot
    /\ run \in [Walkers -> Run]
    /\ eng \in [task : BOOLEAN, cancel : SUBSET Walkers, mu : BOOLEAN]
    /\ op \in [Operators -> OpState]
    /\ late \in BOOLEAN
    /\ spent \in Nat
    /\ events \in 0..MaxEvents

CallingOK == running \subseteq Walkers /\ calls \in Seq(Nat)

\* The snapshot, the goroutines, the engine, the operators and the executor calls hold
\* values of their Go types.
TypeOK == TaskOK /\ CallingOK

\* No interleaving of walkers, operators, interrupts, sweeps and crashes changes the
\* status of a done, failed or interrupted task (ValidTaskStatusTransition, state.go).
TerminalStatusImmutable ==
    [][snap.state.status \in TerminalStatus => snap'.state.status = snap.state.status]_vars

\* A pending interrupt survives every commit, also the ones of walkers that loaded their
\* state before it was written, until an operator's resolution commit removes it
\* (CarryForwardSnapshotFields, reducer.go).
InterruptDurable ==
    [][snap.state.intr # NoInterrupt /\ snap'.state.intr = NoInterrupt
         => \E o \in Operators : op[o].decision \in {"retry", "skip"} /\ op'[o] = IdleOp]_vars

\* With one walker, CurrentIdx never passes a sub-task that is not done, skipped or
\* failed, across retries, skips, replans, crashes and resumes.
ResolvedPrefix ==
    /\ snap.state.idx \in 0..Len(snap.state.plan)
    /\ \A i \in 1..snap.state.idx : snap.state.plan[i].st \in ResolvedStatus

\* A task is only marked done when it has a plan and every sub-task of it is resolved.
DoneMeansResolved ==
    snap.state.status = "done" =>
        /\ snap.state.plan # <<>>
        /\ \A i \in 1..Len(snap.state.plan) : snap.state.plan[i].st \in ResolvedStatus

\* With one walker, finished work is kept: a sub-task that is done stays done until a
\* planner commit replaces the plan.
DoneWorkKept ==
    [][\A i \in 1..Len(snap.state.plan) :
         snap.state.plan[i].st = "done"
           => \/ i <= Len(snap'.state.plan) /\ snap'.state.plan[i].st = "done"
              \/ \E w \in Walkers : AtNode(w, "planner") /\ run'[w].pc = "loop"]_vars

\* The tokens a task is charged never exceed the tokens its model calls reported: no
\* retry, resume or review pass is counted twice.
NoOvercharge == snap.state.used <= spent

\* The budget gate lets at most one more model call through: with one walker the charged
\* tokens stay below the limit plus the cost of a single call, whatever is retried.
OvershootBounded ==
    MaxTotalTokens > 0 =>
        \E c \in TokenCosts : snap.state.used < MaxTotalTokens + c

\* A snapshot nobody has to drive any further: finished, or waiting for an operator.
Parked(s) ==
    s.state.status \in TerminalStatus \/ s.next \in {"terminal", "approval"}
    \/ s.state.intr # NoInterrupt

\* A run that returns by itself leaves the task finished or waiting for an operator,
\* never executing with no goroutine behind it.
RunEndsParked ==
    [][\A w \in Walkers : run[w].pc # "end" /\ run'[w].pc = "end" => Parked(snap')]_vars

\* One run replans a task at most MaxTaskRetries times (replanCoordinator.attemptIdx).
ReplanBounded == \A w \in Walkers : run[w].attempt <= EffectiveTaskRetries

\* The executor is called for a sub-task of a plan at most MaxRetriesPerSub times, and once
\* more for each event of the environment: a crash, panic, fault or interrupt that comes
\* between a call and its commit (ExecutorNode, CommitRuntimeStep) leaves one call
\* uncounted, and nothing else does, whatever the reviewers answer and resumes repeat.
AttemptsBounded == \A i \in DOMAIN calls : calls[i] <= MaxRetriesPerSub + events

\* Every started walker returns: the executor, strict-review and replan loops end.
RunReturns == \A w \in Walkers : run[w].pc # "idle" ~> run[w].pc = "idle"

Lifecycle == INSTANCE TaskLifecycle WITH state <- snap.state

\* With one walker, the graph runtime implements TaskLifecycle: whatever pauses, resumes,
\* crashes and operators do, settled work is not run again, and a task that ends stays so.
RuntimeImplementsLifecycle == Lifecycle!Spec

=============================================================================
