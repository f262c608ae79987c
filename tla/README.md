# TLA+ model of the Hermes task runtime

Hermes turns a goal into a plan of sub-tasks, runs them with a coding agent, reviews them,
and keeps everything it knows about a task in durable snapshots, so that a task survives
restarts, pauses for an operator, and cancellations. This directory models that runtime:
the reducer, the two engines that drive a task (the graph walker and the legacy loop), the
commit path of the task stores, the walking agent, the issue operations and the agent that
makes the model calls. Paths below are relative to `src/`.

## The system

| Component | State it keeps | Operations | Talks to | Here |
|---|---|---|---|---|
| State and reducer (`hermes/state.go`, `snapshot.go`, `reducer.go`) | none: pure functions over `HermesState` | `ValidTaskStatusTransition`, `ApplyStateUpdates`, `CarryForwardSnapshotFields`, the conversions to and from the task row | called by both stores | partly |
| Task stores (`hermes/store.go`, `memory_store.go`) | task rows, snapshots, artifacts | `CommitRuntimeStep`, `GetTask`, `GetLatestSnapshot`, row mutators, sweeps, `ApplyInterruptResolution` | SQLite, or one mutex | commits |
| Graph runtime (`engine/graph/`) | nothing between iterations but the last snapshot | `Walker.Run` and the nodes planner, executor, strict_review, reviewer, replan_setup, approval | a store; adapters of the engine | modelled |
| Engine bridge (`engine/graph_bridge.go`) | `taskID`, `cancelFn` under `e.mu`; the replan coordinator of a run; the walking state in the snapshot | `StartViaGraph`, `RunViaGraph`, `ResumeViaGraph`, `InterruptWith`, commit boundaries, reviews | walker, store, agent, callbacks | partly |
| Legacy run loop (`engine/plan_execute.go`) | locals of one goroutine: its copy of the plan, index, attempts | `Start`, `RunFromState`, `InterruptWith`, the boundaries | store, agent, hooks | modelled |
| Operators and startup sweeps (`hermes/store.go`) | none | retry / skip / abort of an interrupt, `SweepZombieTasks`, stale interrupts | store | one task |
| Recovery policy (`engine/recovery_policy.go`, `task_retry.go`, `review.go`) | none | which reviews are retried, and how | legacy loop, bridge, agent | partly |
| Issue operations (`issueops/`, `hermes/github.go`) | GitHub issues: body, labels, open or closed | plan section, checklist sync, readiness, closing | `gh` | partly |
| Agent facade (`agent/agent.go`) | `runMu`, `cancelFunc`, model override, last model | `Run`, `Abort`, `Reset`, `SetModelOverride` | CLI client | partly |
| Chat and execution (`engine/execution_state.go`, `chat_context.go`, `session_policy.go`, `heavy_classifier.go`) | execution state, chat state, a session per backend | transitions, session choice, model prediction | agent, bridge | partly |
| CLI client, processes (`client/`, `process/`) | a child process | stream a call, kill it | external CLIs | outcomes |
| Planner (`hermes/planner.go`) | a backend session id | plan with repair retries | CLI client | outcomes |
| Storage, memory, progress (`storage/`, `memory/`, `hermes/progress.go`) | tables, texts, messages | queries, notification | SQLite | no |

The parts meet in one place: **every change of a task's runtime state is a commit**, a batch
of `StateUpdate`s applied to the latest state, together with the `NextStep` a walker is to
dispatch. Walkers, the legacy loop, `InterruptWith`, operators and sweeps all commit to the
same task, from different goroutines, with no lock held from the read to the write.

What is hard about it:

* *Stale commits.* A walker loads a snapshot, runs a node for minutes, and commits. In
  between an operator, an interrupt or a second walker may have committed.
* *Two copies of the plan.* The legacy loop decides on a local copy and writes it back whole,
  while starts, strict retries and operators write the stored one.
* *Two-step interrupts.* `InterruptWith` cancels the goroutine before it records why.
* *Crashes and resumes.* The process may die between any two commits; the next run knows
  the snapshot and nothing else, while some counters live in memory.
* *Loops that must end.* Strict review re-runs sub-tasks and task review replans, each up to
  a bound kept in a different place.
* *Budgets.* Checked between nodes or sub-tasks, charged at several places.
* *The SQLite commit.* Three reads, then a transaction.
* *One decision made twice.* The walking agent decides in two ladders, on two states.
* *A remote document with no version.* Issue bodies are read, edited and written back whole.
* *An agent with three locks and none.* `runMu` serialises runs, `cancelMu` guards
  `cancelFunc`, and `Reset` takes neither.

## Modules

| Module | Models | Kind |
|---|---|---|
| `HermesState` | state, updates, the reducer, the conversions, partial replans | operators |
| `TaskLifecycle` | what a run of a task promises, whichever engine drives it | abstract specification |
| `HermesRuntime` | walkers, nodes, engine, operators, sweeps, crashes over one task; implements `TaskLifecycle` | state machine |
| `PlanExecute` | the legacy loop and `RunFromState` over one task; implements `TaskLifecycle` | state machine |
| `CommitLog` | what `CommitRuntimeStep` promises: each state is the reducer applied to the one before | abstract specification |
| `RuntimeCommit` | both stores' `CommitRuntimeStep`, query by query; implements `CommitLog` under the mutex | state machine |
| `WalkingAgent` | both walking ladders and the runner's session | state machine |
| `IssueOps` | the issue hooks of a task, GitHub, people | state machine |
| `AgentRun` | `Agent.Run` with its callers, sessions and the CLI's answers | state machine |
| `MC...` | sets of records the configurations need | model values |
| `HermesStateProofs`, `HermesRuntimeProofs`, `OneWalkerProofs`, `RuntimeCommitProofs`, `PlanExecuteProofs`, `WalkingAgentProofs`, `IssueOpsProofs`, `AgentRunProofs` | the theorems | proofs |

```
             TaskLifecycle                CommitLog
              ^         ^                     ^
     HermesRuntime  PlanExecute         RuntimeCommit
              \         |                    /
               +--- HermesState ------------+        WalkingAgent   IssueOps   AgentRun
```

`HermesRuntime`, `PlanExecute` and `RuntimeCommit` look at the same commits at two levels. The
first two take `CommitRuntimeStep` as one atomic step, which is what `MemoryTaskStore` gives and
what the interface promises; `RuntimeCommit` shows what that atomicity rests on, and what the
SQLite store does without it. The three modules on the right share no state with a task's
snapshot but what they name: `WalkingAgent` models the field `state.Walking` that `HermesState`
leaves out, `IssueOps` takes "a sub-task is done" from the loop as an input, and `AgentRun` is what
happens inside one model call of a node.

### HermesState

`State` is the part of `HermesState` that routing depends on: status, `CurrentIdx` (0-based as
in the code), the plan, the interrupt, the replan context and `UsedTokens`. A sub-task is its
status, its attempt counter and whether reviewer feedback waits for its next run. `Task` is
the task row: it has no replan context, and of an interrupt only the message id, so reading it
back loses information that `CarryForwardSnapshotFields` restores. `CommitSeed` is that round
trip; it is the identity on states (theorem `CommitSeedIsCurrent`), which is why a commit may
start from a task row at all. The status `""` that the code's transition table allows as a
source never occurs in a stored task and is not modelled.

### TaskLifecycle

Five steps: a planner commits a plan (`NewPlan`), the plan is worked on (`Work`), a resume marks
the task executing (`Resume`), it is done (`Finish`) or it stops (`Stop`). Settled work, a
sub-task that is done or skipped, stays settled within a plan; done requires a plan with every
sub-task resolved; nothing leaves a terminal status. `Work` is allowed after the end, because
a goroutine an interrupt has not reached yet still commits the result of its sub-task.

### HermesRuntime

| Variable | Code |
|---|---|
| `snap` | the latest row of `hermes_snapshots`: state and `NextStep` |
| `run` | one record per goroutine that may be in `Walker.Run`: program counter, whether its context is cancelled, `lastSnapshot`, the review it holds, the replan coordinator |
| `eng` | `PlanExecuteEngine`: whether `taskID` is set, which run `cancelFn` belongs to, whether `InterruptWith` holds `e.mu` |
| `op` | operators between `GetLatestSnapshot` and the commit of `ApplyInterruptResolution` |
| `late` | `MaxWallclockSeconds` has elapsed since `StartedAt` |
| `spent`, `events` | history: tokens the model calls reported; environment events so far |
| `running`, `calls` | the goroutines inside `RunSubTask`; history: executor calls made for each sub-task of the plan |

One iteration of `Walker.Run` is three steps: the context check (`WalkerCtxErr`,
`WalkerCtxOk`), the load with the terminal, interrupt and budget gates (`WalkerLoad`,
`CommitBudgetInterrupt`), and the node with its commit. A node's effects on the outside world
are an answer chosen nondeterministically (a plan of some size, a sub-task that succeeds or
fails, a review verdict, a token count); its commit is applied to whatever `snap` is by then. The
reviewing nodes take two steps, because `runReview` commits its telemetry before the node
commits its decision. The executor takes two as well: `RunSubTask` is the call, `ExecutorRun` its
result and the commit, and a crash, a panic or a fault in between leaves a call that no stored counter
has counted. `InterruptWith` is two steps with `e.mu` held, an operator's resolution
two with nothing held. `Crash` forgets everything but `snap`.

The fault actions are `NodePanic`, `StoreFault` (a load or a node commit fails) and
`BoundaryFault` (an interrupt or failure boundary cannot be written and is only logged).
`Events` selects which of them, and which interruptions, a run includes, and `MaxEvents` how many.

### PlanExecute

| Variable | Code |
|---|---|
| `conf` | the engine's configuration: review mode, `OnSubTaskFailurePause`, `ContinueCh`, task retries, token budget |
| `snap` | the latest snapshot; `GetTask` reads its state |
| `run` | the goroutine of `run` or `RunFromState`: program counter, the local `tasks`, `idx`, strict attempts, the verdict in hand, `attemptIdx`, the preserved sub-tasks |
| `eng` | `taskID` is set; `InterruptWith` holds `e.mu` |
| `late`, `execs`, `events` | the wall clock has run out; history: executor calls, events |

One action per boundary of the loop. `Checked` commits end the loop on an error, `Logged` ones
do not, as in the code; the store may fail either. The program counter names the two gates of an
iteration, which `RunFromState` passes in the other order (`LoopPc`). An interrupt only sets the
flag the context gate reads; a cancelled context inside a sub-task is one way the executor fails.
What differs between the two drivers is guarded by `run.kind`: only `RunFromState` passes over
skipped sub-tasks, only `run` pauses on failures, reviews the task, replans and checks the
task's status on its way out. A failure boundary whose commit fails writes the task row
instead; `GetTask` overlays the snapshot, so the write is not seen and the action leaves `snap`.

### RuntimeCommit

`log` is `hermes_snapshots` in step order, `writer` the calls in progress, `holder` the memory
store's mutex. `ReadTask`, `ReadPrev`, `ReadLatest` and `Insert` are the three reads and the
transaction of `CommitRuntimeStep`; `StepIsFree` is the unique index on (task, step), whose
violation is an error that is not retried. `MaxOpenConns(1)` orders the queries and not the
calls, so other calls run between them. With `Mutex = TRUE` the same steps run under a lock.

### WalkingAgent

`legacy` holds `walkingExecutorModel` and `walkingTokensSeen` of the engine, `graph` the fields of
`state.Walking`, and `driver` says which entry point drives the task, hence which ladder builds the
prompt. Both ladders are kept on the same sequence of calls, so that their agreement
(`MirrorsLegacy`) can be stated as an invariant. `session` is the runner's native session, which is
outside the repository: it is modelled from what `engine/heavy_classifier.go` and the engine ask
of it. A call chooses a model, the tokens it adds, whether it succeeds, and what the strict review
says of it.

### IssueOps

`issue` is the issue on GitHub, `eng` the hooks `onPlanReady`, `onSubTaskDone` and `onDone` with
the body they hold, `case` the issue and plan a behaviour starts from. Two variables are history:
`credit`, the texts that may be ticked, and `fresh`, the texts people touched since the engine read
the body it is to write or to close on. Every `gh` call is a step of its own; a read may fail, and a
write that fails may have been applied. In between people tick, untick and add items, add lines, and
set or remove the blocked label.

A body is a sequence of lines, so that line numbers, plan sections and headings are what they are in
`github.go`: `Stripped` and `InPlanSection` are the two different notions of a plan section the code
has. `stripHermesPlanSections` also takes the line breaks above the section along, so that the heading
that ends it becomes the end of the line above (`Swallowed`, `TakesHeading`; the line is then
`glued`). A body made by leaving lines out is the sequence of the kept ones (`Kept`), its k-th line
the kept line with k of them down to it (`NthLine`).

The code compares texts in two ways. The one that ticks is an input of the model: `covers` of a
sub-task are the items it declares or, if it declares none, those that equal its description or begin
with its first 16 runes (`matchesChecklistItem`), which may be none or several. The one that asks for a
human scores shared words (`scoreChecklistMapping`) and may answer otherwise, so `HumanAsked` leaves
its answer open unless lines are declared.

### AgentRun

| Variable | Code |
|---|---|
| `runMu`, `cancelFunc` | whose `Run` holds the lock, whose context `cancelFunc` cancels |
| `execution`, `chat` | `ExecutionLifecycle` and `ChatContext.CurrentState`; invalid transitions are dropped, as `transitionExecution` does |
| `sessions`, `lastUsedModel`, `override` | a native session per backend; the models |
| `run` | the goroutines in `Run`: program counter, attempt, model, the local session id |
| `lost`, `rejected`, `resumed` | sessions the backend forgot (outside); history |

`Run` is cut where another goroutine may see a difference: taking `runMu`, setting `cancelFunc`
under `cancelMu`, choosing model and session, each stage of the call, the backoff, and the three
deferred functions in the order Go runs them (`Deferred`). The CLI may answer although it was
aborted, because the process can end before it is killed.

## Runs

| Run | Question | Instance |
|---|---|---|
| `Pause` | Can any sequence of pauses, resolutions, interrupts, cancels, crashes, panics, faults and sweeps lose, skip or undo work, and does the walker implement `TaskLifecycle`? | 1 walker, 1 operator, plans of 1-2, 4 events |
| `Concurrent` | Do stale commits of two walkers, two operators and `InterruptWith` reopen a task or lose an interrupt? | 2 walkers, 2 operators, 3 events |
| `Review` | How far over budget, is anything charged twice, does the replan loop keep its bound, does every run return, and does one ever leave the task unattended? | every kind of review verdict, `MaxTaskRetries` 2, partial replans, limit 2 with calls of 0 or 2 tokens, 3 events |
| `Strict` | How often is the executor called for a sub-task, across resumes and crashes between a call and its commit, and does the loop end? | plan of 2, `MaxRetriesPerSub` 2, calls of 0 or 1 tokens, 3 events: resume, crash, panic, store fault, interrupt |
| `PlanExecute` | Does the legacy loop implement `TaskLifecycle`, leave nothing out, count attempts honestly, keep near its budget, end every task it leaves, and return? | six configurations, plans of 1-2, partial replans, 3 events of nine kinds |
| `SqliteCommit` | Does the snapshot history stay a chain without a mutex? | 3 writers, 5 updates, 3 commits |
| `MemoryCommit` | Does the memory store implement `CommitLog`? | 2 writers, 4 commits |
| `WalkingAgent` | Can a slim prompt reach a session that does not know the task, and do the two ladders ever disagree? | 2 models, three drivers, limit 5 with calls of 1 or 3 tokens, 7 calls |
| `IssueSync` | Are only items of done work ticked, is any item lost or changed, is an issue closed early? | issues of 2 items, to which people may add a third, in 4 layouts, 3 events of eight kinds |
| `Agent` | Does an abort reach the run, does a run show, is a rejected session resumed, does every call return? | 2 callers, 2 runs, 3 models of 2 backends, 3 sessions, 2 events |
| `SqliteLostUpdate`, `AgentBusy` | see below | 2 writers; 2 callers |

The bounds are small because the interesting cases need few actors: a stale commit needs two
writers, a skip that runs off the plan one sub-task, partial replanning a plan with one done and
one other sub-task, and the retry loops counters of one and two. Four events are enough to pause,
resolve, resume and be hit by one more fault. The walking watermark is crossed by two calls of
three tokens, and seven calls leave room for a boundary, a failure and a later task behind it. A
session clash needs two models of one backend, a backend switch a third model. The issue
layouts are the ones that move lines: a body without a plan section, with an old one last, on top, and
between the items (where the heading behind it ends up on the line above). One plan has a description
that matches both items and one that matches none, another has two sub-tasks that declare the same item.

The deadlock check is off where nothing has to happen any more: a task at rest, all commits made,
all runs returned. It is on in `WalkingAgent`, where a task can always end.

What the runs leave out is as much a part of what they show:

* `RunEndsParked` is checked without context cancellation, because a planner call that is
  cancelled leaves no record (below), and without store faults and synchronous runs; the number of
  walkers does not matter. `ResolvedPrefix` and `DoneWorkKept` hold with one walker
  only: a second one may commit an older plan.
* `DoneMeansResolved` is checked in `Pause`, without strict review, whose telemetry moves `NextStep`
  (below).
* `NoOvercharge` is checked for task review. A strict review is charged twice (below).
* `AttemptsBounded` counts the calls made, not the stored attempts, and allows one more for each
  event: a call whose commit a crash or a fault prevents is made again, and no counter knows. The
  history `calls` stops at the first call too many (`OneMore`), to keep a loop finite. It is
  checked without operators, whose retry sends the sub-task back however often it has run.
* In `PlanExecute` operators act only while no goroutine drives the task. `ApplyInterruptResolution`
  has no such check, so a resolution written beside a live loop is not covered.
* `OvershootBounded` of `PlanExecute` is claimed when nobody can lift the budget, and allows the calls
  of one gate: the loop checks less often than the walker.
* `WalkingAgent` has `FailurePause = FALSE` and blocking reviews that say something. With either
  changed the properties fail, as described below. `SlimPromptSafe` excepts `RunFromState` and a
  graph task whose process was restarted.
* In `IssueSync` people add lines above the checklist only when sub-tasks declare no line numbers.
  `ChecklistKept` and `ClosedMeansDone` except what people changed since the engine read the body
  (`fresh`): their edit is then lost, or their item left open in a closed issue, and no check
  in the code could prevent it. The issues satisfy
  `ItemsOutlivePlans`, `DeclaredLinesStand` and `AllOrNoneDeclare`, which `InstanceAssumption` has TLC
  evaluate and which the theorems assume. None can be spared: an item behind a plan under a deeper
  heading, or right above a plan that another section follows, breaks `ChecklistKept`; a plan section
  above declared items, or an edited issue with declared lines, breaks `TicksCovered`; a plan where
  some sub-tasks declare lines and others do not breaks `DoneWorkTicked`.
* `Agent` has a client that reports a lost session (`TypedReject`).

### Where the code and its comments disagree

Two runs expect a violation. Each checks one sentence of the repository, quoted in
`PROJECT.json`, that the modelled code does not satisfy:

| Run | The repository says | The model shows |
|---|---|---|
| `SqliteLostUpdate` | a commit applies its updates atomically | a commit that races between the reads drops another one's tokens |
| `AgentBusy` | `IsProcessing` reports whether the agent is running a task | an abort that loses the race with the answer, or hits a backoff, leaves it true after the run has ended, until a later run or a reset |

The models contain further behaviours that a comment contradicts. They have no run of their own;
each can be seen by changing the constant or property named.

In the stores and the graph runtime (`RuntimeCommit`, `HermesRuntime`):

* the race of `SqliteLostUpdate` also overwrites a terminal status (`hermes/state.go:82` calls
  terminal states immutable);
* skipping the last sub-task goes to the executor, which refuses the index and fails the task
  (`engine/graph/approval_node.go:102` routes it to terminal or reviewer);
* every retry but that of a budget resumes at the executor (`engine/graph/runtime.go:377` says the
  cancelled step is dispatched again);
* a cancelled walker replaces a user interrupt by `ctx_cancelled`, message id included
  (`engine/plan_execute.go:1094`), and a sub-task failure pause with its index;
* a strict review's tokens are charged by its telemetry and by the node
  (`engine/graph_bridge.go:810` avoids this for task reviews);
* the telemetry of a strict review moves `NextStep` to the reviewer (`engine/plan_execute.go:1080` says
  telemetry does not advance the workflow), so a crash at that point resumes at the wrong step;
* a retry of the interrupt of a failed task dispatches its sub-tasks, though its status stays failed;
* `ReviewerNode` ends a task with verdict fail, where `engine/task_retry.go:26` promises a retry;
* `MaxTaskRetries = 0` is defaulted to 1 (`engine/task_retry.go:30` says 0 disables retries), which is
  `EffectiveTaskRetries` here;
* a cancelled planner call leaves no record (`engine/graph/runtime.go:215`).

In the legacy loop (`PlanExecute`):

* answering a pause clears whatever interrupt is pending, a user interrupt that came meanwhile
  included (`AnswerPause`); `RunFromState` never clears the interrupt of the pause it resumes over
  (`ResumeCommit`);
* the tokens of a planner call that fails are not charged (`PlanError`);
* a resume that finds the plan complete pays for a review and does not use its verdict
  (`ResumeMarkDone`).

In walking mode (`WalkingAgent`):

* when failures pause the task, the failed call's walking state is not dropped
  (`engine/graph_bridge.go:676`): `FailurePause = TRUE` breaks `SlimPromptSafe`;
* a strict review that blocks without a word walks on in the graph and not in the loop:
  `"blank" \in Feedbacks` breaks `MirrorsLegacy`;
* `RunFromState` neither resets the engine's walking fields nor enables walking on the runner, and a
  graph task resumed after a restart trusts a session that died: both may send a slim prompt to
  an empty session.

In the issue operations (`IssueOps`) and the agent (`AgentRun`):

* a line added above the checklist shifts the declared line numbers, and the items that stand
  there now are ticked (`hermes/github.go:34` promises a fall back to matching texts);
* a mapping that could not be loaded asks for a human decision that nobody reads
  (`LoadMapping`), and a label set between the two calls of `CloseIssue` does not stop it;
* checklist items under a deeper heading behind a plan section are deleted with it, while
  `ExtractChecklist` counts them;
* removing a plan section joins the heading behind it to the line above: `- [ ] a`, the section,
  `## More` becomes `- [ ] a## More`, which changes the item and loses the heading
  (`hermes/github.go:1029` keeps the newline before the heading, but `:1033` to `:1036` cut all those
  above the section): `WithoutPlan`;
* a description longer than 16 runes ticks every item that begins with its first 16
  (`hermes/github.go:705`), and a sub-task the mapping is confident about may tick nothing,
  because the mapping scores shared words (`issueops/checklist_mapping.go:239`): `PreviewLines`, `HumanAsked`;
* `CLIClient` never returns `ErrSessionUnavailable` (`client/client.go:12`), so a sticky session the
  backend lost is resumed for ever: `TypedReject = FALSE`;
* `Run` reads the session id before a switch of models on one backend clears it, and resumes with
  it (`Decide`, `agent/agent.go:346` and `:366`).

`MaxRetriesPerSub` counts runs and not re-runs in the graph; that is documented in
`engine/graph/strict_review_node.go`. It bounds the runs that were committed: `AttemptsBounded`
bounds the calls by it and the events that may leave one uncounted.

## Fairness

* `HermesRuntime`: weak fairness of each walker's own steps and of the second half of
  `InterruptWith`. A goroutine the engine launched is scheduled again; every model call has a
  timeout (`ExecTimeout`, `ReviewTimeout`), so a node answers; and `InterruptWith` runs to its
  deferred unlock.
* `PlanExecute`: the same for the loop's own steps. `BudgetTimeout` is among them, as
  `ContinueTimeout` is 15 minutes when unset. Answering a pause is not: a paused run waits, and `RunReturns`
  says so.
* `IssueOps`: weak fairness of the hooks, whose `gh` calls have a timeout.
* `AgentRun`: weak fairness of each goroutine's steps, as `process.Command` kills a CLI that takes too
  long, and strong fairness of taking `runMu`, as a `sync.Mutex` in starvation mode serves its
  waiters in order.

Operators, resumes, people, faults, aborts and crashes are not fair: nobody has to come. The
answer of a node is not fair either, so `RunReturns` must hold for the reviewer that always
blocks, and it is the counters that end the loops. `RuntimeCommit` and `WalkingAgent` have no
liveness property.

## Proofs

Every invariant and action property that a passing run checks, and all three refinements, are
proved with TLAPS for every value of the constants that satisfies the modules' assumptions and
the hypotheses named here.

| Module | Theorems | Beyond the modules' assumptions |
|---|---|---|
| `HermesStateProofs` | `CommitSeedIsCurrent` | |
| `HermesRuntimeProofs` | `TypeCorrect`, `TerminalStatusIsImmutable`, `InterruptIsDurable` | |
| `OneWalkerProofs` | `PrefixIsResolved`, `DoneWorkIsKept`, `ReplansAreBounded` | `OneWalker`, `OneOperator` |
| | `DoneIsResolved`, `RuntimeKeepsLifecycle` | the same and `~StrictReview` |
| | `NeverOvercharged` | `~StrictReview` |
| | `OvershootIsBounded` | `OneWalker`, `~StrictReview`, some call cost |
| | `RunsEndParked` | `Undisturbed` |
| | `AttemptsAreBounded` | `OneWalker`, no operators |
| `PlanExecuteProofs` | `LoopTypeCorrect`, `LoopAdvancesOverResolved`, `RunLeavesTaskTerminal`, `LoopKeepsLifecycle`, `LoopOvershootBounded`, `AttemptsAreHonest` | |
| `RuntimeCommitProofs` | `CommitTypeCorrect`, `HistoryIsLinear` | |
| | `NoUpdateIsLost`, `MemoryTerminalIsImmutable`, `MemoryImplementsLog` | `Mutex` |
| `WalkingAgentProofs` | `WalkingTypeCorrect`, `SlimPromptsAreSafe`, `GraphMirrorsLegacy` | `AsConfigured` |
| | `SessionIsBounded` | `AsConfigured`, `BoundedCalls` |
| `IssueOpsProofs` | `IssueTypeCorrect`, `ClosedIsDone` | |
| | `ChecklistIsKept` | `ItemsOutlivePlans` |
| | `TicksAreCovered` | `DeclaredLinesStand` |
| | `DoneWorkIsTicked` | `DeclaredLinesStand`, `AllOrNoneDeclare` |
| `AgentRunProofs` | `AgentTypeCorrect`, `AbortAlwaysReaches`, `RunIsVisible`, `RejectedIsNotResumed` | |

The modules' assumptions (`ConfigAssumption`, `LoopAssumption`, `CommitAssumption`,
`WalkingAssumption`, `IssueAssumption`, `AgentAssumption`) give the types of the constants. In
`HermesRuntime` they also say that strict per-sub-task review and task review are not both on,
as `reviewMode` returns one mode, and in `IssueOps` that a plan has a sub-task.

### The reducer and any number of walkers

`HermesStateProofs` shows that the reducer preserves `State`, that `CommitSeed` is the identity on
it, and what a partial replan preserves and merges. The type invariant of `HermesRuntime` is not
inductive alone: an operator's skip indexes the plan it read and a review indexes the plan of its
walker's snapshot. `TypeInv` adds `CandidateInRange`, that both have an index inside the plan they
read. The two action properties then follow from it: a commit changes the status through
`ValidTaskStatusTransition` only, and the interrupt through the reducer applied to a seed which,
by `CommitSeedIsCurrent`, still carries it.

### One walker

`OneWalkerProofs` assumes that one goroutine drives the task, as `StartViaGraph` and
`ResumeViaGraph` mean it to. Two walkers break `ResolvedPrefix` and `DoneWorkKept`, since the
second commits a plan it read before the first one's commit. Its proofs first say what each step
does to the snapshot and the goroutines, field by field, and then argue about those shapes only.
`OneInv` strengthens `TypeInv` by

* `Current`: the snapshot in the hands of a working goroutine has the plan and the index of the
  stored one. It is why a decision on the old snapshot is a decision on the new one;
* `SnapQuiet`, `OpQuiet`: while a pause or an exceeded budget is pending, or an operator is
  answering it, nobody works. It is why an operator's copy of the plan may be written back;
* `Routes`: each step the task may go on with, whether in the snapshot, in a goroutine, in an
  interrupt's `resume` or in an operator's copy, is allowed by the plan: the reviewer follows a
  complete plan only. It is why the reviewer may end a task although it looks at no plan;
* `Unstarted`, `Skippable`, `PausesAt`, `ReplanArmed`: smaller facts of this kind, on tasks without
  a snapshot, skips, failure pauses and the replan coordinator.

With strict review `Routes` fails, because the telemetry of the review moves `NextStep` (above), so
`DoneIsResolved` and `RuntimeKeepsLifecycle`, the refinement of `TaskLifecycle`, exclude it, as the
run does. Four properties have arguments of their own:

* `NeverOvercharged`: no commit charges more than its call reported. Strict review is out
  because it charges twice; `StrictFree` says no stored route leads there;
* `OvershootIsBounded`: `WithinBudget` says that a goroutine inside a node passed the gate with the
  total it still finds, which a second walker could raise;
* `RunsEndParked`: every return of a goroutine that is not stopped is behind a terminal status or a
  pending interrupt. `Undisturbed` leaves out the events that end a run otherwise: a cancelled
  context, a store fault, and a synchronous run, whose errors go back to its caller with no
  failure recorded;
* `AttemptsAreBounded`: `AttInv` bounds the stored attempts: a sub-task ahead of the index has not run
  or is settled (`Ahead`), a replan keeps done work only (`KeptDone`), and no step the task may go on
  with dispatches the executor on a sub-task that has used its runs up (`MayRun`). An operator's retry
  does exactly that, so the theorem is about tasks without one. `CallsInv` ties the calls to the
  attempts: there are no more of them than stored attempts, a call in progress (`Inside`), and the
  events so far. Some of these have not cost a call yet and are owed (`Owed`): an interrupt that is about
  to commit, or one that ended the task under a goroutine whose own commit will be refused (`Overtaken`).

### The legacy loop

`LoopInv` adds to the types `Tracks`, the fact the loop relies on without checking it: while it is
among the sub-tasks of a plan, its local copy and the stored plan have the same length and agree
but for the sub-task that runs; what is behind it is resolved, and what is ahead of `run` is done
or untouched. `Placed` ties the program counter to the index. Without `Tracks` neither the advance
of `CurrentIdx` nor done-means-resolved follows, because the one is decided on the local
copy and the other is about the stored one. One lemma per group of actions shows that the
step keeps `LoopInv` and is allowed by `Progress`, which is the three action properties taken
together; each theorem reads its part off it.

* `LoopOvershootBounded`: `SinceGate` counts the calls since the last budget gate by the program
  counter and the strict attempts, and `BudgetInv` bounds the total by the limit, those calls and
  one call per event. A finite set of costs has a largest one.
* `AttemptsAreHonest`: the sum of the attempt counters is the number of pairs of a sub-task and one
  of its attempts (`AttemptSlots`), so that sums are compared by subset and injection and need
  no induction over the plan. `LedgerInv` says what is owed: a sub-task whose executor call was made
  and not yet counted, once; that local and stored counters agree but for that sub-task; and that
  what a partial replan preserves injects into what was counted before.

### Commits, walking, issues, the agent

* `RuntimeCommitProofs`: `LinearInv` adds that a writer about to insert has read a step no larger
  than the log; the unique index turns that bound into an equality. `SerialInv` adds that at
  most one call is in progress and that what it has read is still current, which is exactly what
  the SQLite store lacks.
* `WalkingAgentProofs` assumes `AsConfigured`: failures do not pause the task and a blocking review
  carries text. `WalkInv` says that for a fresh driver the two states are equal (`LadderInv`) and that
  a remembered model stands for a session of that model that is primed and sound (`SessionInv`).
  `SizeInv` bounds the session by the watermark and one call, which is what a cold call leaves
  uncounted when it resets the watermark; `BoundedCalls` says that there is a largest call.
* `IssueOpsProofs`: the lines of a body after an edit are numbered by rank among the kept ones, an
  order-preserving map, so that items are followed through edits without recursion, and maps of
  successive edits are composed (`AlikeTrans`). `CloseInv` says what each check of `CloseIssue` has
  established, and that the items left since are those people touched. `ChecklistInv` says that
  neither the issue nor the body in the engine's hands has an item that removing a plan section would
  take or change, and that the two are `Alike` but for what people touched since the read. `LinesInv`
  says that a recorded line number is one the planner would record from the body as it is today
  (`Names`), and that all of these are recorded while nothing has gone wrong; `SyncInv` that the final
  sync then edits the body as it is and leaves no covered item unticked.
* `AgentRunProofs`: `RunInv` adds to the types that a goroutine past the lock holds it
  (`Exclusive`), from which `AbortAlwaysReaches` and `RunIsVisible` follow; `SessionInv` adds that no
  stored session, and no session in the hands of a run, was rejected (`SessionsClean`, `RunsClean`).

### Only model-checked

* Every `RunReturns`: liveness under fairness is outside the prover.
* That the hypotheses are needed. The counterexamples beyond them (two walkers, strict review, an
  operator's retry, mixed plans) come from TLC, by changing the constant named.

## Not modelled

* Result texts, accumulated text, artifacts, per-model cost tables, progress callbacks, summaries
  and reporters: nothing in the routing reads them.
* The planner session (`hermes/planner.go`): a sequential retry loop around one model call and its
  parsing. Its outcomes, a plan, an error or a cancellation, are inputs of both engines.
* The walker's `MaxSteps`, which the engine never sets, and `TerminalNode`, which `Run` never
  dispatches; `Agent.runDirect` and the watchdog and planner modes of the recovery policy, which
  nothing calls; the issue transition table, which no caller gates on.
* The legacy row mutators, listings and migrations of the stores, and the callers of the sweeps
  that list several tasks: one statement a call.
* Stream parsing, pipes and the MCP file of the CLI client; statistics, decision logs, routing
  rules and skills of the agent.
* Issue comments, evidence texts, listings and dry runs; `git.go`, one command a call.
* `storage/` and `memory/`: SQL statements and text retrieval with no protocol of their own.

Open ends worth picking up: two resumed runs of one task whose ends overlap
(`clearGraphRunState`); the row mutators that write past the snapshots; and what two walkers still
guarantee of the plan, between `InterruptIsDurable` and `ResolvedPrefix`.
