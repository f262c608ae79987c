---------------------------- MODULE WalkingAgent ----------------------------
(***************************************************************************)
(* Walking mode: consecutive sub-tasks of a task share one native model    *)
(* session, and all but the first get a slim prompt without the goal and   *)
(* the rules.  The decision is made twice, by the legacy loop              *)
(* (PlanExecuteEngine.executeSubTask, engine/plan_execute.go) on fields of *)
(* the engine, and by executorSubTaskRunner (engine/graph_bridge.go) on    *)
(* state.Walking of the snapshot.  Both are kept here on the same calls;   *)
(* the entry point that drives the task says which of them builds the      *)
(* prompt.                                                                 *)
(*                                                                         *)
(* The runner is outside the repository.  What engine/heavy_classifier.go  *)
(* and the engine's comments ask of it: it runs the model the engine       *)
(* predicts; it keeps its session between calls only while walking is      *)
(* enabled, the model stays the same, and ForceFreshSession was not called.*)
(***************************************************************************)
EXTENDS Integers, FiniteSetsExt

CONSTANTS
    Models,            \* ExecutorModel and HeavyExecutorModel
    MaxContextTokens,  \* WalkingAgentMaxContextTokens
    CallTokens,        \* what one call may add to the transcript
    Drivers,           \* entry points, of "run", "resume", "graph"
    FailurePause,      \* ExecutorNode.FailurePauseEnabled
    Feedbacks,         \* what a blocking strict review may say, of "text", "blank"
    MaxCalls           \* bound on the number of calls

NoModel == "none"

ASSUME WalkingAssumption ==
    /\ NoModel \notin Models
    /\ MaxContextTokens \in Nat \ {0}
    /\ CallTokens \subseteq Nat \ {0} /\ CallTokens # {}
    /\ Drivers \subseteq {"run", "resume", "graph"}
    /\ FailurePause \in BOOLEAN
    /\ Feedbacks \subseteq {"text", "blank"}
    /\ MaxCalls \in Nat

VARIABLES
    driver,   \* "idle", or the entry point that runs the task; "restarted", a graph task after a
              \* restart of the process
    legacy,   \* walkingExecutorModel and walkingTokensSeen of the engine
    graph,    \* PrevExecutorModel and TokensSeen of state.Walking
    metrics,  \* what the runner reports of a call: "none", "model", or "cache" tokens too
    session,  \* the runner's session and walking flag (external)
    retry,    \* the next call repeats a sub-task the strict review blocked, and why
    last,     \* history: the last call, its prompt and the session it found
    calls     \* calls so far

vars == <<driver, legacy, graph, metrics, session, retry, last, calls>>

Walk == [prev : Models \cup {NoModel}, seen : Nat]

NoWalk == [prev |-> NoModel, seen |-> 0]

\* primed: a full prompt of the current task is in the transcript; sound: no call failed in it
Session == [on : BOOLEAN, model : Models \cup {NoModel}, primed : BOOLEAN, sound : BOOLEAN,
            size : Nat]

FreshSession == [on |-> FALSE, model |-> NoModel, primed |-> FALSE, sound |-> TRUE, size |-> 0]

NoRetry == [model |-> NoModel, feedback |-> "none"]

Init ==
    /\ driver = "idle"
    /\ legacy = NoWalk /\ graph = NoWalk
    /\ metrics \in {"none", "model", "cache"}
    /\ session = FreshSession
    /\ retry = NoRetry
    /\ last = [by |-> "idle", slim |-> FALSE, primed |-> TRUE, sound |-> TRUE]
    /\ calls = 0

-----------------------------------------------------------------------------
(* The two ladders.  m is what predictExecutorModel answers for the        *)
(* sub-task: ExecutorModel is configured, so it always names a model.      *)

LegacyWalks_AtLimit(m, fb) ==
    /\ legacy.prev = m
    /\ fb = "none"
    /\ legacy.seen <= MaxContextTokens

\* executeSubTask.  buildStrictRetryFeedback always has text, so any retry is cold.
LegacyWalks(m, fb) ==
    /\ legacy.prev = m
    /\ fb = "none"
    /\ legacy.seen < MaxContextTokens

\* decideWalking.  A strict review that blocks without a word leaves no feedback.
GraphWalks(m, fb) ==
    /\ graph.prev = m
    /\ fb # "text"
    /\ graph.seen < MaxContextTokens

\* a model boundary or the watermark drops the engine's fields before the call
LegacyBefore(m, fb) ==
    IF legacy.prev # m \/ (fb = "none" /\ legacy.seen >= MaxContextTokens) THEN NoWalk ELSE legacy

Transcript_Added(w, size, c) == w.seen + size

\* cache_read + cache_creation, or an estimate when the runner does not report them
Transcript(w, size, c) == IF metrics = "cache" THEN size ELSE w.seen + c

Watermark(w, walks, size, c) == IF walks THEN Max({w.seen, Transcript(w, size, c)}) ELSE 0

LegacyAfter_KeepOnError(w, m, walks, size, c, ok) ==
    IF metrics = "none" \/ ~ok THEN w
    ELSE [prev |-> m, seen |-> Watermark(w, walks, size, c)]

\* the update after the call; w is LegacyBefore
LegacyAfter(w, m, walks, size, c, ok) ==
    IF ~ok THEN NoWalk
    ELSE IF metrics = "none" THEN w
    ELSE [prev |-> m, seen |-> Watermark(w, walks, size, c)]

GraphAfter_KeepOnError(m, walks, size, c, ok) ==
    IF ~ok THEN graph
    ELSE [prev |-> IF metrics = "none" THEN graph.prev ELSE m,
          seen |-> Watermark(graph, walks, size, c)]

\* nextWalkingState; outputForApprovalPause, taken by a failure when failures pause the task,
\* does not commit it
GraphAfter(m, walks, size, c, ok) ==
    IF ~ok THEN IF FailurePause THEN graph ELSE NoWalk
    ELSE [prev |-> IF metrics = "none" THEN graph.prev ELSE m,
          seen |-> Watermark(graph, walks, size, c)]

Walks(m, fb) == IF driver \in {"graph", "restarted"} THEN GraphWalks(m, fb) ELSE LegacyWalks(m, fb)

-----------------------------------------------------------------------------
(* Entry and exit *)

\* PlanExecuteEngine.run resets the engine's fields; seedPlannerSnapshot seeds state.Walking.
\* The session may hold an earlier task.
Begin(d) ==
    /\ driver = "idle" /\ d \in {"run", "graph"}
    /\ driver' = d
    /\ legacy' = NoWalk /\ graph' = NoWalk
    /\ session' = [session EXCEPT !.on = TRUE, !.primed = FALSE]
    /\ retry' = NoRetry
    /\ UNCHANGED <<metrics, last, calls>>

\* RunFromState neither resets the fields nor enables walking
BeginResume(d) ==
    /\ driver = "idle" /\ d = "resume"
    /\ driver' = d
    /\ retry' = NoRetry
    /\ UNCHANGED <<legacy, graph, metrics, session, last, calls>>

\* the task ends; run and runViaGraphTask disable walking on their way out
End ==
    /\ driver # "idle"
    /\ driver' = "idle"
    /\ session' = [session EXCEPT !.on = FALSE]
    /\ retry' = NoRetry
    /\ UNCHANGED <<legacy, graph, metrics, last, calls>>

\* the walker halts (a pause, an interrupt) and is launched again on the same snapshot
Halt ==
    /\ driver \in {"graph", "restarted"} /\ session.on
    /\ session' = [session EXCEPT !.on = FALSE]
    /\ UNCHANGED <<driver, legacy, graph, metrics, retry, last, calls>>

Relaunch ==
    /\ driver \in {"graph", "restarted"} /\ ~session.on
    /\ session' = [session EXCEPT !.on = TRUE]
    /\ UNCHANGED <<driver, legacy, graph, metrics, retry, last, calls>>

\* the process dies: state.Walking and the feedback of a retry are durable, the engine's fields
\* and the runner's session are not; ResumeViaGraph relaunches
Restart ==
    /\ driver = "graph"
    /\ driver' = "restarted"
    /\ legacy' = NoWalk
    /\ session' = FreshSession
    /\ UNCHANGED <<graph, metrics, retry, last, calls>>

-----------------------------------------------------------------------------
(* One call of DirectEngine.Run *)

\* the session the runner uses for a call of model m
Found(m, walks) ==
    IF session.on /\ walks /\ session.model = m THEN session
    ELSE [FreshSession EXCEPT !.on = session.on, !.model = m]

\* ok: the call succeeds; then the strict review, if any, accepts or blocks with feedback fb
Call(m, c, ok, fb) ==
    LET walks == Walks(m, retry.feedback)
        found == Found(m, walks)
        size  == found.size + c
    IN  /\ driver # "idle" /\ (driver # "resume" => session.on) /\ calls < MaxCalls
        /\ retry.model \in {m, NoModel}
        /\ session' = [found EXCEPT !.primed = @ \/ ~walks, !.sound = @ /\ ok, !.size = size]
        /\ legacy' = LegacyAfter(LegacyBefore(m, retry.feedback), m, walks, size, c, ok)
        /\ graph' = GraphAfter(m, walks, size, c, ok)
        /\ retry' = IF ok /\ fb # "none" THEN [model |-> m, feedback |-> fb] ELSE NoRetry
        /\ last' = [by |-> driver, slim |-> walks, primed |-> found.primed, sound |-> found.sound]
        /\ calls' = calls + 1
        /\ UNCHANGED <<driver, metrics>>

Next ==
    \/ \E d \in Drivers : Begin(d) \/ BeginResume(d)
    \/ End \/ Halt \/ Relaunch \/ Restart
    \/ \E m \in Models, c \in CallTokens, ok \in BOOLEAN, fb \in Feedbacks \cup {"none"} :
          Call(m, c, ok, fb)

Spec == Init /\ [][Next]_vars

-----------------------------------------------------------------------------
(* Properties *)

\* Engine fields, snapshot and session hold values of their Go types; a watermark never
\* counts more than the session it stands for holds.
TypeOK ==
    /\ driver \in Drivers \cup {"idle", "restarted"}
    /\ {legacy, graph} \subseteq Walk
    /\ driver \in {"run", "graph"} => Max({legacy.seen, graph.seen}) <= session.size
    /\ metrics \in {"none", "model", "cache"}
    /\ session \in Session
    /\ retry \in [model : Models \cup {NoModel}, feedback : Feedbacks \cup {"none"}]
    /\ last \in [by : Drivers \cup {"idle", "restarted"}, slim : BOOLEAN, primed : BOOLEAN, sound : BOOLEAN]
    /\ calls \in 0..MaxCalls

\* A slim prompt, which has neither the goal nor the rules, goes only to a session that got
\* a full prompt of this task, and never to one whose last call failed, whatever the model
\* boundaries, failures, retries, halts and earlier tasks.  Two drivers are excepted, see the
\* README: RunFromState walks on a runner whose walking flag is off, and a restarted graph
\* task walks on a session that died with the process.
SlimPromptSafe == last.slim /\ last.by \notin {"resume", "restarted"} => last.primed /\ last.sound

\* The watermark bounds the session although a cold call resets it to zero while its own
\* transcript stays: a session exceeds the limit by at most two calls, one if the runner
\* reports cache tokens and no call alone exceeds it.
ContextBounded ==
    LET call == Max(CallTokens) IN
    session.size <= IF metrics = "cache" THEN Max({MaxContextTokens - 1, call}) + call
                                         ELSE MaxContextTokens - 1 + 2 * call

\* graph_bridge.go: decideWalking mirrors the original ladder so that behaviour matches
\* Run(): after any history of calls driven by either, both decide alike for every model.
MirrorsLegacy ==
    driver \in {"run", "graph"} =>
        \A m \in Models : LegacyWalks(m, retry.feedback) = GraphWalks(m, retry.feedback)

=============================================================================
