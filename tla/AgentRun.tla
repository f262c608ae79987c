------------------------------ MODULE AgentRun ------------------------------
(***************************************************************************)
(* Agent.Run (agent/agent.go): one streaming call of a CLI with retries,   *)
(* serialised by runMu, aborted through cancelFunc, reported through the   *)
(* execution lifecycle (engine/execution_state.go) and the chat state, and *)
(* continued over native CLI sessions (engine/chat_context.go,             *)
(* engine/session_policy.go).                                              *)
(*                                                                         *)
(* The CLI process is outside.  It answers with a response, with an error  *)
(* that carries a response or not, or not at all once its context is       *)
(* cancelled; it may forget a session at any time.  cliTimeoutMinutes is   *)
(* never set, so a context ends by Abort only.                             *)
(***************************************************************************)
EXTENDS Integers, FiniteSets

CONSTANTS
    Callers,      \* goroutines that call Run
    Models,       \* models a run may be routed to
    Backend,      \* BackendKindForModel
    SessionIds,   \* native session ids
    Issuer,       \* the backend that issues a session id
    Sticky,       \* stickySession
    TypedReject,  \* the client reports a lost session as ErrSessionUnavailable
    MaxRuns,      \* bound on calls of Run
    MaxEvents     \* bound on aborts, resets, overrides and lost sessions

NoCaller == "nobody"
NoModel == "none"
NoSession == "none"

ASSUME AgentAssumption ==
    /\ NoCaller \notin Callers /\ NoModel \notin Models /\ NoSession \notin SessionIds
    /\ DOMAIN Backend = Models
    /\ Issuer \in [SessionIds -> {Backend[m] : m \in Models}]
    /\ Sticky \in BOOLEAN /\ TypedReject \in BOOLEAN
    /\ MaxRuns \in Nat /\ MaxEvents \in Nat

VARIABLES
    runMu,          \* the goroutine that holds runMu
    cancelFunc,     \* whose context cancelFunc cancels
    execution,      \* state of the ExecutionLifecycle
    chat,           \* ChatContext.CurrentState
    sessions,       \* ChatContext.Sessions
    lastUsedModel,
    override,       \* currentModelOverride
    run,            \* the goroutines in Run
    lost,           \* sessions the backend no longer has (external)
    rejected,       \* history: sessions a call was told are unavailable
    resumed,        \* history: the session id the latest CLI call was given
    runs, events

agent == <<cancelFunc, execution, chat, sessions, lastUsedModel, override>>
vars == <<runMu, agent, run, lost, rejected, resumed, runs, events>>

MaxRetries == 2

Backends == {Backend[m] : m \in Models}

ExecutionStates ==
    {"idle", "starting", "streaming", "retrying", "cancelling", "succeeded", "failed", "cancelled"}

Terminal == {"succeeded", "failed", "cancelled"}

Processing == ExecutionStates \ (Terminal \cup {"idle"})

\* where a goroutine is after it took runMu and set its cancelFunc, and before it returns
InFlight == {"decide", "stream", "call", "fallback", "wait"}

NoRun == [pc |-> "out", attempt |-> 0, model |-> NoModel, sid |-> NoSession,
          cancelled |-> FALSE, final |-> "idle"]

Init ==
    /\ runMu = NoCaller /\ cancelFunc = NoCaller
    /\ execution = "idle" /\ chat = "idle"
    /\ sessions = [b \in Backends |-> NoSession]
    /\ lastUsedModel = NoModel /\ override = NoModel
    /\ run = [c \in Callers |-> NoRun]
    /\ lost = {} /\ rejected = {} /\ resumed = NoSession
    /\ runs = 0 /\ events = 0

-----------------------------------------------------------------------------
(* The execution lifecycle and the chat state *)

\* a finished execution has to pass through idle
ValidExecutionStateTransition_ViaIdle(from, to) ==
    \/ from = to
    \/ from = "idle" /\ to = "starting"
    \/ from = "starting" /\ to \in {"streaming", "cancelling", "failed"}
    \/ from = "streaming" /\ to \in {"retrying", "cancelling", "succeeded", "failed"}
    \/ from = "retrying" /\ to \in {"streaming", "cancelling", "failed"}
    \/ from = "cancelling" /\ to \in {"cancelled", "failed"}
    \/ from \in Terminal /\ to = "idle"

ValidExecutionStateTransition(from, to) ==
    \/ from = to
    \/ from = "idle" /\ to = "starting"
    \/ from = "starting" /\ to \in {"streaming", "cancelling", "failed"}
    \/ from = "streaming" /\ to \in {"retrying", "cancelling", "succeeded", "failed"}
    \/ from = "retrying" /\ to \in {"streaming", "cancelling", "failed"}
    \/ from = "cancelling" /\ to \in {"cancelled", "failed"}
    \/ from \in Terminal /\ to \in {"idle", "starting"}

Moved(from, to) == IF ValidExecutionStateTransition(from, to) THEN to ELSE from

\* transitionExecution: an invalid transition is dropped; streaming is tried again over starting
Transition(to) ==
    IF to = "streaming" /\ ~ValidExecutionStateTransition(execution, to)
    THEN Moved(Moved(execution, "starting"), "streaming")
    ELSE Moved(execution, to)

ValidChatStateTransition(from, to) ==
    \/ from = to
    \/ from = "idle" /\ to \in {"busy", "awaiting_input"}
    \/ from = "busy" /\ to \in {"awaiting_input", "idle"}
    \/ from = "awaiting_input" /\ to \in {"busy", "idle"}

-----------------------------------------------------------------------------
(* Sessions *)

SetSession(s, b, sid) == IF sid = NoSession THEN s ELSE [s EXCEPT ![b] = sid]

ClearSession(s, b) == [s EXCEPT ![b] = NoSession]

\* activeStickyModel and activeContinuationModel, but for their flags
ActiveModel(s, last) ==
    IF last # NoModel /\ s[Backend[last]] # NoSession THEN last ELSE NoModel

\* expireIdleStickySession drops the session and the model
Expires(idle) == idle /\ Sticky /\ ActiveModel(sessions, lastUsedModel) # NoModel

\* DecideSessionRun: override, sticky model, follow-up, route
SelectedModel(s, last, followUp, routed) ==
    IF override # NoModel THEN override
    ELSE IF (Sticky \/ followUp) /\ ActiveModel(s, last) # NoModel THEN last
    ELSE routed

-----------------------------------------------------------------------------
(* Agent.Run *)

Enter(c) ==
    /\ run[c].pc = "out" /\ runs < MaxRuns
    /\ run' = [run EXCEPT ![c].pc = "waiting"]
    /\ runs' = runs + 1
    /\ UNCHANGED <<runMu, agent, lost, rejected, resumed, events>>

Lock(c) ==
    /\ run[c].pc = "waiting" /\ runMu = NoCaller
    /\ runMu' = c
    /\ run' = [run EXCEPT ![c].pc = "locked"]
    /\ UNCHANGED <<agent, lost, rejected, resumed, runs, events>>

\* under cancelMu
Start(c) ==
    /\ run[c].pc = "locked"
    /\ cancelFunc' = c
    /\ execution' = Transition("starting")
    /\ run' = [run EXCEPT ![c] = [NoRun EXCEPT !.pc = "decide"]]
    /\ UNCHANGED <<runMu, chat, sessions, lastUsedModel, override, lost, rejected, resumed,
                   runs, events>>

\* The session id is read before a switch of models on one backend clears the session, and it
\* is the one the call resumes.
Decide(c, routed, followUp, idle) ==
    LET last   == IF Expires(idle) THEN NoModel ELSE lastUsedModel
        kept   == IF Expires(idle) THEN ClearSession(sessions, Backend[lastUsedModel])
                                   ELSE sessions
        model  == SelectedModel(kept, last, followUp, routed)
        switch == last \notin {model, NoModel} /\ Backend[last] = Backend[model]
    IN  /\ run[c].pc = "decide"
        /\ chat' = IF ValidChatStateTransition(chat, "busy") THEN "busy" ELSE chat
        /\ sessions' = IF switch THEN ClearSession(kept, Backend[model]) ELSE kept
        /\ lastUsedModel' = model
        /\ run' = [run EXCEPT ![c].pc = "stream", ![c].model = model,
                              ![c].sid = kept[Backend[model]]]
        /\ UNCHANGED <<runMu, cancelFunc, execution, override, lost, rejected, resumed, runs,
                       events>>

Stream(c) ==
    /\ run[c].pc = "stream"
    /\ execution' = Transition("streaming")
    /\ run' = [run EXCEPT ![c].pc = "call"]
    /\ resumed' = run[c].sid
    /\ UNCHANGED <<runMu, cancelFunc, chat, sessions, lastUsedModel, override, lost, rejected,
                   runs, events>>

Calling(c) == run[c].pc \in {"call", "fallback"}

\* the CLI ends the call with a response that carries sid, or with none, NoSession
Answers(c, sid) ==
    /\ Calling(c)
    /\ sid # NoSession => sid \notin lost /\ Issuer[sid] = Backend[run[c].model]

\* the call was given a session the backend no longer has
Doomed(c) == run[c].pc = "call" /\ run[c].sid \in lost

Return(c, final) == run' = [run EXCEPT ![c].pc = "chat", ![c].final = final]

Answer(c, sid) ==
    /\ sessions' = SetSession(sessions, Backend[run[c].model], sid)
    /\ UNCHANGED <<runMu, cancelFunc, chat, lastUsedModel, override, lost, rejected, resumed,
                   runs, events>>

\* also possible after an abort: the process may have ended before it was killed
Succeed(c, sid, final) ==
    /\ Answers(c, sid) /\ ~Doomed(c)
    /\ execution' = Transition("succeeded")
    /\ Return(c, final)
    /\ Answer(c, sid)

Retryable_Inclusive(attempt) == attempt <= MaxRetries

\* DecideRecovery of a transient error
Retryable(attempt) == attempt < MaxRetries

NextAttempt_Same(attempt) == attempt

NextAttempt(attempt) == attempt + 1

FailTransient(c, sid) ==
    /\ Answers(c, sid) /\ ~(Doomed(c) /\ TypedReject) /\ Retryable(run[c].attempt)
    /\ execution' = Transition("retrying")
    /\ run' = [run EXCEPT ![c].pc = "wait", ![c].attempt = NextAttempt(@),
                          ![c].sid = IF sid = NoSession THEN @ ELSE sid]
    /\ Answer(c, sid)

\* a terminal error, or a transient one after the last attempt
FailTerminal(c, sid) ==
    /\ Answers(c, sid) /\ ~(Doomed(c) /\ TypedReject)
    /\ execution' = Transition("failed")
    /\ Return(c, "idle")
    /\ Answer(c, sid)

\* CallStream: "agent aborted by user", without a response
Aborted(c) ==
    /\ Calling(c) /\ run[c].cancelled
    /\ execution' = Transition("cancelled")
    /\ Return(c, "idle")
    /\ Answer(c, NoSession)

\* the sessions and the id of the run after ErrSessionUnavailable
AfterReject_Kept(c) == [sessions |-> sessions, sid |-> NoSession]

AfterReject(c) ==
    [sessions |-> ClearSession(sessions, Backend[run[c].model]), sid |-> NoSession]

\* callStreamWithResumeBridge calls again without a session
Reject(c) ==
    /\ Doomed(c) /\ TypedReject
    /\ sessions' = AfterReject(c).sessions
    /\ run' = [run EXCEPT ![c].pc = "fallback", ![c].sid = AfterReject(c).sid]
    /\ rejected' = rejected \cup {run[c].sid}
    /\ resumed' = NoSession
    /\ UNCHANGED <<runMu, cancelFunc, execution, chat, lastUsedModel, override, lost, runs,
                   events>>

\* the backoff elapses
RetryTimer(c) ==
    /\ run[c].pc = "wait"
    /\ run' = [run EXCEPT ![c].pc = "stream"]
    /\ UNCHANGED <<runMu, agent, lost, rejected, resumed, runs, events>>

\* Run returns ctx.Err() from the backoff and leaves the execution lifecycle as it is
RetryCancelled(c) ==
    /\ run[c].pc = "wait" /\ run[c].cancelled
    /\ Return(c, "idle")
    /\ UNCHANGED <<runMu, agent, lost, rejected, resumed, runs, events>>

Deferred_UnlockFirst == [chat |-> "unlock", unlock |-> "cleanup", cleanup |-> "out"]

\* what Run deferred, last first
Deferred == [chat |-> "cleanup", cleanup |-> "unlock", unlock |-> "out"]

Leave(c) ==
    LET pc == run[c].pc IN
    /\ pc \in DOMAIN Deferred
    /\ chat' = IF pc = "chat" /\ ValidChatStateTransition(chat, run[c].final)
               THEN run[c].final ELSE chat
    /\ cancelFunc' = IF pc = "cleanup" THEN NoCaller ELSE cancelFunc
    /\ runMu' = IF pc = "unlock" THEN NoCaller ELSE runMu
    /\ run' = [run EXCEPT ![c] = IF Deferred[pc] = "out" THEN NoRun
                                 ELSE [@ EXCEPT !.pc = Deferred[pc]]]
    /\ UNCHANGED <<execution, sessions, lastUsedModel, override, lost, rejected, resumed, runs,
                   events>>

-----------------------------------------------------------------------------
(* Everybody else *)

\* Agent.Abort, under cancelMu
Abort ==
    /\ cancelFunc # NoCaller /\ events < MaxEvents
    /\ execution' = Transition("cancelling")
    /\ run' = [run EXCEPT ![cancelFunc].cancelled = TRUE]
    /\ cancelFunc' = NoCaller
    /\ events' = events + 1
    /\ UNCHANGED <<runMu, chat, sessions, lastUsedModel, override, lost, rejected, resumed, runs>>

SetModelOverride(m) ==
    /\ events < MaxEvents
    /\ override' = m
    /\ events' = events + 1
    /\ UNCHANGED <<runMu, cancelFunc, execution, chat, sessions, lastUsedModel, run, lost,
                   rejected, resumed, runs>>

\* Reset and ClearSession take no lock and may come in the middle of a run
Reset ==
    /\ events < MaxEvents
    /\ sessions' = [b \in Backends |-> NoSession]
    /\ override' = NoModel
    /\ lastUsedModel' = NoModel
    /\ events' = events + 1
    /\ UNCHANGED <<runMu, cancelFunc, execution, chat, run, lost, rejected, resumed, runs>>

\* the backend forgets a session
Lose(sid) ==
    /\ events < MaxEvents
    /\ lost' = lost \cup {sid}
    /\ events' = events + 1
    /\ UNCHANGED <<runMu, agent, run, rejected, resumed, runs>>

Call(c) ==
    \/ \E sid \in SessionIds \cup {NoSession} :
          \/ \E final \in {"idle", "awaiting_input"} : Succeed(c, sid, final)
          \/ FailTransient(c, sid)
          \/ FailTerminal(c, sid)
    \/ Aborted(c)
    \/ Reject(c)

Step(c) ==
    \/ Start(c)
    \/ \E routed \in Models, followUp, idle \in BOOLEAN : Decide(c, routed, followUp, idle)
    \/ Stream(c) \/ Call(c) \/ RetryTimer(c) \/ RetryCancelled(c) \/ Leave(c)

Next ==
    \/ \E c \in Callers : Enter(c) \/ Lock(c) \/ Step(c)
    \/ Abort \/ Reset
    \/ \E m \in Models : SetModelOverride(m)
    \/ \E sid \in SessionIds \ lost : Lose(sid)

Spec == Init /\ [][Next]_vars

\* A goroutine in Run goes on, and process.Command kills a CLI that takes too long, so every
\* call ends.  A sync.Mutex in starvation mode serves its waiters in order.
Fairness == \A c \in Callers : WF_vars(Step(c)) /\ SF_vars(Lock(c))

FairSpec == Spec /\ Fairness

-----------------------------------------------------------------------------
(* Properties *)

Run == [pc : InFlight \cup DOMAIN Deferred \cup {"out", "waiting", "locked"},
        attempt : 0..MaxRetries, model : Models \cup {NoModel},
        sid : SessionIds \cup {NoSession}, cancelled : BOOLEAN,
        final : {"idle", "awaiting_input"}]

\* The agent's fields hold values of their Go types, and a run makes at most MaxRetries + 1
\* attempts.
TypeOK ==
    /\ {runMu, cancelFunc} \subseteq Callers \cup {NoCaller}
    /\ execution \in ExecutionStates
    /\ chat \in {"idle", "busy", "awaiting_input"}
    /\ sessions \in [Backends -> SessionIds \cup {NoSession}]
    /\ {lastUsedModel, override} \subseteq Models \cup {NoModel}
    /\ run \in [Callers -> Run]
    /\ lost \subseteq SessionIds /\ rejected \subseteq lost
    /\ resumed \in SessionIds \cup {NoSession}
    /\ runs \in 0..MaxRuns /\ events \in 0..MaxEvents

\* Abort reaches the run in flight: whatever an earlier run still has to clean up, as long as
\* a run was not aborted cancelFunc is its own.  Run sets the function under runMu but clears
\* it from a deferred call.
AbortReaches ==
    \A c \in Callers : run[c].pc \in InFlight /\ ~run[c].cancelled => cancelFunc = c

\* A run in flight shows: IsProcessing answers true from the start of a run to its end, through
\* retries, aborts at any point and the states that earlier runs left behind, and the chat is
\* busy while the CLI works.
BusyVisible ==
    \A c \in Callers :
        /\ run[c].pc \in InFlight => execution \in Processing
        /\ run[c].pc \in InFlight \ {"decide"} => chat = "busy"

\* A session that the CLI reported unavailable is never resumed again, neither by the retries
\* of the same run nor by a later run, whatever came of the fresh call that replaced it.
RejectedNotResumed == resumed \notin rejected

\* Every call of Run returns: at most MaxRetries retries, and no run keeps the others waiting.
RunReturns == \A c \in Callers : run[c].pc = "waiting" ~> run[c].pc = "out"

\* agent.go: "IsProcessing reports whether the agent is running a task": with no run between
\* its start and its end, it answers false.
IdleNotProcessing == runMu = NoCaller => execution \notin Processing

=============================================================================
