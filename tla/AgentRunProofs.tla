--------------------------- MODULE AgentRunProofs ---------------------------
(***************************************************************************)
(* Proofs about AgentRun, for every number of callers, runs, retries of    *)
(* Abort, models, backends and sessions.                                   *)
(***************************************************************************)
EXTENDS AgentRun, TLAPS

USE AgentAssumption DEF NoCaller, NoModel, NoSession

LEMMA DeferredValues ==
    /\ DOMAIN Deferred = {"chat", "cleanup", "unlock"}
    /\ Deferred["chat"] = "cleanup" /\ Deferred["cleanup"] = "unlock" /\ Deferred["unlock"] = "out"
  BY DEF Deferred

\* what each field of a goroutine's record may be set to
LEMMA RunFields ==
    ASSUME NEW r \in Run
    PROVE  /\ \A pc \in InFlight \cup DOMAIN Deferred \cup {"out", "waiting", "locked"} :
                 [r EXCEPT !.pc = pc] \in Run
           /\ \A n \in 0..MaxRetries : [r EXCEPT !.attempt = n] \in Run
           /\ \A m \in Models : [r EXCEPT !.model = m] \in Run
           /\ \A s \in SessionIds \cup {NoSession} : [r EXCEPT !.sid = s] \in Run
           /\ [r EXCEPT !.cancelled = TRUE] \in Run
           /\ \A f \in {"idle", "awaiting_input"} : [r EXCEPT !.final = f] \in Run
  BY DEF Run

LEMMA NoRunType == NoRun \in Run /\ [NoRun EXCEPT !.pc = "decide"] \in Run
<1>1. NoRun \in Run
  BY DEF NoRun, Run, MaxRetries
<1> QED
  BY <1>1, RunFields DEF InFlight

LEMMA TransitionType ==
    ASSUME execution \in ExecutionStates, NEW to \in ExecutionStates
    PROVE  Transition(to) \in ExecutionStates
  BY DEF Transition, Moved, ExecutionStates

LEMMA SessionsType ==
    ASSUME NEW s \in [Backends -> SessionIds \cup {NoSession}], NEW b \in Backends,
           NEW sid \in SessionIds \cup {NoSession}
    PROVE  /\ SetSession(s, b, sid) \in [Backends -> SessionIds \cup {NoSession}]
           /\ ClearSession(s, b) \in [Backends -> SessionIds \cup {NoSession}]
  BY DEF SetSession, ClearSession
-----------------------------------------------------------------------------
(* Type correctness *)

LEMMA InitTyped == Init => TypeOK
  BY NoRunType DEF Init, TypeOK, ExecutionStates

\* what Succeed, FailTransient, FailTerminal and Aborted have in common
LEMMA AnswerType ==
    ASSUME TypeOK, NEW c \in Callers, NEW sid \in SessionIds \cup {NoSession}, Answer(c, sid),
           run[c].model \in Models
    PROVE  /\ sessions' \in [Backends -> SessionIds \cup {NoSession}]
           /\ UNCHANGED <<runMu, cancelFunc, chat, lastUsedModel, override, lost, rejected,
                          resumed, runs, events>>
<1>1. Backend[run[c].model] \in Backends
  BY DEF Backends
<1>2. SetSession(sessions, Backend[run[c].model], sid) \in [Backends -> SessionIds \cup {NoSession}]
  BY <1>1, SessionsType DEF TypeOK
<1> QED
  BY <1>2 DEF Answer

LEMMA ReturnType ==
    ASSUME TypeOK, NEW c \in Callers, NEW final \in {"idle", "awaiting_input"}, Return(c, final)
    PROVE  run' \in [Callers -> Run]
<1>1. run[c] \in Run
  BY DEF TypeOK
<1>2. [run[c] EXCEPT !.pc = "chat"] \in Run
  BY <1>1, RunFields, DeferredValues
<1>3. [[run[c] EXCEPT !.pc = "chat"] EXCEPT !.final = final] \in Run
  BY <1>2, RunFields
<1>4. run' = [run EXCEPT ![c] = [[run[c] EXCEPT !.pc = "chat"] EXCEPT !.final = final]]
  BY <1>1 DEF Return, TypeOK, Run
<1> QED
  BY <1>3, <1>4 DEF TypeOK

\* a goroutine that streams or calls has chosen its model
ModelChosen ==
    \A c \in Callers : run[c].pc \in {"stream", "call", "fallback", "wait"} => run[c].model \in Models

TypeInv == TypeOK /\ ModelChosen

LEMMA DecideType ==
    ASSUME TypeInv, NEW c \in Callers, NEW routed \in Models, NEW followUp \in BOOLEAN,
           NEW idle \in BOOLEAN, Decide(c, routed, followUp, idle)
    PROVE  TypeInv'
<1> DEFINE last   == IF Expires(idle) THEN NoModel ELSE lastUsedModel
           kept   == IF Expires(idle) THEN ClearSession(sessions, Backend[lastUsedModel])
                                      ELSE sessions
           model  == SelectedModel(kept, last, followUp, routed)
           switch == last \notin {model, NoModel} /\ Backend[last] = Backend[model]
<1>1. last \in Models \cup {NoModel}
  BY DEF TypeInv, TypeOK
<1>2. Expires(idle) => lastUsedModel \in Models
  BY DEF Expires, ActiveModel, TypeInv, TypeOK
<1>3. kept \in [Backends -> SessionIds \cup {NoSession}]
  <2>1. Expires(idle) => Backend[lastUsedModel] \in Backends
    BY <1>2 DEF Backends
  <2> QED
    BY <2>1, SessionsType DEF TypeInv, TypeOK
<1>4. model \in Models
  BY <1>1 DEF SelectedModel, ActiveModel, TypeInv, TypeOK
<1>5. Backend[model] \in Backends
  BY <1>4 DEF Backends
<1>6. sessions' = IF switch THEN ClearSession(kept, Backend[model]) ELSE kept
  BY DEF Decide
<1>7. sessions' \in [Backends -> SessionIds \cup {NoSession}]
  BY <1>3, <1>5, <1>6, SessionsType
<1>8. run[c] \in Run
  BY DEF TypeInv, TypeOK
<1> DEFINE r == [[[run[c] EXCEPT !.pc = "stream"] EXCEPT !.model = model] EXCEPT !.sid = kept[Backend[model]]]
<1>9. r \in Run
  <2>1. [run[c] EXCEPT !.pc = "stream"] \in Run
    BY <1>8, RunFields DEF InFlight
  <2>2. [[run[c] EXCEPT !.pc = "stream"] EXCEPT !.model = model] \in Run
    BY <1>4, <2>1, RunFields
  <2>3. kept[Backend[model]] \in SessionIds \cup {NoSession}
    BY <1>3, <1>5
  <2> QED
    BY <2>2, <2>3, RunFields
<1>10. run' = [run EXCEPT ![c] = r]
  BY <1>8 DEF Decide, TypeInv, TypeOK, Run
<1>11. run' \in [Callers -> Run]
  BY <1>9, <1>10 DEF TypeInv, TypeOK
<1>12. lastUsedModel' = model
  BY DEF Decide
<1>13. TypeOK'
  BY <1>4, <1>7, <1>11, <1>12 DEF Decide, TypeInv, TypeOK
<1>14. r.model = model
  BY <1>8 DEF Run
<1>15. ModelChosen'
  BY <1>4, <1>10, <1>14 DEF ModelChosen, TypeInv, TypeOK
<1> QED
  BY <1>13, <1>15 DEF TypeInv

\* an action that replaces the record of one goroutine by r
LEMMA RunReplaced ==
    ASSUME TypeInv, NEW c \in Callers, NEW r \in Run, run' = [run EXCEPT ![c] = r],
           r.pc \in {"stream", "call", "fallback", "wait"} => r.model \in Models
    PROVE  run' \in [Callers -> Run] /\ ModelChosen'
  BY DEF TypeInv, TypeOK, ModelChosen

LEMMA TypeStep == TypeInv /\ [Next]_vars => TypeInv'
<1> SUFFICES ASSUME TypeInv, [Next]_vars PROVE TypeInv'
  OBVIOUS
<1> USE DEF TypeInv
<1>1. ASSUME NEW c \in Callers, Enter(c) PROVE TypeInv'
  <2>1. run[c] \in Run /\ [run[c] EXCEPT !.pc = "waiting"] \in Run
    BY RunFields DEF TypeOK
  <2>2. run' = [run EXCEPT ![c] = [run[c] EXCEPT !.pc = "waiting"]]
    BY <1>1 DEF Enter, TypeOK
  <2>3. run' \in [Callers -> Run] /\ ModelChosen'
    BY <2>1, <2>2, RunReplaced DEF Run
  <2> QED
    BY <1>1, <2>3 DEF Enter, agent, TypeOK
<1>2. ASSUME NEW c \in Callers, Lock(c) PROVE TypeInv'
  <2>1. run[c] \in Run /\ [run[c] EXCEPT !.pc = "locked"] \in Run
    BY RunFields DEF TypeOK
  <2>2. run' = [run EXCEPT ![c] = [run[c] EXCEPT !.pc = "locked"]]
    BY <1>2 DEF Lock, TypeOK
  <2>3. run' \in [Callers -> Run] /\ ModelChosen'
    BY <2>1, <2>2, RunReplaced DEF Run
  <2> QED
    BY <1>2, <2>3 DEF Lock, agent, TypeOK
<1>3. ASSUME NEW c \in Callers, Start(c) PROVE TypeInv'
  <2>1. run' = [run EXCEPT ![c] = [NoRun EXCEPT !.pc = "decide"]]
    BY <1>3 DEF Start
  <2>2. run' \in [Callers -> Run] /\ ModelChosen'
    BY <2>1, NoRunType, RunReplaced DEF NoRun
  <2>3. execution' \in ExecutionStates
    BY <1>3, TransitionType DEF Start, TypeOK, ExecutionStates
  <2> QED
    BY <1>3, <2>2, <2>3 DEF Start, TypeOK
<1>4. ASSUME NEW c \in Callers, Stream(c) PROVE TypeInv'
  <2>1. run[c] \in Run /\ [run[c] EXCEPT !.pc = "call"] \in Run /\ run[c].model \in Models
    BY <1>4, RunFields DEF TypeOK, InFlight, Stream, ModelChosen
  <2>2. run' = [run EXCEPT ![c] = [run[c] EXCEPT !.pc = "call"]]
    BY <1>4 DEF Stream, TypeOK
  <2>3. run' \in [Callers -> Run] /\ ModelChosen'
    BY <2>1, <2>2, RunReplaced DEF Run
  <2>4. execution' \in ExecutionStates
    BY <1>4, TransitionType DEF Stream, TypeOK, ExecutionStates
  <2>5. resumed' \in SessionIds \cup {NoSession}
    BY <1>4, <2>1 DEF Stream, Run
  <2> QED
    BY <1>4, <2>3, <2>4, <2>5 DEF Stream, TypeOK
<1>5. ASSUME NEW c \in Callers, NEW sid \in SessionIds \cup {NoSession}, Answer(c, sid),
             NEW final \in {"idle", "awaiting_input"}, Return(c, final), Calling(c),
             NEW to \in ExecutionStates, execution' = Transition(to)
      PROVE  TypeInv'
  <2>1. run[c].model \in Models
    BY <1>5 DEF Calling, ModelChosen
  <2>2. run' \in [Callers -> Run]
    BY <1>5, ReturnType
  <2>3. ModelChosen'
    BY <1>5 DEF Return, ModelChosen, TypeOK, Run
  <2>4. execution' \in ExecutionStates
    BY <1>5, TransitionType DEF TypeOK
  <2> QED
    BY <1>5, <2>1, <2>2, <2>3, <2>4, AnswerType DEF TypeOK
<1>6. ASSUME NEW c \in Callers, NEW sid \in SessionIds \cup {NoSession}, FailTransient(c, sid)
      PROVE  TypeInv'
  <2>1. run[c] \in Run /\ run[c].model \in Models
    BY <1>6 DEF FailTransient, Answers, Calling, ModelChosen, TypeOK
  <2> DEFINE next == IF sid = NoSession THEN run[c].sid ELSE sid
             a == [run[c] EXCEPT !.pc = "wait"]
             b == [a EXCEPT !.attempt = NextAttempt(run[c].attempt)]
             r == [b EXCEPT !.sid = next]
  <2>2. a \in Run
    BY <2>1, RunFields DEF InFlight
  <2>3. NextAttempt(run[c].attempt) \in 0..MaxRetries
    BY <1>6, <2>1 DEF FailTransient, Retryable, NextAttempt, Run, MaxRetries
  <2>4. b \in Run
    BY <2>2, <2>3, RunFields
  <2>5. r \in Run
    <3>1. next \in SessionIds \cup {NoSession}
      BY <2>1 DEF Run
    <3> QED
      BY <2>4, <3>1, RunFields
  <2>6. run' = [run EXCEPT ![c] = r]
    BY <1>6, <2>1 DEF FailTransient, TypeOK, Run
  <2>7. r.model = run[c].model
    BY <2>1 DEF Run
  <2>8. run' \in [Callers -> Run] /\ ModelChosen'
    BY <2>1, <2>5, <2>6, <2>7, RunReplaced
  <2>9. execution' \in ExecutionStates
    BY <1>6, TransitionType DEF FailTransient, TypeOK, ExecutionStates
  <2> QED
    BY <1>6, <2>1, <2>8, <2>9, AnswerType DEF FailTransient, TypeOK
<1>7. ASSUME NEW c \in Callers, Reject(c) PROVE TypeInv'
  <2>1. run[c] \in Run /\ run[c].model \in Models
    BY <1>7 DEF Reject, Doomed, ModelChosen, TypeOK
  <2>2. [run[c] EXCEPT !.pc = "fallback"] \in Run
    BY <2>1, RunFields DEF InFlight
  <2> DEFINE r == [[run[c] EXCEPT !.pc = "fallback"] EXCEPT !.sid = NoSession]
  <2>3. r \in Run
    BY <2>2, RunFields
  <2>4. run' = [run EXCEPT ![c] = r]
    BY <1>7, <2>1 DEF Reject, AfterReject, TypeOK, Run
  <2>5. r.model = run[c].model
    BY <2>1 DEF Run
  <2>6. run' \in [Callers -> Run] /\ ModelChosen'
    BY <2>1, <2>3, <2>4, <2>5, RunReplaced
  <2>7. sessions' \in [Backends -> SessionIds \cup {NoSession}]
    <3>1. Backend[run[c].model] \in Backends
      BY <2>1 DEF Backends
    <3> QED
      BY <1>7, <3>1, SessionsType DEF Reject, AfterReject, TypeOK
  <2>8. rejected' \subseteq lost'
    BY <1>7 DEF Reject, Doomed, TypeOK
  <2> QED
    BY <1>7, <2>6, <2>7, <2>8 DEF Reject, TypeOK
<1>8. ASSUME NEW c \in Callers, RetryTimer(c) PROVE TypeInv'
  <2>1. run[c] \in Run /\ [run[c] EXCEPT !.pc = "stream"] \in Run /\ run[c].model \in Models
    BY <1>8, RunFields DEF TypeOK, InFlight, RetryTimer, ModelChosen
  <2>2. run' = [run EXCEPT ![c] = [run[c] EXCEPT !.pc = "stream"]]
    BY <1>8 DEF RetryTimer, TypeOK
  <2>3. run' \in [Callers -> Run] /\ ModelChosen'
    BY <2>1, <2>2, RunReplaced DEF Run
  <2> QED
    BY <1>8, <2>3 DEF RetryTimer, agent, TypeOK
<1>9. ASSUME NEW c \in Callers, RetryCancelled(c) PROVE TypeInv'
  <2>1. run' \in [Callers -> Run]
    BY <1>9, ReturnType DEF RetryCancelled
  <2>2. ModelChosen'
    BY <1>9 DEF RetryCancelled, Return, ModelChosen, TypeOK, Run
  <2> QED
    BY <1>9, <2>1, <2>2 DEF RetryCancelled, agent, TypeOK
<1>10. ASSUME NEW c \in Callers, Leave(c) PROVE TypeInv'
  <2> DEFINE next == Deferred[run[c].pc]
  <2>1. run[c] \in Run /\ run[c].pc \in {"chat", "cleanup", "unlock"}
    BY <1>10, DeferredValues DEF Leave, TypeOK
  <2>2. next \in {"cleanup", "unlock", "out"}
    BY <2>1, DeferredValues
  <2>3. [run[c] EXCEPT !.pc = next] \in Run /\ NoRun \in Run
    BY <2>1, <2>2, RunFields, NoRunType, DeferredValues
  <2>4. run' = [run EXCEPT ![c] = IF next = "out" THEN NoRun ELSE [run[c] EXCEPT !.pc = next]]
    BY <1>10 DEF Leave
  <2>5. run' \in [Callers -> Run] /\ ModelChosen'
    <3>1. CASE next = "out"
      BY <2>3, <2>4, <3>1, RunReplaced DEF NoRun
    <3>2. CASE next # "out"
      BY <2>1, <2>2, <2>3, <2>4, <3>2, RunReplaced DEF Run
    <3> QED
      BY <3>1, <3>2
  <2>6. chat' \in {"idle", "busy", "awaiting_input"}
    BY <1>10, <2>1 DEF Leave, TypeOK, Run
  <2>7. runMu' \in Callers \cup {NoCaller} /\ cancelFunc' \in Callers \cup {NoCaller}
    BY <1>10 DEF Leave, TypeOK
  <2> QED
    BY <1>10, <2>5, <2>6, <2>7 DEF Leave, TypeOK
<1>11. CASE Abort
  <2>1. cancelFunc \in Callers /\ run[cancelFunc] \in Run
    BY <1>11 DEF Abort, TypeOK
  <2>2. [run[cancelFunc] EXCEPT !.cancelled = TRUE] \in Run
    BY <2>1, RunFields
  <2>3. run' = [run EXCEPT ![cancelFunc] = [run[cancelFunc] EXCEPT !.cancelled = TRUE]]
    BY <1>11 DEF Abort, TypeOK
  <2>4. run' \in [Callers -> Run] /\ ModelChosen'
    BY <2>1, <2>2, <2>3, RunReplaced DEF Run, ModelChosen
  <2>5. execution' \in ExecutionStates
    BY <1>11, TransitionType DEF Abort, TypeOK, ExecutionStates
  <2> QED
    BY <1>11, <2>4, <2>5 DEF Abort, TypeOK
<1>12. CASE Reset
  BY <1>12 DEF Reset, TypeOK, ModelChosen
<1>13. ASSUME NEW m \in Models, SetModelOverride(m) PROVE TypeInv'
  BY <1>13 DEF SetModelOverride, TypeOK, ModelChosen
<1>14. ASSUME NEW sid \in SessionIds, Lose(sid) PROVE TypeInv'
  BY <1>14 DEF Lose, agent, TypeOK, ModelChosen
<1>15. CASE UNCHANGED vars
  BY <1>15 DEF vars, agent, TypeOK, ModelChosen
<1>16. ASSUME NEW c \in Callers, Call(c) PROVE TypeInv'
  <2>1. ASSUME NEW sid \in SessionIds \cup {NoSession}, NEW final \in {"idle", "awaiting_input"},
               Succeed(c, sid, final)
        PROVE  TypeInv'
    BY <1>5, <2>1 DEF Succeed, Answers, ExecutionStates
  <2>2. ASSUME NEW sid \in SessionIds \cup {NoSession}, FailTerminal(c, sid) PROVE TypeInv'
    BY <1>5, <2>2 DEF FailTerminal, Answers, ExecutionStates
  <2>3. CASE Aborted(c)
    BY <1>5, <2>3 DEF Aborted, ExecutionStates
  <2> QED
    BY <1>6, <1>7, <1>16, <2>1, <2>2, <2>3 DEF Call
<1> QED
  BY <1>1, <1>2, <1>3, <1>4, <1>8, <1>9, <1>10, <1>11, <1>12, <1>13, <1>14, <1>15, <1>16,
     DecideType DEF Next, Step

LEMMA TypeInvariant == Spec => []TypeInv
<1>1. Init => TypeInv
  BY InitTyped DEF TypeInv, ModelChosen, Init, NoRun
<1> QED
  BY <1>1, TypeStep, PTL DEF Spec

\* The fields of the agent keep their types and no run makes more than MaxRetries + 1 attempts,
\* for any number of callers (Agent.Run, agent.go).
THEOREM AgentTypeCorrect == Spec => []TypeOK
  BY TypeInvariant, PTL DEF TypeInv

-----------------------------------------------------------------------------
(* One run at a time, the abort that reaches it, the state that shows it *)

\* a goroutine past Lock and before its last deferred call holds runMu
Exclusive == \A c \in Callers : run[c].pc \notin {"out", "waiting"} => runMu = c

RunInv == TypeInv /\ Exclusive /\ AbortReaches /\ BusyVisible

LEMMA ProcessingKept ==
    ASSUME execution \in ExecutionStates
    PROVE  /\ Transition("starting") \in Processing
           /\ execution \in Processing =>
                 /\ Transition("streaming") \in Processing
                 /\ Transition("retrying") \in Processing
                 /\ Transition("cancelling") \in Processing
  BY DEF Transition, Moved, ValidExecutionStateTransition, ExecutionStates, Processing, Terminal

LEMMA BusyReached ==
    ASSUME chat \in {"idle", "busy", "awaiting_input"}
    PROVE  ValidChatStateTransition(chat, "busy")
  BY DEF ValidChatStateTransition

\* nobody else is in flight while c is past Lock
LEMMA Alone ==
    ASSUME Exclusive, NEW c \in Callers, run[c].pc \notin {"out", "waiting"},
           NEW d \in Callers, d # c
    PROVE  run[d].pc \in {"out", "waiting"}
  BY DEF Exclusive

\* a step of a goroutine past Lock that leaves it out of flight
LEMMA FlightEnds ==
    ASSUME TypeInv, Exclusive, NEW c \in Callers, run[c].pc \notin {"out", "waiting"},
           \A d \in Callers : d # c => run'[d] = run[d],
           run'[c].pc \notin InFlight
    PROVE  AbortReaches' /\ BusyVisible'
<1>1. \A d \in Callers : run'[d].pc \notin InFlight
  BY Alone DEF InFlight
<1> QED
  BY <1>1 DEF AbortReaches, BusyVisible, InFlight

LEMMA RunStep == RunInv /\ [Next]_vars => RunInv'
<1> SUFFICES ASSUME RunInv, [Next]_vars PROVE Exclusive' /\ AbortReaches' /\ BusyVisible'
  BY TypeStep DEF RunInv
<1> USE DEF RunInv, TypeInv
<1>1. ASSUME NEW c \in Callers, Enter(c) PROVE Exclusive' /\ AbortReaches' /\ BusyVisible'
  BY <1>1 DEF Enter, agent, Exclusive, AbortReaches, BusyVisible, InFlight, TypeOK, Run
<1>2. ASSUME NEW c \in Callers, Lock(c) PROVE Exclusive' /\ AbortReaches' /\ BusyVisible'
  <2>1. \A d \in Callers : run[d].pc \in {"out", "waiting"}
    BY <1>2 DEF Lock, Exclusive
  <2>2. \A d \in Callers : run'[d].pc = IF d = c THEN "locked" ELSE run[d].pc
    BY <1>2 DEF Lock, TypeOK, Run
  <2> QED
    BY <1>2, <2>1, <2>2 DEF Lock, agent, Exclusive, AbortReaches, BusyVisible, InFlight
<1>3. ASSUME NEW c \in Callers, Start(c) PROVE Exclusive' /\ AbortReaches' /\ BusyVisible'
  <2>1. \A d \in Callers : run'[d] = IF d = c THEN [NoRun EXCEPT !.pc = "decide"] ELSE run[d]
    BY <1>3 DEF Start, TypeOK
  <2>2. runMu = c /\ runMu' = c
    BY <1>3 DEF Start, Exclusive
  <2>3. \A d \in Callers : d # c => run[d].pc \in {"out", "waiting"}
    BY <1>3, Alone DEF Start
  <2>4. Exclusive' /\ AbortReaches'
    BY <1>3, <2>1, <2>2, <2>3 DEF Start, Exclusive, AbortReaches, InFlight
  <2>5. execution' \in Processing
    BY <1>3, ProcessingKept DEF Start, TypeOK
  <2> QED
    BY <2>1, <2>3, <2>4, <2>5 DEF BusyVisible, InFlight, NoRun
<1>4. ASSUME NEW c \in Callers, NEW routed \in Models, NEW followUp \in BOOLEAN,
             NEW idle \in BOOLEAN, Decide(c, routed, followUp, idle)
      PROVE  Exclusive' /\ AbortReaches' /\ BusyVisible'
  <2>1. /\ run[c].pc = "decide" /\ run'[c].pc = "stream"
        /\ run'[c].cancelled = run[c].cancelled
        /\ \A d \in Callers : d # c => run'[d] = run[d]
    BY <1>4 DEF Decide, TypeOK, Run
  <2>2. chat' = "busy" /\ UNCHANGED <<runMu, cancelFunc, execution>>
    BY <1>4, BusyReached DEF Decide, TypeOK
  <2>3. \A d \in Callers : d # c => run[d].pc \in {"out", "waiting"}
    BY <2>1, Alone
  <2> QED
    BY <2>1, <2>2, <2>3 DEF Exclusive, AbortReaches, BusyVisible, InFlight
<1>5. ASSUME NEW c \in Callers, Stream(c) PROVE Exclusive' /\ AbortReaches' /\ BusyVisible'
  <2>1. /\ run[c].pc = "stream" /\ run'[c].pc = "call"
        /\ run'[c].cancelled = run[c].cancelled
        /\ \A d \in Callers : d # c => run'[d] = run[d]
    BY <1>5 DEF Stream, TypeOK, Run
  <2>2. execution' \in Processing /\ UNCHANGED <<runMu, cancelFunc, chat>>
    BY <1>5, <2>1, ProcessingKept DEF Stream, TypeOK, BusyVisible, InFlight
  <2> QED
    BY <2>1, <2>2 DEF Exclusive, AbortReaches, BusyVisible, InFlight
<1>6. ASSUME NEW c \in Callers, NEW final \in {"idle", "awaiting_input"}, Return(c, final),
             run[c].pc \in {"call", "fallback", "wait"}, UNCHANGED runMu
      PROVE  Exclusive' /\ AbortReaches' /\ BusyVisible'
  <2>1. run'[c].pc = "chat" /\ \A d \in Callers : d # c => run'[d] = run[d]
    BY <1>6 DEF Return, TypeOK, Run
  <2>2. Exclusive'
    BY <1>6, <2>1 DEF Exclusive
  <2> QED
    BY <1>6, <2>1, <2>2, FlightEnds DEF InFlight
<1>7. ASSUME NEW c \in Callers, NEW sid \in SessionIds \cup {NoSession}, FailTransient(c, sid)
      PROVE  Exclusive' /\ AbortReaches' /\ BusyVisible'
  <2>1. /\ run[c].pc \in {"call", "fallback"} /\ run'[c].pc = "wait"
        /\ run'[c].cancelled = run[c].cancelled
        /\ \A d \in Callers : d # c => run'[d] = run[d]
    BY <1>7 DEF FailTransient, Answers, Calling, TypeOK, Run
  <2>2. execution' \in Processing /\ UNCHANGED <<runMu, cancelFunc, chat>>
    BY <1>7, <2>1, ProcessingKept DEF FailTransient, Answer, TypeOK, BusyVisible, InFlight
  <2> QED
    BY <2>1, <2>2 DEF Exclusive, AbortReaches, BusyVisible, InFlight
<1>8. ASSUME NEW c \in Callers, Reject(c) PROVE Exclusive' /\ AbortReaches' /\ BusyVisible'
  <2>1. /\ run[c].pc = "call" /\ run'[c].pc = "fallback"
        /\ run'[c].cancelled = run[c].cancelled
        /\ \A d \in Callers : d # c => run'[d] = run[d]
    BY <1>8 DEF Reject, Doomed, TypeOK, Run
  <2>2. UNCHANGED <<runMu, cancelFunc, chat, execution>>
    BY <1>8 DEF Reject
  <2> QED
    BY <2>1, <2>2 DEF Exclusive, AbortReaches, BusyVisible, InFlight
<1>9. ASSUME NEW c \in Callers, RetryTimer(c) PROVE Exclusive' /\ AbortReaches' /\ BusyVisible'
  <2>1. /\ run[c].pc = "wait" /\ run'[c].pc = "stream"
        /\ run'[c].cancelled = run[c].cancelled
        /\ \A d \in Callers : d # c => run'[d] = run[d]
    BY <1>9 DEF RetryTimer, TypeOK, Run
  <2>2. UNCHANGED <<runMu, cancelFunc, chat, execution>>
    BY <1>9 DEF RetryTimer, agent
  <2> QED
    BY <2>1, <2>2 DEF Exclusive, AbortReaches, BusyVisible, InFlight
<1>10. ASSUME NEW c \in Callers, Leave(c) PROVE Exclusive' /\ AbortReaches' /\ BusyVisible'
  <2>1. /\ run[c].pc \in {"chat", "cleanup", "unlock"}
        /\ run'[c].pc = Deferred[run[c].pc]
        /\ \A d \in Callers : d # c => run'[d] = run[d]
    BY <1>10, DeferredValues DEF Leave, TypeOK, Run, NoRun
  <2>2. Exclusive'
    <3>1. \A d \in Callers : d # c => run[d].pc \in {"out", "waiting"}
      BY <2>1, Alone
    <3>2. runMu = c
      BY <2>1 DEF Exclusive
    <3>3. run'[c].pc \notin {"out", "waiting"} => runMu' = c
      BY <1>10, <2>1, <3>2, DeferredValues DEF Leave
    <3> QED
      BY <2>1, <3>1, <3>3 DEF Exclusive
  <2> QED
    BY <2>1, <2>2, FlightEnds, DeferredValues DEF InFlight
<1>11. CASE Abort
  <2>1. /\ cancelFunc \in Callers /\ run'[cancelFunc].cancelled = TRUE
        /\ \A d \in Callers : run'[d].pc = run[d].pc
        /\ \A d \in Callers : d # cancelFunc => run'[d] = run[d]
    BY <1>11 DEF Abort, TypeOK, Run
  <2>2. UNCHANGED <<runMu, chat>> /\ execution' = Transition("cancelling")
    BY <1>11 DEF Abort
  <2>3. Exclusive' /\ AbortReaches'
    BY <2>1, <2>2 DEF Exclusive, AbortReaches
  <2>4. execution \in Processing => execution' \in Processing
    BY <2>2, ProcessingKept DEF TypeOK
  <2> QED
    BY <2>1, <2>2, <2>3, <2>4 DEF BusyVisible
<1>12. CASE Reset
  BY <1>12 DEF Reset, Exclusive, AbortReaches, BusyVisible
<1>13. ASSUME NEW m \in Models, SetModelOverride(m) PROVE Exclusive' /\ AbortReaches' /\ BusyVisible'
  BY <1>13 DEF SetModelOverride, Exclusive, AbortReaches, BusyVisible
<1>14. ASSUME NEW sid \in SessionIds, Lose(sid) PROVE Exclusive' /\ AbortReaches' /\ BusyVisible'
  BY <1>14 DEF Lose, agent, Exclusive, AbortReaches, BusyVisible
<1>15. CASE UNCHANGED vars
  BY <1>15 DEF vars, agent, Exclusive, AbortReaches, BusyVisible
<1>16. ASSUME NEW c \in Callers, Call(c) PROVE Exclusive' /\ AbortReaches' /\ BusyVisible'
  <2>1. ASSUME NEW sid \in SessionIds \cup {NoSession}, NEW final \in {"idle", "awaiting_input"},
               Succeed(c, sid, final)
        PROVE  Exclusive' /\ AbortReaches' /\ BusyVisible'
    BY <1>6, <2>1 DEF Succeed, Answers, Calling, Answer
  <2>2. ASSUME NEW sid \in SessionIds \cup {NoSession}, FailTerminal(c, sid)
        PROVE  Exclusive' /\ AbortReaches' /\ BusyVisible'
    BY <1>6, <2>2 DEF FailTerminal, Answers, Calling, Answer
  <2>3. CASE Aborted(c)
    BY <1>6, <2>3 DEF Aborted, Calling, Answer
  <2> QED
    BY <1>7, <1>8, <1>16, <2>1, <2>2, <2>3 DEF Call
<1>17. ASSUME NEW c \in Callers, RetryCancelled(c) PROVE Exclusive' /\ AbortReaches' /\ BusyVisible'
  BY <1>6, <1>17 DEF RetryCancelled
<1> QED
  BY <1>1, <1>2, <1>3, <1>4, <1>5, <1>9, <1>10, <1>11, <1>12, <1>13, <1>14, <1>15, <1>16, <1>17
     DEF Next, Step

LEMMA RunInvariant == Spec => []RunInv
<1>1. Init => RunInv
  BY InitTyped DEF RunInv, TypeInv, ModelChosen, Init, NoRun, Exclusive, AbortReaches,
     BusyVisible, InFlight
<1> QED
  BY <1>1, RunStep, PTL DEF Spec

\* Abort reaches the run in flight, however many goroutines wait for runMu and whatever an earlier
\* run has still to clean up (Agent.Run's deferred calls, Agent.Abort).
THEOREM AbortAlwaysReaches == Spec => []AbortReaches
  BY RunInvariant, PTL DEF RunInv

\* IsProcessing answers true throughout a run and the chat is busy while the CLI works, whatever
\* lifecycle state earlier runs and aborts left (transitionExecution drops invalid transitions).
THEOREM RunIsVisible == Spec => []BusyVisible
  BY RunInvariant, PTL DEF RunInv

-----------------------------------------------------------------------------
(* Sessions *)

\* session ids are kept with the backend that issued them, in the chat context and in a run, and
\* a rejected one is in neither
Clean(sid, b) == sid \in SessionIds => Issuer[sid] = b /\ sid \notin rejected

SessionsClean == \A b \in Backends : Clean(sessions[b], b)

RunsClean ==
    \A c \in Callers :
        run[c].pc \in {"stream", "call", "fallback", "wait"}
            => Clean(run[c].sid, Backend[run[c].model])

SessionInv == RunInv /\ SessionsClean /\ RunsClean /\ RejectedNotResumed

\* a response to c leaves the sessions clean
LEMMA AnswerClean ==
    ASSUME SessionInv, NEW c \in Callers, NEW sid \in SessionIds \cup {NoSession},
           Answers(c, sid), Answer(c, sid)
    PROVE  /\ SessionsClean' /\ RejectedNotResumed'
           /\ Clean(sid, Backend[run[c].model]) /\ UNCHANGED rejected
<1>1. run[c].model \in Models /\ Backend[run[c].model] \in Backends
  BY DEF Answers, Calling, SessionInv, RunInv, TypeInv, ModelChosen, Backends
<1>2. Clean(sid, Backend[run[c].model])
  BY DEF Answers, Clean, SessionInv, RunInv, TypeInv, TypeOK
<1>3. UNCHANGED <<rejected, resumed>>
  BY DEF Answer
<1>4. SessionsClean'
  BY <1>1, <1>2, <1>3 DEF Answer, SetSession, SessionsClean, Clean, SessionInv, RunInv, TypeInv,
     TypeOK
<1> QED
  BY <1>2, <1>3, <1>4 DEF RejectedNotResumed, SessionInv

\* a step that leaves sessions, rejected and the other goroutines alone
LEMMA OwnStepClean ==
    ASSUME SessionInv, NEW c \in Callers, UNCHANGED rejected,
           \A d \in Callers : d # c => run'[d] = run[d],
           run'[c].pc \in {"stream", "call", "fallback", "wait"}
              => Clean(run'[c].sid, Backend[run'[c].model])
    PROVE  RunsClean'
  BY DEF RunsClean, Clean, SessionInv

LEMMA SessionStep == SessionInv /\ [Next]_vars => SessionInv'
<1> SUFFICES ASSUME SessionInv, [Next]_vars
             PROVE  SessionsClean' /\ RunsClean' /\ RejectedNotResumed'
  BY RunStep DEF SessionInv
<1> USE DEF SessionInv, RunInv, TypeInv
<1>1. ASSUME NEW c \in Callers, Enter(c) PROVE SessionsClean' /\ RunsClean' /\ RejectedNotResumed'
  <2>1. run'[c].pc = "waiting" /\ \A d \in Callers : d # c => run'[d] = run[d]
    BY <1>1 DEF Enter, TypeOK, Run
  <2>2. RunsClean'
    BY <1>1, <2>1, OwnStepClean DEF Enter
  <2> QED
    BY <1>1, <2>2 DEF Enter, agent, SessionsClean, Clean, RejectedNotResumed
<1>2. ASSUME NEW c \in Callers, Lock(c) PROVE SessionsClean' /\ RunsClean' /\ RejectedNotResumed'
  <2>1. run'[c].pc = "locked" /\ \A d \in Callers : d # c => run'[d] = run[d]
    BY <1>2 DEF Lock, TypeOK, Run
  <2>2. RunsClean'
    BY <1>2, <2>1, OwnStepClean DEF Lock
  <2> QED
    BY <1>2, <2>2 DEF Lock, agent, SessionsClean, Clean, RejectedNotResumed
<1>3. ASSUME NEW c \in Callers, Start(c) PROVE SessionsClean' /\ RunsClean' /\ RejectedNotResumed'
  <2>1. run'[c].pc = "decide" /\ \A d \in Callers : d # c => run'[d] = run[d]
    BY <1>3 DEF Start, TypeOK, NoRun
  <2>2. RunsClean'
    BY <1>3, <2>1, OwnStepClean DEF Start
  <2> QED
    BY <1>3, <2>2 DEF Start, SessionsClean, Clean, RejectedNotResumed
<1>4. ASSUME NEW c \in Callers, NEW routed \in Models, NEW followUp \in BOOLEAN,
             NEW idle \in BOOLEAN, Decide(c, routed, followUp, idle)
      PROVE  SessionsClean' /\ RunsClean' /\ RejectedNotResumed'
  <2> DEFINE last   == IF Expires(idle) THEN NoModel ELSE lastUsedModel
             kept   == IF Expires(idle) THEN ClearSession(sessions, Backend[lastUsedModel])
                                        ELSE sessions
             model  == SelectedModel(kept, last, followUp, routed)
             switch == last \notin {model, NoModel} /\ Backend[last] = Backend[model]
  <2>1. last \in Models \cup {NoModel}
    BY DEF TypeOK
  <2>2. model \in Models
    BY <2>1 DEF SelectedModel, ActiveModel, TypeOK
  <2>3. Backend[model] \in Backends
    BY <2>2 DEF Backends
  <2>4. NoSession \notin SessionIds
    OBVIOUS
  <2>5. \A b \in Backends : Clean(kept[b], b)
    BY <2>4 DEF ClearSession, SessionsClean, Clean, TypeOK
  <2>6. kept \in [Backends -> SessionIds \cup {NoSession}]
    <3>1. Expires(idle) => lastUsedModel \in Models
      BY DEF Expires, ActiveModel, TypeOK
    <3>2. Expires(idle) => Backend[lastUsedModel] \in Backends
      BY <3>1 DEF Backends
    <3> QED
      BY <3>2, SessionsType DEF TypeOK
  <2>7. sessions' = IF switch THEN ClearSession(kept, Backend[model]) ELSE kept
    BY <1>4 DEF Decide
  <2>8. UNCHANGED <<rejected, resumed>>
    BY <1>4 DEF Decide
  <2>9. SessionsClean'
    BY <2>4, <2>5, <2>6, <2>7, <2>8 DEF ClearSession, SessionsClean, Clean
  <2>10. /\ run'[c].sid = kept[Backend[model]] /\ run'[c].model = model
         /\ \A d \in Callers : d # c => run'[d] = run[d]
    BY <1>4 DEF Decide, TypeOK, Run
  <2>11. Clean(run'[c].sid, Backend[run'[c].model])
    BY <2>3, <2>5, <2>10
  <2>12. RunsClean'
    BY <2>8, <2>10, <2>11, OwnStepClean
  <2> QED
    BY <2>8, <2>9, <2>12 DEF RejectedNotResumed
<1>5. ASSUME NEW c \in Callers, Stream(c) PROVE SessionsClean' /\ RunsClean' /\ RejectedNotResumed'
  <2>1. /\ run[c] \in Run /\ run[c].pc = "stream"
        /\ run'[c].sid = run[c].sid /\ run'[c].model = run[c].model
        /\ \A d \in Callers : d # c => run'[d] = run[d]
    BY <1>5 DEF Stream, TypeOK, Run
  <2>2. resumed' = run[c].sid /\ UNCHANGED <<rejected, sessions>>
    BY <1>5 DEF Stream
  <2>3. Clean(run[c].sid, Backend[run[c].model])
    BY <2>1 DEF RunsClean
  <2>4. RunsClean'
    BY <2>1, <2>2, <2>3, OwnStepClean
  <2>5. run[c].sid \notin rejected
    BY <2>1, <2>3 DEF Clean, Run, TypeOK
  <2> QED
    BY <2>2, <2>4, <2>5 DEF SessionsClean, Clean, RejectedNotResumed
<1>6. ASSUME NEW c \in Callers, NEW sid \in SessionIds \cup {NoSession}, FailTransient(c, sid)
      PROVE  SessionsClean' /\ RunsClean' /\ RejectedNotResumed'
  <2>1. Answers(c, sid) /\ Answer(c, sid)
    BY <1>6 DEF FailTransient
  <2>2. /\ run'[c].sid = (IF sid = NoSession THEN run[c].sid ELSE sid)
        /\ run'[c].model = run[c].model
        /\ \A d \in Callers : d # c => run'[d] = run[d]
    BY <1>6 DEF FailTransient, TypeOK, Run
  <2>3. Clean(run[c].sid, Backend[run[c].model])
    BY <2>1 DEF Answers, Calling, RunsClean
  <2>4. Clean(run'[c].sid, Backend[run'[c].model])
    BY <2>1, <2>2, <2>3, AnswerClean
  <2>5. RunsClean'
    BY <2>1, <2>2, <2>4, AnswerClean, OwnStepClean
  <2> QED
    BY <2>1, <2>5, AnswerClean
<1>7. ASSUME NEW c \in Callers, Reject(c) PROVE SessionsClean' /\ RunsClean' /\ RejectedNotResumed'
  <2> DEFINE b == Backend[run[c].model]
  <2>1. /\ run[c].pc = "call" /\ run[c].sid \in SessionIds
        /\ run[c].model \in Models /\ b \in Backends
    BY <1>7 DEF Reject, Doomed, TypeOK, ModelChosen, Backends
  <2>2. Issuer[run[c].sid] = b
    BY <2>1 DEF RunsClean, Clean
  <2>3. /\ sessions' = ClearSession(sessions, b) /\ rejected' = rejected \cup {run[c].sid}
        /\ resumed' = NoSession
    BY <1>7 DEF Reject, AfterReject
  <2>4. /\ run'[c].sid = NoSession
        /\ \A d \in Callers : d # c => run'[d] = run[d]
    BY <1>7 DEF Reject, AfterReject, TypeOK, Run
  <2>5. SessionsClean'
    BY <2>1, <2>2, <2>3 DEF ClearSession, SessionsClean, Clean, TypeOK
  <2>6. \A d \in Callers : d # c => run'[d].pc \in {"out", "waiting"}
    BY <2>1, <2>4, Alone
  <2>7. RunsClean'
    BY <2>4, <2>6 DEF RunsClean, Clean
  <2>8. RejectedNotResumed'
    BY <2>1, <2>3 DEF RejectedNotResumed, TypeOK
  <2> QED
    BY <2>5, <2>7, <2>8
<1>8. ASSUME NEW c \in Callers, RetryTimer(c) PROVE SessionsClean' /\ RunsClean' /\ RejectedNotResumed'
  <2>1. /\ run[c].pc = "wait" /\ run'[c].sid = run[c].sid /\ run'[c].model = run[c].model
        /\ \A d \in Callers : d # c => run'[d] = run[d]
    BY <1>8 DEF RetryTimer, TypeOK, Run
  <2>2. UNCHANGED <<rejected, sessions, resumed>>
    BY <1>8 DEF RetryTimer, agent
  <2>3. RunsClean'
    BY <2>1, <2>2, OwnStepClean DEF RunsClean
  <2> QED
    BY <2>2, <2>3 DEF SessionsClean, Clean, RejectedNotResumed
<1>9. ASSUME NEW c \in Callers, NEW final \in {"idle", "awaiting_input"}, Return(c, final),
             UNCHANGED rejected
      PROVE  RunsClean'
  <2>1. run'[c].pc = "chat" /\ \A d \in Callers : d # c => run'[d] = run[d]
    BY <1>9 DEF Return, TypeOK, Run
  <2> QED
    BY <1>9, <2>1, OwnStepClean
<1>10. ASSUME NEW c \in Callers, RetryCancelled(c)
       PROVE  SessionsClean' /\ RunsClean' /\ RejectedNotResumed'
  BY <1>9, <1>10 DEF RetryCancelled, agent, SessionsClean, Clean, RejectedNotResumed
<1>11. ASSUME NEW c \in Callers, Leave(c) PROVE SessionsClean' /\ RunsClean' /\ RejectedNotResumed'
  <2>1. /\ run'[c].pc \in {"cleanup", "unlock", "out"}
        /\ \A d \in Callers : d # c => run'[d] = run[d]
    BY <1>11, DeferredValues DEF Leave, TypeOK, Run, NoRun
  <2>2. UNCHANGED <<rejected, sessions, resumed>>
    BY <1>11 DEF Leave
  <2>3. RunsClean'
    BY <2>1, <2>2, OwnStepClean
  <2> QED
    BY <2>2, <2>3 DEF SessionsClean, Clean, RejectedNotResumed
<1>12. CASE Abort
  <2>1. \A d \in Callers : /\ run'[d].pc = run[d].pc /\ run'[d].sid = run[d].sid
                           /\ run'[d].model = run[d].model
    BY <1>12 DEF Abort, TypeOK, Run
  <2> QED
    BY <1>12, <2>1 DEF Abort, SessionsClean, RunsClean, Clean, RejectedNotResumed
<1>13. CASE Reset
  BY <1>13 DEF Reset, SessionsClean, RunsClean, Clean, RejectedNotResumed
<1>14. ASSUME NEW m \in Models, SetModelOverride(m)
       PROVE  SessionsClean' /\ RunsClean' /\ RejectedNotResumed'
  BY <1>14 DEF SetModelOverride, SessionsClean, RunsClean, Clean, RejectedNotResumed
<1>15. ASSUME NEW sid \in SessionIds, Lose(sid)
       PROVE  SessionsClean' /\ RunsClean' /\ RejectedNotResumed'
  BY <1>15 DEF Lose, agent, SessionsClean, RunsClean, Clean, RejectedNotResumed
<1>16. CASE UNCHANGED vars
  BY <1>16 DEF vars, agent, SessionsClean, RunsClean, Clean, RejectedNotResumed
<1>17. ASSUME NEW c \in Callers, Call(c) PROVE SessionsClean' /\ RunsClean' /\ RejectedNotResumed'
  <2>1. ASSUME NEW sid \in SessionIds \cup {NoSession}, NEW final \in {"idle", "awaiting_input"},
               Succeed(c, sid, final)
        PROVE  SessionsClean' /\ RunsClean' /\ RejectedNotResumed'
    BY <1>9, <2>1, AnswerClean DEF Succeed
  <2>2. ASSUME NEW sid \in SessionIds \cup {NoSession}, FailTerminal(c, sid)
        PROVE  SessionsClean' /\ RunsClean' /\ RejectedNotResumed'
    BY <1>9, <2>2, AnswerClean DEF FailTerminal
  <2>3. CASE Aborted(c)
    <3>1. Answers(c, NoSession)
      BY <2>3 DEF Aborted, Answers
    <3> QED
      BY <1>9, <2>3, <3>1, AnswerClean DEF Aborted
  <2> QED
    BY <1>6, <1>7, <1>17, <2>1, <2>2, <2>3 DEF Call
<1> QED
  BY <1>1, <1>2, <1>3, <1>4, <1>5, <1>8, <1>10, <1>11, <1>12, <1>13, <1>14, <1>15, <1>16, <1>17
     DEF Next, Step

\* A session the CLI rejected is never resumed again, by any run of any caller (AfterReject drops
\* it from the chat context and from the run, callStreamWithResumeBridge).
THEOREM RejectedIsNotResumed == Spec => []RejectedNotResumed
<1>1. Init => SessionInv
  <2>1. Init => RunInv
    BY InitTyped DEF RunInv, TypeInv, ModelChosen, Init, NoRun, Exclusive, AbortReaches,
       BusyVisible, InFlight
  <2> QED
    BY <2>1 DEF SessionInv, SessionsClean, RunsClean, Clean, RejectedNotResumed, Init, NoRun
<1>2. SessionInv => RejectedNotResumed
  BY DEF SessionInv
<1> QED
  BY <1>1, <1>2, SessionStep, PTL DEF Spec
=============================================================================
