-------------------------- MODULE OneWalkerProofs --------------------------
(***************************************************************************)
(* What the graph runtime guarantees when a task is driven as it is meant  *)
(* to be, by one goroutine at a time, with its token books and its ways of *)
(* ending for any number of goroutines: proofs about HermesRuntime for     *)
(* every configuration, plan and number of events.                         *)
(*                                                                         *)
(* The first part says what a step may do to the snapshot and to the       *)
(* goroutines, field by field.  The second, on resolved prefixes, done     *)
(* tasks, kept work and replans, argues about those shapes and never opens *)
(* an action again.  Then come the charged tokens, the end of a run and    *)
(* the attempts of a sub-task, each with an invariant of its own.          *)
(***************************************************************************)
EXTENDS HermesRuntimeProofs, WellFoundedInduction

LEMMA StateFields ==
    ASSUME NEW s \in State
    PROVE  /\ s.status \in TaskStatus /\ s.idx \in Int /\ s.plan \in Seq(SubTask)
           /\ s.intr \in Interrupt /\ s.replan \in Replan /\ s.used \in Nat
  BY DEF State

LEMMA SnapFields ==
    ASSUME TaskOK
    PROVE  /\ snap.state \in State /\ snap.next \in RuntimeStep \cup {NoStep}
           /\ snap.state.status \in TaskStatus /\ snap.state.idx \in Int
           /\ snap.state.plan \in Seq(SubTask) /\ snap.state.intr \in Interrupt
           /\ snap.state.replan \in Replan /\ snap.state.used \in Nat
<1>1. snap.state \in State /\ snap.next \in RuntimeStep \cup {NoStep}
  BY DEF TaskOK, Snapshot
<1> QED
  BY <1>1, StateFields

LEMMA OpTypes ==
    ASSUME TaskOK, NEW o \in Operators
    PROVE  /\ op[o].decision \in {"none", "retry", "skip", "abort"}
           /\ op[o].seen \in Snapshot /\ op[o].seen.state \in State
           /\ op[o].seen.state.plan \in Seq(SubTask) /\ op[o].seen.state.idx \in Int
           /\ op[o].seen.state.intr \in Interrupt
<1>1. op[o] \in OpState
  BY DEF TaskOK
<1>2. op[o].decision \in {"none", "retry", "skip", "abort"} /\ op[o].seen \in Snapshot
  BY <1>1 DEF OpState
<1>3. op[o].seen.state \in State
  BY <1>2 DEF Snapshot
<1> QED
  BY <1>2, <1>3, StateFields

-----------------------------------------------------------------------------
(* What a commit writes *)

\* the fields of the new snapshot; st is the status written, "" if none
Wrote(st, u, next) ==
    /\ snap'.next = next
    /\ snap'.state.status = (IF st = "" THEN snap.state.status ELSE st)
    /\ st # "" => ValidTaskStatusTransition(snap.state.status, st)
    /\ snap'.state.idx = (IF u.idx = -1 THEN snap.state.idx ELSE u.idx)
    /\ snap'.state.plan = (IF u.plan = <<>> THEN snap.state.plan ELSE u.plan)
    /\ snap'.state.intr = (IF u.intr # NoInterrupt THEN u.intr
                           ELSE IF u.clearIntr THEN NoInterrupt ELSE snap.state.intr)
    /\ snap'.state.replan = (IF u.replan # NoReplan THEN u.replan
                             ELSE IF u.clearReplan THEN NoReplan ELSE snap.state.replan)
    /\ snap'.state.used = snap.state.used + u.tokens

LEMMA AppliedFields ==
    ASSUME NEW s, NEW u
    PROVE  /\ ApplyStateUpdates(s, u).idx = IF u.idx = -1 THEN s.idx ELSE u.idx
           /\ ApplyStateUpdates(s, u).plan = IF u.plan = <<>> THEN s.plan ELSE u.plan
           /\ ApplyStateUpdates(s, u).replan = IF u.replan # NoReplan THEN u.replan
                                ELSE IF u.clearReplan THEN NoReplan ELSE s.replan
<1>1. ApplyStateUpdates(s, u).idx = IF u.idx = -1 THEN s.idx ELSE u.idx
  BY Zenon DEF ApplyStateUpdates
<1>2. ApplyStateUpdates(s, u).plan = IF u.plan = <<>> THEN s.plan ELSE u.plan
  BY Zenon DEF ApplyStateUpdates
<1>3. ApplyStateUpdates(s, u).replan = IF u.replan # NoReplan THEN u.replan
                                ELSE IF u.clearReplan THEN NoReplan ELSE s.replan
  BY Zenon DEF ApplyStateUpdates
<1> QED
  BY <1>1, <1>2, <1>3

LEMMA CommitWrites ==
    ASSUME TaskOK, NEW u, NEW next, CanCommit(u), snap' = Committed(u, next)
    PROVE  Wrote(u.status, u, next)
<1> DEFINE new == ApplyStateUpdates(snap.state, u)
<1>1. CommitSeed(snap.state) = snap.state
  BY SnapFields, CommitSeedIsCurrent
<1>2. snap' = [state |-> new, next |-> next] /\ Accepts(snap.state, u)
  BY <1>1 DEF Committed, CanCommit
<1>3. snap'.state = new /\ snap'.next = next
  BY <1>2
<1>4. /\ new.status = (IF u.status = "" THEN snap.state.status ELSE u.status)
      /\ new.intr = (IF u.intr # NoInterrupt THEN u.intr
                     ELSE IF u.clearIntr THEN NoInterrupt ELSE snap.state.intr)
      /\ new.used = snap.state.used + u.tokens
  BY ReducerFields
<1>5. /\ new.idx = (IF u.idx = -1 THEN snap.state.idx ELSE u.idx)
      /\ new.plan = (IF u.plan = <<>> THEN snap.state.plan ELSE u.plan)
      /\ new.replan = (IF u.replan # NoReplan THEN u.replan
                       ELSE IF u.clearReplan THEN NoReplan ELSE snap.state.replan)
  BY AppliedFields
<1>6. u.status # "" => ValidTaskStatusTransition(snap.state.status, u.status)
  BY <1>2 DEF Accepts
<1> HIDE DEF new
<1> QED
  BY <1>3, <1>4, <1>5, <1>6 DEF Wrote

LEMMA TryWrites ==
    ASSUME TaskOK, NEW u, NEW next, TryCommit(u, next)
    PROVE  IF CanCommit(u) THEN Wrote(u.status, u, next) ELSE snap' = snap
<1>1. CASE CanCommit(u)
  BY <1>1, CommitWrites DEF TryCommit
<1>2. CASE ~CanCommit(u)
  BY <1>2 DEF TryCommit
<1> QED
  BY <1>1, <1>2

\* an update without a status is never rejected
LEMMA PlainAccepted ==
    ASSUME NEW u, u.status = ""
    PROVE  CanCommit(u)
  BY DEF CanCommit, Accepts

\* the goroutine w moves to pc, last, attempt and recorded; no other one moves
Moved(w, pc, last, attempt, recorded) ==
    /\ run'[w].pc = pc /\ run'[w].last = last
    /\ run'[w].attempt = attempt /\ run'[w].recorded = recorded
    /\ run'[w].cancelled = run[w].cancelled /\ run'[w].sync = run[w].sync
    /\ \A v \in Walkers \ {w} : run'[v] = run[v]

\* the status a node's output ends up with
Finishing(w, st, out, next) ==
    \/ st = out
    \/ /\ out = "" /\ st = "done" /\ next = "terminal"
       /\ run[w].last.state.status \notin TerminalStatus

LEMMA MovedTo ==
    ASSUME run \in [Walkers -> Run], NEW w \in Walkers, NEW r, run' = [run EXCEPT ![w] = r]
    PROVE  run'[w] = r /\ \A v \in Walkers \ {w} : run'[v] = run[v]
  OBVIOUS

\* the commit that would finish the task comes after something else ended it
Refused(w) ==
    snap.state.status \in TerminalStatus /\ run[w].last.state.status \notin TerminalStatus

LEMMA NodeWrites ==
    ASSUME TaskOK, NEW w \in Walkers, NEW r \in Run, NEW out \in StateUpdate, NEW next,
           NEW halt \in BOOLEAN, NodeCommit(w, r, out, next, halt),
           r.cancelled = run[w].cancelled, r.sync = run[w].sync
    PROVE  \/ /\ snap' = snap /\ out.status # ""
              /\ Moved(w, ErrorPc(w), r.last, r.attempt, r.recorded)
           \/ /\ snap' = snap /\ next = "terminal" /\ Refused(w)
              /\ Moved(w, ErrorPc(w), r.last, r.attempt, r.recorded)
           \/ /\ \E st \in TaskStatus \cup {""} :
                    Finishing(w, st, out.status, next) /\ Wrote(st, out, next)
              /\ Moved(w, IF next = "terminal" \/ halt THEN "end" ELSE "loop", snap',
                       r.attempt, r.recorded)
<1> DEFINE u == FinishingUpdate(w, out, next)
           new == Committed(u, next)
           pc == IF next = "terminal" \/ halt THEN "end" ELSE "loop"
           good == [r EXCEPT !.last = new, !.rev = NoReview, !.pc = pc]
           bad == [r EXCEPT !.rev = NoReview, !.pc = ErrorPc(w)]
<1>1. /\ u.status \in TaskStatus \cup {""} /\ Finishing(w, u.status, out.status, next)
      /\ u.idx = out.idx /\ u.plan = out.plan /\ u.intr = out.intr /\ u.clearIntr = out.clearIntr
      /\ u.replan = out.replan /\ u.clearReplan = out.clearReplan /\ u.tokens = out.tokens
  BY DEF FinishingUpdate, StateUpdate, Finishing, TaskStatus
<1>b. r = [pc |-> r.pc, sync |-> r.sync, cancelled |-> r.cancelled, last |-> r.last,
           rev |-> r.rev, attempt |-> r.attempt, recorded |-> r.recorded]
  BY DEF Run
<1>2. /\ good.pc = pc /\ good.last = new /\ good.attempt = r.attempt
      /\ good.recorded = r.recorded /\ good.cancelled = r.cancelled /\ good.sync = r.sync
  <2> HIDE DEF new, pc
  <2> QED
    BY <1>b
<1>d. /\ bad.pc = ErrorPc(w) /\ bad.last = r.last /\ bad.attempt = r.attempt
      /\ bad.recorded = r.recorded /\ bad.cancelled = r.cancelled /\ bad.sync = r.sync
  <2> DEFINE e == ErrorPc(w)
  <2> HIDE DEF e
  <2>1. [r EXCEPT !.rev = NoReview, !.pc = e].pc = e
    BY <1>b
  <2> QED
    BY <1>b, <2>1 DEF e
<1>a. run \in [Walkers -> Run]
  BY DEF TaskOK
<1>3. CASE CanCommit(u)
  <2>1. snap' = new /\ run' = [run EXCEPT ![w] = good]
    BY <1>3 DEF NodeCommit
  <2>2. Wrote(u.status, u, next)
    BY <1>3, <2>1, CommitWrites
  <2> HIDE DEF u
  <2>3. Wrote(u.status, out, next)
    BY <1>1, <2>2 DEF Wrote
  <2> HIDE DEF good, bad, pc, new
  <2>4. run'[w] = good /\ \A v \in Walkers \ {w} : run'[v] = run[v]
    BY <1>a, <2>1, MovedTo
  <2>5. Moved(w, pc, snap', r.attempt, r.recorded)
    BY <1>2, <2>1, <2>4 DEF Moved
  <2> QED
    BY <1>1, <2>3, <2>5 DEF pc
<1>4. CASE ~CanCommit(u)
  <2>1. snap' = snap /\ run' = [run EXCEPT ![w] = bad]
    BY <1>4 DEF NodeCommit
  <2>2. out.status # "" \/ (next = "terminal" /\ Refused(w))
    <3>1. u.status # ""
      BY <1>4, PlainAccepted
    <3>2. CASE out.status = ""
      <4>1. u.status = "done" /\ next = "terminal"
            /\ run[w].last.state.status \notin TerminalStatus
        BY <1>1, <3>1, <3>2 DEF Finishing
      <4>2. CommitSeed(snap.state) = snap.state
        BY SnapFields, CommitSeedIsCurrent
      <4>3. ~ValidTaskStatusTransition(snap.state.status, "done")
        BY <1>4, <4>1, <4>2 DEF CanCommit, Accepts
      <4>4. snap.state.status \in TerminalStatus
        BY <4>3, SnapFields DEF ValidTaskStatusTransition, TaskStatus, TerminalStatus
      <4> QED
        BY <4>1, <4>4 DEF Refused
    <3> QED
      BY <3>2
  <2> HIDE DEF good, bad, pc, new
  <2>4. run'[w] = bad /\ \A v \in Walkers \ {w} : run'[v] = run[v]
    BY <1>a, <2>1, MovedTo
  <2>5. Moved(w, ErrorPc(w), r.last, r.attempt, r.recorded)
    BY <1>d, <2>4 DEF Moved
  <2> QED
    BY <2>1, <2>2, <2>5
<1> QED
  BY <1>3, <1>4

-----------------------------------------------------------------------------
(***************************************************************************)
(* The invariant of a task that one goroutine drives and one operator      *)
(* answers.  A goroutine past its load works on the stored plan (Current)  *)
(* unless it only waits for an approval.  While a sub-task failure or the  *)
(* budget holds the task (Held), the goroutine is gone or waiting (Quiet), *)
(* so an operator who read such an interrupt still has the current plan.   *)
(* Every place a next step can come from, the snapshot, the goroutine, the *)
(* interrupt's resume step and an operator's copy of it, names a step the  *)
(* stored plan is ready for (Routes).                                      *)
(***************************************************************************)
OneWalker == \A v, w \in Walkers : v = w

OneOperator == \A o, p \in Operators : o = p

Working == {"node", "reviewed"}

Holding == {"loop", "budget", "node", "reviewed"}

Active == snap.state.status \notin TerminalStatus

Settled(s, i) == s.plan[i].st \in {"done", "skipped"}

Complete(s) == s.plan # <<>> /\ s.idx >= Len(s.plan)

SameWork(s, t) == s.plan = t.plan /\ s.idx = t.idx

Pending(l) == l.next = "approval" /\ l.state.intr # NoInterrupt

QuietRun(r) ==
    /\ r.pc \in Holding => r.last.next \in {"approval", NoStep}
    /\ r.pc \in Working => Pending(r.last)

Quiet == \A w \in Walkers : QuietRun(run[w])

Held(intr) == intr.reason \in {"subtask_failure_pause", "budget_exceeded"}

RouteOk(next, s) ==
    /\ next = "reviewer" => StrictReview \/ Complete(s)
    /\ next = "strict_review" => StrictReview /\ InRange(s) /\ ~Settled(s, s.idx + 1)

PauseAt(s) ==
    /\ s.intr.idx # -1 => s.intr.reason = "subtask_failure_pause"
    /\ s.intr.reason = "subtask_failure_pause" =>
          InRange(s) /\ s.intr.idx = s.idx /\ ~Settled(s, s.idx + 1)

Unstarted == \A w \in Walkers : run[w].pc = "starting" => run[w].last.next = NoStep

Current ==
    \A w \in Walkers : run[w].pc \in Working /\ ~Pending(run[w].last)
                         => SameWork(run[w].last.state, snap.state)

SnapQuiet == Held(snap.state.intr) => Quiet

\* an operator who is about to answer a pause or an exceeded budget
Answering(o) == op[o].decision \in {"retry", "skip"} /\ Held(op[o].seen.state.intr)

OpQuiet ==
    \A o \in Operators : Answering(o) =>
        Quiet /\ snap.state.intr # NoInterrupt /\ SameWork(op[o].seen.state, snap.state)

Skippable == \A o \in Operators : op[o].decision = "skip" => SkipAllowed(op[o].seen.state)

PausesAt == PauseAt(snap.state) /\ \A o \in Operators : PauseAt(op[o].seen.state)

\* the steps the task may go on with; intr is a pending interrupt or a copy of one
ResumesAt(intr) == IF intr.reason = "budget_exceeded" THEN {intr.resume} ELSE {}

RunRoutes == {run[w].last.next : w \in {v \in Walkers : run[v].pc \in Holding}}

OpRoutes ==
    UNION {ResumesAt(op[o].seen.state.intr) : o \in {p \in Operators : op[p].decision = "retry"}}

StepRoutes == {snap.next} \cup RunRoutes

AllRoutes == StepRoutes \cup ResumesAt(snap.state.intr) \cup OpRoutes

Routes == \A next \in AllRoutes : RouteOk(next, snap.state)

DoneOk == StrictReview \/ DoneMeansResolved

ReplanArmed ==
    \A w \in Walkers : run[w].recorded # <<>> /\ "replan_setup" \in AllRoutes
                         => run[w].attempt < EffectiveTaskRetries

OneInv ==
    /\ TypeInv
    /\ Unstarted /\ Current /\ SnapQuiet /\ OpQuiet /\ Skippable /\ PausesAt /\ Routes
    /\ ResolvedPrefix /\ DoneOk
    /\ ReplanArmed /\ ReplanBounded

LEMMA OneInit == Init => OneInv
<1> SUFFICES ASSUME Init PROVE OneInv
  OBVIOUS
<1>1. TypeInv
  BY InvInit
<1>2. PICK w \in Walkers, sync \in BOOLEAN :
         run = [v \in Walkers |-> IF v = w THEN [IdleRun EXCEPT !.pc = "starting", !.sync = sync]
                                           ELSE IdleRun]
  BY DEF Init
<1>3. \A v \in Walkers : /\ run[v].pc \in {"idle", "starting"} /\ run[v].last.next = NoStep
                         /\ run[v].recorded = <<>> /\ run[v].attempt = 0
  BY <1>2 DEF IdleRun, NoSnapshot
<1>4. /\ snap = NoSnapshot /\ snap.next = NoStep /\ snap.state.plan = <<>>
      /\ snap.state.idx = 0 /\ snap.state.intr = NoInterrupt /\ snap.state.status = "planning"
  BY DEF Init, NoSnapshot, CreatedState
<1>5. \A o \in Operators : op[o].decision = "none" /\ op[o].seen.state.intr = NoInterrupt
  BY DEF Init, IdleOp, NoSnapshot, CreatedState
<1>6. NoInterrupt.idx = -1 /\ NoInterrupt.reason = "none"
  BY DEF NoInterrupt
<1>7. AllRoutes = {NoStep}
  BY <1>3, <1>4, <1>5, <1>6 DEF AllRoutes, StepRoutes, RunRoutes, OpRoutes, ResumesAt, Holding
<1>8. Unstarted /\ Current /\ SnapQuiet /\ OpQuiet /\ Skippable
  BY <1>3, <1>4, <1>5, <1>6 DEF Unstarted, Current, SnapQuiet, OpQuiet, Skippable, Working, Held,
    Answering
<1>9. PausesAt
  BY <1>4, <1>5, <1>6 DEF PausesAt, PauseAt
<1>10. Routes
  BY <1>7 DEF Routes, RouteOk, NoStep
<1>11. ResolvedPrefix /\ DoneOk
  BY <1>4 DEF ResolvedPrefix, DoneOk, DoneMeansResolved
<1>12. ReplanArmed /\ ReplanBounded
  <2>1. EffectiveTaskRetries \in Nat
    BY ConfigAssumption DEF EffectiveTaskRetries
  <2> QED
    BY <1>3, <2>1 DEF ReplanArmed, ReplanBounded
<1> QED
  BY <1>1, <1>8, <1>9, <1>10, <1>11, <1>12 DEF OneInv

-----------------------------------------------------------------------------
(***************************************************************************)
(* Calm steps leave the plan alone: launches and ends of a goroutine, its  *)
(* context check, failure and ctx boundaries, the telemetry of a review,   *)
(* faults, panics, crashes, sweeps, interrupts and an operator's abort.    *)
(***************************************************************************)
Plain ==
    /\ snap'.state.plan = snap.state.plan /\ snap'.state.idx = snap.state.idx
    /\ snap'.state.replan = snap.state.replan

Stops ==
    \/ snap'.state.status = snap.state.status
    \/ Active /\ snap'.state.status \in {"failed", "interrupted"}

KeepsIntr ==
    \/ snap'.state.intr = snap.state.intr
    \/ /\ snap'.state.intr # NoInterrupt /\ snap'.state.intr.idx = -1
       /\ ~Held(snap'.state.intr)

CalmNext ==
    \/ snap'.next \in StepRoutes \cup {"planner", "terminal"}
    \/ snap'.next = "reviewer" /\ StrictReview

CalmRun(r, q) ==
    /\ q.pc \in Holding => \/ r.pc \in Holding /\ q.last = r.last
                           \/ q.pc \notin Working /\ q.last.next = NoStep
    /\ q.pc \in Working => r.pc \in Working /\ q.last = r.last
    /\ q.pc = "starting" => q.last.next = NoStep
    /\ \/ q.attempt = r.attempt /\ q.recorded = r.recorded
       \/ q.attempt = 0 /\ q.recorded = <<>>
       \/ /\ q.attempt = r.attempt /\ r.attempt < EffectiveTaskRetries
          /\ r.pc = "reviewed" /\ r.last.next = "reviewer" /\ q.recorded = r.last.state.plan

Calm ==
    /\ Plain /\ Stops /\ KeepsIntr /\ CalmNext
    /\ \A w \in Walkers : CalmRun(run[w], run'[w])
    /\ \A o \in Operators : op'[o] \in {op[o], IdleOp}

LEMMA IdleOpFields ==
    /\ IdleOp.decision = "none" /\ IdleOp.seen.state.intr = NoInterrupt
    /\ NoInterrupt.idx = -1 /\ NoInterrupt.reason = "none" /\ NoInterrupt.resume = NoStep
  BY DEF IdleOp, NoSnapshot, CreatedState, NoInterrupt

LEMMA CalmQuiet ==
    ASSUME Calm, Quiet
    PROVE  Quiet'
<1> SUFFICES ASSUME NEW w \in Walkers PROVE QuietRun(run'[w])
  BY DEF Quiet
<1>1. QuietRun(run[w]) /\ CalmRun(run[w], run'[w])
  BY DEF Calm, Quiet
<1> QED
  BY <1>1 DEF QuietRun, CalmRun, Working, Holding, Pending

LEMMA CalmRoutes ==
    ASSUME Calm
    PROVE  /\ StepRoutes' \subseteq StepRoutes \cup {"planner", "terminal", NoStep}
                                    \cup (IF StrictReview THEN {"reviewer"} ELSE {})
           /\ AllRoutes' \subseteq AllRoutes \cup {"planner", "terminal", NoStep}
                                   \cup (IF StrictReview THEN {"reviewer"} ELSE {})
<1>1. RunRoutes' \subseteq RunRoutes \cup {NoStep}
  BY DEF Calm, CalmRun, RunRoutes
<1>2. OpRoutes' \subseteq OpRoutes
  <2>1. \A o \in Operators : op'[o].decision = "retry" => op'[o] = op[o]
    BY IdleOpFields DEF Calm
  <2> QED
    BY <2>1 DEF OpRoutes
<1>3. ResumesAt(snap'.state.intr) \subseteq ResumesAt(snap.state.intr)
  BY DEF Calm, KeepsIntr, Held, ResumesAt
<1>4. snap'.next \in StepRoutes \cup {"planner", "terminal"}
                     \cup (IF StrictReview THEN {"reviewer"} ELSE {})
  BY DEF Calm, CalmNext
<1> QED
  BY <1>1, <1>2, <1>3, <1>4 DEF AllRoutes, StepRoutes

LEMMA SameWorkFacts ==
    ASSUME NEW s, NEW t, SameWork(s, t)
    PROVE  /\ InRange(s) = InRange(t) /\ (Complete(s) <=> Complete(t))
           /\ \A i : Settled(s, i) <=> Settled(t, i)
           /\ \A next : RouteOk(next, s) <=> RouteOk(next, t)
  BY DEF SameWork, InRange, Complete, Settled, RouteOk

LEMMA CalmStep ==
    ASSUME OneInv, Calm, TypeInv'
    PROVE  OneInv'
<1>1. SameWork(snap'.state, snap.state)
  BY DEF Calm, Plain, SameWork
<1>2. \A o \in Operators : op'[o].decision # "none" => op'[o] = op[o]
  BY IdleOpFields DEF Calm
<1>3. Unstarted'
  BY DEF Calm, CalmRun, Unstarted
<1>4. Current'
  BY <1>1 DEF OneInv, Calm, CalmRun, Current, SameWork
<1>5. SnapQuiet'
  BY CalmQuiet DEF OneInv, SnapQuiet, Calm, KeepsIntr
<1>6. OpQuiet'
  <2> SUFFICES ASSUME NEW o \in Operators, Answering(o)'
               PROVE  Quiet' /\ snap'.state.intr # NoInterrupt
                      /\ SameWork(op'[o].seen.state, snap'.state)
    BY DEF OpQuiet
  <2>1. op'[o] = op[o] /\ Answering(o)
    BY <1>2 DEF Answering
  <2>2. Quiet /\ snap.state.intr # NoInterrupt /\ SameWork(op[o].seen.state, snap.state)
    BY <2>1 DEF OneInv, OpQuiet
  <2> QED
    BY <1>1, <2>1, <2>2, CalmQuiet DEF Calm, KeepsIntr, SameWork
<1>7. Skippable'
  BY <1>2 DEF OneInv, Skippable
<1>8. PausesAt'
  <2>1. PauseAt(snap.state) => PauseAt(snap'.state)
    BY <1>1, SameWorkFacts DEF Calm, KeepsIntr, PauseAt, Held, SameWork
  <2>2. \A o \in Operators : PauseAt(op[o].seen.state) => PauseAt(op'[o].seen.state)
    BY IdleOpFields DEF Calm, PauseAt
  <2> QED
    BY <2>1, <2>2 DEF OneInv, PausesAt
<1>9. Routes'
  <2>1. \A next \in AllRoutes : RouteOk(next, snap.state)
    BY DEF OneInv, Routes
  <2>2. \A next \in AllRoutes' : RouteOk(next, snap.state)
    BY <2>1, CalmRoutes DEF RouteOk, NoStep
  <2> QED
    BY <1>1, <2>2, SameWorkFacts DEF Routes
<1>10. ResolvedPrefix' /\ DoneOk'
  BY DEF OneInv, Calm, Plain, Stops, ResolvedPrefix, DoneOk, DoneMeansResolved
<1>11. ReplanArmed' /\ ReplanBounded'
  <2>0. EffectiveTaskRetries \in Nat
    BY ConfigAssumption DEF EffectiveTaskRetries
  <2>1. "replan_setup" \in AllRoutes' => "replan_setup" \in AllRoutes
    BY CalmRoutes DEF NoStep
  <2> QED
    BY <2>0, <2>1 DEF OneInv, Calm, CalmRun, ReplanArmed, ReplanBounded
<1> QED
  BY <1>3, <1>4, <1>5, <1>6, <1>7, <1>8, <1>9, <1>10, <1>11 DEF OneInv

\* an update that can only stop the task, put an interrupt on it and charge it
Mild(u) ==
    /\ u.idx = -1 /\ u.plan = <<>> /\ u.replan = NoReplan /\ ~u.clearReplan /\ ~u.clearIntr
    /\ u.status \in {"", "failed", "interrupted"}
    /\ u.intr # NoInterrupt => u.intr.idx = -1 /\ ~Held(u.intr)

LEMMA StopsActive ==
    ASSUME NEW from, NEW to \in {"done", "failed", "interrupted", "executing"},
           ValidTaskStatusTransition(from, to)
    PROVE  from = to \/ from \notin TerminalStatus
  BY DEF ValidTaskStatusTransition, TerminalStatus

LEMMA MildWrites ==
    ASSUME NEW u, NEW next, Mild(u), Wrote(u.status, u, next)
    PROVE  Plain /\ Stops /\ KeepsIntr /\ snap'.next = next
<1>1. Plain /\ KeepsIntr /\ snap'.next = next
  BY DEF Mild, Wrote, Plain, KeepsIntr
<1>2. Stops
  BY StopsActive DEF Mild, Wrote, Stops, Active
<1> QED
  BY <1>1, <1>2

LEMMA MildCommit ==
    ASSUME TaskOK, NEW u, NEW next, Mild(u), TryCommit(u, next)
    PROVE  Plain /\ Stops /\ KeepsIntr /\ snap'.next \in {next, snap.next}
<1>1. CASE CanCommit(u)
  BY <1>1, TryWrites, MildWrites
<1>2. CASE ~CanCommit(u)
  BY <1>2, TryWrites DEF Plain, Stops, KeepsIntr
<1> QED
  BY <1>1, <1>2

LEMMA MildUpdates ==
    /\ Mild(NoUpdate)
    /\ \A st \in {"failed", "interrupted"} : Mild([NoUpdate EXCEPT !.status = st])
    /\ \A t : Mild([NoUpdate EXCEPT !.tokens = t])
    /\ \A step : Mild([NoUpdate EXCEPT !.intr = CtxInterrupt(step)])
    /\ Mild([NoUpdate EXCEPT !.status = "interrupted",
                !.intr = [reason |-> "user_interrupt", idx |-> -1, resume |-> NoStep]])
    /\ \A rev : Mild(ReviewerUpdate(rev))
  BY DEF Mild, NoUpdate, CtxInterrupt, Held, ReviewerUpdate, NoReplan

LEMMA SnapSame ==
    ASSUME UNCHANGED snap
    PROVE  Plain /\ Stops /\ KeepsIntr /\ snap'.next = snap.next /\ CalmNext
  BY DEF Plain, Stops, KeepsIntr, CalmNext, StepRoutes

LEMMA CalmRunSame == \A w \in Walkers : run[w].pc # "starting" => CalmRun(run[w], run[w])
  BY DEF CalmRun

\* a goroutine that only moves to a pc where it holds no snapshot
LEMMA CalmRunTo ==
    ASSUME run \in [Walkers -> Run], Unstarted,
           NEW w \in Walkers, NEW pc \in {"load", "failing", "end"},
           run' = [run EXCEPT ![w].pc = pc] \/ run' = [run EXCEPT ![w].pc = pc, ![w].rev = NoReview]
    PROVE  \A v \in Walkers : CalmRun(run[v], run'[v])
<1>1. \A v \in Walkers \ {w} : run'[v] = run[v]
  OBVIOUS
<1>2. run'[w].pc = pc /\ run'[w].attempt = run[w].attempt /\ run'[w].recorded = run[w].recorded
  <2>1. run[w] \in Run
    OBVIOUS
  <2>2. CASE run' = [run EXCEPT ![w].pc = pc]
    BY <2>1, <2>2 DEF Run
  <2>3. CASE run' = [run EXCEPT ![w].pc = pc, ![w].rev = NoReview]
    <3>1. run'[w] = [[run[w] EXCEPT !.pc = pc] EXCEPT !.rev = NoReview]
      BY <2>3
    <3> QED
      BY <2>1, <3>1 DEF Run
  <2> QED
    BY <2>2, <2>3
<1> QED
  BY <1>1, <1>2 DEF CalmRun, Holding, Working, Unstarted

LEMMA LaunchCalm ==
    ASSUME OneInv, NEW w \in Walkers, StartGraphRun(w) \/ ResumeViaGraph(w) \/ RunViaGraph(w)
    PROVE  Calm
<1>1. run \in [Walkers -> Run] /\ Unstarted /\ snap \in Snapshot
  BY DEF OneInv, TypeInv, TaskOK
<1>2. \A v \in Walkers \ {w} : run'[v] = run[v]
  BY <1>1 DEF StartGraphRun, ResumeViaGraph, RunViaGraph
<1>3. CalmRun(run[w], run'[w])
  <2>1. CASE StartGraphRun(w)
    <3>1. run'[w].pc = "loop" /\ run'[w].last = run[w].last /\ run'[w].last.next = NoStep
          /\ run'[w].attempt = run[w].attempt /\ run'[w].recorded = run[w].recorded
      BY <1>1, <2>1 DEF StartGraphRun, Run, Unstarted
    <3> QED
      BY <3>1 DEF CalmRun, Holding, Working
  <2>2. CASE ResumeViaGraph(w) \/ RunViaGraph(w)
    <3>1. \/ run'[w] = [IdleRun EXCEPT !.pc = "starting"]
          \/ run'[w] = [IdleRun EXCEPT !.pc = "starting", !.sync = TRUE]
      BY <1>1, <2>2 DEF ResumeViaGraph, RunViaGraph
    <3>3. run'[w].pc = "starting" /\ run'[w].last.next = NoStep
          /\ run'[w].attempt = 0 /\ run'[w].recorded = <<>>
      <4>1. NoSnapshot.next = NoStep
        BY DEF NoSnapshot
      <4>2. CASE run'[w] = [IdleRun EXCEPT !.pc = "starting"]
        BY <4>1, <4>2 DEF IdleRun
      <4>3. CASE run'[w] = [IdleRun EXCEPT !.pc = "starting", !.sync = TRUE]
        BY <4>1, <4>3 DEF IdleRun
      <4> QED
        BY <3>1, <4>2, <4>3
    <3> QED
      BY <3>3 DEF CalmRun, Holding, Working
  <2> QED
    BY <2>1, <2>2
<1>4. \A v \in Walkers : CalmRun(run[v], run'[v])
  BY <1>1, <1>2, <1>3 DEF Unstarted, CalmRun
<1>5. Plain /\ Stops /\ KeepsIntr /\ CalmNext
  <2>1. CASE UNCHANGED snap
    BY <2>1, SnapSame
  <2>2. CASE snap' = [snap EXCEPT !.next = "planner"]
    <3>1. snap'.state = snap.state /\ snap'.next = "planner"
      BY <1>1, <2>2 DEF Snapshot
    <3> QED
      BY <3>1 DEF Plain, Stops, KeepsIntr, CalmNext
  <2> QED
    BY <2>1, <2>2 DEF StartGraphRun, ResumeViaGraph, RunViaGraph
<1>6. \A o \in Operators : op'[o] \in {op[o], IdleOp}
  BY DEF StartGraphRun, ResumeViaGraph, RunViaGraph
<1> QED
  BY <1>4, <1>5, <1>6 DEF Calm

LEMMA HoldsRoute ==
    ASSUME NEW w \in Walkers, run[w].pc \in Holding
    PROVE  run[w].last.next \in StepRoutes /\ run[w].last.next \in AllRoutes
  BY DEF StepRoutes, RunRoutes, AllRoutes

LEMMA LoopCalm ==
    ASSUME OneInv, NEW w \in Walkers,
           \/ WalkerCtxErr(w) \/ WalkerCtxOk(w) \/ CommitFailureBoundary(w) \/ EndRun(w)
           \/ PlannerError(w) \/ PlannerCancelled(w) \/ NodeOutOfRange(w) \/ NodeError(w)
           \/ StoreFault(w) \/ BoundaryFault(w) \/ NodePanic(w)
    PROVE  Calm
<1>1. run \in [Walkers -> Run] /\ Unstarted /\ TaskOK
  BY DEF OneInv, TypeInv, TaskOK
<1>2. \A v \in Walkers : CalmRun(run[v], run'[v])
  <2>1. CASE EndRun(w)
    <3>1. run'[w] = IdleRun /\ \A v \in Walkers \ {w} : run'[v] = run[v]
      BY <1>1, <2>1 DEF EndRun
    <3>2. IdleRun.pc = "idle" /\ IdleRun.attempt = 0 /\ IdleRun.recorded = <<>>
      BY DEF IdleRun
    <3> QED
      BY <1>1, <3>1, <3>2 DEF CalmRun, Holding, Working, Unstarted
  <2>2. CASE ~EndRun(w)
    <3>1. PICK pc \in {"load", "failing", "end"} :
             \/ run' = [run EXCEPT ![w].pc = pc]
             \/ run' = [run EXCEPT ![w].pc = pc, ![w].rev = NoReview]
      BY <2>2 DEF WalkerCtxErr, WalkerCtxOk, CommitFailureBoundary, PlannerError,
        PlannerCancelled, NodeOutOfRange, NodeError, StoreFault, BoundaryFault, NodePanic, ErrorPc
    <3> QED
      BY <1>1, <3>1, CalmRunTo
  <2> QED
    BY <2>1, <2>2
<1>3. Plain /\ Stops /\ KeepsIntr /\ CalmNext
  <2>1. CASE WalkerCtxErr(w)
    <3>1. CASE UNCHANGED snap
      BY <3>1, SnapSame
    <3>2. CASE ~UNCHANGED snap
      <4> DEFINE u == [NoUpdate EXCEPT !.intr = CtxInterrupt(run[w].last.next)]
      <4>1. TryCommit(u, run[w].last.next) /\ run[w].pc = "loop"
        BY <2>1, <3>2 DEF WalkerCtxErr
      <4>2. Mild(u)
        BY MildUpdates
      <4>3. run[w].last.next \in StepRoutes
        BY <4>1, HoldsRoute DEF Holding
      <4> HIDE DEF u
      <4>4. Plain /\ Stops /\ KeepsIntr /\ snap'.next \in {run[w].last.next, snap.next}
        BY <1>1, <4>1, <4>2, MildCommit
      <4> QED
        BY <4>3, <4>4 DEF CalmNext, StepRoutes
    <3> QED
      BY <3>1, <3>2
  <2>2. CASE CommitFailureBoundary(w)
    <3>1. Mild([NoUpdate EXCEPT !.status = "failed"])
      BY MildUpdates
    <3>2. Plain /\ Stops /\ KeepsIntr /\ snap'.next \in {"terminal", snap.next}
      BY <1>1, <2>2, <3>1, MildCommit DEF CommitFailureBoundary
    <3> QED
      BY <3>2 DEF CalmNext, StepRoutes
  <2>3. CASE NodePanic(w)
    <3> DEFINE u == IF run[w].last.state.status \in TerminalStatus THEN NoUpdate
                    ELSE [NoUpdate EXCEPT !.status = "failed"]
    <3>1. Mild(u)
      BY MildUpdates
    <3>2. TryCommit(u, "terminal")
      BY <2>3 DEF NodePanic
    <3> HIDE DEF u
    <3>3. Plain /\ Stops /\ KeepsIntr /\ snap'.next \in {"terminal", snap.next}
      BY <1>1, <3>1, <3>2, MildCommit
    <3> QED
      BY <3>3 DEF CalmNext, StepRoutes
  <2>4. CASE ~WalkerCtxErr(w) /\ ~CommitFailureBoundary(w) /\ ~NodePanic(w)
    <3>1. UNCHANGED snap
      BY <2>4 DEF WalkerCtxOk, EndRun, PlannerError,
        PlannerCancelled, NodeOutOfRange, NodeError, StoreFault, BoundaryFault
    <3> QED
      BY <3>1, SnapSame
  <2> QED
    BY <2>1, <2>2, <2>3, <2>4
<1>4. op' = op
  BY DEF WalkerCtxErr, WalkerCtxOk, CommitFailureBoundary, EndRun, PlannerError,
    PlannerCancelled, NodeOutOfRange, NodeError, StoreFault, BoundaryFault, NodePanic
<1> QED
  BY <1>2, <1>3, <1>4 DEF Calm

LEMMA ReviewCalm ==
    ASSUME OneInv, NEW w \in Walkers, ReviewTask(w) \/ ReviewSubTask(w)
    PROVE  Calm
<1>1. run \in [Walkers -> Run] /\ Unstarted /\ TaskOK
  BY DEF OneInv, TypeInv, TaskOK
<1>2. PICK results : RunReview(w, results)
  BY DEF ReviewTask, ReviewSubTask
<1>3. run[w].pc = "node" /\ run[w].last.next \in {"reviewer", "strict_review"}
  BY DEF ReviewTask, ReviewSubTask, AtNode
<1>4. PICK r \in results, t \in TokenCosts :
         /\ \/ TryCommit([NoUpdate EXCEPT !.tokens = t], "reviewer")
            \/ UNCHANGED snap
         /\ run' = [run EXCEPT ![w].pc = "reviewed",
                        ![w].rev = [verdict |-> r.verdict, low |-> r.low, tokens |-> t]]
  BY <1>2 DEF RunReview
<1>5. \A v \in Walkers \ {w} : run'[v] = run[v]
  BY <1>1, <1>4
<1>6. /\ run'[w].pc = "reviewed" /\ run'[w].last = run[w].last
      /\ run'[w].attempt = run[w].attempt /\ run'[w].recorded = run[w].recorded
  <2> DEFINE v == [verdict |-> r.verdict, low |-> r.low, tokens |-> t]
  <2>1. run' = [run EXCEPT ![w].pc = "reviewed", ![w].rev = v]
    BY <1>4
  <2> HIDE DEF v
  <2>2. run'[w] = [[run[w] EXCEPT !.pc = "reviewed"] EXCEPT !.rev = v] /\ run[w] \in Run
    BY <1>1, <2>1
  <2> QED
    BY <2>2 DEF Run
<1>7. \A v \in Walkers : CalmRun(run[v], run'[v])
  BY <1>1, <1>3, <1>5, <1>6 DEF CalmRun, Working, Holding, Unstarted
<1>8. Plain /\ Stops /\ KeepsIntr /\ CalmNext
  <2>1. CASE UNCHANGED snap
    BY <2>1, SnapSame
  <2>2. CASE TryCommit([NoUpdate EXCEPT !.tokens = t], "reviewer")
    <3>1. "reviewer" \in StepRoutes \/ StrictReview
      <4>1. run[w].last.next \in StepRoutes /\ run[w].last.next \in AllRoutes
        BY <1>3, HoldsRoute DEF Holding
      <4> QED
        BY <1>3, <4>1 DEF OneInv, Routes, RouteOk
    <3>2. Mild([NoUpdate EXCEPT !.tokens = t])
      BY MildUpdates
    <3>3. Plain /\ Stops /\ KeepsIntr /\ snap'.next \in {"reviewer", snap.next}
      BY <1>1, <2>2, <3>2, MildCommit
    <3> QED
      BY <3>1, <3>3 DEF CalmNext, StepRoutes
  <2> QED
    BY <1>4, <2>1, <2>2
<1>9. op' = op
  BY <1>2 DEF RunReview
<1> QED
  BY <1>7, <1>8, <1>9 DEF Calm

\* the executor at work changes nothing of the task
Still == UNCHANGED <<snap, run, eng, op, late, spent, events>>

LEMMA OutsideCalm ==
    ASSUME OneInv,
           \/ InterruptWithCancel \/ InterruptWithCommit \/ Crash \/ Sweep \/ WallclockElapses
           \/ \E w \in Walkers : ParentCancel(w)
           \/ Still
    PROVE  Calm
<1>1. run \in [Walkers -> Run] /\ Unstarted /\ TaskOK
  BY DEF OneInv, TypeInv, TaskOK
<1>2. \A v \in Walkers : CalmRun(run[v], run'[v])
  <2>1. CASE run' = run
    BY <1>1, <2>1 DEF CalmRun, Unstarted
  <2>2. CASE Crash
    <3>1. IdleRun.pc = "idle" /\ IdleRun.attempt = 0 /\ IdleRun.recorded = <<>>
      BY DEF IdleRun
    <3>2. \A v \in Walkers : run'[v] = IdleRun
      BY <2>2 DEF Crash
    <3> QED
      BY <3>1, <3>2 DEF CalmRun, Holding, Working
  <2>3. CASE InterruptWithCancel \/ \E w \in Walkers : ParentCancel(w)
    <3> SUFFICES ASSUME NEW v \in Walkers PROVE CalmRun(run[v], run'[v])
      OBVIOUS
    <3>0. run[v] \in Run
      BY <1>1
    <3>1. run'[v] = run[v] \/ run'[v] = [run[v] EXCEPT !.cancelled = TRUE]
      BY <1>1, <2>3 DEF InterruptWithCancel, ParentCancel
    <3>2. run'[v].pc = run[v].pc /\ run'[v].last = run[v].last
          /\ run'[v].attempt = run[v].attempt /\ run'[v].recorded = run[v].recorded
      BY <3>0, <3>1 DEF Run
    <3> QED
      BY <1>1, <3>2 DEF CalmRun, Unstarted
  <2> QED
    BY <2>1, <2>2, <2>3 DEF InterruptWithCommit, Sweep, WallclockElapses, Still
<1>3. Plain /\ Stops /\ KeepsIntr /\ CalmNext
  <2>1. CASE UNCHANGED snap
    BY <2>1, SnapSame
  <2>2. CASE Sweep
    <3>1. Mild([NoUpdate EXCEPT !.status = "failed"])
      BY MildUpdates
    <3>2. Plain /\ Stops /\ KeepsIntr /\ snap'.next \in {"terminal", snap.next}
      BY <1>1, <2>2, <3>1, MildCommit DEF Sweep, MarkTaskFailedDurable
    <3> QED
      BY <3>2 DEF CalmNext, StepRoutes
  <2>3. CASE InterruptWithCommit /\ ~UNCHANGED snap
    <3> DEFINE u == [NoUpdate EXCEPT !.status = "interrupted",
                       !.intr = [reason |-> "user_interrupt", idx |-> -1, resume |-> NoStep]]
    <3>1. TryCommit(u, "terminal")
      BY <2>3 DEF InterruptWithCommit
    <3>2. Mild(u)
      BY MildUpdates
    <3> HIDE DEF u
    <3>3. Plain /\ Stops /\ KeepsIntr /\ snap'.next \in {"terminal", snap.next}
      BY <1>1, <3>1, <3>2, MildCommit
    <3> QED
      BY <3>3 DEF CalmNext, StepRoutes
  <2> QED
    BY <2>1, <2>2, <2>3 DEF InterruptWithCancel, InterruptWithCommit, Crash, WallclockElapses,
      ParentCancel, Still
<1>4. \A o \in Operators : op'[o] \in {op[o], IdleOp}
  BY DEF InterruptWithCancel, InterruptWithCommit, Crash, Sweep, WallclockElapses, ParentCancel,
    Still
<1> QED
  BY <1>2, <1>3, <1>4 DEF Calm

LEMMA AbortCalm ==
    ASSUME OneInv, NEW o \in Operators, OperatorCommit(o), op[o].decision = "abort"
    PROVE  Calm
<1>1. TaskOK /\ Unstarted /\ op \in [Operators -> OpState]
  BY DEF OneInv, TypeInv, TaskOK
<1>2. /\ TryCommit([NoUpdate EXCEPT !.status = "failed"], "terminal") /\ run' = run
      /\ op' = [op EXCEPT ![o] = IdleOp]
  BY DEF OperatorCommit, MarkTaskFailedDurable
<1>3. Mild([NoUpdate EXCEPT !.status = "failed"])
  BY MildUpdates
<1>4. Plain /\ Stops /\ KeepsIntr /\ snap'.next \in {"terminal", snap.next}
  BY <1>1, <1>2, <1>3, MildCommit
<1>5. CalmNext
  BY <1>4 DEF CalmNext, StepRoutes
<1>6. \A v \in Walkers : CalmRun(run[v], run'[v])
  BY <1>1, <1>2 DEF CalmRun, Unstarted
<1>7. \A p \in Operators : op'[p] \in {op[p], IdleOp}
  BY <1>1, <1>2
<1> QED
  BY <1>4, <1>5, <1>6, <1>7 DEF Calm

\* a node commit that is rejected ends its goroutine and changes nothing else
LEMMA RejectedCalm ==
    ASSUME Unstarted, NEW w \in Walkers, snap' = snap, op' = op,
           NEW last, NEW attempt, NEW recorded,
           Moved(w, ErrorPc(w), last, attempt, recorded), attempt = run[w].attempt,
           \/ recorded = run[w].recorded
           \/ /\ attempt < EffectiveTaskRetries /\ run[w].pc = "reviewed"
              /\ run[w].last.next = "reviewer" /\ recorded = run[w].last.state.plan
    PROVE  Calm
<1>1. CalmRun(run[w], run'[w])
  BY DEF Moved, CalmRun, Holding, Working, ErrorPc
<1>2. \A v \in Walkers \ {w} : CalmRun(run[v], run'[v])
  BY DEF Moved, CalmRun, Unstarted
<1>3. Plain /\ Stops /\ KeepsIntr /\ CalmNext
  BY SnapSame
<1> QED
  BY <1>1, <1>2, <1>3 DEF Calm

-----------------------------------------------------------------------------
(* The gates of the walker and the answers of the operator *)

LEMMA LoadFields ==
    ASSUME TaskOK, NEW w \in Walkers, WalkerLoad(w)
    PROVE  /\ snap' = snap /\ op' = op /\ run[w].pc = "load"
           /\ run'[w].pc \in {"end", "budget", "node"}
           /\ snap.state.intr # NoInterrupt /\ run'[w].pc # "end" => snap.next = "approval"
           /\ run'[w].pc = "node" => ~Exceeded(snap.state)
           /\ run'[w].last = snap /\ run'[w].attempt = run[w].attempt
           /\ run'[w].recorded = run[w].recorded
           /\ \A v \in Walkers \ {w} : run'[v] = run[v]
<1> DEFINE pc == IF \/ snap.next = "terminal"
                    \/ snap.state.intr # NoInterrupt /\ snap.next # "approval" THEN "end"
                 ELSE IF Exceeded(snap.state) THEN "budget"
                 ELSE "node"
<1>1. run[w] \in Run /\ run \in [Walkers -> Run]
  BY DEF TaskOK
<1>2. run' = [run EXCEPT ![w].last = snap, ![w].pc = pc] /\ run[w].pc = "load"
      /\ snap' = snap /\ op' = op
  BY DEF WalkerLoad
<1>3. /\ pc \in {"end", "budget", "node"}
      /\ snap.state.intr # NoInterrupt /\ pc # "end" => snap.next = "approval"
      /\ pc = "node" => ~Exceeded(snap.state)
  OBVIOUS
<1> HIDE DEF pc
<1>4. run'[w] = [[run[w] EXCEPT !.last = snap] EXCEPT !.pc = pc]
      /\ \A v \in Walkers \ {w} : run'[v] = run[v]
  BY <1>1, <1>2
<1>5. run'[w].pc = pc /\ run'[w].last = snap /\ run'[w].attempt = run[w].attempt
      /\ run'[w].recorded = run[w].recorded
  BY <1>1, <1>4 DEF Run
<1> QED
  BY <1>2, <1>3, <1>4, <1>5

LEMMA LoadStep ==
    ASSUME OneInv, OneWalker, NEW w \in Walkers, WalkerLoad(w), TypeInv'
    PROVE  OneInv'
<1>1. /\ snap' = snap /\ op' = op /\ run[w].pc = "load"
      /\ run'[w].pc \in {"end", "budget", "node"}
      /\ snap.state.intr # NoInterrupt /\ run'[w].pc # "end" => snap.next = "approval"
      /\ run'[w].last = snap /\ run'[w].attempt = run[w].attempt
      /\ run'[w].recorded = run[w].recorded
  BY LoadFields DEF OneInv, TypeInv
<1>2. \A v \in Walkers : v = w
  BY DEF OneWalker
<1>3. snap.state.intr # NoInterrupt => Quiet'
  BY <1>1, <1>2 DEF Quiet, QuietRun, Holding, Working, Pending
<1>4. Unstarted' /\ Current'
  BY <1>1, <1>2 DEF Unstarted, Current, SameWork
<1>5. SnapQuiet' /\ OpQuiet'
  <2>1. Held(snap.state.intr) => snap.state.intr # NoInterrupt
    BY DEF Held, NoInterrupt
  <2> QED
    BY <1>1, <1>3, <2>1 DEF OneInv, SnapQuiet, OpQuiet, Answering
<1>6. Skippable' /\ PausesAt'
  BY <1>1 DEF OneInv, Skippable, PausesAt
<1>7. AllRoutes' \subseteq AllRoutes
  BY <1>1, <1>2 DEF AllRoutes, StepRoutes, RunRoutes, OpRoutes
<1>8. Routes'
  BY <1>1, <1>7 DEF OneInv, Routes
<1>9. ResolvedPrefix' /\ DoneOk'
  BY <1>1 DEF OneInv, ResolvedPrefix, DoneOk, DoneMeansResolved
<1>10. ReplanArmed' /\ ReplanBounded'
  BY <1>1, <1>2, <1>7 DEF OneInv, ReplanArmed, ReplanBounded
<1> QED
  BY <1>4, <1>5, <1>6, <1>8, <1>9, <1>10 DEF OneInv

LEMMA BudgetFields ==
    ASSUME TaskOK, NEW w \in Walkers, CommitBudgetInterrupt(w)
    PROVE  /\ Plain /\ snap'.state.status = snap.state.status
           /\ snap'.state.used = snap.state.used
           /\ snap'.state.intr = [reason |-> "budget_exceeded", idx |-> -1,
                                  resume |-> run[w].last.next]
           /\ snap'.next = run[w].last.next /\ op' = op /\ run[w].pc = "budget"
           /\ run'[w].pc = "end" /\ run'[w].last = run[w].last
           /\ run'[w].attempt = run[w].attempt /\ run'[w].recorded = run[w].recorded
           /\ \A v \in Walkers \ {w} : run'[v] = run[v]
<1> DEFINE i == [reason |-> "budget_exceeded", idx |-> -1, resume |-> run[w].last.next]
           u == [NoUpdate EXCEPT !.intr = i]
<1>1. TryCommit(u, run[w].last.next) /\ run[w].pc = "budget" /\ op' = op
      /\ run' = [run EXCEPT ![w].pc = "end"]
  BY DEF CommitBudgetInterrupt
<1>2. i # NoInterrupt
  BY DEF NoInterrupt
<1> HIDE DEF i
<1>3. u.status = "" /\ u.intr = i /\ u.idx = -1 /\ u.plan = <<>> /\ u.replan = NoReplan
      /\ ~u.clearReplan /\ u.tokens = 0
  BY DEF NoUpdate
<1> HIDE DEF u
<1>4. Wrote("", u, run[w].last.next)
  BY <1>1, <1>3, PlainAccepted, TryWrites
<1>5. /\ Plain /\ snap'.state.status = snap.state.status /\ snap'.state.intr = i
      /\ snap'.next = run[w].last.next
  BY <1>2, <1>3, <1>4 DEF Wrote, Plain
<1>6. snap'.state.used = snap.state.used
  <2>1. snap'.state.used = snap.state.used + 0
    BY <1>3, <1>4 DEF Wrote
  <2>2. snap.state.used \in Nat
    BY SnapFields
  <2> QED
    BY <2>1, <2>2
<1>7. run[w] \in Run /\ run \in [Walkers -> Run]
  BY DEF TaskOK
<1>8. /\ run'[w].pc = "end" /\ run'[w].last = run[w].last
      /\ run'[w].attempt = run[w].attempt /\ run'[w].recorded = run[w].recorded
      /\ \A v \in Walkers \ {w} : run'[v] = run[v]
  BY <1>1, <1>7 DEF Run
<1> QED
  BY <1>1, <1>5, <1>6, <1>8 DEF i

LEMMA BudgetStep ==
    ASSUME OneInv, OneWalker, NEW w \in Walkers, CommitBudgetInterrupt(w), TypeInv'
    PROVE  OneInv'
<1>1. /\ Plain /\ snap'.state.status = snap.state.status
      /\ snap'.state.intr = [reason |-> "budget_exceeded", idx |-> -1,
                             resume |-> run[w].last.next]
      /\ snap'.next = run[w].last.next /\ op' = op /\ run[w].pc = "budget"
      /\ run'[w].pc = "end" /\ run'[w].last = run[w].last
      /\ run'[w].attempt = run[w].attempt /\ run'[w].recorded = run[w].recorded
  BY BudgetFields DEF OneInv, TypeInv
<1>2. \A v \in Walkers : v = w
  BY DEF OneWalker
<1>3. SameWork(snap'.state, snap.state)
  BY <1>1 DEF Plain, SameWork
<1>a. /\ snap'.state.intr.reason = "budget_exceeded" /\ snap'.state.intr.idx = -1
      /\ snap'.state.intr.resume = run[w].last.next
  BY <1>1
<1>4. Unstarted' /\ Current' /\ Quiet'
  BY <1>1, <1>2 DEF Unstarted, Current, Quiet, QuietRun, Holding, Working
<1>5. SnapQuiet' /\ OpQuiet'
  <2>1. snap'.state.intr # NoInterrupt
    BY <1>a, IdleOpFields
  <2>2. \A o \in Operators : Answering(o) => SameWork(op[o].seen.state, snap'.state)
    BY <1>3 DEF OneInv, OpQuiet, SameWork
  <2> QED
    BY <1>1, <1>4, <2>1, <2>2 DEF SnapQuiet, OpQuiet, Answering
<1>6. Skippable' /\ PausesAt'
  BY <1>1, <1>a DEF OneInv, Skippable, PausesAt, PauseAt
<1>7. run[w].last.next \in AllRoutes
  BY <1>1, HoldsRoute DEF Holding
<1>8. AllRoutes' \subseteq AllRoutes
  <2>1. RunRoutes' = {}
    BY <1>1, <1>2 DEF RunRoutes, Holding
  <2>2. ResumesAt(snap'.state.intr) = {run[w].last.next}
    BY <1>a DEF ResumesAt
  <2>3. OpRoutes' = OpRoutes
    BY <1>1 DEF OpRoutes
  <2> QED
    BY <1>1, <1>7, <2>1, <2>2, <2>3 DEF AllRoutes, StepRoutes
<1>9. Routes'
  BY <1>3, <1>8, SameWorkFacts DEF OneInv, Routes
<1>10. ResolvedPrefix' /\ DoneOk'
  BY <1>1 DEF OneInv, Plain, ResolvedPrefix, DoneOk, DoneMeansResolved
<1>11. ReplanArmed' /\ ReplanBounded'
  BY <1>1, <1>2, <1>8 DEF OneInv, ReplanArmed, ReplanBounded
<1> QED
  BY <1>4, <1>5, <1>6, <1>9, <1>10, <1>11 DEF OneInv

LEMMA ReadFields ==
    ASSUME TaskOK, NEW o \in Operators, OperatorRead(o)
    PROVE  /\ snap' = snap /\ run' = run /\ snap.state.intr # NoInterrupt
           /\ op'[o].seen = snap /\ op'[o].decision \in {"retry", "skip", "abort"}
           /\ op'[o].decision = "skip" => SkipAllowed(snap.state)
           /\ \A p \in Operators \ {o} : op'[p] = op[p]
<1>1. PICK d \in {"retry", "skip", "abort"} :
         /\ d = "skip" => SkipAllowed(snap.state)
         /\ op' = [op EXCEPT ![o] = [decision |-> d, seen |-> snap]]
  BY DEF OperatorRead
<1>2. op'[o] = [decision |-> d, seen |-> snap] /\ \A p \in Operators \ {o} : op'[p] = op[p]
  BY <1>1 DEF TaskOK
<1>3. op'[o].decision = d /\ op'[o].seen = snap
  BY <1>2
<1> QED
  BY <1>1, <1>2, <1>3 DEF OperatorRead

LEMMA ReadStep ==
    ASSUME OneInv, NEW o \in Operators, OperatorRead(o), TypeInv'
    PROVE  OneInv'
<1>1. /\ snap' = snap /\ run' = run /\ snap.state.intr # NoInterrupt
      /\ op'[o].seen = snap /\ op'[o].decision \in {"retry", "skip", "abort"}
      /\ op'[o].decision = "skip" => SkipAllowed(snap.state)
      /\ \A p \in Operators \ {o} : op'[p] = op[p]
  BY ReadFields DEF OneInv, TypeInv
<1>2. Quiet => Quiet'
  BY <1>1 DEF Quiet
<1>3. Unstarted' /\ Current' /\ SnapQuiet'
  BY <1>1, <1>2 DEF OneInv, Unstarted, Current, SnapQuiet
<1>4. OpQuiet'
  <2> SUFFICES ASSUME NEW p \in Operators, Answering(p)'
               PROVE  Quiet' /\ snap'.state.intr # NoInterrupt
                      /\ SameWork(op'[p].seen.state, snap'.state)
    BY DEF OpQuiet
  <2>1. CASE p = o
    BY <1>1, <1>2, <2>1 DEF OneInv, SnapQuiet, Answering, SameWork
  <2>2. CASE p # o
    BY <1>1, <1>2, <2>2 DEF OneInv, OpQuiet, Answering
  <2> QED
    BY <2>1, <2>2
<1>5. Skippable' /\ PausesAt'
  BY <1>1 DEF OneInv, Skippable, PausesAt
<1>6. AllRoutes' \subseteq AllRoutes
  <2>1. OpRoutes' \subseteq OpRoutes \cup ResumesAt(snap.state.intr)
    BY <1>1 DEF OpRoutes
  <2>2. RunRoutes' = RunRoutes
    BY <1>1 DEF RunRoutes
  <2> QED
    BY <1>1, <2>1, <2>2 DEF AllRoutes, StepRoutes
<1>7. Routes'
  BY <1>1, <1>6 DEF OneInv, Routes
<1>8. ResolvedPrefix' /\ DoneOk' /\ ReplanArmed' /\ ReplanBounded'
  BY <1>1, <1>6 DEF OneInv, ResolvedPrefix, DoneOk, DoneMeansResolved, ReplanArmed, ReplanBounded
<1> QED
  BY <1>3, <1>4, <1>5, <1>7, <1>8 DEF OneInv

\* Only these fields change when an operator's answer clears an interrupt.
LEMMA RetryFields ==
    ASSUME TaskOK, NEW o \in Operators, OperatorCommit(o), op[o].decision = "retry"
    PROVE  /\ Plain /\ snap'.state.status = snap.state.status
           /\ snap'.state.used = snap.state.used
           /\ snap'.state.intr = NoInterrupt /\ snap'.next = RetryStep(op[o].seen.state.intr)
           /\ run' = run /\ op' = [op EXCEPT ![o] = IdleOp]
<1> DEFINE u == [NoUpdate EXCEPT !.clearIntr = TRUE]
           step == RetryStep(op[o].seen.state.intr)
<1>1. TryCommit(u, step) /\ run' = run /\ op' = [op EXCEPT ![o] = IdleOp]
  BY DEF OperatorCommit
<1>2. u.status = "" /\ u.intr = NoInterrupt /\ u.idx = -1 /\ u.plan = <<>>
      /\ u.replan = NoReplan /\ ~u.clearReplan /\ u.clearIntr /\ u.tokens = 0
  BY DEF NoUpdate
<1> HIDE DEF u, step
<1>3. Wrote("", u, step)
  BY <1>1, <1>2, PlainAccepted, TryWrites
<1>4. /\ Plain /\ snap'.state.status = snap.state.status
      /\ snap'.state.intr = NoInterrupt /\ snap'.next = step
  BY <1>2, <1>3 DEF Wrote, Plain
<1>5. snap'.state.used = snap.state.used
  <2>1. snap'.state.used = snap.state.used + 0
    BY <1>2, <1>3 DEF Wrote
  <2>2. snap.state.used \in Nat
    BY SnapFields
  <2> QED
    BY <2>1, <2>2
<1> QED
  BY <1>1, <1>4, <1>5 DEF step

LEMMA RetryOneStep ==
    ASSUME OneInv, OneOperator, NEW o \in Operators, OperatorCommit(o), op[o].decision = "retry",
           TypeInv'
    PROVE  OneInv'
<1>1. /\ Plain /\ snap'.state.status = snap.state.status
      /\ snap'.state.intr = NoInterrupt /\ snap'.next = RetryStep(op[o].seen.state.intr)
      /\ run' = run /\ op' = [op EXCEPT ![o] = IdleOp]
  BY RetryFields DEF OneInv, TypeInv
<1>2. \A p \in Operators : p = o /\ op'[p] = IdleOp
  BY <1>1 DEF OneOperator, OneInv, TypeInv, TaskOK
<1>3. SameWork(snap'.state, snap.state)
  BY <1>1 DEF Plain, SameWork
<1>4. Unstarted' /\ Current'
  BY <1>1, <1>3 DEF OneInv, Unstarted, Current, SameWork
<1>5. SnapQuiet' /\ OpQuiet' /\ Skippable'
  BY <1>1, <1>2, IdleOpFields DEF SnapQuiet, OpQuiet, Skippable, Held, Answering
<1>6. PausesAt'
  BY <1>1, <1>2, IdleOpFields DEF PausesAt, PauseAt
<1>7. AllRoutes' \subseteq AllRoutes \cup {"executor"}
  <2>1. snap'.next \in OpRoutes \cup {"executor"}
    BY <1>1 DEF RetryStep, OpRoutes, ResumesAt
  <2>2. RunRoutes' = RunRoutes
    BY <1>1 DEF RunRoutes
  <2>3. OpRoutes' = {}
    BY <1>2, IdleOpFields DEF OpRoutes
  <2>4. ResumesAt(snap'.state.intr) = {}
    BY <1>1, IdleOpFields DEF ResumesAt
  <2> QED
    BY <2>1, <2>2, <2>3, <2>4 DEF AllRoutes, StepRoutes
<1>8. Routes'
  <2>1. \A next \in AllRoutes' : RouteOk(next, snap.state)
    BY <1>7 DEF OneInv, Routes, RouteOk
  <2> QED
    BY <1>3, <2>1, SameWorkFacts DEF Routes
<1>9. ResolvedPrefix' /\ DoneOk'
  BY <1>1 DEF OneInv, Plain, ResolvedPrefix, DoneOk, DoneMeansResolved
<1>10. ReplanArmed' /\ ReplanBounded'
  BY <1>1, <1>7 DEF OneInv, ReplanArmed, ReplanBounded
<1> QED
  BY <1>4, <1>5, <1>6, <1>8, <1>9, <1>10 DEF OneInv

\* one sub-task of a plan is replaced
LEMMA Replaced ==
    ASSUME NEW p \in Seq(SubTask), NEW k \in 1..Len(p), NEW x
    PROVE  LET q == [p EXCEPT ![k] = x] IN
           /\ Len(q) = Len(p) /\ q # <<>> /\ q[k] = x /\ DOMAIN q = DOMAIN p
           /\ \A i \in 1..Len(p) : i # k => q[i] = p[i]
<1> DEFINE q == [p EXCEPT ![k] = x]
<1>1. DOMAIN q = 1..Len(p) /\ q[k] = x /\ DOMAIN p = 1..Len(p)
      /\ \A i \in 1..Len(p) : i # k => q[i] = p[i]
  OBVIOUS
<1>2. Len(p) \in Nat /\ k \in Nat
  OBVIOUS
<1> HIDE DEF q
<1>3. Len(q) = Len(p)
  BY <1>1, <1>2
<1>4. q # <<>>
  BY <1>1, <1>2
<1> QED
  BY <1>1, <1>3, <1>4 DEF q

(***************************************************************************)
(* What a step within a plan may do to its sub-tasks: the ones that are    *)
(* done, skipped or failed stay so.                                        *)
(***************************************************************************)
KeepsPlan ==
    /\ Len(snap'.state.plan) = Len(snap.state.plan)
    /\ \A i \in 1..Len(snap.state.plan) :
          /\ Settled(snap.state, i) => Settled(snap'.state, i)
          /\ snap.state.plan[i].st = "done" => snap'.state.plan[i].st = "done"
          /\ snap.state.plan[i].st \in ResolvedStatus => snap'.state.plan[i].st \in ResolvedStatus

\* the sub-task at CurrentIdx, not settled yet, becomes x
Edits(x) ==
    /\ InRange(snap.state) /\ ~Settled(snap.state, snap.state.idx + 1)
    /\ x.st \in ResolvedStatus \cup {snap.state.plan[snap.state.idx + 1].st}
    /\ snap'.state.plan = [snap.state.plan EXCEPT ![snap.state.idx + 1] = x]

LEMMA PlanPlace ==
    ASSUME TaskOK, InRange(snap.state)
    PROVE  /\ snap.state.idx + 1 \in 1..Len(snap.state.plan)
           /\ snap.state.plan \in Seq(SubTask) /\ snap.state.idx \in Nat
           /\ Len(snap.state.plan) \in Nat
           /\ snap.state.plan[snap.state.idx + 1] \in SubTask
<1>1. /\ snap.state.plan \in Seq(SubTask) /\ snap.state.idx \in Int
      /\ snap.state.idx \in 0 .. Len(snap.state.plan) - 1
  BY SnapFields DEF InRange
<1> QED
  BY <1>1

LEMMA EditsKeep ==
    ASSUME TaskOK, NEW x, Edits(x)
    PROVE  /\ KeepsPlan /\ snap'.state.plan # <<>>
           /\ snap'.state.plan[snap.state.idx + 1] = x
<1> DEFINE p == snap.state.plan
           k == snap.state.idx + 1
           q == snap'.state.plan
<1>1. k \in 1..Len(p) /\ p \in Seq(SubTask)
  BY PlanPlace DEF Edits
<1>2. /\ p[k].st \notin {"done", "skipped"} /\ x.st \in ResolvedStatus \cup {p[k].st}
      /\ q = [p EXCEPT ![k] = x]
  BY DEF Edits, Settled
<1> HIDE DEF p, q, k
<1>3. Len(q) = Len(p) /\ q # <<>> /\ q[k] = x /\ \A i \in 1..Len(p) : i # k => q[i] = p[i]
  BY <1>1, <1>2, Replaced
<1>4. \A i \in 1..Len(p) :
         /\ p[i].st \in {"done", "skipped"} => q[i].st \in {"done", "skipped"}
         /\ p[i].st = "done" => q[i].st = "done"
         /\ p[i].st \in ResolvedStatus => q[i].st \in ResolvedStatus
  BY <1>1, <1>2, <1>3
<1> QED
  BY <1>3, <1>4 DEF KeepsPlan, Settled, p, q, k

LEMMA PlainKeeps == Plain => KeepsPlan
  BY DEF Plain, KeepsPlan, Settled

\* CurrentIdx moves on by one, over a sub-task that is now resolved
LEMMA AdvancePrefix ==
    ASSUME TaskOK, ResolvedPrefix, KeepsPlan, InRange(snap.state),
           snap'.state.plan[snap.state.idx + 1].st \in ResolvedStatus,
           snap'.state.idx = snap.state.idx + 1
    PROVE  ResolvedPrefix'
<1>1. snap.state.idx \in Nat /\ snap.state.idx + 1 \in 1..Len(snap.state.plan)
  BY PlanPlace
<1>2. \A i \in 1..snap.state.idx + 1 : i = snap.state.idx + 1 \/ i \in 1..snap.state.idx
  BY <1>1
<1>3. \A i \in 1..snap.state.idx : i \in 1..Len(snap.state.plan)
  BY <1>1
<1>4. \A i \in 1..snap.state.idx + 1 : snap'.state.plan[i].st \in ResolvedStatus
  BY <1>2, <1>3 DEF ResolvedPrefix, KeepsPlan
<1> QED
  BY <1>1, <1>4 DEF ResolvedPrefix, KeepsPlan

LEMMA StayPrefix ==
    ASSUME TaskOK, ResolvedPrefix, KeepsPlan, snap'.state.idx = snap.state.idx
    PROVE  ResolvedPrefix'
<1>1. snap.state.idx \in 0..Len(snap.state.plan) /\ Len(snap.state.plan) \in Nat
  BY SnapFields DEF ResolvedPrefix
<1>2. \A i \in 1..snap.state.idx : i \in 1..Len(snap.state.plan)
  BY <1>1
<1> QED
  BY <1>1, <1>2 DEF ResolvedPrefix, KeepsPlan

LEMMA SkipFields ==
    ASSUME OneInv, NEW o \in Operators, OperatorCommit(o), op[o].decision = "skip"
    PROVE  /\ Edits([snap.state.plan[snap.state.idx + 1] EXCEPT !.st = "skipped"])
           /\ snap'.state.idx = snap.state.idx + 1 /\ snap'.state.replan = snap.state.replan
           /\ snap'.state.status = snap.state.status /\ snap'.state.used = snap.state.used
           /\ snap'.state.intr = NoInterrupt /\ snap'.next = "executor"
           /\ run' = run /\ op' = [op EXCEPT ![o] = IdleOp] /\ Quiet
<1> DEFINE s == op[o].seen.state
           p == snap.state.plan
           k == snap.state.idx + 1
           x == [p[k] EXCEPT !.st = "skipped"]
           u == SkipUpdate(s)
<1>0. TaskOK /\ PauseAt(s) /\ SkipAllowed(s) /\ OpQuiet
  BY DEF OneInv, TypeInv, PausesAt, Skippable
<1>1. TryCommit(u, "executor") /\ run' = run /\ op' = [op EXCEPT ![o] = IdleOp]
  BY DEF OperatorCommit
<1>2. s.intr.idx # -1
  <2>1. s.plan \in Seq(SubTask) /\ s.intr.idx \in 0 .. Len(s.plan) - 1
    BY <1>0, OpTypes DEF SkipAllowed
  <2> QED
    BY <2>1
<1>3. InRange(s) /\ s.intr.idx = s.idx /\ ~Settled(s, s.idx + 1) /\ Answering(o)
  BY <1>0, <1>2 DEF PauseAt, Answering, Held
<1>4. Quiet /\ SameWork(s, snap.state)
  BY <1>0, <1>3 DEF OpQuiet
<1>5. InRange(snap.state) /\ ~Settled(snap.state, k) /\ s.intr.idx = snap.state.idx /\ s.plan = p
  BY <1>3, <1>4, SameWorkFacts DEF SameWork
<1>6. k \in 1..Len(p) /\ p \in Seq(SubTask) /\ p[k] \in SubTask
      /\ snap.state.idx \in Nat
  BY <1>0, <1>5, PlanPlace
<1>7. u.status = "" /\ u.intr = NoInterrupt /\ u.idx = s.intr.idx + 1
      /\ u.plan = [s.plan EXCEPT ![s.intr.idx + 1].st = "skipped"]
      /\ u.replan = NoReplan /\ ~u.clearReplan /\ u.clearIntr /\ u.tokens = 0
  <2> DEFINE q == [s.plan EXCEPT ![s.intr.idx + 1].st = "skipped"]
             j == s.intr.idx + 1
  <2>1. u = [NoUpdate EXCEPT !.plan = q, !.idx = j, !.clearIntr = TRUE]
    BY DEF SkipUpdate
  <2> HIDE DEF q, j, u
  <2>2. u.status = "" /\ u.intr = NoInterrupt /\ u.idx = j /\ u.plan = q
        /\ u.replan = NoReplan /\ ~u.clearReplan /\ u.clearIntr /\ u.tokens = 0
    BY <2>1 DEF NoUpdate
  <2> QED
    BY <2>2 DEF q, j
<1>8. u.plan = [p EXCEPT ![k] = x]
  BY <1>5, <1>7
<1>9. u.idx = k /\ k # -1
  <2>1. u.idx = s.intr.idx + 1 /\ s.intr.idx = snap.state.idx /\ snap.state.idx \in Nat
    BY <1>5, <1>6, <1>7
  <2> HIDE DEF u, s
  <2> QED
    BY <2>1
<1>10. x.st = "skipped"
  BY <1>6 DEF SubTask
<1> HIDE DEF u, x, p, k, s
<1>11. u.plan # <<>>
  BY <1>6, <1>8, Replaced
<1>12. Wrote("", u, "executor")
  <2>1. u.status = "" /\ TaskOK /\ TryCommit(u, "executor")
    BY <1>0, <1>1, <1>7
  <2>2. CanCommit(u)
    BY <2>1, PlainAccepted
  <2>3. Wrote(u.status, u, "executor")
    BY <2>1, <2>2, TryWrites
  <2> QED
    BY <2>1, <2>3
<1>13. /\ snap'.state.plan = [p EXCEPT ![k] = x] /\ snap'.state.idx = k
       /\ snap'.state.replan = snap.state.replan /\ snap'.state.status = snap.state.status
       /\ snap'.state.intr = NoInterrupt /\ snap'.next = "executor"
  BY <1>7, <1>8, <1>9, <1>11, <1>12 DEF Wrote
<1>14. snap'.state.used = snap.state.used
  <2>1. snap'.state.used = snap.state.used + 0
    BY <1>7, <1>12 DEF Wrote
  <2>2. snap.state.used \in Nat
    BY <1>0, SnapFields
  <2> QED
    BY <2>1, <2>2
<1>15. Edits(x)
  <2>1. x.st \in ResolvedStatus
    BY <1>10 DEF ResolvedStatus
  <2> QED
    BY <1>5, <1>13, <2>1 DEF Edits, p, k
<1> QED
  BY <1>1, <1>4, <1>13, <1>14, <1>15 DEF x, p, k

LEMMA DoneKept ==
    ASSUME TaskOK, DoneOk, KeepsPlan, snap'.state.status = snap.state.status
    PROVE  DoneOk'
<1>1. snap.state.plan # <<>> => snap'.state.plan # <<>>
  BY SnapFields DEF KeepsPlan
<1> QED
  BY <1>1 DEF DoneOk, DoneMeansResolved, KeepsPlan

LEMMA SkipOneStep ==
    ASSUME OneInv, OneOperator, NEW o \in Operators, OperatorCommit(o), op[o].decision = "skip",
           TypeInv'
    PROVE  OneInv' /\ KeepsPlan
<1> DEFINE x == [snap.state.plan[snap.state.idx + 1] EXCEPT !.st = "skipped"]
<1>1. /\ Edits(x) /\ Quiet
      /\ snap'.state.idx = snap.state.idx + 1 /\ snap'.state.status = snap.state.status
      /\ snap'.state.intr = NoInterrupt /\ snap'.next = "executor"
      /\ run' = run /\ op' = [op EXCEPT ![o] = IdleOp]
  BY SkipFields
<1>2. \A p \in Operators : p = o /\ op'[p] = IdleOp
  BY <1>1 DEF OneOperator, OneInv, TypeInv, TaskOK
<1>3. TaskOK
  BY DEF OneInv, TypeInv
<1>4. KeepsPlan /\ snap'.state.plan[snap.state.idx + 1].st \in ResolvedStatus
  <2>1. x.st = "skipped"
    <3> DEFINE old == snap.state.plan[snap.state.idx + 1]
    <3>1. old \in SubTask
      BY <1>1, <1>3, PlanPlace DEF Edits
    <3> HIDE DEF old
    <3>2. [old EXCEPT !.st = "skipped"].st = "skipped"
      BY <3>1 DEF SubTask
    <3> QED
      BY <3>2 DEF old
  <2> HIDE DEF x
  <2> QED
    BY <1>1, <1>3, <2>1, EditsKeep DEF ResolvedStatus
<1> HIDE DEF x
<1>5. Unstarted' /\ Current'
  BY <1>1 DEF OneInv, Unstarted, Current, Quiet, QuietRun
<1>6. SnapQuiet' /\ OpQuiet' /\ Skippable'
  BY <1>1, <1>2, IdleOpFields DEF SnapQuiet, OpQuiet, Skippable, Held, Answering
<1>7. PausesAt'
  BY <1>1, <1>2, IdleOpFields DEF PausesAt, PauseAt
<1>8. AllRoutes' \subseteq {"executor", "approval", NoStep}
  <2>1. RunRoutes' \subseteq {"approval", NoStep}
    BY <1>1 DEF RunRoutes, Quiet, QuietRun
  <2>2. OpRoutes' = {} /\ ResumesAt(snap'.state.intr) = {}
    BY <1>1, <1>2, IdleOpFields DEF OpRoutes, ResumesAt
  <2> QED
    BY <1>1, <2>1, <2>2 DEF AllRoutes, StepRoutes
<1>9. Routes'
  BY <1>8 DEF Routes, RouteOk, NoStep
<1>10. ResolvedPrefix' /\ DoneOk'
  BY <1>1, <1>3, <1>4, AdvancePrefix, DoneKept DEF OneInv, Edits
<1>11. ReplanArmed' /\ ReplanBounded'
  BY <1>1, <1>8 DEF OneInv, ReplanArmed, ReplanBounded, NoStep
<1> QED
  BY <1>4, <1>5, <1>6, <1>7, <1>9, <1>10, <1>11 DEF OneInv

-----------------------------------------------------------------------------
(***************************************************************************)
(* Steps of the nodes.  A goroutine that works holds the stored plan, and  *)
(* nobody else is about to change it: what is left to show of a node is    *)
(* what it makes of the plan, and that its next step suits the result.     *)
(***************************************************************************)
Works(w) ==
    /\ run[w].pc \in Working /\ ~Pending(run[w].last)
    /\ run'[w].pc \in {"loop", "end"} /\ run'[w].last = snap' /\ op' = op
    /\ ResolvedPrefix' /\ DoneOk' /\ RouteOk(snap'.next, snap'.state)
    /\ \/ snap'.state.intr = snap.state.intr
       \/ /\ PauseAt(snap'.state) /\ snap'.next = "approval"
          /\ snap'.state.intr.reason = "subtask_failure_pause"
    /\ run'[w].attempt <= EffectiveTaskRetries
    /\ snap'.next = "replan_setup" /\ run'[w].recorded # <<>>
         => run'[w].attempt < EffectiveTaskRetries

LEMMA NobodyElse ==
    ASSUME OneInv, NEW w \in Walkers, run[w].pc \in Working, ~Pending(run[w].last)
    PROVE  /\ ~Held(snap.state.intr) /\ \A o \in Operators : ~Answering(o)
           /\ SameWork(run[w].last.state, snap.state) /\ snap.state.intr.idx = -1
<1>1. ~Quiet
  BY DEF Quiet, QuietRun
<1>2. ~Held(snap.state.intr) /\ \A o \in Operators : ~Answering(o)
  BY <1>1 DEF OneInv, SnapQuiet, OpQuiet
<1>3. snap.state.intr.idx = -1
  BY <1>2 DEF OneInv, PausesAt, PauseAt, Held
<1>4. SameWork(run[w].last.state, snap.state)
  BY DEF OneInv, Current
<1> QED
  BY <1>2, <1>3, <1>4

LEMMA WorkStep ==
    ASSUME OneInv, OneWalker, NEW w \in Walkers, Works(w), TypeInv'
    PROVE  OneInv'
<1>1. /\ ~Held(snap.state.intr) /\ \A o \in Operators : ~Answering(o)
      /\ snap.state.intr.idx = -1
  BY NobodyElse DEF Works
<1>2. \A v \in Walkers : v = w
  BY DEF OneWalker
<1>3. op' = op /\ \A o \in Operators : op'[o] = op[o]
  BY DEF Works
<1>4. Unstarted' /\ Current'
  BY <1>2 DEF Works, Unstarted, Current, Working
<1>5. SnapQuiet'
  BY <1>1, <1>2 DEF Works, SnapQuiet, Quiet, QuietRun, Working, Holding
<1>6. OpQuiet' /\ Skippable'
  BY <1>1, <1>3 DEF OneInv, OpQuiet, Skippable, Answering
<1>7. PausesAt'
  <2>1. CASE snap'.state.intr = snap.state.intr
    BY <1>1, <1>3, <2>1 DEF OneInv, PausesAt, PauseAt, Held
  <2>2. CASE PauseAt(snap'.state)
    BY <1>3, <2>2 DEF OneInv, PausesAt
  <2> QED
    BY <2>1, <2>2 DEF Works
<1>8. AllRoutes' = {snap'.next}
  <2>1. RunRoutes' \subseteq {snap'.next}
    BY <1>2 DEF Works, RunRoutes
  <2>2. OpRoutes' = {}
    BY <1>1, <1>3 DEF OpRoutes, ResumesAt, Answering, Held
  <2>3. ResumesAt(snap'.state.intr) = {}
    BY <1>1 DEF Works, ResumesAt, Held
  <2> QED
    BY <2>1, <2>2, <2>3 DEF AllRoutes, StepRoutes
<1>9. Routes'
  BY <1>8 DEF Works, Routes
<1>10. ReplanArmed' /\ ReplanBounded'
  BY <1>2, <1>8 DEF Works, ReplanArmed, ReplanBounded
<1> QED
  BY <1>4, <1>5, <1>6, <1>7, <1>9, <1>10 DEF OneInv, Works

\* out writes the plan, the index and the tokens only
Inner(out) ==
    out.status = "" /\ out.intr = NoInterrupt /\ ~out.clearIntr
    /\ out.replan = NoReplan /\ ~out.clearReplan

\* what the status becomes when a node writes none
Finishes(next) ==
    \/ snap'.state.status = snap.state.status
    \/ Active /\ snap'.state.status = "done" /\ next = "terminal"

LEMMA InnerWrites ==
    ASSUME NEW w, NEW out, NEW next, NEW st \in TaskStatus \cup {""},
           Finishing(w, st, out.status, next), Wrote(st, out, next), out.status = ""
    PROVE  Finishes(next)
<1>1. st = "" \/ (st = "done" /\ next = "terminal")
  BY DEF Finishing
<1>2. CASE st = ""
  BY <1>2 DEF Wrote, Finishes
<1>3. CASE st = "done" /\ next = "terminal"
  BY <1>3, StopsActive DEF Wrote, Finishes, Active
<1> QED
  BY <1>1, <1>2, <1>3

\* after the last sub-task: a task that ends there has resolved its whole plan
LEMMA FinishedOk ==
    ASSUME TaskOK, DoneOk, ResolvedPrefix', KeepsPlan, snap'.state.plan # <<>>,
           NEW next, Finishes(next),
           next = "terminal" => StrictReview \/ snap'.state.idx >= Len(snap'.state.plan)
    PROVE  DoneOk'
<1>1. CASE snap'.state.status = snap.state.status
  BY <1>1, DoneKept
<1>2. CASE snap'.state.status # snap.state.status /\ StrictReview = FALSE
  <2>1. snap'.state.idx >= Len(snap'.state.plan)
    BY <1>2 DEF Finishes
  <2>2. Len(snap'.state.plan) \in Nat
    BY SnapFields DEF KeepsPlan
  <2>3. snap'.state.idx = Len(snap'.state.plan)
    <3>1. snap'.state.idx \in 0..Len(snap'.state.plan)
      BY DEF ResolvedPrefix
    <3> QED
      BY <2>1, <2>2, <3>1
  <2>4. \A i \in 1..Len(snap'.state.plan) : snap'.state.plan[i].st \in ResolvedStatus
    BY <2>3 DEF ResolvedPrefix
  <2> QED
    BY <2>4 DEF DoneOk, DoneMeansResolved
<1>3. StrictReview \in BOOLEAN
  BY ConfigAssumption
<1> QED
  BY <1>1, <1>2, <1>3 DEF DoneOk

\* the goroutine goes on with its own commit
Goes(w, next, attempt, recorded) ==
    /\ run'[w].pc = (IF next = "terminal" THEN "end" ELSE "loop") /\ run'[w].last = snap'
    /\ run'[w].attempt = attempt /\ run'[w].recorded = recorded
    /\ snap'.next = next /\ op' = op

SameIntr == snap'.state.intr = snap.state.intr

LEMMA NodeOutcome ==
    ASSUME OneInv, NEW w \in Walkers, NEW r \in Run, NEW out \in StateUpdate, NEW next,
           NodeCommit(w, r, out, next, FALSE), r.cancelled = run[w].cancelled, r.sync = run[w].sync
    PROVE  \/ /\ snap' = snap /\ op' = op /\ (out.status # "" \/ (next = "terminal" /\ Refused(w)))
              /\ Moved(w, ErrorPc(w), r.last, r.attempt, r.recorded)
           \/ /\ \E st \in TaskStatus \cup {""} :
                    Finishing(w, st, out.status, next) /\ Wrote(st, out, next)
              /\ Goes(w, next, r.attempt, r.recorded)
<1>1. TaskOK /\ op' = op
  BY DEF OneInv, TypeInv, NodeCommit
<1> DEFINE halt == FALSE
<1>a. halt \in BOOLEAN /\ NodeCommit(w, r, out, next, halt)
  OBVIOUS
<1>2. CASE /\ snap' = snap /\ (out.status # "" \/ (next = "terminal" /\ Refused(w)))
           /\ Moved(w, ErrorPc(w), r.last, r.attempt, r.recorded)
  BY <1>1, <1>2
<1>3. CASE /\ \E st \in TaskStatus \cup {""} :
                    Finishing(w, st, out.status, next) /\ Wrote(st, out, next)
           /\ Moved(w, IF next = "terminal" \/ halt THEN "end" ELSE "loop", snap',
                    r.attempt, r.recorded)
  <2>1. snap'.next = next
    BY <1>3 DEF Wrote
  <2>2. Goes(w, next, r.attempt, r.recorded)
    BY <1>1, <1>3, <2>1 DEF Goes, Moved
  <2> QED
    BY <1>3, <2>2
<1> HIDE DEF halt
<1>4. \/ /\ snap' = snap /\ out.status # ""
         /\ Moved(w, ErrorPc(w), r.last, r.attempt, r.recorded)
      \/ /\ snap' = snap /\ next = "terminal" /\ Refused(w)
         /\ Moved(w, ErrorPc(w), r.last, r.attempt, r.recorded)
      \/ /\ \E st \in TaskStatus \cup {""} :
               Finishing(w, st, out.status, next) /\ Wrote(st, out, next)
         /\ Moved(w, IF next = "terminal" \/ halt THEN "end" ELSE "loop", snap',
                  r.attempt, r.recorded)
  BY <1>1, <1>a, NodeWrites
<1> QED
  BY <1>2, <1>3, <1>4

Planned(w) ==
    /\ AtNode(w, "planner") /\ Active /\ snap'.state.status = "executing"
    /\ \E n \in PlanSizes :
          snap'.state.plan = MergePreservedSubTasks(run[w].last.state.replan.preserved, n)
    /\ snap'.state.idx = 0 /\ SameIntr /\ snap'.state.plan # <<>>
    /\ snap'.state.replan = snap.state.replan \/ snap'.state.replan = NoReplan
    /\ Goes(w, "executor", run[w].attempt, run[w].recorded)

LEMMA PlannerEffect ==
    ASSUME OneInv, NEW w \in Walkers, PlannerPlan(w)
    PROVE  Planned(w) \/ (Calm /\ snap' = snap)
<1> DEFINE keep == run[w].last.state.replan.preserved
           on == run[w].last.state.replan.on
           m(n) == MergePreservedSubTasks(keep, n)
           u(n, t) == [NoUpdate EXCEPT !.status = "executing", !.idx = 0,
                         !.plan = m(n), !.clearReplan = on, !.tokens = t]
<1>1. PICK n \in PlanSizes, t \in TokenCosts : NodeCommit(w, run[w], u(n, t), "executor", FALSE)
  BY DEF PlannerPlan
<1>2. AtNode(w, "planner") /\ TaskOK /\ run[w] \in Run /\ Unstarted
  BY RunTypes DEF PlannerPlan, OneInv, TypeInv
<1>3. n \in Nat \ {0} /\ t \in Nat /\ keep \in Seq(SubTask) /\ on \in BOOLEAN
  BY <1>2, RunTypes, ConfigAssumption
<1> DEFINE plan == m(n)
           out == [NoUpdate EXCEPT !.status = "executing", !.idx = 0,
                      !.plan = plan, !.clearReplan = on, !.tokens = t]
<1>b. NodeCommit(w, run[w], out, "executor", FALSE) /\ n \in PlanSizes
      /\ plan = MergePreservedSubTasks(run[w].last.state.replan.preserved, n)
      /\ plan = MergePreservedSubTasks(keep, n)
  BY <1>1
<1> HIDE DEF plan, on, keep, m, u
<1>a. plan \in Seq(SubTask) /\ plan # <<>>
  <2>1. plan \in Seq(SubTask) /\ Len(plan) = Len(keep) + n
    BY <1>3, <1>b, MergeType
  <2>2. Len(keep) \in Nat
    BY <1>3
  <2>3. plan # <<>>
    BY <1>3, <2>1, <2>2
  <2> QED
    BY <2>1, <2>3
<1>5. /\ out.status = "executing" /\ out.idx = 0 /\ out.plan = plan /\ out.intr = NoInterrupt
      /\ out.clearIntr = FALSE /\ out.replan = NoReplan
  BY DEF NoUpdate
<1>6. out \in StateUpdate
  BY <1>3, <1>a, PlanUpdateType
<1> HIDE DEF out
<1>7. CASE snap' = snap /\ op' = op
           /\ Moved(w, ErrorPc(w), run[w].last, run[w].attempt, run[w].recorded)
  BY <1>2, <1>7, RejectedCalm
<1>8. CASE /\ \E st \in TaskStatus \cup {""} :
                 Finishing(w, st, out.status, "executor") /\ Wrote(st, out, "executor")
           /\ Goes(w, "executor", run[w].attempt, run[w].recorded)
  <2>1. Wrote("executing", out, "executor")
    BY <1>5, <1>8 DEF Finishing
  <2>2. snap'.state.status = "executing"
        /\ ValidTaskStatusTransition(snap.state.status, "executing")
    BY <2>1 DEF Wrote
  <2>3. Active
    BY <2>2 DEF ValidTaskStatusTransition, Active, TerminalStatus
  <2>4. snap'.state.plan = plan /\ snap'.state.idx = 0 /\ SameIntr
        /\ (snap'.state.replan = snap.state.replan \/ snap'.state.replan = NoReplan)
    BY <1>5, <1>a, <2>1 DEF Wrote, SameIntr
  <2> QED
    BY <1>2, <1>8, <1>a, <1>b, <2>2, <2>3, <2>4 DEF Planned
<1> QED
  BY <1>2, <1>6, <1>7, <1>8, <1>b, NodeOutcome

LEMMA PlannerOneStep ==
    ASSUME OneInv, OneWalker, NEW w \in Walkers, Planned(w), TypeInv'
    PROVE  OneInv'
<1>1. run[w].pc \in Working /\ ~Pending(run[w].last)
  BY DEF Planned, AtNode, Working, Pending
<1>2. ResolvedPrefix' /\ DoneOk'
  <2>1. Len(snap'.state.plan) \in Nat
    BY SnapFields DEF TypeInv, TaskOK, Snapshot, State
  <2> QED
    BY <2>1 DEF Planned, ResolvedPrefix, DoneOk, DoneMeansResolved
<1>3. Works(w)
  BY <1>1, <1>2 DEF Planned, Goes, Works, RouteOk, SameIntr, OneInv, ReplanBounded
<1> QED
  BY <1>3, WorkStep

\* the commit of a node that writes the plan, the index or nothing at all
\* the goroutine of a refused commit leaves the loop
GaveUp(w) == Refused(w) /\ run'[w].pc \notin Working

LEMMA InnerOutcome ==
    ASSUME OneInv, NEW w \in Walkers, NEW out \in StateUpdate, NEW next, Inner(out),
           NodeCommit(w, run[w], out, next, FALSE)
    PROVE  \/ Calm /\ snap' = snap /\ GaveUp(w)
           \/ /\ SameIntr /\ snap'.state.replan = snap.state.replan /\ Finishes(next)
              /\ snap'.state.idx = (IF out.idx = -1 THEN snap.state.idx ELSE out.idx)
              /\ snap'.state.plan = (IF out.plan = <<>> THEN snap.state.plan ELSE out.plan)
              /\ snap'.state.status = "done" =>
                    \/ snap.state.status = "done"
                    \/ run[w].last.state.status \notin TerminalStatus
              /\ Goes(w, next, run[w].attempt, run[w].recorded)
<1>1. TaskOK /\ Unstarted /\ run[w] \in Run
  BY RunTypes DEF OneInv, TypeInv
<1>2. CASE snap' = snap /\ op' = op /\ (out.status # "" \/ (next = "terminal" /\ Refused(w)))
           /\ Moved(w, ErrorPc(w), run[w].last, run[w].attempt, run[w].recorded)
  <2>1. Calm
    BY <1>1, <1>2, RejectedCalm
  <2>2. run'[w].pc \notin Working
    BY <1>2 DEF Moved, ErrorPc, Working
  <2> QED
    BY <1>2, <2>1, <2>2 DEF Inner, GaveUp
<1>3. CASE /\ \E st \in TaskStatus \cup {""} :
                 Finishing(w, st, out.status, next) /\ Wrote(st, out, next)
           /\ Goes(w, next, run[w].attempt, run[w].recorded)
  <2>1. PICK st \in TaskStatus \cup {""} :
               Finishing(w, st, out.status, next) /\ Wrote(st, out, next)
    BY <1>3
  <2>2. Finishes(next)
    BY <2>1, InnerWrites DEF Inner
  <2>3. snap'.state.status = "done" =>
             \/ snap.state.status = "done"
             \/ run[w].last.state.status \notin TerminalStatus
    BY <2>1 DEF Inner, Finishing, Wrote
  <2>4. /\ SameIntr /\ snap'.state.replan = snap.state.replan
        /\ snap'.state.idx = (IF out.idx = -1 THEN snap.state.idx ELSE out.idx)
        /\ snap'.state.plan = (IF out.plan = <<>> THEN snap.state.plan ELSE out.plan)
    BY <2>1 DEF Inner, Wrote, SameIntr
  <2> QED
    BY <1>3, <2>2, <2>3, <2>4
<1> QED
  BY <1>1, <1>2, <1>3, NodeOutcome

\* a goroutine past its load whose snapshot is still the current one
LEMMA OnThePlan ==
    ASSUME OneInv, NEW w \in Walkers, run[w].pc \in Working, ~Pending(run[w].last),
           InRange(run[w].last.state)
    PROVE  /\ InRange(snap.state) /\ run[w].last.state.idx = snap.state.idx
           /\ run[w].last.state.plan = snap.state.plan
           /\ snap.state.idx + 1 \in 1..Len(snap.state.plan)
           /\ snap.state.plan \in Seq(SubTask) /\ snap.state.idx \in Nat
           /\ Len(snap.state.plan) \in Nat
           /\ snap.state.plan[snap.state.idx + 1] \in SubTask
<1>1. SameWork(run[w].last.state, snap.state) /\ TaskOK
  BY NobodyElse DEF OneInv, TypeInv
<1>2. InRange(snap.state)
  BY <1>1, SameWorkFacts
<1> QED
  BY <1>1, <1>2, PlanPlace DEF SameWork

LEMMA IdxUpdate ==
    ASSUME NEW i \in Nat
    PROVE  LET out == [NoUpdate EXCEPT !.idx = i] IN
           out \in StateUpdate /\ Inner(out) /\ out.idx = i /\ out.plan = <<>>
<1>1. i \in Int
  OBVIOUS
<1>2. [NoUpdate EXCEPT !.idx = i] \in StateUpdate
  BY <1>1, ConstantTypes, UpdateFields
<1> QED
  BY <1>2 DEF Inner, NoUpdate

Advanced(w) ==
    /\ AtNode(w, "executor") /\ InRange(snap.state)
    /\ Settled(snap.state, snap.state.idx + 1)
    /\ snap'.state.plan = snap.state.plan /\ snap'.state.replan = snap.state.replan
    /\ snap'.state.idx = snap.state.idx + 1 /\ SameIntr
    /\ LET next == NextStepAfter(snap.state.idx + 1, Len(snap.state.plan)) IN
       Finishes(next) /\ Goes(w, next, run[w].attempt, run[w].recorded)

LEMMA AdvanceEffect ==
    ASSUME OneInv, NEW w \in Walkers, ExecutorAdvance(w)
    PROVE  Advanced(w) \/ (Calm /\ snap' = snap)
<1> DEFINE s == run[w].last.state
           i == s.idx + 1
           next == NextStepAfter(i, Len(s.plan))
           out == [NoUpdate EXCEPT !.idx = i]
<1>1. /\ AtNode(w, "executor") /\ InRange(s) /\ s.plan[s.idx + 1].st \in {"done", "skipped"}
      /\ NodeCommit(w, run[w], out, next, FALSE)
  BY DEF ExecutorAdvance
<1>2. run[w].pc \in Working /\ ~Pending(run[w].last)
  BY <1>1 DEF AtNode, Working, Pending
<1>3. /\ InRange(snap.state) /\ s.idx = snap.state.idx /\ s.plan = snap.state.plan
      /\ snap.state.idx \in Nat
  BY <1>1, <1>2, OnThePlan
<1>4. i = snap.state.idx + 1 /\ i \in Nat /\ i # -1
      /\ next = NextStepAfter(snap.state.idx + 1, Len(snap.state.plan))
  BY <1>3
<1>5. out \in StateUpdate /\ Inner(out) /\ out.idx = i /\ out.plan = <<>>
  BY <1>4, IdxUpdate
<1>6. Settled(snap.state, snap.state.idx + 1)
  BY <1>1, <1>3 DEF Settled
<1> HIDE DEF out, next, s
<1>7. \/ Calm /\ snap' = snap
      \/ /\ SameIntr /\ snap'.state.replan = snap.state.replan /\ Finishes(next)
         /\ snap'.state.idx = i /\ snap'.state.plan = snap.state.plan
         /\ Goes(w, next, run[w].attempt, run[w].recorded)
  BY <1>1, <1>4, <1>5, InnerOutcome
<1> QED
  BY <1>1, <1>3, <1>4, <1>6, <1>7 DEF Advanced

LEMMA AfterRoute ==
    ASSUME TaskOK, NEW s, s.idx \in Nat, Len(s.plan) \in Nat, s.plan # <<>>
    PROVE  LET next == NextStepAfter(s.idx, Len(s.plan)) IN
           /\ next \in {"executor", "reviewer", "terminal"}
           /\ RouteOk(next, s) /\ (next = "terminal" => s.idx >= Len(s.plan))
  BY DEF NextStepAfter, RouteOk, Complete

LEMMA AdvanceOneStep ==
    ASSUME OneInv, OneWalker, NEW w \in Walkers, Advanced(w), TypeInv'
    PROVE  OneInv' /\ KeepsPlan
<1> DEFINE next == NextStepAfter(snap.state.idx + 1, Len(snap.state.plan))
<1>1. TaskOK /\ run[w].pc \in Working /\ ~Pending(run[w].last)
  BY DEF Advanced, AtNode, Working, Pending, OneInv, TypeInv
<1>2. snap.state.idx \in Nat /\ Len(snap.state.plan) \in Nat /\ snap.state.plan # <<>>
      /\ snap.state.idx + 1 \in 1..Len(snap.state.plan)
  BY <1>1, PlanPlace DEF Advanced
<1>3. KeepsPlan
  BY DEF Advanced, KeepsPlan, Settled
<1>4. ResolvedPrefix'
  <2>1. snap'.state.plan[snap.state.idx + 1].st \in ResolvedStatus
    BY DEF Advanced, Settled, ResolvedStatus
  <2> QED
    BY <1>1, <1>3, <2>1, AdvancePrefix DEF Advanced, OneInv
<1>5. /\ RouteOk(next, snap'.state) /\ (next = "terminal" => snap'.state.idx >= Len(snap'.state.plan))
      /\ next \in {"executor", "reviewer", "terminal"}
  BY <1>1, <1>2, AfterRoute DEF Advanced
<1>6. Finishes(next) /\ Goes(w, next, run[w].attempt, run[w].recorded)
  BY DEF Advanced
<1> HIDE DEF next
<1>7. DoneOk'
  BY <1>1, <1>2, <1>3, <1>4, <1>5, <1>6, FinishedOk DEF OneInv, Advanced
<1>8. Works(w)
  BY <1>1, <1>4, <1>5, <1>6, <1>7 DEF Advanced, Goes, Works, SameIntr, OneInv, ReplanBounded
<1> QED
  BY <1>3, <1>8, WorkStep

\* the sub-task an attempt was made on
Tried(x) == [x EXCEPT !.att = x.att + 1]

SetSt(p, k, st) == [p EXCEPT ![k].st = st]

Becomes(x, st) == [x EXCEPT !.st = st]

Put(p, k, x) == [p EXCEPT ![k] = x]

LEMMA TriedPlan ==
    ASSUME NEW p \in Seq(SubTask), NEW k \in 1..Len(p)
    PROVE  /\ Attempted(p, k) = [p EXCEPT ![k] = Tried(p[k])]
           /\ [Attempted(p, k) EXCEPT ![k].fb = FALSE]
                = [p EXCEPT ![k] = [Tried(p[k]) EXCEPT !.fb = FALSE]]
           /\ \A st : SetSt(Attempted(p, k), k, st) = Put(p, k, Becomes(Tried(p[k]), st))
<1> DEFINE y == Tried(p[k])
           q == [p EXCEPT ![k] = y]
<1>1. Attempted(p, k) = q
  BY DEF Attempted, Tried
<1>2. DOMAIN p = 1..Len(p)
  OBVIOUS
<1> HIDE DEF y
<1>3. \A z : [q EXCEPT ![k] = z] = [p EXCEPT ![k] = z]
  BY <1>2
<1>4. q[k] = y
  BY <1>2
<1> HIDE DEF q
<1>5. \A st : SetSt(q, k, st) = Put(p, k, Becomes(y, st))
  <2> TAKE st
  <2>1. [q EXCEPT ![k].st = st] = [p EXCEPT ![k] = [y EXCEPT !.st = st]]
    BY <1>3, <1>4
  <2> QED
    BY <2>1 DEF SetSt, Put, Becomes
<1>6. [q EXCEPT ![k].fb = FALSE] = [p EXCEPT ![k] = [y EXCEPT !.fb = FALSE]]
  BY <1>3, <1>4
<1> QED
  BY <1>1, <1>5, <1>6 DEF q, y

LEMMA TriedFields ==
    ASSUME NEW x \in SubTask
    PROVE  /\ Tried(x).att = x.att + 1 /\ Tried(x).st = x.st /\ Tried(x) \in SubTask
           /\ \A st \in SubTaskStatus : /\ [Tried(x) EXCEPT !.st = st].st = st
                                        /\ [Tried(x) EXCEPT !.st = st].att = x.att + 1
           /\ [Tried(x) EXCEPT !.fb = FALSE].st = x.st
           /\ [Tried(x) EXCEPT !.fb = FALSE].att = x.att + 1
<1> DEFINE y == Tried(x)
           n == x.att + 1
<1>1. n \in Nat /\ y = [x EXCEPT !.att = n]
  BY DEF SubTask, Tried
<1> HIDE DEF n, y
<1>2. y.att = n /\ y.st = x.st /\ y \in SubTask
  BY <1>1 DEF SubTask
<1>3. \A st \in SubTaskStatus : [y EXCEPT !.st = st].st = st /\ [y EXCEPT !.st = st].att = n
  BY <1>2 DEF SubTask
<1>4. [y EXCEPT !.fb = FALSE].st = x.st /\ [y EXCEPT !.fb = FALSE].att = n
  BY <1>2 DEF SubTask
<1> QED
  BY <1>2, <1>3, <1>4 DEF n, y

FinishOut(q, i, t) == [NoUpdate EXCEPT !.idx = i, !.tokens = t, !.plan = q]

LEMMA FinishUpdate ==
    ASSUME NEW q \in Seq(SubTask), NEW i \in Nat, NEW t \in Nat
    PROVE  LET out == FinishOut(q, i, t) IN
           out \in StateUpdate /\ Inner(out) /\ out.idx = i /\ out.plan = q
<1> DEFINE out == [NoUpdate EXCEPT !.idx = i, !.tokens = t, !.plan = q]
<1>1. [NoUpdate EXCEPT !.idx = i] \in StateUpdate
  BY IdxUpdate
<1>2. [NoUpdate EXCEPT !.idx = i, !.tokens = t] \in StateUpdate
  BY <1>1, UpdateFields
<1>3. out \in StateUpdate
  BY <1>2, UpdateFields
<1>4. Inner(out) /\ out.idx = i /\ out.plan = q
  BY DEF Inner, NoUpdate
<1> HIDE DEF out
<1>5. FinishOut(q, i, t) = out
  BY DEF FinishOut, out
<1> QED
  BY <1>3, <1>4, <1>5

LEMMA PlanOnlyUpdate ==
    ASSUME NEW q \in Seq(SubTask), NEW t \in Nat,
           NEW out, out = [NoUpdate EXCEPT !.plan = q, !.tokens = t]
    PROVE  out \in StateUpdate /\ Inner(out) /\ out.idx = -1 /\ out.plan = q
<1>1. [NoUpdate EXCEPT !.plan = q] \in StateUpdate
  BY ConstantTypes, UpdateFields
<1>2. out \in StateUpdate
  BY <1>1, UpdateFields
<1>3. Inner(out) /\ out.idx = -1 /\ out.plan = q
  BY DEF Inner, NoUpdate
<1> QED
  BY <1>2, <1>3

\* an edit of the sub-task at CurrentIdx that moves on, or stays on it
MovesOn(w, x) ==
    LET next == NextStepAfter(snap.state.idx + 1, Len(snap.state.plan)) IN
    /\ Edits(x) /\ x.st \in ResolvedStatus
    /\ snap'.state.idx = snap.state.idx + 1 /\ snap'.state.replan = snap.state.replan
    /\ SameIntr /\ Finishes(next) /\ Goes(w, next, run[w].attempt, run[w].recorded)

StaysOn(w, x, next) ==
    /\ Edits(x) /\ x.st = snap.state.plan[snap.state.idx + 1].st
    /\ snap'.state.idx = snap.state.idx /\ snap'.state.replan = snap.state.replan
    /\ snap'.state.status = snap.state.status
    /\ Goes(w, next, run[w].attempt, run[w].recorded)

Pauses ==
    snap'.state.intr = [reason |-> "subtask_failure_pause", idx |-> snap.state.idx,
                        resume |-> "executor"]

Ran(w) ==
    /\ AtNode(w, "executor")
    /\ \E x \in SubTask :
          /\ x.att = snap.state.plan[snap.state.idx + 1].att + 1
          /\ \/ MovesOn(w, x)
             \/ StaysOn(w, x, "approval") /\ Pauses
             \/ StaysOn(w, x, "strict_review") /\ StrictReview /\ SameIntr

LEMMA RunEffect ==
    ASSUME OneInv, NEW w \in Walkers, NEW ok \in BOOLEAN, ExecutorRun(w, ok)
    PROVE  Ran(w) \/ (Calm /\ snap' = snap /\ GaveUp(w))
<1> DEFINE s == run[w].last.state
           p == snap.state.plan
           k == snap.state.idx + 1
           i == s.idx + 1
           tried == Attempted(s.plan, i)
           next == NextStepAfter(i, Len(s.plan))
           FinishU(st, t) == [NoUpdate EXCEPT !.idx = i, !.tokens = t,
                                 !.plan = [tried EXCEPT ![i].st = st]]
           StrictU(t) == [NoUpdate EXCEPT !.plan = [tried EXCEPT ![i].fb = FALSE], !.tokens = t]
<1>1. AtNode(w, "executor") /\ InRange(s) /\ s.plan[i].st \notin {"done", "skipped"}
  BY DEF ExecutorRun
<1>2. PICK t \in TokenCosts :
         \/ NodeCommit(w, run[w], ApprovalPause(s.idx, tried, t), "approval", FALSE)
         \/ NodeCommit(w, run[w], FinishU("failed", t), next, FALSE)
         \/ StrictReview /\ NodeCommit(w, run[w], StrictU(t), "strict_review", FALSE)
         \/ NodeCommit(w, run[w], FinishU("done", t), next, FALSE)
  BY DEF ExecutorRun
<1>3. run[w].pc \in Working /\ ~Pending(run[w].last) /\ t \in Nat /\ TaskOK /\ Unstarted
      /\ run[w] \in Run
  BY <1>1, ConfigAssumption, RunTypes DEF AtNode, Working, Pending, OneInv, TypeInv
<1>4. /\ InRange(snap.state) /\ s.idx = snap.state.idx /\ s.plan = p
      /\ k \in 1..Len(p) /\ p \in Seq(SubTask) /\ snap.state.idx \in Nat
      /\ Len(p) \in Nat /\ p[k] \in SubTask
  BY <1>1, <1>3, OnThePlan
<1>5. i = k /\ i \in Nat /\ i # -1 /\ s.idx \in Nat
  BY <1>4
<1>6. /\ ~Settled(snap.state, k) /\ next = NextStepAfter(k, Len(p)) /\ tried = Attempted(p, k)
  BY <1>1, <1>4, <1>5 DEF Settled
<1> HIDE DEF s, p, k, i, tried, next
<1>7. Attempted(p, k) \in Seq(SubTask) /\ [p EXCEPT ![k] = Tried(p[k])] \in Seq(SubTask)
  <2>1. k \in Int
    BY <1>4
  <2> QED
    BY <1>4, <2>1, SubTaskFields, TriedFields, PlanExcept
<1>8. ASSUME NEW st \in {"done", "failed"}, NodeCommit(w, run[w], FinishU(st, t), next, FALSE)
      PROVE  Ran(w) \/ (Calm /\ snap' = snap /\ GaveUp(w))
  <2> DEFINE x == Becomes(Tried(p[k]), st)
             q == [tried EXCEPT ![i].st = st]
             out == [NoUpdate EXCEPT !.idx = i, !.tokens = t, !.plan = q]
  <2>1. q = [p EXCEPT ![k] = x]
    <3>1. q = SetSt(Attempted(p, k), k, st)
      BY <1>5, <1>6 DEF SetSt
    <3>2. SetSt(Attempted(p, k), k, st) = Put(p, k, x)
      <4>1. p \in Seq(SubTask) /\ k \in 1..Len(p)
        BY <1>4
      <4> QED
        BY <4>1, TriedPlan
    <3> QED
      BY <3>1, <3>2 DEF Put
  <2>2. x.st = st /\ x.att = p[k].att + 1 /\ x \in SubTask
    <3>1. Tried(p[k]) \in SubTask /\ st \in SubTaskStatus
      BY <1>4, TriedFields DEF SubTaskStatus
    <3>2. x \in SubTask
      BY <3>1 DEF SubTask, Becomes
    <3> QED
      BY <1>4, <3>1, <3>2, TriedFields DEF Becomes
  <2>3. NodeCommit(w, run[w], out, next, FALSE)
    BY <1>8
  <2> HIDE DEF x, q
  <2>4. q \in Seq(SubTask) /\ q # <<>>
    <3>1. k \in Int
      BY <1>4
    <3> QED
      BY <1>4, <2>1, <2>2, <3>1, PlanExcept, Replaced
  <2>5. out \in StateUpdate /\ Inner(out) /\ out.idx = i /\ out.plan = q
    <3>1. q \in Seq(SubTask) /\ i \in Nat /\ t \in Nat
      BY <1>3, <1>5, <2>4
    <3>2. out = FinishOut(q, i, t)
      BY DEF out, FinishOut
    <3> QED
      BY <3>1, <3>2, FinishUpdate
  <2> HIDE DEF out
  <2>6. \/ Calm /\ snap' = snap /\ GaveUp(w)
        \/ /\ SameIntr /\ snap'.state.replan = snap.state.replan /\ Finishes(next)
           /\ snap'.state.idx = i /\ snap'.state.plan = q
           /\ Goes(w, next, run[w].attempt, run[w].recorded)
    BY <1>3, <1>5, <2>3, <2>4, <2>5, InnerOutcome
  <2>7. st \in ResolvedStatus
    BY DEF ResolvedStatus
  <2>8. CASE snap'.state.plan = q
    <3>1. Edits(x)
      BY <1>4, <1>6, <2>1, <2>2, <2>7, <2>8 DEF Edits, p, k
    <3> QED
      BY <1>1, <1>5, <1>6, <2>2, <2>6, <2>7, <3>1 DEF Ran, MovesOn, p, k
  <2> QED
    BY <2>6, <2>8
<1>9. CASE StrictReview /\ NodeCommit(w, run[w], StrictU(t), "strict_review", FALSE)
  <2> DEFINE x == [Tried(p[k]) EXCEPT !.fb = FALSE]
             q == [tried EXCEPT ![i].fb = FALSE]
             out == [NoUpdate EXCEPT !.plan = q, !.tokens = t]
  <2>1. q = [p EXCEPT ![k] = x]
    BY <1>4, <1>5, <1>6, TriedPlan
  <2>2. x.st = p[k].st /\ x.att = p[k].att + 1 /\ x \in SubTask
    <3>1. Tried(p[k]) \in SubTask
      BY <1>4, TriedFields
    <3>2. x \in SubTask
      BY <3>1 DEF SubTask
    <3> QED
      BY <1>4, <3>2, TriedFields
  <2>3. NodeCommit(w, run[w], out, "strict_review", FALSE)
    BY <1>9
  <2> HIDE DEF x, q
  <2>4. q \in Seq(SubTask) /\ q # <<>>
    <3>1. k \in Int
      BY <1>4
    <3> QED
      BY <1>4, <2>1, <2>2, <3>1, PlanExcept, Replaced
  <2>5. out \in StateUpdate /\ Inner(out) /\ out.idx = -1 /\ out.plan = q
    BY <1>3, <1>5, <2>4, PlanOnlyUpdate DEF out
  <2> HIDE DEF out
  <2>6. \/ Calm /\ snap' = snap /\ GaveUp(w)
        \/ /\ SameIntr /\ snap'.state.replan = snap.state.replan /\ Finishes("strict_review")
           /\ snap'.state.idx = snap.state.idx /\ snap'.state.plan = q
           /\ Goes(w, "strict_review", run[w].attempt, run[w].recorded)
    BY <1>3, <1>5, <2>3, <2>4, <2>5, InnerOutcome
  <2>7. CASE snap'.state.plan = q
    <3>1. Edits(x)
      BY <1>4, <1>6, <2>1, <2>2, <2>7 DEF Edits, p, k
    <3> QED
      BY <1>1, <1>9, <2>2, <2>6, <3>1 DEF Ran, StaysOn, Finishes, p, k
  <2> QED
    BY <2>6, <2>7
<1>10. CASE NodeCommit(w, run[w], ApprovalPause(s.idx, tried, t), "approval", FALSE)
  <2> DEFINE x == Tried(p[k])
             pause == [reason |-> "subtask_failure_pause", idx |-> s.idx, resume |-> "executor"]
             out == [NoUpdate EXCEPT !.plan = tried, !.tokens = t, !.intr = pause]
  <2>1. tried = [p EXCEPT ![k] = x]
    BY <1>4, <1>6, TriedPlan
  <2>2. x.st = p[k].st /\ x.att = p[k].att + 1 /\ x \in SubTask
    BY <1>4, TriedFields
  <2>3. NodeCommit(w, run[w], out, "approval", FALSE)
    BY <1>10 DEF ApprovalPause
  <2>4. tried \in Seq(SubTask) /\ tried # <<>>
    BY <1>4, <1>6, <1>7, <2>1, Replaced
  <2>5. pause \in Interrupt /\ pause # NoInterrupt
    BY <1>5 DEF Interrupt, InterruptReason, RuntimeStep, NoInterrupt
  <2> HIDE DEF x, pause
  <2>6. out \in StateUpdate
    <3>1. [NoUpdate EXCEPT !.plan = tried] \in StateUpdate
      BY <2>4, ConstantTypes, UpdateFields
    <3>2. [NoUpdate EXCEPT !.plan = tried, !.tokens = t] \in StateUpdate
      BY <1>3, <3>1, UpdateFields
    <3> QED
      BY <2>5, <3>2, UpdateFields
  <2>7. /\ out.status = "" /\ out.idx = -1 /\ out.plan = tried /\ out.intr = pause
        /\ out.replan = NoReplan /\ ~out.clearReplan
    BY DEF NoUpdate
  <2> HIDE DEF out
  <2>8. CASE snap' = snap /\ op' = op /\ (out.status # "" \/ ("approval" = "terminal" /\ Refused(w)))
             /\ Moved(w, ErrorPc(w), run[w].last, run[w].attempt, run[w].recorded)
    BY <2>7, <2>8
  <2>9. CASE /\ \E st \in TaskStatus \cup {""} :
                   Finishing(w, st, out.status, "approval") /\ Wrote(st, out, "approval")
             /\ Goes(w, "approval", run[w].attempt, run[w].recorded)
    <3>1. Wrote("", out, "approval")
      BY <2>7, <2>9 DEF Finishing
    <3>2. /\ snap'.state.status = snap.state.status /\ snap'.state.idx = snap.state.idx
          /\ snap'.state.plan = tried /\ snap'.state.intr = pause
          /\ snap'.state.replan = snap.state.replan
      BY <2>4, <2>5, <2>7, <3>1 DEF Wrote
    <3>3. Edits(x)
      BY <1>4, <1>6, <2>1, <2>2, <3>2 DEF Edits, p, k
    <3>4. Pauses
      BY <1>4, <3>2 DEF Pauses, pause
    <3> QED
      BY <1>1, <2>2, <2>9, <3>2, <3>3, <3>4 DEF Ran, StaysOn, p, k
  <2> QED
    BY <1>3, <2>3, <2>6, <2>8, <2>9, NodeOutcome
<1> QED
  BY <1>2, <1>8, <1>9, <1>10

LEMMA MovesOnStep ==
    ASSUME OneInv, OneWalker, NEW w \in Walkers, run[w].pc \in Working, ~Pending(run[w].last),
           NEW x, MovesOn(w, x), TypeInv'
    PROVE  OneInv' /\ KeepsPlan
<1> DEFINE next == NextStepAfter(snap.state.idx + 1, Len(snap.state.plan))
<1>1. TaskOK
  BY DEF OneInv, TypeInv
<1>2. snap.state.idx + 1 \in Nat /\ Len(snap.state.plan) \in Nat
  BY <1>1, PlanPlace DEF MovesOn, Edits
<1>3. KeepsPlan /\ snap'.state.plan # <<>> /\ snap'.state.plan[snap.state.idx + 1] = x
  BY <1>1, EditsKeep DEF MovesOn
<1>4. ResolvedPrefix'
  BY <1>1, <1>3, AdvancePrefix DEF MovesOn, Edits, OneInv
<1>5. /\ RouteOk(next, snap'.state) /\ (next = "terminal" => snap'.state.idx >= Len(snap'.state.plan))
      /\ next \in {"executor", "reviewer", "terminal"}
  <2>1. next = NextStepAfter(snap'.state.idx, Len(snap'.state.plan))
        /\ snap'.state.idx \in Nat /\ Len(snap'.state.plan) \in Nat
    BY <1>2, <1>3 DEF MovesOn, KeepsPlan
  <2> HIDE DEF next
  <2> QED
    BY <1>1, <1>3, <2>1, AfterRoute
<1>6. Finishes(next) /\ Goes(w, next, run[w].attempt, run[w].recorded) /\ SameIntr
  BY DEF MovesOn
<1> HIDE DEF next
<1>7. DoneOk'
  BY <1>1, <1>3, <1>4, <1>5, <1>6, FinishedOk DEF OneInv
<1>8. Works(w)
  BY <1>1, <1>4, <1>5, <1>6, <1>7 DEF Goes, Works, SameIntr, OneInv, ReplanBounded
<1> QED
  BY <1>3, <1>8, WorkStep

LEMMA StaysOnStep ==
    ASSUME OneInv, OneWalker, NEW w \in Walkers, run[w].pc \in Working, ~Pending(run[w].last),
           NEW x, NEW next, StaysOn(w, x, next), TypeInv',
           \/ next = "approval" /\ Pauses
           \/ next = "strict_review" /\ StrictReview /\ SameIntr
           \/ next = "executor" /\ SameIntr
    PROVE  OneInv' /\ KeepsPlan
<1>1. TaskOK
  BY DEF OneInv, TypeInv
<1>2. KeepsPlan /\ snap'.state.plan[snap.state.idx + 1] = x
  BY <1>1, EditsKeep DEF StaysOn
<1>3. InRange(snap'.state) /\ ~Settled(snap'.state, snap'.state.idx + 1)
  BY <1>2 DEF StaysOn, Edits, InRange, Settled, KeepsPlan
<1>4. RouteOk(next, snap'.state)
  BY <1>3 DEF RouteOk
<1>5. ResolvedPrefix' /\ DoneOk'
  BY <1>1, <1>2, StayPrefix, DoneKept DEF StaysOn, OneInv
<1>6. \/ SameIntr
      \/ /\ PauseAt(snap'.state) /\ next = "approval"
         /\ snap'.state.intr.reason = "subtask_failure_pause"
  <2>1. ASSUME Pauses
        PROVE  PauseAt(snap'.state) /\ snap'.state.intr.reason = "subtask_failure_pause"
    <3>1. snap'.state.intr.reason = "subtask_failure_pause"
          /\ snap'.state.intr.idx = snap'.state.idx
      BY <2>1 DEF Pauses, StaysOn
    <3> QED
      BY <1>3, <3>1 DEF PauseAt
  <2> QED
    BY <2>1
<1>7. Goes(w, next, run[w].attempt, run[w].recorded) /\ next # "replan_setup" /\ next # "terminal"
  BY DEF StaysOn
<1>8. Works(w)
  BY <1>1, <1>4, <1>5, <1>6, <1>7 DEF Goes, Works, SameIntr, OneInv, ReplanBounded
<1> QED
  BY <1>2, <1>8, WorkStep

LEMMA RanOneStep ==
    ASSUME OneInv, OneWalker, NEW w \in Walkers, Ran(w), TypeInv'
    PROVE  OneInv' /\ KeepsPlan
<1>1. run[w].pc \in Working /\ ~Pending(run[w].last)
  BY DEF Ran, AtNode, Working, Pending
<1>2. PICK x \in SubTask : \/ MovesOn(w, x)
                           \/ StaysOn(w, x, "approval") /\ Pauses
                           \/ StaysOn(w, x, "strict_review") /\ StrictReview /\ SameIntr
  BY DEF Ran
<1>3. CASE MovesOn(w, x)
  BY <1>1, <1>3, MovesOnStep
<1>4. CASE StaysOn(w, x, "approval") /\ Pauses
  BY <1>1, <1>4, StaysOnStep
<1>5. CASE StaysOn(w, x, "strict_review") /\ StrictReview /\ SameIntr
  BY <1>1, <1>5, StaysOnStep
<1> QED
  BY <1>2, <1>3, <1>4, <1>5

Reviewed(w) ==
    /\ run[w].pc = "reviewed" /\ run[w].last.next = "strict_review" /\ StrictReview
    /\ \E x \in SubTask :
          /\ x.att = snap.state.plan[snap.state.idx + 1].att
          /\ \/ MovesOn(w, x) /\ x.st \in {"done", "skipped"}
             \/ /\ StaysOn(w, x, "executor") /\ SameIntr
                /\ RetryLeft(snap.state.plan[snap.state.idx + 1].att)

\* the two fields the strict reviewer writes
Judged(x, st, fb) == [x EXCEPT !.st = st, !.fb = fb]

LEMMA JudgedFields ==
    ASSUME NEW x \in SubTask, NEW st \in SubTaskStatus, NEW fb \in BOOLEAN
    PROVE  LET y == Judged(x, st, fb) IN y \in SubTask /\ y.st = st /\ y.att = x.att
  BY DEF Judged, SubTask

JudgeOut(q, i, t) == [NoUpdate EXCEPT !.plan = q, !.idx = i, !.tokens = t]

LEMMA JudgeUpdate ==
    ASSUME NEW q \in Seq(SubTask), NEW i \in Nat, NEW t \in Nat
    PROVE  LET out == JudgeOut(q, i, t) IN
           out \in StateUpdate /\ Inner(out) /\ out.idx = i /\ out.plan = q
<1> DEFINE out == [NoUpdate EXCEPT !.plan = q, !.idx = i, !.tokens = t]
<1>1. FinishOut(q, i, t) = out
  BY DEF FinishOut, NoUpdate
<1> HIDE DEF out
<1>2. out \in StateUpdate /\ Inner(out) /\ out.idx = i /\ out.plan = q
  BY <1>1, FinishUpdate
<1>3. JudgeOut(q, i, t) = out
  BY DEF JudgeOut, out
<1> QED
  BY <1>2, <1>3

LEMMA StrictReviewEffect ==
    ASSUME OneInv, NEW w \in Walkers, StrictReviewCommit(w)
    PROVE  Reviewed(w) \/ (Calm /\ snap' = snap)
<1> DEFINE r == run[w]
           s == r.last.state
           p == snap.state.plan
           k == snap.state.idx + 1
           i == s.idx + 1
           t == r.rev.tokens
           Set(st, fb) == [s.plan EXCEPT ![s.idx + 1] = [@ EXCEPT !.st = st, !.fb = fb]]
           Q(st, fb) == [p EXCEPT ![k] = Judged(p[k], st, fb)]
           next == NextStepAfter(i, Len(s.plan))
<1>1. r.pc = "reviewed" /\ r.last.next = "strict_review"
  BY DEF StrictReviewCommit
<1>2. \/ \E st \in {"done", "skipped"} :
            NodeCommit(w, r, [NoUpdate EXCEPT !.plan = Set(st, FALSE), !.idx = i, !.tokens = t],
                       next, FALSE)
      \/ /\ RetryLeft(s.plan[s.idx + 1].att)
         /\ NodeCommit(w, r, [NoUpdate EXCEPT !.plan = Set(s.plan[s.idx + 1].st, TRUE),
                                             !.tokens = t], "executor", FALSE)
  BY DEF StrictReviewCommit
<1>3. r.pc \in Working /\ ~Pending(r.last) /\ t \in Nat /\ TaskOK
  BY <1>1, RunTypes DEF Working, Pending, OneInv, TypeInv
<1>4. StrictReview /\ InRange(snap.state) /\ ~Settled(snap.state, k)
  <2>1. run[w].last.next \in AllRoutes
    BY <1>1, HoldsRoute DEF Holding
  <2> QED
    BY <1>1, <2>1 DEF OneInv, Routes, RouteOk
<1>5. /\ s.idx = snap.state.idx /\ s.plan = p
      /\ k \in 1..Len(p) /\ p \in Seq(SubTask) /\ snap.state.idx \in Nat
      /\ Len(p) \in Nat /\ p[k] \in SubTask
  <2>1. SameWork(s, snap.state)
    BY <1>3, NobodyElse
  <2> QED
    BY <1>3, <1>4, <2>1, PlanPlace DEF SameWork
<1>6. i = k /\ i \in Nat /\ i # -1 /\ k \in Int /\ next = NextStepAfter(k, Len(p))
  BY <1>5
<1>7. \A st, fb : Set(st, fb) = Q(st, fb)
  BY <1>5 DEF Judged
<1>8. \/ \E st \in {"done", "skipped"} :
            NodeCommit(w, r, [NoUpdate EXCEPT !.plan = Q(st, FALSE), !.idx = i, !.tokens = t],
                       next, FALSE)
      \/ /\ RetryLeft(p[k].att)
         /\ NodeCommit(w, r, [NoUpdate EXCEPT !.plan = Q(p[k].st, TRUE), !.tokens = t],
                       "executor", FALSE)
  <2>1. s.plan[s.idx + 1] = p[k]
    BY <1>5
  <2> HIDE DEF Set, Q, s, p, k, i, t, next
  <2> QED
    BY <1>2, <1>7, <2>1
<1> HIDE DEF s, p, k, i, t, next, r, Set
<1>9. ASSUME NEW st \in {"done", "skipped"},
             NodeCommit(w, r, [NoUpdate EXCEPT !.plan = Q(st, FALSE), !.idx = i, !.tokens = t],
                        next, FALSE)
      PROVE  Reviewed(w) \/ (Calm /\ snap' = snap)
  <2> DEFINE x == Judged(p[k], st, FALSE)
             q == Q(st, FALSE)
             out == JudgeOut(q, i, t)
  <2>1. q = [p EXCEPT ![k] = x]
    OBVIOUS
  <2>2. x.st = st /\ x.att = p[k].att /\ x \in SubTask
    <3> DEFINE fb == FALSE
    <3>1. st \in SubTaskStatus /\ fb \in BOOLEAN
      BY DEF SubTaskStatus
    <3> HIDE DEF fb
    <3>2. Judged(p[k], st, fb).st = st /\ Judged(p[k], st, fb).att = p[k].att
          /\ Judged(p[k], st, fb) \in SubTask
      BY <1>5, <3>1, JudgedFields
    <3> QED
      BY <3>2 DEF fb
  <2>3. NodeCommit(w, run[w], out, next, FALSE)
    BY <1>9 DEF JudgeOut, r
  <2> HIDE DEF x, q, Q
  <2>4. q \in Seq(SubTask) /\ q # <<>>
    BY <1>5, <1>6, <2>1, <2>2, PlanExcept, Replaced
  <2>5. out \in StateUpdate /\ Inner(out) /\ out.idx = i /\ out.plan = q
    BY <1>3, <1>6, <2>4, JudgeUpdate
  <2> HIDE DEF out
  <2>6. \/ Calm /\ snap' = snap
        \/ /\ SameIntr /\ snap'.state.replan = snap.state.replan /\ Finishes(next)
           /\ snap'.state.idx = i /\ snap'.state.plan = q
           /\ Goes(w, next, run[w].attempt, run[w].recorded)
    BY <1>3, <1>6, <2>3, <2>4, <2>5, InnerOutcome
  <2>7. st \in ResolvedStatus
    BY DEF ResolvedStatus
  <2>8. CASE snap'.state.plan = q
    <3>1. Edits(x)
      BY <1>4, <2>1, <2>2, <2>7, <2>8 DEF Edits, p, k
    <3> QED
      BY <1>1, <1>4, <1>6, <2>2, <2>6, <2>7, <3>1 DEF Reviewed, MovesOn, p, k, r
  <2> QED
    BY <2>6, <2>8
<1>10. CASE /\ RetryLeft(p[k].att)
            /\ NodeCommit(w, r, [NoUpdate EXCEPT !.plan = Q(p[k].st, TRUE), !.tokens = t],
                          "executor", FALSE)
  <2> DEFINE x == Judged(p[k], p[k].st, TRUE)
             q == Q(p[k].st, TRUE)
             out == [NoUpdate EXCEPT !.plan = q, !.tokens = t]
  <2>1. q = [p EXCEPT ![k] = x]
    OBVIOUS
  <2>2. x.st = p[k].st /\ x.att = p[k].att /\ x \in SubTask
    <3> DEFINE fb == TRUE
               st == p[k].st
    <3>1. st \in SubTaskStatus /\ fb \in BOOLEAN
      BY <1>5 DEF SubTask
    <3> HIDE DEF fb, st
    <3>2. Judged(p[k], st, fb).st = st /\ Judged(p[k], st, fb).att = p[k].att
          /\ Judged(p[k], st, fb) \in SubTask
      BY <1>5, <3>1, JudgedFields
    <3> QED
      BY <3>2 DEF fb, st
  <2>3. NodeCommit(w, run[w], out, "executor", FALSE)
    BY <1>10 DEF r
  <2> HIDE DEF x, q, Q
  <2>4. q \in Seq(SubTask) /\ q # <<>>
    BY <1>5, <1>6, <2>1, <2>2, PlanExcept, Replaced
  <2>5. out \in StateUpdate /\ Inner(out) /\ out.idx = -1 /\ out.plan = q
    BY <1>3, <2>4, PlanOnlyUpdate DEF out
  <2> HIDE DEF out
  <2>6. \/ Calm /\ snap' = snap
        \/ /\ SameIntr /\ snap'.state.replan = snap.state.replan /\ Finishes("executor")
           /\ snap'.state.idx = snap.state.idx /\ snap'.state.plan = q
           /\ Goes(w, "executor", run[w].attempt, run[w].recorded)
    BY <1>3, <2>3, <2>4, <2>5, InnerOutcome
  <2>7. CASE snap'.state.plan = q
    <3>1. Edits(x)
      BY <1>4, <2>1, <2>2, <2>7 DEF Edits, p, k
    <3> QED
      BY <1>1, <1>4, <1>10, <2>2, <2>6, <3>1 DEF Reviewed, StaysOn, Finishes, p, k, r
  <2> QED
    BY <2>6, <2>7
<1> QED
  BY <1>8, <1>9, <1>10

LEMMA ReviewedOneStep ==
    ASSUME OneInv, OneWalker, NEW w \in Walkers, Reviewed(w), TypeInv'
    PROVE  OneInv' /\ KeepsPlan
<1>1. run[w].pc \in Working /\ ~Pending(run[w].last)
  BY DEF Reviewed, Working, Pending
<1>2. PICK x \in SubTask : MovesOn(w, x) \/ (StaysOn(w, x, "executor") /\ SameIntr)
  BY DEF Reviewed
<1>3. CASE MovesOn(w, x)
  BY <1>1, <1>3, MovesOnStep
<1>4. CASE StaysOn(w, x, "executor") /\ SameIntr
  BY <1>1, <1>4, StaysOnStep
<1> QED
  BY <1>2, <1>3, <1>4

\* the task reviewer's commit: the plan is kept, and recorded when a replan is wanted
Concluded(w) ==
    /\ run[w].pc = "reviewed" /\ run[w].last.next = "reviewer"
    /\ Plain /\ SameIntr
    /\ \E next \in {"replan_setup", "terminal"}, recorded \in Seq(SubTask) :
          /\ Finishes(next) \/ (Active /\ snap'.state.status = "failed")
          /\ \/ recorded = run[w].recorded /\ next = "terminal"
             \/ recorded = run[w].last.state.plan /\ run[w].attempt < EffectiveTaskRetries
          /\ Goes(w, next, run[w].attempt, recorded)

LEMMA ReviewerEffect ==
    ASSUME OneInv, NEW w \in Walkers, ReviewerCommit(w)
    PROVE  Concluded(w) \/ (Calm /\ snap' = snap)
<1> DEFINE recorded == IF WantReplan(run[w]) THEN run[w].last.state.plan ELSE run[w].recorded
           r == [run[w] EXCEPT !.recorded = recorded]
           out == ReviewerUpdate(run[w].rev)
           next == IF run[w].rev.verdict = "block" /\ WantReplan(run[w]) THEN "replan_setup"
                   ELSE "terminal"
<1>1. /\ run[w].pc = "reviewed" /\ run[w].last.next = "reviewer"
      /\ NodeCommit(w, r, out, next, FALSE)
  BY DEF ReviewerCommit
<1>2. TaskOK /\ Unstarted /\ run[w] \in Run
  BY RunTypes DEF OneInv, TypeInv
<1>3. /\ recorded \in Seq(SubTask)
      /\ \/ recorded = run[w].recorded /\ next = "terminal"
         \/ recorded = run[w].last.state.plan /\ run[w].attempt < EffectiveTaskRetries
      /\ next \in {"replan_setup", "terminal"}
  BY <1>2, RunTypes DEF WantReplan
<1>4. /\ out \in StateUpdate /\ out.status \in {"", "failed"} /\ out.idx = -1 /\ out.plan = <<>>
      /\ out.intr = NoInterrupt /\ out.clearIntr = FALSE
      /\ out.replan = NoReplan /\ out.clearReplan = FALSE
  <2> DEFINE st == IF run[w].rev.verdict = "fail" THEN "failed" ELSE ""
  <2>1. st \in {"", "failed"} /\ st \in TaskStatus \cup {""} /\ out = [NoUpdate EXCEPT !.status = st]
    BY DEF ReviewerUpdate, TaskStatus
  <2> HIDE DEF st, out
  <2>2. out \in StateUpdate
    BY <2>1, ConstantTypes, UpdateFields
  <2> QED
    BY <2>1, <2>2 DEF NoUpdate
<1> HIDE DEF out, next, recorded
<1>5. /\ r \in Run /\ r.cancelled = run[w].cancelled /\ r.sync = run[w].sync
      /\ r.last = run[w].last /\ r.attempt = run[w].attempt /\ r.recorded = recorded
  BY <1>2, <1>3 DEF Run
<1> HIDE DEF r
<1>6. CASE snap' = snap /\ op' = op
           /\ Moved(w, ErrorPc(w), run[w].last, run[w].attempt, recorded)
  BY <1>1, <1>2, <1>3, <1>6, RejectedCalm
<1>7. CASE /\ \E st \in TaskStatus \cup {""} :
                 Finishing(w, st, out.status, next) /\ Wrote(st, out, next)
           /\ Goes(w, next, run[w].attempt, recorded)
  <2>1. PICK st \in TaskStatus \cup {""} :
               Finishing(w, st, out.status, next) /\ Wrote(st, out, next)
    BY <1>7
  <2>2. Plain /\ SameIntr
    BY <1>4, <2>1 DEF Wrote, Plain, SameIntr
  <2>3. CASE out.status = ""
    <3>1. Finishes(next)
      BY <2>1, <2>3, InnerWrites
    <3> QED
      BY <1>1, <1>3, <1>7, <2>2, <3>1 DEF Concluded
  <2>4. CASE out.status = "failed"
    <3>1. st = "failed"
      BY <2>1, <2>4 DEF Finishing
    <3>2. snap'.state.status = snap.state.status \/ (Active /\ snap'.state.status = "failed")
      BY <2>1, <3>1, StopsActive DEF Wrote, Active
    <3> QED
      BY <1>1, <1>3, <1>7, <2>2, <3>2 DEF Concluded, Finishes
  <2> QED
    BY <1>4, <2>3, <2>4
<1> QED
  BY <1>1, <1>4, <1>5, <1>6, <1>7, NodeOutcome

LEMMA ConcludedOneStep ==
    ASSUME OneInv, OneWalker, NEW w \in Walkers, Concluded(w), TypeInv'
    PROVE  OneInv' /\ KeepsPlan
<1>1. TaskOK /\ run[w].pc \in Working /\ ~Pending(run[w].last)
  BY DEF Concluded, Working, Pending, OneInv, TypeInv
<1>2. PICK next \in {"replan_setup", "terminal"}, recorded \in Seq(SubTask) :
          /\ Finishes(next) \/ (Active /\ snap'.state.status = "failed")
          /\ \/ recorded = run[w].recorded /\ next = "terminal"
             \/ recorded = run[w].last.state.plan /\ run[w].attempt < EffectiveTaskRetries
          /\ Goes(w, next, run[w].attempt, recorded)
  BY DEF Concluded
<1>3. StrictReview \/ Complete(snap.state)
  <2>1. run[w].last.next \in AllRoutes
    BY <1>1, HoldsRoute DEF Working, Holding
  <2> QED
    BY <2>1 DEF Concluded, OneInv, Routes, RouteOk
<1>4. Plain /\ SameIntr /\ KeepsPlan
  BY PlainKeeps DEF Concluded
<1>5. ResolvedPrefix'
  BY <1>4 DEF OneInv, Plain, ResolvedPrefix
<1>6. DoneOk'
  <2>1. CASE StrictReview \/ snap'.state.status = "failed"
    BY <2>1 DEF DoneOk, DoneMeansResolved
  <2>2. CASE Complete(snap.state) /\ Finishes(next)
    <3>1. snap'.state.plan # <<>> /\ snap'.state.idx >= Len(snap'.state.plan)
      BY <1>4, <2>2 DEF Plain, Complete
    <3> QED
      BY <1>1, <1>4, <1>5, <2>2, <3>1, FinishedOk DEF OneInv
  <2> QED
    BY <1>2, <1>3, <2>1, <2>2
<1>7. RouteOk(next, snap'.state)
  BY <1>2 DEF RouteOk
<1>8. Works(w)
  BY <1>1, <1>2, <1>4, <1>5, <1>6, <1>7 DEF Goes, Works, SameIntr, OneInv, ReplanBounded
<1> QED
  BY <1>4, <1>8, WorkStep

LEMMA NoUpdateInner ==
    NoUpdate \in StateUpdate /\ Inner(NoUpdate) /\ NoUpdate.idx = -1 /\ NoUpdate.plan = <<>>
  BY ConstantTypes DEF Inner, NoUpdate

\* the replan set up for the planner is counted; without a recorded plan there is none
Replanned(w) ==
    /\ AtNode(w, "replan_setup") /\ SameIntr
    /\ snap'.state.plan = snap.state.plan /\ snap'.state.idx = snap.state.idx
    /\ snap'.state.status = snap.state.status
    /\ \/ /\ run[w].recorded = <<>> /\ snap'.state.replan = snap.state.replan
          /\ Goes(w, "planner", run[w].attempt, run[w].recorded)
       \/ /\ run[w].recorded # <<>>
          /\ \E p \in PreservedChoices(run[w].recorded) :
                snap'.state.replan = [on |-> TRUE, preserved |-> p]
          /\ Goes(w, "planner", run[w].attempt + 1, run[w].recorded)

LEMMA ReplanEffect ==
    ASSUME OneInv, NEW w \in Walkers, ReplanSetup(w) \/ ReplanSetupNoop(w)
    PROVE  Replanned(w) \/ (Calm /\ snap' = snap)
<1>1. TaskOK /\ Unstarted /\ run[w] \in Run /\ AtNode(w, "replan_setup")
      /\ run[w].attempt \in Nat /\ run[w].recorded \in Seq(SubTask)
  BY RunTypes DEF OneInv, TypeInv, ReplanSetup, ReplanSetupNoop
<1>2. CASE ReplanSetupNoop(w)
  <2>1. run[w].recorded = <<>> /\ NodeCommit(w, run[w], NoUpdate, "planner", FALSE)
    BY <1>2 DEF ReplanSetupNoop
  <2>2. \/ Calm /\ snap' = snap
        \/ /\ SameIntr /\ snap'.state.replan = snap.state.replan /\ Finishes("planner")
           /\ snap'.state.idx = snap.state.idx /\ snap'.state.plan = snap.state.plan
           /\ Goes(w, "planner", run[w].attempt, run[w].recorded)
    BY <2>1, NoUpdateInner, InnerOutcome
  <2> QED
    BY <1>1, <2>1, <2>2 DEF Replanned, Finishes
<1>3. CASE ReplanSetup(w)
  <2> DEFINE r == [run[w] EXCEPT !.attempt = run[w].attempt + 1]
  <2>1. run[w].recorded # <<>>
        /\ \E p \in PreservedChoices(run[w].recorded) :
              NodeCommit(w, r, [NoUpdate EXCEPT !.replan = [on |-> TRUE, preserved |-> p]],
                         "planner", FALSE)
    BY <1>3 DEF ReplanSetup
  <2>2. PICK p \in PreservedChoices(run[w].recorded) :
              NodeCommit(w, r, [NoUpdate EXCEPT !.replan = [on |-> TRUE, preserved |-> p]],
                         "planner", FALSE)
    BY <2>1
  <2> DEFINE x == [on |-> TRUE, preserved |-> p]
             out == [NoUpdate EXCEPT !.replan = x]
             n == run[w].attempt + 1
  <2>3. x \in Replan /\ x # NoReplan
    BY <1>1, PreservedType DEF Replan, NoReplan
  <2>4. n \in Nat
    BY <1>1
  <2>5. NodeCommit(w, r, out, "planner", FALSE)
    BY <2>2
  <2> HIDE DEF x
  <2>6. /\ out \in StateUpdate /\ out.status = "" /\ out.idx = -1 /\ out.plan = <<>>
        /\ out.intr = NoInterrupt /\ ~out.clearIntr /\ out.replan = x
    <3>1. out \in StateUpdate
      BY <2>3, ConstantTypes, UpdateFields
    <3> QED
      BY <3>1 DEF NoUpdate
  <2> HIDE DEF out
  <2>7. r = [run[w] EXCEPT !.attempt = n]
    OBVIOUS
  <2> HIDE DEF n, r
  <2>8. /\ r \in Run /\ r.cancelled = run[w].cancelled /\ r.sync = run[w].sync
        /\ r.attempt = n /\ r.recorded = run[w].recorded
    BY <1>1, <2>4, <2>7 DEF Run
  <2>9. PICK st \in TaskStatus \cup {""} :
           /\ Finishing(w, st, out.status, "planner") /\ Wrote(st, out, "planner")
           /\ Goes(w, "planner", n, run[w].recorded)
    BY <2>5, <2>6, <2>8, NodeOutcome
  <2>10. Wrote("", out, "planner")
    BY <2>6, <2>9 DEF Finishing
  <2>11. /\ SameIntr /\ snap'.state.plan = snap.state.plan /\ snap'.state.idx = snap.state.idx
         /\ snap'.state.status = snap.state.status /\ snap'.state.replan = x
    BY <2>3, <2>6, <2>10 DEF Wrote, SameIntr
  <2> QED
    BY <1>1, <2>1, <2>9, <2>11 DEF Replanned, n, x
<1> QED
  BY <1>2, <1>3

LEMMA ReplannedOneStep ==
    ASSUME OneInv, OneWalker, NEW w \in Walkers, Replanned(w), TypeInv'
    PROVE  OneInv' /\ KeepsPlan
<1>1. TaskOK /\ run[w].pc \in Working /\ ~Pending(run[w].last) /\ run[w].attempt \in Nat
  BY RunTypes DEF Replanned, AtNode, Working, Pending, OneInv, TypeInv
<1>2. KeepsPlan
  BY DEF Replanned, KeepsPlan, Settled
<1>3. ResolvedPrefix' /\ DoneOk'
  BY DEF Replanned, OneInv, ResolvedPrefix, DoneOk, DoneMeansResolved
<1>4. EffectiveTaskRetries \in Nat
  BY ConfigAssumption DEF EffectiveTaskRetries
<1>5. run'[w].attempt <= EffectiveTaskRetries
  <2>1. run[w].last.next \in AllRoutes
    BY <1>1, HoldsRoute DEF Working, Holding
  <2>2. run[w].recorded # <<>> => run[w].attempt < EffectiveTaskRetries
    BY <2>1 DEF Replanned, AtNode, OneInv, ReplanArmed
  <2>3. run[w].attempt <= EffectiveTaskRetries
    BY DEF OneInv, ReplanBounded
  <2> QED
    BY <1>1, <1>4, <2>2, <2>3 DEF Replanned, Goes
<1>6. snap'.next = "planner" /\ RouteOk(snap'.next, snap'.state)
  BY DEF Replanned, Goes, RouteOk
<1>7. Works(w)
  BY <1>1, <1>3, <1>5, <1>6 DEF Replanned, Goes, Works, SameIntr
<1> QED
  BY <1>2, <1>7, WorkStep

\* an answered approval: the walker goes on behind the work that is resolved
Approved(w) ==
    /\ AtNode(w, "approval") /\ ~Pending(run[w].last) /\ Plain /\ SameIntr
    /\ \/ /\ snap'.state.status = snap.state.status
          /\ Goes(w, "terminal", run[w].attempt, run[w].recorded)
       \/ LET next == NextStepAfter(snap.state.idx, Len(snap.state.plan)) IN
          /\ snap.state.plan # <<>> /\ Finishes(next)
          /\ Goes(w, next, run[w].attempt, run[w].recorded)

LEMMA ApprovalRouteEffect ==
    ASSUME OneInv, NEW w \in Walkers, ApprovalRoute(w)
    PROVE  Approved(w) \/ (Calm /\ snap' = snap)
<1> DEFINE s == run[w].last.state
           next == NextStepAfter(s.idx, Len(s.plan))
<1>1. AtNode(w, "approval") /\ s.intr = NoInterrupt
  BY DEF ApprovalRoute
<1>2. run[w].pc \in Working /\ ~Pending(run[w].last)
  BY <1>1 DEF AtNode, Working, Pending
<1>3. s.plan = snap.state.plan /\ s.idx = snap.state.idx
  BY <1>2, NobodyElse DEF SameWork
<1>4. CASE s.status = "failed" /\ NodeCommit(w, run[w], NoUpdate, "terminal", FALSE)
  <2>1. s.status \in TerminalStatus
    BY <1>4 DEF TerminalStatus
  <2>2. \/ Calm /\ snap' = snap
        \/ /\ SameIntr /\ snap'.state.replan = snap.state.replan /\ Finishes("terminal")
           /\ snap'.state.idx = snap.state.idx /\ snap'.state.plan = snap.state.plan
           /\ snap'.state.status = "done" => snap.state.status = "done"
           /\ Goes(w, "terminal", run[w].attempt, run[w].recorded)
    BY <1>4, <2>1, NoUpdateInner, InnerOutcome
  <2> QED
    BY <1>1, <1>2, <2>2 DEF Approved, Finishes, Plain
<1>5. CASE NodeError(w)
  <2>1. Calm
    BY <1>5, LoopCalm
  <2> QED
    BY <1>5, <2>1 DEF NodeError
<1>6. CASE s.plan # <<>> /\ NodeCommit(w, run[w], NoUpdate, next, FALSE)
  <2>1. next = NextStepAfter(snap.state.idx, Len(snap.state.plan)) /\ snap.state.plan # <<>>
    BY <1>3, <1>6
  <2> HIDE DEF next
  <2>2. \/ Calm /\ snap' = snap
        \/ /\ SameIntr /\ snap'.state.replan = snap.state.replan /\ Finishes(next)
           /\ snap'.state.idx = snap.state.idx /\ snap'.state.plan = snap.state.plan
           /\ Goes(w, next, run[w].attempt, run[w].recorded)
    BY <1>6, NoUpdateInner, InnerOutcome
  <2> QED
    BY <1>1, <1>2, <2>1, <2>2 DEF Approved, Plain
<1> QED
  BY <1>4, <1>5, <1>6 DEF ApprovalRoute

LEMMA ApprovedOneStep ==
    ASSUME OneInv, OneWalker, NEW w \in Walkers, Approved(w), TypeInv'
    PROVE  OneInv' /\ KeepsPlan
<1> DEFINE next == NextStepAfter(snap.state.idx, Len(snap.state.plan))
<1>1. TaskOK /\ run[w].pc \in Working /\ ~Pending(run[w].last)
  BY DEF Approved, AtNode, Working, OneInv, TypeInv
<1>2. Plain /\ SameIntr /\ KeepsPlan
  BY PlainKeeps DEF Approved
<1>3. ResolvedPrefix'
  BY <1>2 DEF OneInv, Plain, ResolvedPrefix
<1>4. CASE snap'.state.status = snap.state.status
           /\ Goes(w, "terminal", run[w].attempt, run[w].recorded)
  <2>1. DoneOk'
    BY <1>1, <1>2, <1>4, DoneKept DEF OneInv
  <2>2. Works(w)
    BY <1>1, <1>2, <1>3, <1>4, <2>1 DEF Goes, Works, SameIntr, OneInv, ReplanBounded, RouteOk
  <2> QED
    BY <1>2, <2>2, WorkStep
<1>5. CASE snap.state.plan # <<>> /\ Finishes(next)
           /\ Goes(w, next, run[w].attempt, run[w].recorded)
  <2>1. snap.state.idx \in Nat /\ Len(snap.state.plan) \in Nat
    <3>1. Len(snap.state.plan) \in Nat
      BY <1>1, SnapFields
    <3> QED
      BY <3>1 DEF OneInv, ResolvedPrefix
  <2>2. /\ RouteOk(next, snap.state) /\ (next = "terminal" => snap.state.idx >= Len(snap.state.plan))
        /\ next \in {"executor", "reviewer", "terminal"}
    BY <1>1, <1>5, <2>1, AfterRoute
  <2> HIDE DEF next
  <2>3. RouteOk(next, snap'.state)
    BY <1>2, <2>2, SameWorkFacts DEF Plain, SameWork
  <2>4. DoneOk'
    BY <1>1, <1>2, <1>3, <1>5, <2>2, FinishedOk DEF OneInv, Plain
  <2>5. Works(w)
    BY <1>1, <1>2, <1>3, <1>5, <2>2, <2>3, <2>4 DEF Goes, Works, SameIntr, OneInv, ReplanBounded
  <2> QED
    BY <1>2, <2>5, WorkStep
<1> QED
  BY <1>4, <1>5 DEF Approved

\* the commit of a node that writes nothing and waits
LEMMA HaltOutcome ==
    ASSUME TaskOK, NEW w \in Walkers, NEW r \in Run, NEW out \in StateUpdate, NEW next,
           out.status = "", next # "terminal", NodeCommit(w, r, out, next, TRUE),
           r.cancelled = run[w].cancelled, r.sync = run[w].sync
    PROVE  /\ Wrote("", out, next)
           /\ run'[w].pc = "end" /\ run'[w].attempt = r.attempt
           /\ run'[w].recorded = r.recorded /\ \A v \in Walkers \ {w} : run'[v] = run[v]
<1> DEFINE halt == TRUE
<1>1. halt /\ halt \in BOOLEAN /\ NodeCommit(w, r, out, next, halt)
  OBVIOUS
<1> HIDE DEF halt
<1>2. /\ \E st \in TaskStatus \cup {""} :
             Finishing(w, st, out.status, next) /\ Wrote(st, out, next)
      /\ Moved(w, IF next = "terminal" \/ halt THEN "end" ELSE "loop", snap',
               r.attempt, r.recorded)
  BY <1>1, NodeWrites
<1> QED
  BY <1>1, <1>2 DEF Moved, Finishing

LEMMA PendingCalm ==
    ASSUME OneInv, NEW w \in Walkers, ApprovalPending(w)
    PROVE  Calm
<1>1. /\ AtNode(w, "approval") /\ TaskOK /\ Unstarted /\ run[w] \in Run
      /\ NodeCommit(w, run[w], NoUpdate, "approval", TRUE) /\ op' = op
  BY RunTypes DEF ApprovalPending, NodeCommit, OneInv, TypeInv
<1>2. /\ NoUpdate.status = "" /\ NoUpdate.intr = NoInterrupt /\ ~NoUpdate.clearIntr
      /\ NoUpdate.replan = NoReplan /\ ~NoUpdate.clearReplan
      /\ NoUpdate.idx = -1 /\ NoUpdate.plan = <<>>
  BY NoUpdateInner DEF Inner
<1>3. /\ Wrote("", NoUpdate, "approval")
      /\ run'[w].pc = "end" /\ run'[w].attempt = run[w].attempt
      /\ run'[w].recorded = run[w].recorded /\ \A v \in Walkers \ {w} : run'[v] = run[v]
  BY <1>1, <1>2, NoUpdateInner, HaltOutcome
<1>4. Plain /\ snap'.state.status = snap.state.status /\ SameIntr /\ snap'.next = "approval"
  BY <1>2, <1>3 DEF Wrote, Plain, SameIntr
<1>5. CalmNext
  BY <1>1, <1>4, HoldsRoute DEF CalmNext, AtNode, Holding
<1>6. \A v \in Walkers : CalmRun(run[v], run'[v])
  BY <1>1, <1>3 DEF CalmRun, Holding, Working, Unstarted
<1> QED
  BY <1>1, <1>4, <1>5, <1>6 DEF Calm, Stops, KeepsIntr, SameIntr

-----------------------------------------------------------------------------
(***************************************************************************)
(* Every step of the runtime is one of these moves; with one walker and    *)
(* one operator each of them keeps the invariant.                          *)
(***************************************************************************)
WalkerMove(w) ==
    \/ WalkerLoad(w) \/ CommitBudgetInterrupt(w)
    \/ Planned(w) \/ Advanced(w) \/ Ran(w) \/ Reviewed(w) \/ Concluded(w)
    \/ Replanned(w) \/ Approved(w)

OperatorMove(o) ==
    \/ OperatorRead(o)
    \/ OperatorCommit(o) /\ op[o].decision \in {"retry", "skip"}

Moves ==
    Calm \/ (\E w \in Walkers : WalkerMove(w)) \/ (\E o \in Operators : OperatorMove(o))

LEMMA WalkerMoves ==
    ASSUME OneInv, NEW w \in Walkers, WalkerStep(w)
    PROVE  Moves
<1>1. CASE WalkerLoad(w) \/ CommitBudgetInterrupt(w)
  BY <1>1 DEF Moves, WalkerMove
<1>2. CASE PlannerPlan(w)
  BY <1>2, PlannerEffect DEF Moves, WalkerMove
<1>3. CASE ExecutorAdvance(w)
  BY <1>3, AdvanceEffect DEF Moves, WalkerMove
<1>4. CASE \E ok \in BOOLEAN : ExecutorRun(w, ok)
  BY <1>4, RunEffect DEF Moves, WalkerMove
<1>5. CASE StrictReviewCommit(w)
  BY <1>5, StrictReviewEffect DEF Moves, WalkerMove
<1>6. CASE ReviewerCommit(w)
  BY <1>6, ReviewerEffect DEF Moves, WalkerMove
<1>7. CASE ReplanSetup(w) \/ ReplanSetupNoop(w)
  BY <1>7, ReplanEffect DEF Moves, WalkerMove
<1>8. CASE ApprovalRoute(w)
  BY <1>8, ApprovalRouteEffect DEF Moves, WalkerMove
<1>9. CASE ApprovalPending(w)
  BY <1>9, PendingCalm DEF Moves
<1>10. CASE ReviewTask(w) \/ ReviewSubTask(w)
  BY <1>10, ReviewCalm DEF Moves
<1>11. CASE StartGraphRun(w)
  BY <1>11, LaunchCalm DEF Moves
<1>12. CASE \/ WalkerCtxErr(w) \/ WalkerCtxOk(w) \/ CommitFailureBoundary(w) \/ EndRun(w)
            \/ PlannerError(w) \/ PlannerCancelled(w) \/ NodeOutOfRange(w)
  BY <1>12, LoopCalm DEF Moves
<1>13. CASE RunSubTask(w)
  BY <1>13, OutsideCalm DEF RunSubTask, Still, Moves
<1> QED
  BY <1>1, <1>2, <1>3, <1>4, <1>5, <1>6, <1>7, <1>8, <1>9, <1>10, <1>11, <1>12, <1>13
     DEF WalkerStep

LEMMA EveryMove ==
    ASSUME OneInv, [Next]_vars
    PROVE  Moves
<1>1. ASSUME NEW w \in Walkers, WalkerStep(w)
      PROVE  Moves
  BY <1>1, WalkerMoves
<1>2. ASSUME NEW w \in Walkers, ResumeViaGraph(w) \/ RunViaGraph(w)
      PROVE  Moves
  BY <1>2, LaunchCalm DEF Moves
<1>3. ASSUME NEW w \in Walkers, NodePanic(w) \/ StoreFault(w) \/ BoundaryFault(w)
      PROVE  Moves
  BY <1>3, LoopCalm DEF Moves
<1>4. ASSUME NEW o \in Operators, OperatorRead(o) \/ OperatorCommit(o)
      PROVE  Moves
  <2>1. CASE op[o].decision = "abort" /\ OperatorCommit(o)
    BY <2>1, AbortCalm DEF Moves
  <2>2. CASE ~(op[o].decision = "abort" /\ OperatorCommit(o))
    <3>1. OperatorMove(o)
      BY <1>4, <2>2 DEF OperatorMove, OperatorCommit
    <3> QED
      BY <3>1 DEF Moves
  <2> QED
    BY <2>1, <2>2
<1>5. CASE \/ InterruptWithCancel \/ InterruptWithCommit \/ Crash \/ Sweep \/ WallclockElapses
           \/ \E w \in Walkers : ParentCancel(w)
           \/ UNCHANGED vars
  BY <1>5, OutsideCalm DEF Moves, vars, Still
<1> QED
  BY <1>1, <1>2, <1>3, <1>4, <1>5 DEF Next

\* what a step makes of the task's status
StatusMoves ==
    \/ snap'.state.status = snap.state.status
    \/ Active /\ snap'.state.status \in {"done", "failed", "interrupted"}

LEMMA MoveStep ==
    ASSUME OneInv, OneWalker, OneOperator, Moves, TypeInv'
    PROVE  /\ OneInv'
           /\ (KeepsPlan /\ StatusMoves) \/ \E w \in Walkers : Planned(w)
<1>1. CASE Calm
  <2>1. OneInv'
    BY <1>1, CalmStep
  <2> QED
    BY <1>1, <2>1, PlainKeeps DEF Calm, Stops, StatusMoves
<1>2. ASSUME NEW w \in Walkers, WalkerMove(w)
      PROVE  OneInv' /\ ((KeepsPlan /\ StatusMoves) \/ Planned(w))
  <2>1. CASE WalkerLoad(w)
    <3>1. OneInv' /\ snap' = snap
      BY <2>1, LoadStep, LoadFields DEF OneInv, TypeInv
    <3> QED
      BY <3>1 DEF KeepsPlan, StatusMoves
  <2>2. CASE CommitBudgetInterrupt(w)
    <3>1. OneInv' /\ Plain /\ snap'.state.status = snap.state.status
      BY <2>2, BudgetStep, BudgetFields DEF OneInv, TypeInv
    <3> QED
      BY <3>1, PlainKeeps DEF StatusMoves
  <2>3. CASE Planned(w)
    BY <2>3, PlannerOneStep
  <2>4. CASE Advanced(w)
    BY <2>4, AdvanceOneStep DEF Advanced, Finishes, StatusMoves
  <2>5. CASE Ran(w)
    BY <2>5, RanOneStep DEF Ran, MovesOn, StaysOn, Finishes, StatusMoves
  <2>6. CASE Reviewed(w)
    BY <2>6, ReviewedOneStep DEF Reviewed, MovesOn, StaysOn, Finishes, StatusMoves
  <2>7. CASE Concluded(w)
    BY <2>7, ConcludedOneStep DEF Concluded, Finishes, StatusMoves
  <2>8. CASE Replanned(w)
    BY <2>8, ReplannedOneStep DEF Replanned, StatusMoves
  <2>9. CASE Approved(w)
    BY <2>9, ApprovedOneStep DEF Approved, Finishes, StatusMoves
  <2> QED
    BY <1>2, <2>1, <2>2, <2>3, <2>4, <2>5, <2>6, <2>7, <2>8, <2>9 DEF WalkerMove
<1>3. ASSUME NEW o \in Operators, OperatorMove(o)
      PROVE  OneInv' /\ KeepsPlan /\ StatusMoves
  <2>1. CASE OperatorRead(o)
    <3>1. OneInv' /\ snap' = snap
      BY <2>1, ReadStep, ReadFields DEF OneInv, TypeInv
    <3> QED
      BY <3>1 DEF KeepsPlan, StatusMoves
  <2>2. CASE OperatorCommit(o) /\ op[o].decision = "retry"
    <3>1. OneInv' /\ Plain /\ snap'.state.status = snap.state.status
      BY <2>2, RetryOneStep, RetryFields DEF OneInv, TypeInv
    <3> QED
      BY <3>1, PlainKeeps DEF StatusMoves
  <2>3. CASE OperatorCommit(o) /\ op[o].decision = "skip"
    BY <2>3, SkipOneStep, SkipFields DEF StatusMoves
  <2> QED
    BY <1>3, <2>1, <2>2, <2>3 DEF OperatorMove
<1> QED
  BY <1>1, <1>2, <1>3 DEF Moves

\* the invariant holds as long as one goroutine and one operator act on the task
LEMMA OneInvariant ==
    ASSUME OneWalker, OneOperator
    PROVE  Spec => []OneInv
<1>1. Init => OneInv
  BY OneInit
<1>2. OneInv /\ [Next]_vars => OneInv'
  <2> SUFFICES ASSUME OneInv, [Next]_vars
               PROVE  OneInv'
    OBVIOUS
  <2>1. TypeInv'
    BY InvStep DEF OneInv
  <2> QED
    BY <2>1, EveryMove, MoveStep
<1> QED
  BY <1>1, <1>2, PTL DEF Spec

\* With one walker and one operator, CurrentIdx never passes a sub-task that is not done,
\* skipped or failed, for every configuration and through retries, skips, replans,
\* interrupts, faults, crashes and resumes.
THEOREM PrefixIsResolved ==
    ASSUME OneWalker, OneOperator
    PROVE  Spec => []ResolvedPrefix
<1>1. OneInv => ResolvedPrefix
  BY DEF OneInv
<1> QED
  BY <1>1, OneInvariant, PTL

\* Without the strict reviewer, one walker only marks a task done that has a plan whose
\* every sub-task is resolved.
THEOREM DoneIsResolved ==
    ASSUME OneWalker, OneOperator, ~StrictReview
    PROVE  Spec => []DoneMeansResolved
<1>1. OneInv => DoneMeansResolved
  BY DEF OneInv, DoneOk
<1> QED
  BY <1>1, OneInvariant, PTL

\* One walker replans a task at most MaxTaskRetries times per run (replanCoordinator),
\* whatever its reviewer answers.
THEOREM ReplansAreBounded ==
    ASSUME OneWalker, OneOperator
    PROVE  Spec => []ReplanBounded
<1>1. OneInv => ReplanBounded
  BY DEF OneInv
<1> QED
  BY <1>1, OneInvariant, PTL

\* With one walker, a sub-task that is done stays done until a planner commit replaces
\* the plan: no retry, review, skip or stale write undoes it.
THEOREM DoneWorkIsKept ==
    ASSUME OneWalker, OneOperator
    PROVE  Spec => DoneWorkKept
<1>1. ASSUME OneInv, [Next]_vars
      PROVE  \A i \in 1..Len(snap.state.plan) :
               snap.state.plan[i].st = "done"
                 => \/ i <= Len(snap'.state.plan) /\ snap'.state.plan[i].st = "done"
                    \/ \E w \in Walkers : AtNode(w, "planner") /\ run'[w].pc = "loop"
  <2>1. TypeInv'
    BY <1>1, InvStep DEF OneInv
  <2>2. KeepsPlan \/ \E w \in Walkers : Planned(w)
    BY <1>1, <2>1, EveryMove, MoveStep
  <2>3. CASE KeepsPlan
    <3>1. \A i \in 1..Len(snap.state.plan) : i <= Len(snap'.state.plan)
      BY <2>3 DEF KeepsPlan
    <3> QED
      BY <2>3, <3>1 DEF KeepsPlan
  <2>4. CASE \E w \in Walkers : Planned(w)
    BY <2>4 DEF Planned, Goes
  <2> QED
    BY <2>2, <2>3, <2>4
<1> QED
  BY <1>1, OneInvariant, PTL DEF Spec, DoneWorkKept

\* With one walker and without the strict reviewer, the graph runtime implements
\* TaskLifecycle: every step is a new plan, work on the plan, the end or the stop of
\* the task, or changes nothing the lifecycle sees.
THEOREM RuntimeKeepsLifecycle ==
    ASSUME OneWalker, OneOperator, ~StrictReview
    PROVE  Spec => RuntimeImplementsLifecycle
<1>1. Init => Lifecycle!Init
  <2>1. Lifecycle!CreatedState = CreatedState
    BY Zenon DEF Lifecycle!CreatedState, CreatedState, Lifecycle!NoInterrupt, NoInterrupt,
      Lifecycle!NoReplan, NoReplan, Lifecycle!NoStep, NoStep
  <2>2. Init => snap.state = CreatedState
    BY DEF Init, NoSnapshot
  <2> QED
    BY <2>1, <2>2 DEF Lifecycle!Init
<1>2. ASSUME OneInv, [Next]_vars
      PROVE  [Lifecycle!Next]_(snap.state)
  <2>1. TypeInv'
    BY <1>2, InvStep DEF OneInv
  <2>2. OneInv' /\ ((KeepsPlan /\ StatusMoves) \/ \E w \in Walkers : Planned(w))
    BY <1>2, <2>1, EveryMove, MoveStep
  <2>3. CASE \E w \in Walkers : Planned(w)
    BY <2>3 DEF Planned, Active, Lifecycle!Next, Lifecycle!NewPlan, Lifecycle!Active,
      Lifecycle!TerminalStatus, TerminalStatus
  <2>4. CASE KeepsPlan /\ StatusMoves
    <3>1. Lifecycle!SettledStays
      BY <2>4 DEF KeepsPlan, Settled, Lifecycle!SettledStays, Lifecycle!Settled
    <3>2. CASE snap'.state.status = snap.state.status
      BY <3>1, <3>2 DEF Lifecycle!Next, Lifecycle!Work
    <3>3. CASE Active /\ snap'.state.status \in {"failed", "interrupted"}
      BY <3>1, <3>3 DEF Active, Lifecycle!Next, Lifecycle!Stop, Lifecycle!Active,
        Lifecycle!TerminalStatus, TerminalStatus
    <3>4. CASE Active /\ snap'.state.status = "done"
      <4>1. DoneMeansResolved'
        BY <2>2 DEF OneInv, DoneOk
      <4>2. Lifecycle!AllResolved(snap'.state.plan)
        BY <3>4, <4>1 DEF DoneMeansResolved, Lifecycle!AllResolved, Lifecycle!ResolvedStatus,
          ResolvedStatus
      <4> QED
        BY <3>1, <3>4, <4>2 DEF Active, Lifecycle!Next, Lifecycle!Finish, Lifecycle!Active,
          Lifecycle!TerminalStatus, TerminalStatus
    <3> QED
      BY <2>4, <3>2, <3>3, <3>4 DEF StatusMoves
  <2> QED
    BY <2>2, <2>3, <2>4
<1> QED
  BY <1>1, <1>2, OneInvariant, PTL DEF Spec, RuntimeImplementsLifecycle, Lifecycle!Spec

-----------------------------------------------------------------------------
(***************************************************************************)
(* The token books, with any number of goroutines and operators.  Without  *)
(* the strict reviewer no step is ever routed to strict_review, so a model *)
(* call is charged at most once: in its node's commit, or in the telemetry *)
(* of the task review.                                                     *)
(***************************************************************************)
NotStrict(next) == next # "strict_review"

StrictFree ==
    /\ NotStrict(snap.next) /\ NotStrict(snap.state.intr.resume)
    /\ \A w \in Walkers : NotStrict(run[w].last.next)
    /\ \A o \in Operators : NotStrict(op[o].seen.state.intr.resume)

\* a commit that charges c, or nothing at all
Books(c, next, resume) ==
    /\ snap'.state.used \in {snap.state.used, snap.state.used + c}
    /\ snap'.next \in {snap.next, next}
    /\ snap'.state.intr.resume \in {snap.state.intr.resume, NoStep, resume}

RunBooks(w, next) ==
    /\ run'[w].last.next \in {run[w].last.next, next} /\ run'[w].pc # "node"
    /\ \A v \in Walkers \ {w} : run'[v] = run[v]

BookStep ==
    \E c \in Nat : \E next, resume :
       /\ Books(c, next, resume) /\ NotStrict(next) /\ NotStrict(resume)
       /\ spent' = spent + c
       /\ c > 0 => \E w \in Walkers : /\ run[w].pc = "node" /\ run'[w].pc # "node"
                                      /\ c \in TokenCosts
       /\ \A w \in Walkers : /\ run'[w].last.next \in {run[w].last.next, snap.next, next, NoStep}
                             /\ run'[w].pc = "node" => run[w].pc = "node" \/ ~Exceeded(snap.state)
       /\ \A o \in Operators : op'[o].seen.state.intr.resume
                                  \in {op[o].seen.state.intr.resume, snap.state.intr.resume, NoStep}

\* the fields of an update that the books read
Charges(u, c, resume) ==
    {"tokens", "intr", "clearIntr"} \subseteq DOMAIN u /\ u.tokens = c /\ u.intr.resume = resume

LEMMA WroteBooks ==
    ASSUME NEW st, NEW u, NEW next, Wrote(st, u, next)
    PROVE  Books(u.tokens, next, u.intr.resume)
  BY IdleOpFields DEF Wrote, Books

LEMMA SameBooks ==
    ASSUME snap' = snap, NEW c, NEW next, NEW resume
    PROVE  Books(c, next, resume)
  BY DEF Books

LEMMA TryBooks ==
    ASSUME TaskOK, NEW u, NEW next, NEW c, NEW resume, Charges(u, c, resume), TryCommit(u, next)
    PROVE  Books(c, next, resume)
<1>1. CASE CanCommit(u)
  BY <1>1, TryWrites, WroteBooks DEF Charges
<1>2. CASE ~CanCommit(u)
  BY <1>2, TryWrites, SameBooks
<1> QED
  BY <1>1, <1>2

LEMMA NodeBooks ==
    ASSUME TaskOK, NEW w \in Walkers, NEW r \in Run, NEW out, NEW next, NEW halt, NEW c, NEW resume,
           Charges(out, c, resume), NodeCommit(w, r, out, next, halt), r.last = run[w].last
    PROVE  Books(c, next, resume) /\ RunBooks(w, next)
<1> DEFINE u == FinishingUpdate(w, out, next)
           new == Committed(u, next)
           pc == IF next = "terminal" \/ halt THEN "end" ELSE "loop"
           good == [r EXCEPT !.last = new, !.rev = NoReview, !.pc = pc]
           bad == [r EXCEPT !.rev = NoReview, !.pc = ErrorPc(w)]
<1>1. Charges(u, c, resume)
  BY DEF FinishingUpdate, Charges
<1>2. TryCommit(u, next)
  BY DEF NodeCommit, TryCommit
<1>3. new.next = next /\ pc # "node" /\ ErrorPc(w) # "node"
  BY DEF Committed, ErrorPc
<1>4. (run' = [run EXCEPT ![w] = good]) \/ run' = [run EXCEPT ![w] = bad]
  BY DEF NodeCommit
<1>5. run \in [Walkers -> Run]
  BY DEF TaskOK
<1>6. /\ good.last.next = next /\ good.pc # "node"
      /\ bad.last.next = run[w].last.next /\ bad.pc # "node"
  <2> DEFINE e == ErrorPc(w)
             half == [r EXCEPT !.rev = NoReview]
  <2>1. half.last = r.last /\ [half EXCEPT !.pc = e].pc = e /\ [half EXCEPT !.pc = e].last = r.last
    BY DEF Run
  <2>2. bad.pc = e /\ bad.last = r.last
    BY <2>1
  <2> HIDE DEF new, pc, e
  <2>3. good.last = new /\ good.pc = pc
    BY DEF Run
  <2> QED
    BY <1>3, <2>2, <2>3 DEF e
<1> HIDE DEF u, new, pc, good, bad
<1>7. RunBooks(w, next)
  BY <1>4, <1>5, <1>6 DEF RunBooks
<1> QED
  BY <1>1, <1>2, <1>7, TryBooks

\* a step of one goroutine that leaves no node behind but its own
LEMMA BookOne ==
    ASSUME NEW w \in Walkers, NEW c \in Nat, NEW next, NEW resume,
           Books(c, next, resume), RunBooks(w, next), NotStrict(next), NotStrict(resume),
           spent' = spent + c, c > 0 => run[w].pc = "node" /\ c \in TokenCosts, op' = op
    PROVE  BookStep
  BY DEF BookStep, RunBooks

LEMMA UpdateCharges ==
    /\ Charges(NoUpdate, 0, NoStep)
    /\ \A a : Charges([NoUpdate EXCEPT !.status = a], 0, NoStep)
    /\ \A a : Charges([NoUpdate EXCEPT !.idx = a], 0, NoStep)
    /\ \A a : Charges([NoUpdate EXCEPT !.replan = a], 0, NoStep)
    /\ \A a : Charges([NoUpdate EXCEPT !.clearIntr = a], 0, NoStep)
    /\ \A t : Charges([NoUpdate EXCEPT !.tokens = t], t, NoStep)
    /\ \A i : Charges([NoUpdate EXCEPT !.intr = i], 0, i.resume)
    /\ \A a, i : Charges([NoUpdate EXCEPT !.status = a, !.intr = i], 0, i.resume)
    /\ \A rev : Charges(ReviewerUpdate(rev), 0, NoStep)
    /\ \A a, b, c, d, t : Charges([NoUpdate EXCEPT !.status = a, !.idx = b, !.plan = c,
                                                  !.clearReplan = d, !.tokens = t], t, NoStep)
    /\ \A a, b, t : Charges(ApprovalPause(a, b, t), t, "executor")
    /\ \A a, b, t : Charges([NoUpdate EXCEPT !.idx = a, !.tokens = t, !.plan = b], t, NoStep)
    /\ \A s : Charges(SkipUpdate(s), 0, NoStep)
  BY DEF Charges, NoUpdate, NoInterrupt, ReviewerUpdate, ApprovalPause, SkipUpdate

LEMMA RunTo ==
    ASSUME run \in [Walkers -> Run], NEW w \in Walkers, NEW pc, pc # "node", NEW next,
           run' = [run EXCEPT ![w].pc = pc] \/ run' = [run EXCEPT ![w].pc = pc, ![w].rev = NoReview]
    PROVE  RunBooks(w, next)
<1>1. run[w] \in Run /\ \A v \in Walkers \ {w} : run'[v] = run[v]
  OBVIOUS
<1>2. run'[w].pc = pc /\ run'[w].last = run[w].last
  <2>1. CASE run' = [run EXCEPT ![w].pc = pc]
    BY <1>1, <2>1 DEF Run
  <2>2. CASE run' = [run EXCEPT ![w].pc = pc, ![w].rev = NoReview]
    <3>1. run'[w] = [[run[w] EXCEPT !.pc = pc] EXCEPT !.rev = NoReview]
      BY <2>2
    <3> QED
      BY <1>1, <3>1 DEF Run
  <2> QED
    BY <2>1, <2>2
<1> QED
  BY <1>1, <1>2 DEF RunBooks

\* the nodes' commits
LEMMA NodeStepBooks ==
    ASSUME TaskOK, StrictFree, ~StrictReview, NEW w \in Walkers,
           \/ PlannerPlan(w) \/ ExecutorAdvance(w) \/ \E ok \in BOOLEAN : ExecutorRun(w, ok)
           \/ ReviewerCommit(w) \/ ReplanSetupNoop(w) \/ ReplanSetup(w)
           \/ ApprovalPending(w) \/ ApprovalRoute(w)
    PROVE  BookStep
<1>1. run[w] \in Run /\ run \in [Walkers -> Run] /\ spent \in Nat
  BY RunTypes DEF TaskOK
<1>2. \A i, n : NotStrict(NextStepAfter(i, n))
  BY DEF NotStrict, NextStepAfter
<1>3. NotStrict(NoStep) /\ \A next \in {"planner", "executor", "reviewer", "terminal", "approval",
                                        "replan_setup"} : NotStrict(next)
  BY DEF NotStrict, NoStep
<1>4. ASSUME NEW r \in Run, r.last = run[w].last, NEW out, NEW t \in Nat, NEW next, NEW resume,
             NEW halt, Charges(out, t, resume), NodeCommit(w, r, out, next, halt),
             NotStrict(next), NotStrict(resume), spent' = spent + t,
             t > 0 => run[w].pc = "node" /\ t \in TokenCosts
      PROVE  BookStep
  <2>1. Books(t, next, resume) /\ RunBooks(w, next)
    BY <1>4, NodeBooks
  <2>2. op' = op
    BY <1>4 DEF NodeCommit
  <2> QED
    BY <1>4, <2>1, <2>2, BookOne
<1>5. ASSUME NEW r \in Run, r.last = run[w].last, NEW out, NEW next, NEW halt,
             Charges(out, 0, NoStep), NodeCommit(w, r, out, next, halt), NotStrict(next),
             spent' = spent
      PROVE  BookStep
  <2>1. spent' = spent + 0 /\ 0 \in Nat /\ ~(0 > 0)
    BY <1>1, <1>5
  <2> QED
    BY <1>3, <1>4, <1>5, <2>1
<1>6. CASE PlannerPlan(w)
  <2>1. PICK n \in PlanSizes, t \in TokenCosts :
           /\ \E a, b, c, d : NodeCommit(w, run[w], [NoUpdate EXCEPT !.status = a, !.idx = b, !.plan = c,
                                   !.clearReplan = d, !.tokens = t], "executor", FALSE)
           /\ spent' = spent + t
    BY <1>6 DEF PlannerPlan, Spend
  <2>2. run[w].pc = "node" /\ t \in Nat
    BY <1>6, ConfigAssumption DEF PlannerPlan, AtNode
  <2>3. PICK out : Charges(out, t, NoStep) /\ NodeCommit(w, run[w], out, "executor", FALSE)
    BY <2>1, UpdateCharges
  <2> QED
    BY <1>1, <1>3, <1>4, <2>1, <2>2, <2>3
<1>7. CASE \E ok \in BOOLEAN : ExecutorRun(w, ok)
  <2>1. PICK ok \in BOOLEAN : ExecutorRun(w, ok)
    BY <1>7
  <2>2. PICK t \in TokenCosts :
           /\ \/ \E a, b : NodeCommit(w, run[w], ApprovalPause(a, b, t), "approval", FALSE)
              \/ \E a, b, i, n : NodeCommit(w, run[w], [NoUpdate EXCEPT !.idx = a, !.tokens = t, !.plan = b],
                                      NextStepAfter(i, n), FALSE)
           /\ spent' = spent + t
    BY <2>1 DEF ExecutorRun, Spend
  <2>3. run[w].pc = "node" /\ t \in Nat
    BY <2>1, ConfigAssumption DEF ExecutorRun, AtNode
  <2>4. \E out, next : \E resume \in {NoStep, "executor"} :
           /\ Charges(out, t, resume) /\ NotStrict(next)
           /\ NodeCommit(w, run[w], out, next, FALSE)
    BY <1>2, <1>3, <2>2, UpdateCharges
  <2> QED
    BY <1>1, <1>3, <1>4, <2>2, <2>3, <2>4
<1>8. CASE ReviewerCommit(w)
  <2>1. PICK p : NodeCommit(w, [run[w] EXCEPT !.recorded = p], ReviewerUpdate(run[w].rev),
             IF run[w].rev.verdict = "block" /\ WantReplan(run[w]) THEN "replan_setup" ELSE "terminal",
             FALSE) /\ p \in Seq(SubTask)
    BY <1>8, RunTypes DEF ReviewerCommit
  <2>2. [run[w] EXCEPT !.recorded = p] \in Run /\ [run[w] EXCEPT !.recorded = p].last = run[w].last
    BY <1>1, <2>1 DEF Run
  <2>3. spent' = spent
    BY <1>8 DEF ReviewerCommit
  <2> QED
    BY <1>3, <1>5, <2>1, <2>2, <2>3, UpdateCharges
<1>9. CASE ReplanSetup(w)
  <2>1. PICK x : NodeCommit(w, [run[w] EXCEPT !.attempt = run[w].attempt + 1],
                            [NoUpdate EXCEPT !.replan = x], "planner", FALSE)
    BY <1>9 DEF ReplanSetup
  <2> DEFINE n == run[w].attempt + 1
             r == [run[w] EXCEPT !.attempt = n]
  <2>a. n \in Nat
    BY RunTypes
  <2> HIDE DEF n
  <2>2. r \in Run /\ r.last = run[w].last
    BY <1>1, <2>a DEF Run
  <2> USE DEF n
  <2>3. spent' = spent /\ NodeCommit(w, r, [NoUpdate EXCEPT !.replan = x], "planner", FALSE)
    BY <1>9, <2>1 DEF ReplanSetup
  <2> HIDE DEF r
  <2> QED
    BY <1>3, <1>5, <2>2, <2>3, UpdateCharges
<1>10. CASE ExecutorAdvance(w)
  <2>1. \E a, i, n : NodeCommit(w, run[w], [NoUpdate EXCEPT !.idx = a], NextStepAfter(i, n), FALSE)
    BY <1>10 DEF ExecutorAdvance
  <2>2. spent' = spent
    BY <1>10 DEF ExecutorAdvance
  <2> QED
    BY <1>1, <1>2, <1>5, <2>1, <2>2, UpdateCharges
<1>11. CASE ReplanSetupNoop(w) \/ ApprovalPending(w) \/ (ApprovalRoute(w) /\ ~NodeError(w))
  <2>1. spent' = spent
    BY <1>11 DEF ReplanSetupNoop, ApprovalPending, ApprovalRoute
  <2>2. \E next, halt : NotStrict(next) /\ NodeCommit(w, run[w], NoUpdate, next, halt)
    BY <1>2, <1>3, <1>11 DEF ReplanSetupNoop, ApprovalPending, ApprovalRoute
  <2> QED
    BY <1>1, <1>5, <2>1, <2>2, UpdateCharges
<1>12. CASE NodeError(w)
  <2>1. snap' = snap /\ spent' = spent + 0 /\ op' = op /\ 0 \in Nat /\ ~(0 > 0)
    BY <1>1, <1>12 DEF NodeError
  <2>2. RunBooks(w, NoStep)
    <3>1. ErrorPc(w) # "node"
      BY DEF ErrorPc
    <3> QED
      BY <1>1, <1>12, <3>1, RunTo DEF NodeError
  <2>3. Books(0, NoStep, NoStep)
    BY <2>1, SameBooks
  <2> QED
    BY <1>3, <2>1, <2>2, <2>3, BookOne
<1> QED
  BY <1>6, <1>7, <1>8, <1>9, <1>10, <1>11, <1>12

\* a step of one goroutine around its nodes that charges nothing
LEMMA FreeBooks ==
    ASSUME TaskOK, NEW w \in Walkers, NEW next, NEW resume, Books(0, next, resume),
           RunBooks(w, next), NotStrict(next), NotStrict(resume), spent' = spent, op' = op
    PROVE  BookStep
<1>1. spent' = spent + 0 /\ 0 \in Nat /\ ~(0 > 0)
  BY DEF TaskOK
<1> QED
  BY <1>1, BookOne

\* a step that leaves every goroutine at its step and charges nothing
LEMMA QuietBooks ==
    ASSUME TaskOK, NEW next, NEW resume, Books(0, next, resume), NotStrict(next), NotStrict(resume),
           spent' = spent,
           \A w \in Walkers : /\ run'[w].last.next \in {run[w].last.next, snap.next, NoStep}
                              /\ run'[w].pc = "node" => run[w].pc = "node" \/ ~Exceeded(snap.state),
           \A o \in Operators : op'[o].seen.state.intr.resume
                                  \in {op[o].seen.state.intr.resume, snap.state.intr.resume, NoStep}
    PROVE  BookStep
<1>1. spent' = spent + 0 /\ 0 \in Nat /\ ~(0 > 0)
  BY DEF TaskOK
<1> QED
  BY <1>1 DEF BookStep

LEMMA LoopBooks ==
    ASSUME TaskOK, StrictFree, ~StrictReview, NEW w \in Walkers,
           \/ WalkerCtxErr(w) \/ WalkerCtxOk(w) \/ CommitBudgetInterrupt(w)
           \/ PlannerError(w) \/ PlannerCancelled(w) \/ NodeOutOfRange(w)
           \/ CommitFailureBoundary(w) \/ StoreFault(w) \/ BoundaryFault(w) \/ NodePanic(w)
    PROVE  BookStep
<1>1. run \in [Walkers -> Run] /\ spent' = spent /\ op' = op
  BY DEF TaskOK, WalkerCtxErr, WalkerCtxOk, CommitBudgetInterrupt, PlannerError, PlannerCancelled,
    NodeOutOfRange, NodeError, CommitFailureBoundary, StoreFault, BoundaryFault, NodePanic
<1>2. \A next : RunBooks(w, next)
  <2>1. PICK pc \in {"load", "failing", "end"} :
             \/ run' = [run EXCEPT ![w].pc = pc]
             \/ run' = [run EXCEPT ![w].pc = pc, ![w].rev = NoReview]
    BY DEF WalkerCtxErr, WalkerCtxOk, CommitBudgetInterrupt, CommitFailureBoundary, PlannerError,
      PlannerCancelled, NodeOutOfRange, NodeError, StoreFault, BoundaryFault, NodePanic, ErrorPc
  <2> QED
    BY <1>1, <2>1, RunTo
<1>3. NotStrict(NoStep) /\ NotStrict("terminal") /\ NotStrict(run[w].last.next)
  BY DEF StrictFree, NotStrict, NoStep
<1>4. \E next : \E resume \in {NoStep, run[w].last.next} :
         NotStrict(next) /\ Books(0, next, resume)
  <2>1. CASE snap' = snap
    BY <1>3, <2>1, SameBooks
  <2>2. CASE WalkerCtxErr(w) /\ snap' # snap
    <3> DEFINE u == [NoUpdate EXCEPT !.intr = CtxInterrupt(run[w].last.next)]
    <3>1. TryCommit(u, run[w].last.next)
      BY <2>2 DEF WalkerCtxErr
    <3>2. CtxInterrupt(run[w].last.next).resume = run[w].last.next
      BY DEF CtxInterrupt
    <3>3. Charges(u, 0, run[w].last.next)
      BY <3>2, UpdateCharges
    <3> HIDE DEF u
    <3> QED
      BY <1>3, <3>1, <3>3, TryBooks
  <2>3. CASE CommitBudgetInterrupt(w)
    <3> DEFINE i == [reason |-> "budget_exceeded", idx |-> -1, resume |-> run[w].last.next]
               u == [NoUpdate EXCEPT !.intr = i]
    <3>1. TryCommit(u, run[w].last.next)
      BY <2>3 DEF CommitBudgetInterrupt
    <3>2. Charges(u, 0, i.resume) /\ i.resume = run[w].last.next
      BY UpdateCharges
    <3> HIDE DEF u, i
    <3> QED
      BY <1>3, <3>1, <3>2, TryBooks
  <2>4. CASE CommitFailureBoundary(w) \/ NodePanic(w)
    <3>1. PICK u : Charges(u, 0, NoStep) /\ TryCommit(u, "terminal")
      BY <2>4, UpdateCharges DEF CommitFailureBoundary, NodePanic
    <3> QED
      BY <1>3, <3>1, TryBooks
  <2>5. CASE WalkerCtxOk(w) \/ PlannerError(w) \/ PlannerCancelled(w) \/ NodeOutOfRange(w)
             \/ StoreFault(w) \/ BoundaryFault(w)
    <3>1. snap' = snap
      BY <2>5 DEF WalkerCtxOk, PlannerError, PlannerCancelled, NodeOutOfRange, NodeError,
        StoreFault, BoundaryFault
    <3> QED
      BY <2>1, <3>1
  <2> QED
    BY <2>1, <2>2, <2>3, <2>4, <2>5
<1> QED
  BY <1>1, <1>2, <1>3, <1>4, FreeBooks

LEMMA LaunchBooks ==
    ASSUME TaskOK, NEW w \in Walkers,
           StartGraphRun(w) \/ EndRun(w) \/ ResumeViaGraph(w) \/ RunViaGraph(w)
    PROVE  BookStep
<1>1. run \in [Walkers -> Run] /\ spent' = spent /\ op' = op
  BY DEF TaskOK, StartGraphRun, EndRun, ResumeViaGraph, RunViaGraph
<1>2. NotStrict(NoStep) /\ NotStrict("planner") /\ snap \in Snapshot
  BY DEF NotStrict, NoStep, TaskOK
<1>3. CASE StartGraphRun(w)
  <2>1. RunBooks(w, "planner")
    BY <1>1, <1>3, RunTo DEF StartGraphRun
  <2>2. snap' = snap \/ (snap'.state = snap.state /\ snap'.next = "planner")
    BY <1>2, <1>3 DEF StartGraphRun, Snapshot
  <2>3. Books(0, "planner", NoStep)
    BY <2>2 DEF Books
  <2> QED
    BY <1>1, <1>2, <2>1, <2>3, FreeBooks
<1>4. CASE EndRun(w) \/ ResumeViaGraph(w) \/ RunViaGraph(w)
  <2> DEFINE first == [IdleRun EXCEPT !.pc = "starting"]
             sync == [IdleRun EXCEPT !.pc = "starting", !.sync = TRUE]
  <2>1. /\ IdleRun.last.next = NoStep /\ IdleRun.pc # "node"
        /\ first.last.next = NoStep /\ first.pc # "node"
        /\ sync.last.next = NoStep /\ sync.pc # "node"
    <3>1. NoSnapshot.next = NoStep
      BY DEF NoSnapshot
    <3> QED
      BY <3>1 DEF IdleRun
  <2>2. \E x \in {IdleRun, first, sync} : run' = [run EXCEPT ![w] = x]
    BY <1>4 DEF EndRun, ResumeViaGraph, RunViaGraph
  <2> HIDE DEF first, sync
  <2>3. RunBooks(w, NoStep)
    BY <1>1, <2>1, <2>2 DEF RunBooks
  <2>4. Books(0, NoStep, NoStep)
    BY <1>4, SameBooks DEF EndRun, ResumeViaGraph, RunViaGraph
  <2> QED
    BY <1>1, <1>2, <2>3, <2>4, FreeBooks
<1> QED
  BY <1>3, <1>4

LEMMA LoadBooks ==
    ASSUME TaskOK, NEW w \in Walkers, WalkerLoad(w)
    PROVE  BookStep
<1>1. /\ snap' = snap /\ op' = op /\ run'[w].last = snap
      /\ run'[w].pc = "node" => ~Exceeded(snap.state)
      /\ \A v \in Walkers \ {w} : run'[v] = run[v]
  BY LoadFields
<1>2. Books(0, NoStep, NoStep) /\ spent' = spent /\ NotStrict(NoStep)
  BY <1>1, SameBooks DEF WalkerLoad, NotStrict, NoStep
<1> QED
  BY <1>1, <1>2, QuietBooks

LEMMA ReviewBooks ==
    ASSUME TaskOK, StrictFree, NEW w \in Walkers, ReviewTask(w) \/ ReviewSubTask(w)
    PROVE  BookStep
<1>1. PICK results : RunReview(w, results)
  BY DEF ReviewTask, ReviewSubTask
<1>2. PICK r \in results, t \in TokenCosts :
         /\ TryCommit([NoUpdate EXCEPT !.tokens = t], "reviewer") \/ snap' = snap
         /\ run' = [run EXCEPT ![w].pc = "reviewed",
                        ![w].rev = [verdict |-> r.verdict, low |-> r.low, tokens |-> t]]
         /\ spent' = spent + t
  BY <1>1 DEF RunReview, Spend
<1>3. run[w].pc = "node" /\ run[w] \in Run /\ run \in [Walkers -> Run] /\ t \in Nat
  BY ConfigAssumption DEF ReviewTask, ReviewSubTask, AtNode, TaskOK
<1>4. RunBooks(w, "reviewer")
  <2> DEFINE v == [verdict |-> r.verdict, low |-> r.low, tokens |-> t]
  <2>1. run' = [run EXCEPT ![w].pc = "reviewed", ![w].rev = v]
    BY <1>2
  <2> HIDE DEF v
  <2>2. run'[w] = [[run[w] EXCEPT !.pc = "reviewed"] EXCEPT !.rev = v]
        /\ \A q \in Walkers \ {w} : run'[q] = run[q]
    BY <1>3, <2>1
  <2>3. run'[w].pc = "reviewed" /\ run'[w].last = run[w].last
    BY <1>3, <2>2 DEF Run
  <2> QED
    BY <2>2, <2>3 DEF RunBooks
<1>5. Books(t, "reviewer", NoStep)
  BY <1>2, UpdateCharges, TryBooks, SameBooks
<1>6. op' = op /\ NotStrict("reviewer") /\ NotStrict(NoStep)
  BY <1>1 DEF RunReview, NotStrict, NoStep
<1> QED
  BY <1>2, <1>3, <1>4, <1>5, <1>6, BookOne

LEMMA OutsideBooks ==
    ASSUME TaskOK, StrictFree,
           \/ InterruptWithCancel \/ InterruptWithCommit \/ Crash \/ Sweep \/ WallclockElapses
           \/ \E w \in Walkers : ParentCancel(w)
           \/ Still
    PROVE  BookStep
<1>1. run \in [Walkers -> Run] /\ spent' = spent
  BY DEF TaskOK, InterruptWithCancel, InterruptWithCommit, Crash, Sweep, WallclockElapses,
    ParentCancel, Still
<1>2. NotStrict(NoStep) /\ NotStrict("terminal")
  BY DEF NotStrict, NoStep
<1>3. \A w \in Walkers : /\ run'[w].last.next \in {run[w].last.next, snap.next, NoStep}
                         /\ run'[w].pc = "node" => run[w].pc = "node"
  <2> SUFFICES ASSUME NEW w \in Walkers
               PROVE  /\ run'[w].last.next \in {run[w].last.next, snap.next, NoStep}
                      /\ run'[w].pc = "node" => run[w].pc = "node"
    OBVIOUS
  <2>1. CASE run'[w] = IdleRun
    <3>1. IdleRun.last.next = NoStep /\ IdleRun.pc = "idle"
      BY DEF IdleRun, NoSnapshot
    <3> QED
      BY <2>1, <3>1
  <2>2. CASE run'[w] = run[w]
    BY <2>2
  <2>3. CASE run'[w] = [run[w] EXCEPT !.cancelled = TRUE]
    <3>1. run[w] \in Run
      BY <1>1
    <3>2. run'[w].last = run[w].last /\ run'[w].pc = run[w].pc
      BY <2>3, <3>1 DEF Run
    <3> QED
      BY <3>2
  <2> QED
    BY <1>1, <2>1, <2>2, <2>3 DEF InterruptWithCancel, InterruptWithCommit, Crash, Sweep,
      WallclockElapses, ParentCancel, Still
<1>4. \A o \in Operators : op'[o].seen.state.intr.resume
                             \in {op[o].seen.state.intr.resume, NoStep}
  <2>1. op' = op \/ \A o \in Operators : op'[o] = IdleOp
    BY DEF InterruptWithCancel, InterruptWithCommit, Crash, Sweep, WallclockElapses, ParentCancel,
      Still
  <2> QED
    BY <2>1, IdleOpFields
<1>5. \E next : NotStrict(next) /\ Books(0, next, NoStep)
  <2>1. CASE snap' = snap
    BY <1>2, <2>1, SameBooks
  <2>2. CASE Sweep
    <3>1. PICK u : Charges(u, 0, NoStep) /\ TryCommit(u, "terminal")
      BY <2>2, UpdateCharges DEF Sweep, MarkTaskFailedDurable
    <3> QED
      BY <1>2, <3>1, TryBooks
  <2>3. CASE InterruptWithCommit /\ snap' # snap
    <3> DEFINE i == [reason |-> "user_interrupt", idx |-> -1, resume |-> NoStep]
               u == [NoUpdate EXCEPT !.status = "interrupted", !.intr = i]
    <3>1. TryCommit(u, "terminal")
      BY <2>3 DEF InterruptWithCommit
    <3>2. Charges(u, 0, i.resume) /\ i.resume = NoStep
      BY UpdateCharges
    <3> HIDE DEF u, i
    <3> QED
      BY <1>2, <3>1, <3>2, TryBooks
  <2> QED
    BY <2>1, <2>2, <2>3 DEF InterruptWithCancel, InterruptWithCommit, Crash, Sweep,
      WallclockElapses, ParentCancel, Still
<1> QED
  BY <1>1, <1>2, <1>3, <1>4, <1>5, QuietBooks

LEMMA OperatorBooks ==
    ASSUME TaskOK, StrictFree, NEW o \in Operators, OperatorRead(o) \/ OperatorCommit(o)
    PROVE  BookStep
<1>1. run' = run /\ spent' = spent /\ op \in [Operators -> OpState]
  BY DEF TaskOK, OperatorRead, OperatorCommit
<1>2. NotStrict(NoStep) /\ NotStrict("terminal") /\ NotStrict("executor")
  BY DEF NotStrict, NoStep
<1>3. CASE OperatorRead(o)
  <2>1. /\ snap' = snap /\ op'[o].seen = snap /\ \A p \in Operators \ {o} : op'[p] = op[p]
    BY <1>3, ReadFields
  <2>2. Books(0, NoStep, NoStep)
    BY <2>1, SameBooks
  <2> QED
    BY <1>1, <1>2, <2>1, <2>2, QuietBooks
<1>4. CASE OperatorCommit(o)
  <2>1. \A p \in Operators : op'[p].seen.state.intr.resume
                               \in {op[p].seen.state.intr.resume, NoStep}
    <3>1. op' = [op EXCEPT ![o] = IdleOp]
      BY <1>4 DEF OperatorCommit
    <3> QED
      BY <1>1, <3>1, IdleOpFields
  <2>2. PICK u, next : Charges(u, 0, NoStep) /\ TryCommit(u, next) /\ NotStrict(next)
    <3>1. NotStrict(RetryStep(op[o].seen.state.intr))
      BY <1>2 DEF RetryStep, StrictFree
    <3> QED
      BY <1>2, <1>4, <3>1, UpdateCharges DEF OperatorCommit, MarkTaskFailedDurable
  <2>3. Books(0, next, NoStep)
    BY <2>2, TryBooks
  <2> QED
    BY <1>1, <1>2, <2>1, <2>2, <2>3, QuietBooks
<1> QED
  BY <1>3, <1>4

LEMMA EveryBookStep ==
    ASSUME TaskOK, StrictFree, ~StrictReview, [Next]_vars
    PROVE  BookStep
<1>1. ASSUME NEW w \in Walkers, WalkerStep(w)
      PROVE  BookStep
  <2>1. ~StrictReviewCommit(w)
    BY DEF StrictReviewCommit, StrictFree, NotStrict
  <2>2. CASE \/ PlannerPlan(w) \/ ExecutorAdvance(w) \/ \E ok \in BOOLEAN : ExecutorRun(w, ok)
             \/ ReviewerCommit(w) \/ ReplanSetupNoop(w) \/ ReplanSetup(w)
             \/ ApprovalPending(w) \/ ApprovalRoute(w)
    BY <2>2, NodeStepBooks
  <2>3. CASE \/ WalkerCtxErr(w) \/ WalkerCtxOk(w) \/ CommitBudgetInterrupt(w)
             \/ PlannerError(w) \/ PlannerCancelled(w) \/ NodeOutOfRange(w)
             \/ CommitFailureBoundary(w)
    BY <2>3, LoopBooks
  <2>4. CASE StartGraphRun(w) \/ EndRun(w)
    BY <2>4, LaunchBooks
  <2>5. CASE WalkerLoad(w)
    BY <2>5, LoadBooks
  <2>6. CASE ReviewTask(w) \/ ReviewSubTask(w)
    BY <2>6, ReviewBooks
  <2>7. CASE RunSubTask(w)
    BY <2>7, OutsideBooks DEF RunSubTask, Still
  <2> QED
    BY <1>1, <2>1, <2>2, <2>3, <2>4, <2>5, <2>6, <2>7 DEF WalkerStep
<1>2. ASSUME NEW w \in Walkers, ResumeViaGraph(w) \/ RunViaGraph(w)
      PROVE  BookStep
  BY <1>2, LaunchBooks
<1>3. ASSUME NEW w \in Walkers, NodePanic(w) \/ StoreFault(w) \/ BoundaryFault(w)
      PROVE  BookStep
  BY <1>3, LoopBooks
<1>4. ASSUME NEW o \in Operators, OperatorRead(o) \/ OperatorCommit(o)
      PROVE  BookStep
  BY <1>4, OperatorBooks
<1>5. CASE \/ InterruptWithCancel \/ InterruptWithCommit \/ Crash \/ Sweep \/ WallclockElapses
           \/ \E w \in Walkers : ParentCancel(w)
           \/ UNCHANGED vars
  BY <1>5, OutsideBooks DEF vars, Still
<1> QED
  BY <1>1, <1>2, <1>3, <1>4, <1>5 DEF Next

LEMMA StrictFreeStep ==
    ASSUME StrictFree, BookStep
    PROVE  StrictFree'
<1>1. NotStrict(NoStep)
  BY DEF NotStrict, NoStep
<1> QED
  BY <1>1 DEF StrictFree, BookStep, Books

LEMMA StrictFreeInit == Init => StrictFree
<1> SUFFICES ASSUME Init PROVE StrictFree
  OBVIOUS
<1>1. NotStrict(NoStep)
  BY DEF NotStrict, NoStep
<1>2. NoSnapshot.next = NoStep /\ NoSnapshot.state.intr.resume = NoStep
  BY DEF NoSnapshot, CreatedState, NoInterrupt
<1>3. \A w \in Walkers : run[w].last.next = NoStep
  BY <1>2 DEF Init, IdleRun
<1> QED
  BY <1>1, <1>2, <1>3 DEF Init, StrictFree, IdleOp

LEMMA BooksInvariant ==
    ASSUME ~StrictReview
    PROVE  Spec => [](TaskOK /\ StrictFree)
<1>1. TaskOK /\ StrictFree /\ [Next]_vars => StrictFree'
  BY EveryBookStep, StrictFreeStep
<1> QED
  BY <1>1, StrictFreeInit, TaskCorrect, PTL DEF Spec

\* Without the strict reviewer a task is never charged more than its model calls reported,
\* with any number of goroutines, resumes, retries and reviews interleaved.
THEOREM NeverOvercharged ==
    ASSUME ~StrictReview
    PROVE  Spec => []NoOvercharge
<1>1. Init => NoOvercharge
  BY DEF Init, NoSnapshot, CreatedState, NoOvercharge
<1>2. ASSUME TaskOK, StrictFree, NoOvercharge, [Next]_vars
      PROVE  NoOvercharge'
  <2>1. PICK c \in Nat : /\ snap'.state.used \in {snap.state.used, snap.state.used + c}
                         /\ spent' = spent + c
    BY <1>2, EveryBookStep DEF BookStep, Books
  <2>2. snap.state.used \in Nat /\ spent \in Nat
    BY <1>2, SnapFields DEF TaskOK
  <2> QED
    BY <1>2, <2>1, <2>2 DEF NoOvercharge
<1> QED
  BY <1>1, <1>2, BooksInvariant, PTL DEF Spec

\* a goroutine past the budget gate still has budget left: nobody else charges the task
WithinBudget ==
    MaxTotalTokens > 0 =>
        /\ \E c \in TokenCosts : snap.state.used < MaxTotalTokens + c
        /\ \A w \in Walkers : run[w].pc = "node" => snap.state.used < MaxTotalTokens

LEMMA WithinBudgetStep ==
    ASSUME TaskOK, BookStep, OneWalker, WithinBudget
    PROVE  WithinBudget'
<1>1. PICK c \in Nat :
         /\ snap'.state.used \in {snap.state.used, snap.state.used + c}
         /\ c > 0 => \E w \in Walkers : /\ run[w].pc = "node" /\ run'[w].pc # "node"
                                        /\ c \in TokenCosts
         /\ \A w \in Walkers :
               run'[w].pc = "node" => run[w].pc = "node" \/ ~Exceeded(snap.state)
  BY DEF BookStep, Books
<1>2. snap.state.used \in Nat /\ MaxTotalTokens \in Nat /\ TokenCosts \subseteq Nat
  BY SnapFields, ConfigAssumption
<1> SUFFICES ASSUME MaxTotalTokens > 0
             PROVE  /\ \E d \in TokenCosts : snap'.state.used < MaxTotalTokens + d
                    /\ \A w \in Walkers : run'[w].pc = "node" => snap'.state.used < MaxTotalTokens
  BY DEF WithinBudget
<1>3. \A w \in Walkers : run'[w].pc = "node" => snap.state.used < MaxTotalTokens
  BY <1>1, <1>2 DEF WithinBudget, Exceeded
<1>4. CASE snap'.state.used = snap.state.used
  BY <1>3, <1>4 DEF WithinBudget
<1>5. CASE snap'.state.used = snap.state.used + c /\ c > 0
  <2>1. PICK w \in Walkers : run[w].pc = "node" /\ run'[w].pc # "node" /\ c \in TokenCosts
    BY <1>1, <1>5
  <2>2. snap.state.used < MaxTotalTokens
    BY <2>1 DEF WithinBudget
  <2>3. snap'.state.used < MaxTotalTokens + c
    BY <1>2, <1>5, <2>2
  <2>4. \A v \in Walkers : run'[v].pc # "node"
    BY <2>1 DEF OneWalker
  <2> QED
    BY <2>1, <2>3, <2>4
<1>6. snap'.state.used = snap.state.used \/ (snap'.state.used = snap.state.used + c /\ c > 0)
  BY <1>1, <1>2
<1> QED
  BY <1>4, <1>5, <1>6

\* With one walker and without the strict reviewer, the charged tokens stay below the
\* limit plus the cost of one model call: the gate in front of every node is re-read
\* between any two calls, also across resumes and retries.
THEOREM OvershootIsBounded ==
    ASSUME OneWalker, ~StrictReview, TokenCosts # {}
    PROVE  Spec => []OvershootBounded
<1>1. Init => WithinBudget
  <2> SUFFICES ASSUME Init PROVE WithinBudget
    OBVIOUS
  <2>1. snap.state.used = 0 /\ \A w \in Walkers : run[w].pc # "node"
    BY DEF Init, NoSnapshot, CreatedState, IdleRun
  <2>2. PICK c \in TokenCosts : c \in Nat
    BY ConfigAssumption
  <2>3. MaxTotalTokens \in Nat
    BY ConfigAssumption
  <2> QED
    BY <2>1, <2>2, <2>3 DEF WithinBudget
<1>2. TaskOK /\ StrictFree /\ WithinBudget /\ [Next]_vars => WithinBudget'
  BY EveryBookStep, WithinBudgetStep
<1>3. WithinBudget => OvershootBounded
  BY DEF WithinBudget, OvershootBounded
<1> QED
  BY <1>1, <1>2, <1>3, BooksInvariant, PTL DEF Spec

-----------------------------------------------------------------------------
(***************************************************************************)
(* How a run ends.  Unless it is cancelled, called synchronously or the    *)
(* store fails under it, a goroutine only returns from a finished or       *)
(* paused task.                                                            *)
(***************************************************************************)
Undisturbed == Events \cap {"interrupt", "parent_cancel", "store_fault", "run_sync"} = {}

NeverStopped == \A w \in Walkers : ~run[w].cancelled /\ ~run[w].sync

EndStep ==
    /\ NeverStopped'
    /\ \A w \in Walkers : run[w].pc # "end" /\ run'[w].pc = "end" => Parked(snap')

\* one goroutine moves, and returns only from a parked task
EndOne ==
    \E w \in Walkers :
       /\ ~run'[w].cancelled /\ ~run'[w].sync
       /\ run'[w].pc = "end" => Parked(snap')
       /\ \A v \in Walkers \ {w} : run'[v] = run[v]

LEMMA EndsOne ==
    ASSUME NeverStopped, EndOne
    PROVE  EndStep
  BY DEF NeverStopped, EndOne, EndStep

LEMMA EndsNone ==
    ASSUME NeverStopped, run' = run
    PROVE  EndStep
  BY DEF NeverStopped, EndStep

LEMMA PcOnly ==
    ASSUME TaskOK, NeverStopped, NEW w \in Walkers, NEW pc, pc = "end" => Parked(snap'),
           run' = [run EXCEPT ![w].pc = pc] \/ run' = [run EXCEPT ![w].pc = pc, ![w].rev = NoReview]
    PROVE  EndOne
<1>1. run \in [Walkers -> Run]
  BY DEF TaskOK
<1>2. run[w] \in Run /\ \A v \in Walkers \ {w} : run'[v] = run[v]
  BY <1>1
<1>3. run'[w].pc = pc /\ run'[w].sync = run[w].sync /\ run'[w].cancelled = run[w].cancelled
  <2>1. CASE run' = [run EXCEPT ![w].pc = pc]
    BY <1>1, <1>2, <2>1 DEF Run
  <2>2. CASE run' = [run EXCEPT ![w].pc = pc, ![w].rev = NoReview]
    <3>1. run'[w] = [[run[w] EXCEPT !.pc = pc] EXCEPT !.rev = NoReview]
      BY <1>1, <2>2
    <3> QED
      BY <1>2, <3>1 DEF Run
  <2> QED
    BY <2>1, <2>2
<1> QED
  BY <1>2, <1>3 DEF EndOne, NeverStopped

LEMMA NodeEnds ==
    ASSUME TaskOK, NeverStopped, NEW w \in Walkers, NEW r \in Run, NEW out, NEW next, NEW halt,
           NodeCommit(w, r, out, next, halt), halt \in BOOLEAN, halt => next = "approval",
           r.cancelled = run[w].cancelled, r.sync = run[w].sync
    PROVE  EndOne
<1> DEFINE u == FinishingUpdate(w, out, next)
           new == Committed(u, next)
           pc == IF next = "terminal" \/ halt THEN "end" ELSE "loop"
           good == [r EXCEPT !.last = new, !.rev = NoReview, !.pc = pc]
           bad == [r EXCEPT !.rev = NoReview, !.pc = ErrorPc(w)]
<1>1. \/ snap' = new /\ run' = [run EXCEPT ![w] = good]
      \/ run' = [run EXCEPT ![w] = bad]
  BY DEF NodeCommit
<1>2. new.next = next /\ (pc = "end" => next \in {"terminal", "approval"})
  BY DEF Committed
<1>3. ErrorPc(w) = "failing"
  BY DEF ErrorPc, NeverStopped
<1>4. run \in [Walkers -> Run]
  BY DEF TaskOK
<1>5. /\ good.pc = pc /\ good.sync = r.sync /\ good.cancelled = r.cancelled
      /\ bad.pc = "failing" /\ bad.sync = r.sync /\ bad.cancelled = r.cancelled
  <2> DEFINE e == ErrorPc(w)
             half == [r EXCEPT !.rev = NoReview]
  <2>1. [half EXCEPT !.pc = e].pc = e /\ [half EXCEPT !.pc = e].sync = r.sync
        /\ [half EXCEPT !.pc = e].cancelled = r.cancelled
    BY DEF Run
  <2>2. bad.pc = e /\ bad.sync = r.sync /\ bad.cancelled = r.cancelled
    BY <2>1
  <2> HIDE DEF new, pc, e
  <2>3. good.pc = pc /\ good.sync = r.sync /\ good.cancelled = r.cancelled
    BY DEF Run
  <2> QED
    BY <1>3, <2>2, <2>3 DEF e
<1> HIDE DEF u, new, pc, good, bad
<1>6. CASE snap' = new /\ run' = [run EXCEPT ![w] = good]
  BY <1>2, <1>4, <1>5, <1>6 DEF EndOne, NeverStopped, Parked
<1>7. CASE run' = [run EXCEPT ![w] = bad]
  BY <1>4, <1>5, <1>7 DEF EndOne, NeverStopped
<1> QED
  BY <1>1, <1>6, <1>7

LEMMA WalkerEnds ==
    ASSUME TaskOK, NeverStopped, NEW w \in Walkers, WalkerStep(w)
    PROVE  EndStep
<1>1. run[w] \in Run /\ run \in [Walkers -> Run] /\ ~run[w].cancelled /\ ErrorPc(w) = "failing"
  BY RunTypes DEF TaskOK, NeverStopped, ErrorPc
<1>2. CASE StartGraphRun(w) \/ WalkerCtxOk(w) \/ PlannerError(w) \/ NodeOutOfRange(w)
           \/ (ApprovalRoute(w) /\ NodeError(w))
  <2>1. PICK pc \in {"loop", "load", "failing"} : run' = [run EXCEPT ![w].pc = pc]
    BY <1>1, <1>2 DEF StartGraphRun, WalkerCtxOk, PlannerError, NodeOutOfRange, NodeError
  <2> QED
    BY <2>1, PcOnly, EndsOne
<1>3. CASE WalkerCtxErr(w) \/ PlannerCancelled(w)
  BY <1>1, <1>3 DEF WalkerCtxErr, PlannerCancelled
<1>4. CASE EndRun(w)
  <2>1. run'[w] = IdleRun /\ \A v \in Walkers \ {w} : run'[v] = run[v]
    BY <1>1, <1>4 DEF EndRun
  <2>2. ~IdleRun.cancelled /\ ~IdleRun.sync /\ IdleRun.pc = "idle"
    BY DEF IdleRun
  <2>3. EndOne
    BY <2>1, <2>2 DEF EndOne
  <2> QED
    BY <2>3, EndsOne
<1>5. CASE WalkerLoad(w)
  <2> DEFINE pc == IF \/ snap.next = "terminal"
                      \/ snap.state.intr # NoInterrupt /\ snap.next # "approval" THEN "end"
                   ELSE IF Exceeded(snap.state) THEN "budget"
                   ELSE "node"
  <2>1. run' = [run EXCEPT ![w].last = snap, ![w].pc = pc] /\ snap' = snap
    BY <1>5 DEF WalkerLoad
  <2>2. pc = "end" => Parked(snap')
    BY <2>1 DEF Parked
  <2> HIDE DEF pc
  <2>3. run'[w] = [[run[w] EXCEPT !.last = snap] EXCEPT !.pc = pc]
        /\ \A v \in Walkers \ {w} : run'[v] = run[v]
    BY <1>1, <2>1
  <2>4. run'[w].pc = pc /\ run'[w].cancelled = run[w].cancelled /\ run'[w].sync = run[w].sync
    BY <1>1, <2>3 DEF Run
  <2>5. EndOne
    BY <2>2, <2>3, <2>4 DEF EndOne, NeverStopped
  <2> QED
    BY <2>5, EndsOne
<1>6. CASE CommitBudgetInterrupt(w)
  <2> DEFINE i == [reason |-> "budget_exceeded", idx |-> -1, resume |-> run[w].last.next]
  <2>1. snap'.state.intr = i
    BY <1>6, BudgetFields
  <2>2. Parked(snap')
    <3>1. i.reason = "budget_exceeded"
      OBVIOUS
    <3> HIDE DEF i
    <3> QED
      BY <2>1, <3>1, IdleOpFields DEF Parked
  <2> QED
    BY <1>6, <2>2, PcOnly, EndsOne DEF CommitBudgetInterrupt
<1>7. CASE CommitFailureBoundary(w)
  <2> DEFINE u == [NoUpdate EXCEPT !.status = "failed"]
  <2>1. TryCommit(u, "terminal") /\ run' = [run EXCEPT ![w].pc = "end"]
    BY <1>7 DEF CommitFailureBoundary
  <2>2. u.status = "failed"
    BY DEF NoUpdate
  <2> HIDE DEF u
  <2>3. CASE CanCommit(u)
    <3>1. snap'.next = "terminal"
      BY <2>1, <2>3, TryWrites DEF Wrote
    <3> QED
      BY <2>1, <3>1, PcOnly, EndsOne DEF Parked
  <2>4. CASE ~CanCommit(u)
    <3>1. CommitSeed(snap.state) = snap.state /\ snap.state.status \in TaskStatus
      BY SnapFields, CommitSeedIsCurrent
    <3>2. snap' = snap /\ ~ValidTaskStatusTransition(snap.state.status, "failed")
      BY <2>1, <2>2, <2>4, <3>1 DEF TryCommit, CanCommit, Accepts
    <3>3. snap.state.status \in TerminalStatus
      BY <3>1, <3>2 DEF ValidTaskStatusTransition, TaskStatus, TerminalStatus
    <3> QED
      BY <2>1, <3>2, <3>3, PcOnly, EndsOne DEF Parked
  <2> QED
    BY <2>3, <2>4
<1>8. CASE ReviewTask(w) \/ ReviewSubTask(w)
  <2>1. PICK v : run' = [run EXCEPT ![w].pc = "reviewed", ![w].rev = v]
    BY <1>8 DEF ReviewTask, ReviewSubTask, RunReview
  <2>2. run'[w] = [[run[w] EXCEPT !.pc = "reviewed"] EXCEPT !.rev = v]
        /\ \A q \in Walkers \ {w} : run'[q] = run[q]
    BY <1>1, <2>1
  <2>3. run'[w].pc = "reviewed" /\ run'[w].cancelled = run[w].cancelled
        /\ run'[w].sync = run[w].sync
    BY <1>1, <2>2 DEF Run
  <2>4. EndOne
    BY <2>2, <2>3 DEF EndOne, NeverStopped
  <2> QED
    BY <2>4, EndsOne
<1>9. CASE \/ PlannerPlan(w) \/ ExecutorAdvance(w) \/ (\E ok \in BOOLEAN : ExecutorRun(w, ok))
           \/ ReplanSetupNoop(w) \/ ApprovalPending(w) \/ (ApprovalRoute(w) /\ ~NodeError(w))
           \/ StrictReviewCommit(w)
  <2>1. \E halt \in BOOLEAN : \E out, next :
           NodeCommit(w, run[w], out, next, halt) /\ (halt => next = "approval")
    <3>1. CASE PlannerPlan(w) \/ ExecutorAdvance(w) \/ ReplanSetupNoop(w) \/ ApprovalPending(w)
               \/ (ApprovalRoute(w) /\ ~NodeError(w))
      BY <3>1 DEF PlannerPlan, ExecutorAdvance, ReplanSetupNoop, ApprovalPending, ApprovalRoute
    <3>2. CASE \E ok \in BOOLEAN : ExecutorRun(w, ok)
      BY <3>2 DEF ExecutorRun
    <3>3. CASE StrictReviewCommit(w)
      BY <3>3 DEF StrictReviewCommit
    <3> QED
      BY <1>9, <3>1, <3>2, <3>3
  <2> QED
    BY <1>1, <2>1, NodeEnds, EndsOne
<1>10. CASE ReviewerCommit(w)
  <2>1. PICK p \in Seq(SubTask) : \E next, out :
           NodeCommit(w, [run[w] EXCEPT !.recorded = p], out, next, FALSE)
    BY <1>10, RunTypes DEF ReviewerCommit
  <2> DEFINE r == [run[w] EXCEPT !.recorded = p]
             halt == FALSE
  <2>2. r \in Run /\ r.cancelled = run[w].cancelled /\ r.sync = run[w].sync
    BY <1>1 DEF Run
  <2>3. \E next, out : NodeCommit(w, r, out, next, halt)
    BY <2>1
  <2>4. halt \in BOOLEAN /\ ~halt
    OBVIOUS
  <2> HIDE DEF r, halt
  <2> QED
    BY <2>2, <2>3, <2>4, NodeEnds, EndsOne
<1>12. CASE RunSubTask(w)
  BY <1>12, EndsNone DEF RunSubTask
<1>11. CASE ReplanSetup(w)
  <2> DEFINE n == run[w].attempt + 1
             r == [run[w] EXCEPT !.attempt = n]
             halt == FALSE
  <2>1. PICK out : NodeCommit(w, r, out, "planner", halt)
    BY <1>11 DEF ReplanSetup
  <2>2. n \in Nat
    BY RunTypes
  <2>3. halt \in BOOLEAN /\ ~halt
    OBVIOUS
  <2> HIDE DEF n, halt
  <2>4. r \in Run /\ r.cancelled = run[w].cancelled /\ r.sync = run[w].sync
    BY <1>1, <2>2 DEF Run
  <2> HIDE DEF r
  <2> QED
    BY <2>1, <2>3, <2>4, NodeEnds, EndsOne
<1> QED
  BY <1>2, <1>3, <1>4, <1>5, <1>6, <1>7, <1>8, <1>9, <1>10, <1>11, <1>12
     DEF WalkerStep


LEMMA OthersEnd ==
    ASSUME TaskOK, NeverStopped, Undisturbed, Next, \A w \in Walkers : ~WalkerStep(w)
    PROVE  EndStep
<1>1. /\ ~Event("interrupt") /\ ~Event("parent_cancel") /\ ~Event("store_fault")
      /\ ~Event("run_sync")
  BY DEF Undisturbed, Event
<1>2. run \in [Walkers -> Run]
  BY DEF TaskOK
<1>3. CASE \E w \in Walkers : ResumeViaGraph(w)
  <2>1. PICK w \in Walkers : run' = [run EXCEPT ![w] = [IdleRun EXCEPT !.pc = "starting"]]
    BY <1>3 DEF ResumeViaGraph
  <2>2. run'[w] = [IdleRun EXCEPT !.pc = "starting"] /\ \A v \in Walkers \ {w} : run'[v] = run[v]
    BY <1>2, <2>1
  <2>3. ~run'[w].cancelled /\ ~run'[w].sync /\ run'[w].pc = "starting"
    BY <2>2 DEF IdleRun
  <2>4. EndOne
    BY <2>2, <2>3 DEF EndOne
  <2> QED
    BY <2>4, EndsOne
<1>4. CASE \E w \in Walkers : NodePanic(w)
  <2>1. PICK w \in Walkers : run' = [run EXCEPT ![w].pc = ErrorPc(w), ![w].rev = NoReview]
    BY <1>4 DEF NodePanic
  <2>2. ErrorPc(w) = "failing"
    BY DEF ErrorPc, NeverStopped
  <2> QED
    BY <2>1, <2>2, PcOnly, EndsOne
<1>5. CASE \/ \E o \in Operators : OperatorRead(o) \/ OperatorCommit(o)
           \/ InterruptWithCommit \/ Sweep \/ WallclockElapses
  BY <1>5, EndsNone
     DEF OperatorRead, OperatorCommit, InterruptWithCommit, Sweep, WallclockElapses
<1>6. CASE Crash
  <2>1. \A w \in Walkers : run'[w] = IdleRun
    BY <1>6 DEF Crash
  <2>2. ~IdleRun.cancelled /\ ~IdleRun.sync /\ IdleRun.pc = "idle"
    BY DEF IdleRun
  <2> QED
    BY <2>1, <2>2 DEF EndStep, NeverStopped
<1> QED
  BY <1>1, <1>3, <1>4, <1>5, <1>6
     DEF Next, RunViaGraph, StoreFault, BoundaryFault, ParentCancel, InterruptWithCancel

\* Unless it is cancelled, called synchronously or the store fails under it, a goroutine
\* only returns from a task that is finished or waits for an operator, with any number of
\* walkers, operators, crashes, sweeps and panics around it.
THEOREM RunsEndParked ==
    ASSUME Undisturbed
    PROVE  Spec => RunEndsParked
<1>1. Init => NeverStopped
  <2> SUFFICES ASSUME Init PROVE NeverStopped
    OBVIOUS
  <2>1. PICK w \in Walkers, sync \in {FALSE} \cup {e = "run_sync" : e \in Events} :
           run = [v \in Walkers |-> IF v = w THEN [IdleRun EXCEPT !.pc = "starting", !.sync = sync]
                                             ELSE IdleRun]
    BY DEF Init
  <2>2. sync = FALSE
    BY <2>1 DEF Undisturbed
  <2>3. ~IdleRun.cancelled /\ ~IdleRun.sync
    BY DEF IdleRun
  <2>4. run[w] = [[IdleRun EXCEPT !.pc = "starting"] EXCEPT !.sync = FALSE]
    BY <2>1, <2>2
  <2>5. ~run[w].cancelled /\ ~run[w].sync
    BY <2>4 DEF IdleRun
  <2>6. \A v \in Walkers \ {w} : run[v] = IdleRun
    BY <2>1
  <2> QED
    BY <2>3, <2>5, <2>6 DEF NeverStopped
<1>2. TaskOK /\ NeverStopped /\ [Next]_vars => EndStep
  <2> SUFFICES ASSUME TaskOK, NeverStopped, [Next]_vars PROVE EndStep
    OBVIOUS
  <2>1. CASE UNCHANGED vars
    BY <2>1, EndsNone DEF vars
  <2>2. CASE Next
    BY <2>2, WalkerEnds, OthersEnd
  <2> QED
    BY <2>1, <2>2
<1>3. EndStep => NeverStopped'
  BY DEF EndStep
<1>4. EndStep =>
        [\A w \in Walkers : run[w].pc # "end" /\ run'[w].pc = "end" => Parked(snap')]_vars
  BY DEF EndStep
<1> QED
  BY <1>1, <1>2, <1>3, <1>4, TaskCorrect, PTL DEF Spec, RunEndsParked

-----------------------------------------------------------------------------
(***************************************************************************)
(* Attempts.  A sub-task enters the executor only while it has an attempt  *)
(* left: behind the one at CurrentIdx nothing has run, unless a partial    *)
(* replan kept it as done, and the strict reviewer sends a sub-task back   *)
(* only below the limit.                                                   *)
(***************************************************************************)
NoRetries(plan) == \A i \in 1..Len(plan) : plan[i].att <= MaxRetriesPerSub

Untried(s, i) == s.plan[i].att = 0 \/ Settled(s, i)

Ahead(s) == \A i \in 1..Len(s.plan) : i > s.idx + 1 => Untried(s, i)

KeptDone(replan) ==
    /\ NoRetries(replan.preserved)
    /\ \A i \in 1..Len(replan.preserved) : replan.preserved[i].st = "done"

\* what the task may go on with at the step next
MayRun(next, s) ==
    /\ next = "executor" /\ InRange(s)
         => Settled(s, s.idx + 1) \/ RetryLeft(s.plan[s.idx + 1].att)
    /\ next = "approval" => s.intr # NoInterrupt

AttInv ==
    /\ NoRetries(snap.state.plan) /\ Ahead(snap.state) /\ KeptDone(snap.state.replan)
    /\ \A next \in StepRoutes : MayRun(next, snap.state)
    /\ \A w \in Walkers :
          /\ NoRetries(run[w].recorded)
          /\ run[w].pc \in Working => KeptDone(run[w].last.state.replan)
          /\ run[w].pc \in Working /\ run[w].last.next = "approval" => Pending(run[w].last)

LEMMA NextStepAway ==
    ASSUME NEW i, NEW n
    PROVE  NextStepAfter(i, n) # "approval" /\ NextStepAfter(i, n) # "replan_setup"
  BY DEF NextStepAfter

\* the step after the current sub-task has an attempt left
LEMMA AheadMayRun ==
    ASSUME NEW s, NEW t, NEW n, s.plan \in Seq(SubTask), s.idx \in Nat, Ahead(s),
           t.idx = s.idx + 1, Len(t.plan) = Len(s.plan), t.plan \in Seq(SubTask),
           \A i \in 1..Len(s.plan) : i > s.idx + 1 => t.plan[i] = s.plan[i]
    PROVE  Ahead(t) /\ MayRun(NextStepAfter(s.idx + 1, n), t)
<1>1. \A i \in 1..Len(s.plan) : i > s.idx + 1 => Untried(t, i)
  BY DEF Ahead, Untried, Settled
<1>2. Ahead(t)
  BY <1>1 DEF Ahead
<1>3. InRange(t) => Untried(t, t.idx + 1)
  <2> SUFFICES ASSUME InRange(t) PROVE Untried(t, t.idx + 1)
    OBVIOUS
  <2>1. t.idx + 1 \in 1..Len(s.plan) /\ t.idx + 1 > s.idx + 1
    BY DEF InRange
  <2> QED
    BY <1>1, <2>1
<1>4. RetryLeft(0)
  BY ConfigAssumption DEF RetryLeft
<1> QED
  BY <1>2, <1>3, <1>4, NextStepAway DEF MayRun, Untried

\* after a commit by the only goroutine the snapshot and the goroutine agree
LEMMA GoesAtt ==
    ASSUME OneWalker, NEW w \in Walkers, NEW next, NEW attempt, NEW recorded,
           Goes(w, next, attempt, recorded), NoRetries(recorded),
           NoRetries(snap'.state.plan), Ahead(snap'.state), KeptDone(snap'.state.replan),
           MayRun(next, snap'.state)
    PROVE  AttInv'
<1>1. \A v \in Walkers : v = w
  BY DEF OneWalker
<1>2. run'[w].pc \in {"end", "loop"} /\ run'[w].last.next = next /\ snap'.next = next
      /\ run'[w].recorded = recorded
  BY DEF Goes
<1>3. StepRoutes' = {next}
  BY <1>1, <1>2 DEF StepRoutes, RunRoutes
<1> QED
  BY <1>1, <1>2, <1>3 DEF AttInv, Working

LEMMA AttInit ==
    ASSUME Init
    PROVE  AttInv
<1>1. PICK w \in Walkers, sync \in BOOLEAN :
         run = [v \in Walkers |-> IF v = w THEN [IdleRun EXCEPT !.pc = "starting", !.sync = sync]
                                           ELSE IdleRun]
  BY DEF Init
<1>2. \A v \in Walkers : /\ run[v].pc \in {"idle", "starting"} /\ run[v].recorded = <<>>
  BY <1>1 DEF IdleRun
<1>3. /\ snap.next = NoStep /\ snap.state.plan = <<>> /\ snap.state.replan.preserved = <<>>
  BY DEF Init, NoSnapshot, CreatedState, NoReplan
<1>4. StepRoutes = {NoStep}
  BY <1>2, <1>3 DEF StepRoutes, RunRoutes, Holding
<1>5. MayRun(NoStep, snap.state)
  BY DEF MayRun, NoStep
<1>6. NoRetries(<<>>)
  BY DEF NoRetries
<1> QED
  BY <1>2, <1>3, <1>4, <1>5, <1>6 DEF AttInv, Ahead, KeptDone, Working

\* the plan of a partial replan: what was kept, and sub-tasks nobody has run
LEMMA MergedFresh ==
    ASSUME NEW replan \in Replan, KeptDone(replan), NEW n \in PlanSizes, NEW s,
           s.plan = MergePreservedSubTasks(replan.preserved, n), s.idx = 0
    PROVE  NoRetries(s.plan) /\ Ahead(s) /\ MayRun("executor", s)
<1> DEFINE keep == replan.preserved
<1>1. keep \in Seq(SubTask) /\ n \in Nat \ {0}
  BY ConfigAssumption DEF Replan
<1>4. Len(keep) \in Nat /\ \A i \in 1..Len(keep) : keep[i].att <= MaxRetriesPerSub /\ keep[i].st = "done"
  BY <1>1 DEF KeptDone, NoRetries
<1>a. s.plan = MergePreservedSubTasks(keep, n)
  OBVIOUS
<1> HIDE DEF keep
<1> DEFINE m == MergePreservedSubTasks(keep, n)
<1>b. /\ Len(m) = Len(keep) + n /\ m \in Seq(SubTask)
      /\ \A i \in 1..Len(keep) + n :
            m[i] = IF i <= Len(keep) THEN keep[i] ELSE PendingSubTask
  BY <1>1, MergeType, Zenon
<1>c. s.plan = m
  BY <1>a
<1> HIDE DEF m
<1>2. /\ Len(s.plan) = Len(keep) + n /\ s.plan \in Seq(SubTask)
      /\ \A i \in 1..Len(keep) + n :
            s.plan[i] = IF i <= Len(keep) THEN keep[i] ELSE PendingSubTask
  BY <1>b, <1>c
<1>3. PendingSubTask.att = 0 /\ 0 <= MaxRetriesPerSub /\ RetryLeft(0)
  BY ConfigAssumption DEF PendingSubTask, RetryLeft
<1>5. \A i \in 1..Len(s.plan) : s.plan[i].att <= MaxRetriesPerSub /\ Untried(s, i)
  <2> TAKE i \in 1..Len(s.plan)
  <2>1. CASE i <= Len(keep)
    <3>1. s.plan[i] = keep[i] /\ i \in 1..Len(keep)
      BY <1>1, <1>2, <1>4, <2>1
    <3> QED
      BY <1>4, <3>1 DEF Untried, Settled
  <2>2. CASE ~(i <= Len(keep))
    <3>1. s.plan[i] = PendingSubTask
      BY <1>1, <1>2, <1>4, <2>2
    <3> QED
      BY <1>3, <3>1 DEF Untried
  <2> QED
    BY <2>1, <2>2
<1>6. InRange(s) => s.idx + 1 \in 1..Len(s.plan)
  BY <1>1, <1>2, <1>4 DEF InRange
<1> QED
  BY <1>3, <1>5, <1>6 DEF NoRetries, Ahead, MayRun, Untried

LEMMA PreservedKept ==
    ASSUME NEW plan \in Seq(SubTask), NoRetries(plan), NEW p \in PreservedChoices(plan)
    PROVE  KeptDone([on |-> TRUE, preserved |-> p])
<1>1. p \in Seq(SubTask) /\ \A i \in 1..Len(p) : p[i].st = "done"
  BY PreservedType
<1>2. \A i \in 1..Len(p) : p[i].att <= MaxRetriesPerSub
  <2>1. CASE p = <<>>
    BY <2>1
  <2>2. CASE p # <<>>
    <3>1. PICK k \in 1..Len(plan) - 1 :
             \E f \in [1..k -> DoneIdx(plan)] : p = [i \in 1..k |-> plan[f[i]]]
      BY <2>2 DEF PreservedChoices
    <3>2. PICK f \in [1..k -> DoneIdx(plan)] : p = [i \in 1..k |-> plan[f[i]]]
      BY <3>1
    <3>3. \A i \in 1..k : plan[f[i]].att <= MaxRetriesPerSub
      BY <3>2 DEF DoneIdx, NoRetries
    <3>4. DOMAIN p = 1..k /\ DOMAIN p = 1..Len(p)
      BY <1>1, <3>2
    <3> QED
      BY <3>2, <3>3, <3>4
  <2> QED
    BY <2>1, <2>2
<1> QED
  BY <1>1, <1>2 DEF KeptDone, NoRetries

LEMMA CalmAtt ==
    ASSUME OneInv, AttInv, Calm
    PROVE  AttInv'
<1>1. /\ snap'.state.plan = snap.state.plan /\ snap'.state.idx = snap.state.idx
      /\ snap'.state.replan = snap.state.replan
      /\ snap.state.intr # NoInterrupt => snap'.state.intr # NoInterrupt
  BY DEF Calm, Plain, KeepsIntr
<1>2. \A next : MayRun(next, snap.state) => MayRun(next, snap'.state)
  BY <1>1 DEF MayRun, InRange, Settled
<1>3. \A next \in StepRoutes' : next \in StepRoutes \cup {NoStep, "planner", "terminal", "reviewer"}
  <2>1. snap'.next \in StepRoutes \cup {"planner", "terminal", "reviewer"}
    BY DEF Calm, CalmNext
  <2>2. ASSUME NEW w \in Walkers, run'[w].pc \in Holding
        PROVE  run'[w].last.next \in StepRoutes \cup {NoStep}
    <3>1. CalmRun(run[w], run'[w])
      BY DEF Calm
    <3> QED
      BY <2>2, <3>1 DEF CalmRun, StepRoutes, RunRoutes
  <2> QED
    BY <2>1, <2>2 DEF StepRoutes, RunRoutes
<1>4. \A next \in StepRoutes' : MayRun(next, snap'.state)
  <2>1. \A next \in {NoStep, "planner", "terminal", "reviewer"} : MayRun(next, snap.state)
    BY DEF MayRun, NoStep
  <2> QED
    BY <1>2, <1>3, <2>1 DEF AttInv
<1>5. ASSUME NEW w \in Walkers
      PROVE  /\ NoRetries(run'[w].recorded)
             /\ run'[w].pc \in Working => KeptDone(run'[w].last.state.replan)
             /\ run'[w].pc \in Working /\ run'[w].last.next = "approval" => Pending(run'[w].last)
  <2>1. CalmRun(run[w], run'[w])
    BY DEF Calm
  <2>2. NoRetries(<<>>)
    BY DEF NoRetries
  <2>3. run[w].pc = "reviewed" /\ run[w].last.next = "reviewer"
          => NoRetries(run[w].last.state.plan)
    BY DEF OneInv, Current, AttInv, Working, Pending, SameWork
  <2>4. NoRetries(run'[w].recorded)
    BY <2>1, <2>2, <2>3 DEF CalmRun, AttInv
  <2>5. run'[w].pc \in Working => run[w].pc \in Working /\ run'[w].last = run[w].last
    BY <2>1 DEF CalmRun
  <2> QED
    BY <2>4, <2>5 DEF AttInv
<1> QED
  BY <1>1, <1>4, <1>5 DEF AttInv, Ahead, Untried, Settled

LEMMA LoadAtt ==
    ASSUME OneInv, OneWalker, AttInv, NEW w \in Walkers, WalkerLoad(w)
    PROVE  AttInv'
<1>1. /\ snap' = snap /\ run'[w].last = snap /\ run'[w].recorded = run[w].recorded
  BY LoadFields DEF OneInv, TypeInv
<1>2. \A v \in Walkers : v = w
  BY DEF OneWalker
<1>3. snap.next = "approval" => Pending(snap)
  BY DEF AttInv, StepRoutes, MayRun, Pending
<1>4. StepRoutes' \subseteq {snap.next}
  BY <1>1, <1>2 DEF StepRoutes, RunRoutes
<1>5. snap.next \in StepRoutes
  BY DEF StepRoutes
<1> QED
  BY <1>1, <1>2, <1>3, <1>4, <1>5 DEF AttInv

LEMMA BudgetAtt ==
    ASSUME OneInv, OneWalker, AttInv, NEW w \in Walkers, CommitBudgetInterrupt(w)
    PROVE  AttInv'
<1> DEFINE i == [reason |-> "budget_exceeded", idx |-> -1, resume |-> run[w].last.next]
<1>1. /\ Plain /\ snap'.state.intr = i
      /\ snap'.next = run[w].last.next /\ run[w].pc = "budget"
      /\ run'[w].pc = "end" /\ run'[w].recorded = run[w].recorded
  BY BudgetFields DEF OneInv, TypeInv
<1>2. i # NoInterrupt
  BY DEF NoInterrupt
<1> HIDE DEF i
<1>3. \A v \in Walkers : v = w
  BY DEF OneWalker
<1>4. StepRoutes' = {run[w].last.next}
  BY <1>1, <1>3 DEF StepRoutes, RunRoutes, Holding
<1>5. MayRun(run[w].last.next, snap.state)
  BY <1>1 DEF AttInv, StepRoutes, RunRoutes, Holding
<1>6. MayRun(run[w].last.next, snap'.state)
  BY <1>1, <1>2, <1>5 DEF MayRun, InRange, Settled, Plain
<1>7. NoRetries(snap'.state.plan) /\ Ahead(snap'.state) /\ KeptDone(snap'.state.replan)
  BY <1>1 DEF AttInv, Plain, Ahead, Untried, Settled
<1> QED
  BY <1>1, <1>3, <1>4, <1>6, <1>7 DEF AttInv, Working

LEMMA PlannedAtt ==
    ASSUME OneInv, OneWalker, AttInv, NEW w \in Walkers, Planned(w)
    PROVE  AttInv'
<1> DEFINE replan == run[w].last.state.replan
<1>1. PICK n \in PlanSizes : snap'.state.plan = MergePreservedSubTasks(replan.preserved, n)
  BY DEF Planned
<1>2. replan \in Replan /\ KeptDone(replan)
  <2>1. run[w].pc \in Working
    BY DEF Planned, AtNode, Working
  <2>2. run[w].last.state \in State
    BY RunTypes DEF OneInv, TypeInv
  <2> QED
    BY <2>1, <2>2, StateFields DEF AttInv
<1>3. snap'.state.idx = 0
  BY DEF Planned
<1> HIDE DEF replan
<1>4. NoRetries(snap'.state.plan) /\ Ahead(snap'.state) /\ MayRun("executor", snap'.state)
  BY <1>1, <1>2, <1>3, MergedFresh
<1>5. KeptDone(snap'.state.replan)
  BY DEF Planned, AttInv, KeptDone, NoReplan, NoRetries
<1>6. Goes(w, "executor", run[w].attempt, run[w].recorded) /\ NoRetries(run[w].recorded)
  BY DEF Planned, AttInv
<1> QED
  BY <1>4, <1>5, <1>6, GoesAtt

LEMMA AdvancedAtt ==
    ASSUME OneInv, OneWalker, AttInv, NEW w \in Walkers, Advanced(w), TypeInv'
    PROVE  AttInv'
<1> DEFINE next == NextStepAfter(snap.state.idx + 1, Len(snap.state.plan))
<1>1. /\ snap'.state.plan = snap.state.plan /\ snap'.state.replan = snap.state.replan
      /\ snap'.state.idx = snap.state.idx + 1 /\ InRange(snap.state)
      /\ Goes(w, next, run[w].attempt, run[w].recorded)
  BY DEF Advanced
<1>2. snap.state.plan \in Seq(SubTask) /\ snap.state.idx \in Nat
  BY <1>1, PlanPlace DEF OneInv, TypeInv
<1>3. Ahead(snap'.state) /\ MayRun(next, snap'.state)
  BY <1>1, <1>2, AheadMayRun DEF AttInv
<1> HIDE DEF next
<1>4. NoRetries(snap'.state.plan) /\ KeptDone(snap'.state.replan) /\ NoRetries(run[w].recorded)
  BY <1>1 DEF AttInv
<1> QED
  BY <1>1, <1>3, <1>4, GoesAtt

\* the edited sub-task has no more attempts than it may have
LEMMA EditedPlan ==
    ASSUME OneInv, AttInv, NEW x \in SubTask, Edits(x), x.att <= MaxRetriesPerSub
    PROVE  /\ NoRetries(snap'.state.plan) /\ snap'.state.plan \in Seq(SubTask)
           /\ Len(snap'.state.plan) = Len(snap.state.plan)
           /\ snap.state.plan \in Seq(SubTask) /\ snap.state.idx \in Nat
           /\ snap.state.idx + 1 \in 1..Len(snap.state.plan)
           /\ snap'.state.plan[snap.state.idx + 1] = x
           /\ \A i \in 1..Len(snap.state.plan) :
                 i > snap.state.idx + 1 => snap'.state.plan[i] = snap.state.plan[i]
<1> DEFINE p == snap.state.plan
           k == snap.state.idx + 1
           q == snap'.state.plan
<1>1. k \in 1..Len(p) /\ p \in Seq(SubTask) /\ snap.state.idx \in Nat /\ q = [p EXCEPT ![k] = x]
  BY PlanPlace DEF Edits, OneInv, TypeInv
<1>2. \A i \in 1..Len(p) : p[i].att <= MaxRetriesPerSub
  BY DEF AttInv, NoRetries
<1> HIDE DEF p, k, q
<1>3. Len(q) = Len(p) /\ q \in Seq(SubTask)
  BY <1>1
<1>4. q[k] = x /\ \A i \in 1..Len(p) : i # k => q[i] = p[i]
  BY <1>1
<1>5. \A i \in 1..Len(q) : q[i].att <= MaxRetriesPerSub
  BY <1>2, <1>3, <1>4
<1> QED
  BY <1>1, <1>3, <1>4, <1>5 DEF NoRetries, p, k, q

LEMMA MovesOnAtt ==
    ASSUME OneInv, OneWalker, AttInv, NEW w \in Walkers, NEW x \in SubTask, MovesOn(w, x),
           x.att <= MaxRetriesPerSub
    PROVE  AttInv'
<1> DEFINE next == NextStepAfter(snap.state.idx + 1, Len(snap.state.plan))
<1>1. /\ Edits(x) /\ snap'.state.replan = snap.state.replan
      /\ snap'.state.idx = snap.state.idx + 1
      /\ Goes(w, next, run[w].attempt, run[w].recorded)
  BY DEF MovesOn
<1>2. Ahead(snap'.state) /\ MayRun(next, snap'.state) /\ NoRetries(snap'.state.plan)
  BY <1>1, EditedPlan, AheadMayRun DEF AttInv
<1> HIDE DEF next
<1>3. KeptDone(snap'.state.replan) /\ NoRetries(run[w].recorded)
  BY <1>1 DEF AttInv
<1> QED
  BY <1>1, <1>2, <1>3, GoesAtt

LEMMA StaysOnAtt ==
    ASSUME OneInv, OneWalker, AttInv, NEW w \in Walkers, NEW x \in SubTask, NEW next,
           StaysOn(w, x, next), x.att <= MaxRetriesPerSub,
           next = "executor" => RetryLeft(x.att),
           next = "approval" => snap'.state.intr # NoInterrupt
    PROVE  AttInv'
<1>1. /\ Edits(x) /\ snap'.state.replan = snap.state.replan
      /\ snap'.state.idx = snap.state.idx
      /\ Goes(w, next, run[w].attempt, run[w].recorded)
  BY DEF StaysOn
<1>2. NoRetries(snap'.state.plan) /\ snap'.state.plan[snap.state.idx + 1] = x
  BY <1>1, EditedPlan
<1>3. Ahead(snap'.state)
  <2>1. \A i \in 1..Len(snap'.state.plan) :
           i > snap'.state.idx + 1 => Untried(snap'.state, i)
    <3>1. \A i \in 1..Len(snap.state.plan) :
             i > snap.state.idx + 1 => Untried(snap.state, i)
                                       /\ snap'.state.plan[i] = snap.state.plan[i]
      BY <1>1, EditedPlan DEF AttInv, Ahead
    <3>2. Len(snap'.state.plan) = Len(snap.state.plan)
      BY <1>1, EditedPlan
    <3> QED
      BY <1>1, <3>1, <3>2 DEF Untried, Settled
  <2> QED
    BY <2>1 DEF Ahead
<1>4. MayRun(next, snap'.state)
  BY <1>1, <1>2 DEF MayRun
<1>5. KeptDone(snap'.state.replan) /\ NoRetries(run[w].recorded)
  BY <1>1 DEF AttInv
<1> QED
  BY <1>1, <1>2, <1>3, <1>4, <1>5, GoesAtt

LEMMA RanAtt ==
    ASSUME OneInv, OneWalker, AttInv, NEW w \in Walkers, Ran(w)
    PROVE  AttInv'
<1> DEFINE k == snap.state.idx + 1
<1>1. PICK x \in SubTask :
         /\ x.att = snap.state.plan[k].att + 1
         /\ \/ MovesOn(w, x)
            \/ StaysOn(w, x, "approval") /\ Pauses
            \/ StaysOn(w, x, "strict_review") /\ StrictReview /\ SameIntr
  BY DEF Ran
<1>2. Edits(x)
  BY <1>1 DEF MovesOn, StaysOn
<1>3. run[w].pc \in Holding /\ run[w].last.next = "executor"
  BY DEF Ran, AtNode, Holding
<1>4. "executor" \in StepRoutes
  BY <1>3 DEF StepRoutes, RunRoutes
<1>5. RetryLeft(snap.state.plan[k].att)
  BY <1>2, <1>4 DEF AttInv, MayRun, Edits
<1>6. snap.state.plan[k].att \in Nat
  <2>1. snap.state.plan[k] \in SubTask
    BY <1>2, PlanPlace DEF Edits, OneInv, TypeInv
  <2> QED
    BY <2>1 DEF SubTask
<1>7. x.att <= MaxRetriesPerSub
  BY <1>1, <1>5, <1>6, ConfigAssumption DEF RetryLeft
<1>8. Pauses => snap'.state.intr # NoInterrupt
  BY DEF Pauses, NoInterrupt
<1> HIDE DEF k
<1>9. CASE MovesOn(w, x)
  BY <1>7, <1>9, MovesOnAtt
<1>10. CASE StaysOn(w, x, "approval") /\ Pauses
  BY <1>7, <1>8, <1>10, StaysOnAtt
<1>11. CASE StaysOn(w, x, "strict_review")
  BY <1>7, <1>11, StaysOnAtt
<1> QED
  BY <1>1, <1>9, <1>10, <1>11

LEMMA ReviewedAtt ==
    ASSUME OneInv, OneWalker, AttInv, NEW w \in Walkers, Reviewed(w)
    PROVE  AttInv'
<1> DEFINE k == snap.state.idx + 1
<1>1. PICK x \in SubTask :
         /\ x.att = snap.state.plan[k].att
         /\ \/ MovesOn(w, x)
            \/ StaysOn(w, x, "executor") /\ RetryLeft(snap.state.plan[k].att)
  BY DEF Reviewed
<1>2. Edits(x)
  BY <1>1 DEF MovesOn, StaysOn
<1>3. k \in 1..Len(snap.state.plan)
  BY <1>2, PlanPlace DEF Edits, OneInv, TypeInv
<1>4. x.att <= MaxRetriesPerSub
  BY <1>1, <1>3 DEF AttInv, NoRetries
<1> HIDE DEF k
<1>5. CASE MovesOn(w, x)
  BY <1>4, <1>5, MovesOnAtt
<1>6. CASE StaysOn(w, x, "executor") /\ RetryLeft(snap.state.plan[k].att)
  BY <1>1, <1>4, <1>6, StaysOnAtt
<1> QED
  BY <1>1, <1>5, <1>6

LEMMA ConcludedAtt ==
    ASSUME OneInv, OneWalker, AttInv, NEW w \in Walkers, Concluded(w)
    PROVE  AttInv'
<1>1. PICK next \in {"replan_setup", "terminal"}, recorded \in Seq(SubTask) :
         /\ recorded = run[w].recorded \/ recorded = run[w].last.state.plan
         /\ Goes(w, next, run[w].attempt, recorded)
  BY DEF Concluded
<1>2. run[w].last.state.plan = snap.state.plan /\ Plain
  BY DEF Concluded, OneInv, Current, Working, Pending, SameWork
<1>3. NoRetries(recorded)
  BY <1>1, <1>2 DEF AttInv
<1>4. NoRetries(snap'.state.plan) /\ Ahead(snap'.state) /\ KeptDone(snap'.state.replan)
  BY <1>2 DEF Plain, AttInv, Ahead, Untried, Settled
<1>5. MayRun(next, snap'.state)
  BY DEF MayRun
<1> QED
  BY <1>1, <1>3, <1>4, <1>5, GoesAtt

LEMMA ReplannedAtt ==
    ASSUME OneInv, OneWalker, AttInv, NEW w \in Walkers, Replanned(w)
    PROVE  AttInv'
<1>1. snap'.state.plan = snap.state.plan /\ snap'.state.idx = snap.state.idx
  BY DEF Replanned
<1>2. run[w].recorded \in Seq(SubTask) /\ NoRetries(run[w].recorded)
  BY RunTypes DEF OneInv, TypeInv, AttInv
<1>3. KeptDone(snap'.state.replan)
  <2>1. CASE snap'.state.replan = snap.state.replan
    BY <2>1 DEF AttInv
  <2>2. CASE snap'.state.replan # snap.state.replan
    <3>1. PICK p \in PreservedChoices(run[w].recorded) :
             snap'.state.replan = [on |-> TRUE, preserved |-> p]
      BY <2>2 DEF Replanned
    <3> QED
      BY <1>2, <3>1, PreservedKept
  <2> QED
    BY <2>1, <2>2
<1>4. NoRetries(snap'.state.plan) /\ Ahead(snap'.state)
  BY <1>1 DEF AttInv, Ahead, Untried, Settled
<1>5. MayRun("planner", snap'.state)
  BY DEF MayRun
<1>6. \E attempt : Goes(w, "planner", attempt, run[w].recorded)
  BY DEF Replanned
<1> QED
  BY <1>2, <1>3, <1>4, <1>5, <1>6, GoesAtt

LEMMA AttStep ==
    ASSUME OneInv, OneWalker, Operators = {}, AttInv, Moves, TypeInv'
    PROVE  AttInv'
<1>1. CASE Calm
  BY <1>1, CalmAtt
<1>2. ASSUME NEW w \in Walkers, WalkerMove(w)
      PROVE  AttInv'
  <2>1. ~Approved(w)
    BY DEF Approved, AtNode, AttInv, Working
  <2> QED
    BY <1>2, <2>1, LoadAtt, BudgetAtt, PlannedAtt, AdvancedAtt, RanAtt, ReviewedAtt,
       ConcludedAtt, ReplannedAtt
       DEF WalkerMove
<1> QED
  BY <1>1, <1>2 DEF Moves

LEMMA AttInvariant ==
    ASSUME OneWalker, Operators = {}
    PROVE  Spec => [](OneInv /\ AttInv)
<1>1. Init => AttInv
  BY AttInit
<1>2. OneInv /\ AttInv /\ [Next]_vars => AttInv'
  <2> SUFFICES ASSUME OneInv, AttInv, [Next]_vars
               PROVE  AttInv'
    OBVIOUS
  <2>1. TypeInv'
    BY InvStep DEF OneInv
  <2>2. Moves
    BY EveryMove
  <2> QED
    BY <2>1, <2>2, AttStep
<1>3. Spec => []OneInv
  BY OneInvariant DEF OneOperator
<1> QED
  BY <1>1, <1>2, <1>3, PTL DEF Spec

-----------------------------------------------------------------------------
(***************************************************************************)
(* Executor calls against counted attempts.  A call is counted when its    *)
(* result is committed.  The call in progress (Inside) is not counted yet, *)
(* and an event may leave one uncounted for good: a crash, a panic or a    *)
(* store fault at once, an interrupt later, when it ends the task under a  *)
(* goroutine that loaded it before and whose commit is then refused        *)
(* (Overtaken).  Until then the interrupt's event is owed.                 *)
(***************************************************************************)
One(b) == IF b THEN 1 ELSE 0

Overtaken == \E w \in Walkers : run[w].pc \in Working /\ Refused(w)

Owed == One(eng.mu) + One(Overtaken)

InCall(w) ==
    LET s == run[w].last.state IN
    AtNode(w, "executor") /\ InRange(s) /\ ~Settled(s, s.idx + 1)

CalledFor(i) == \E w \in running : run[w].last.state.idx + 1 = i

Inside(i) == One(CalledFor(i))

CallsInv ==
    /\ Len(calls) = Len(snap.state.plan)
    /\ Owed <= events
    /\ \A w \in running : InCall(w)
    /\ \A i \in 1..Len(calls) :
          calls[i] + Owed <= snap.state.plan[i].att + Inside(i) + events

SameAttempts ==
    /\ Len(snap'.state.plan) = Len(snap.state.plan)
    /\ \A i \in 1..Len(snap.state.plan) : snap'.state.plan[i].att = snap.state.plan[i].att

\* what a step may leave uncounted, it has paid for
Pays(lost) ==
    /\ lost + Owed' + events <= Owed + events'
    /\ \A i \in 1..Len(calls) : Inside(i) <= Inside(i)' + lost

LEMMA CountTypes ==
    ASSUME TaskOK, CallingOK
    PROVE  /\ Owed \in Nat /\ events \in Nat /\ (\A i : Inside(i) \in {0, 1})
           /\ Len(calls) \in Nat /\ Len(snap.state.plan) \in Nat
           /\ \A i \in 1..Len(calls) : calls[i] \in Nat
           /\ \A i \in 1..Len(snap.state.plan) : snap.state.plan[i].att \in Nat
<1>1. snap.state.plan \in Seq(SubTask) /\ calls \in Seq(Nat) /\ events \in Nat
  BY SnapFields, ConfigAssumption DEF CallingOK, TaskOK
<1>2. \A i \in 1..Len(snap.state.plan) : snap.state.plan[i].att \in Nat
  <2> TAKE i \in 1..Len(snap.state.plan)
  <2>1. snap.state.plan[i] \in SubTask
    BY <1>1
  <2> QED
    BY <2>1 DEF SubTask
<1>3. Owed \in Nat /\ \A i : Inside(i) \in {0, 1}
  BY DEF Owed, Inside, One
<1>4. Len(calls) \in Nat /\ Len(snap.state.plan) \in Nat
  BY <1>1
<1>5. \A i \in 1..Len(calls) : calls[i] \in Nat
  BY <1>1
<1> QED
  BY <1>1, <1>2, <1>3, <1>4, <1>5

LEMMA Balance ==
    ASSUME NEW c \in Nat, NEW a \in Nat, NEW x \in Nat, NEW y \in Nat, NEW lost \in Nat,
           NEW o \in Nat, NEW q \in Nat, NEW e \in Nat, NEW f \in Nat,
           lost + q + e <= o + f, x <= y + lost, c + o <= a + x + e
    PROVE  c + q <= a + y + f
  OBVIOUS

LEMMA BalanceOwed ==
    ASSUME NEW lost \in Nat, NEW o \in Nat, NEW q \in Nat, NEW e \in Nat, NEW f \in Nat,
           lost + q + e <= o + f, o <= e
    PROVE  q <= f
  OBVIOUS

LEMMA CallsKept ==
    ASSUME TaskOK, TaskOK', CallingOK, CallingOK', CallsInv, calls' = calls, SameAttempts,
           (\A w \in running : InCall(w))', NEW lost \in {0, 1}, Pays(lost)
    PROVE  CallsInv'
<1>1. Owed \in Nat /\ Owed' \in Nat /\ events \in Nat /\ events' \in Nat /\ lost \in Nat
  BY ConfigAssumption DEF Owed, One, TaskOK
<1>2. Owed <= events /\ lost + Owed' + events <= Owed + events'
  BY DEF CallsInv, Pays
<1>3. Len(calls) = Len(snap.state.plan) /\ Len(calls) = Len(snap'.state.plan)
  BY DEF CallsInv, SameAttempts
<1>4. ASSUME NEW i \in 1..Len(calls)
      PROVE  calls[i] + Owed' <= snap'.state.plan[i].att + Inside(i)' + events'
  <2>1. calls[i] \in Nat /\ snap.state.plan[i].att \in Nat
    BY <1>3, CountTypes
  <2>2. Inside(i) \in Nat /\ Inside(i)' \in Nat
    BY DEF Inside, One
  <2>3. calls[i] + Owed <= snap.state.plan[i].att + Inside(i) + events
    BY DEF CallsInv
  <2>4. Inside(i) <= Inside(i)' + lost
    BY DEF Pays
  <2>5. calls[i] + Owed' <= snap.state.plan[i].att + Inside(i)' + events'
    <3> DEFINE c == calls[i]
               a == snap.state.plan[i].att
               x == Inside(i)
               y == Inside(i)'
               o == Owed
               q == Owed'
               e == events
               f == events'
    <3>1. c \in Nat /\ a \in Nat /\ x \in Nat /\ y \in Nat /\ o \in Nat /\ q \in Nat
          /\ e \in Nat /\ f \in Nat
      BY <1>1, <2>1, <2>2
    <3>2. lost + q + e <= o + f /\ x <= y + lost /\ c + o <= a + x + e
      BY <1>2, <2>3, <2>4
    <3> HIDE DEF c, a, x, y, o, q, e, f
    <3>3. c + q <= a + y + f
      BY <1>1, <3>1, <3>2, Balance
    <3> QED
      BY <3>3 DEF c, a, y, q, f
  <2>6. snap'.state.plan[i].att = snap.state.plan[i].att
    BY <1>3 DEF SameAttempts
  <2> QED
    BY <2>5, <2>6
<1>5. Owed' <= events'
  <2> DEFINE o == Owed
             q == Owed'
             e == events
             f == events'
  <2>1. o \in Nat /\ q \in Nat /\ e \in Nat /\ f \in Nat /\ lost + q + e <= o + f /\ o <= e
    BY <1>1, <1>2
  <2> HIDE DEF o, q, e, f
  <2>2. q <= f
    BY <1>1, <2>1, BalanceOwed
  <2> QED
    BY <2>2 DEF q, f
<1>6. Len(calls') = Len(snap'.state.plan)
  BY <1>3
<1> QED
  BY <1>4, <1>5, <1>6 DEF CallsInv

LEMMA NoMoreOwed ==
    ASSUME NEW o \in Nat, NEW q \in Nat, NEW e \in Nat, q + e <= o + e
    PROVE  q <= o
  OBVIOUS

\* a step that leaves the calls, the attempts and the goroutine in a call alone
LEMMA CallsHeld ==
    ASSUME TaskOK, TaskOK', CallingOK, CallingOK', CallsInv, UNCHANGED calling, SameAttempts,
           \A w \in running : run'[w].pc = run[w].pc /\ run'[w].last = run[w].last,
           Owed' + events <= Owed + events'
    PROVE  CallsInv'
<1>1. running' = running /\ calls' = calls
  BY DEF calling
<1>2. (\A w \in running : InCall(w))'
  BY <1>1 DEF CallsInv, InCall, AtNode
<1>3. \A i : Inside(i)' = Inside(i)
  BY <1>1 DEF Inside, CalledFor
<1>4. \A i : Inside(i) \in Nat
  BY DEF Inside, One
<1>5. Owed' \in Nat /\ events \in Nat
  BY ConfigAssumption DEF Owed, One, TaskOK
<1> DEFINE lost == 0
<1>6. lost \in {0, 1} /\ lost + Owed' + events <= Owed + events'
  BY <1>5
<1>7. \A i \in 1..Len(calls) : Inside(i) <= Inside(i)' + lost
  BY <1>3, <1>4
<1> HIDE DEF lost
<1>8. Pays(lost)
  BY <1>6, <1>7 DEF Pays
<1> QED
  BY <1>1, <1>2, <1>6, <1>8, CallsKept

\* a step after which nobody is in a call and that may lose one
LEMMA CallsLost ==
    ASSUME TaskOK, TaskOK', CallingOK, CallingOK', CallsInv, running' = {}, calls' = calls,
           SameAttempts, 1 + Owed' + events <= Owed + events'
    PROVE  CallsInv'
<1>1. \A i : Inside(i) \in {0, 1}
  BY DEF Inside, One
<1>2. \A i : Inside(i)' = 0
  BY DEF Inside, CalledFor, One
<1> DEFINE lost == 1
<1>3. lost \in {0, 1} /\ lost + Owed' + events <= Owed + events'
  OBVIOUS
<1>4. \A i \in 1..Len(calls) : Inside(i) <= Inside(i)' + lost
  BY <1>1, <1>2
<1> HIDE DEF lost
<1>5. Pays(lost)
  BY <1>3, <1>4 DEF Pays
<1>6. (\A w \in running : InCall(w))'
  OBVIOUS
<1> QED
  BY <1>3, <1>5, <1>6, CallsKept

LEMMA OvertakenOff ==
    ASSUME OneWalker, NEW w \in Walkers, run'[w].pc \notin Working
    PROVE  ~Overtaken'
  BY DEF OneWalker, Overtaken

LEMMA OvertakenSame ==
    ASSUME Calm, snap'.state.status = snap.state.status
    PROVE  Overtaken' => Overtaken
  BY DEF Calm, CalmRun, Overtaken, Refused

LEMMA OwedFree ==
    ASSUME TaskOK, TaskOK', Overtaken' => Overtaken, eng'.mu = eng.mu, events' = events
    PROVE  Owed' + events <= Owed + events'
<1>1. events \in Nat
  BY ConfigAssumption DEF TaskOK
<1>2. One(Overtaken)' <= One(Overtaken) /\ One(eng.mu)' = One(eng.mu)
  BY DEF One
<1>3. One(Overtaken)' \in {0, 1} /\ One(Overtaken) \in {0, 1} /\ One(eng.mu) \in {0, 1}
  BY DEF One
<1> QED
  BY <1>1, <1>2, <1>3 DEF Owed

LEMMA OwedEvent ==
    ASSUME TaskOK, TaskOK', ~Overtaken', eng'.mu = eng.mu \/ ~eng'.mu, events' = events + 1
    PROVE  1 + Owed' + events <= Owed + events'
<1>1. events \in Nat
  BY ConfigAssumption DEF TaskOK
<1>2. One(Overtaken)' = 0 /\ One(eng.mu)' <= One(eng.mu)
  BY DEF One
<1>3. One(Overtaken) \in {0, 1} /\ One(eng.mu) \in {0, 1} /\ One(eng.mu)' \in {0, 1}
  BY DEF One
<1> QED
  BY <1>1, <1>2, <1>3 DEF Owed

\* no action of the goroutine but the executor's runs while it is in a call
LEMMA NotCalling ==
    ASSUME CallsInv, CallingOK, OneWalker, NEW w \in Walkers, ~InCall(w)
    PROVE  running = {}
  BY DEF CallsInv, CallingOK, OneWalker

-----------------------------------------------------------------------------
(* What the steps of a goroutine leave alone *)

LEMMA PlainAttempts ==
    ASSUME Plain
    PROVE  SameAttempts
  BY DEF Plain, SameAttempts

LEMMA EditAttempts ==
    ASSUME OneInv, AttInv, NEW x \in SubTask, Edits(x),
           x.att = snap.state.plan[snap.state.idx + 1].att
    PROVE  SameAttempts
<1> DEFINE p == snap.state.plan
           k == snap.state.idx + 1
           q == snap'.state.plan
<1>1. k \in 1..Len(p) /\ p \in Seq(SubTask) /\ q = [p EXCEPT ![k] = x] /\ x.att = p[k].att
  BY PlanPlace DEF Edits, OneInv, TypeInv
<1> HIDE DEF p, k, q
<1>2. Len(q) = Len(p) /\ \A i \in 1..Len(p) : q[i].att = p[i].att
  BY <1>1
<1> QED
  BY <1>2 DEF SameAttempts, p, q

SameCount == SameAttempts /\ (Overtaken' => Overtaken)

LEMMA CalmCount ==
    ASSUME Calm, snap' = snap
    PROVE  SameCount
  BY OvertakenSame, PlainAttempts DEF Calm, SameCount

LEMMA GoesRests ==
    ASSUME OneWalker, NEW w \in Walkers, NEW next, NEW attempt, NEW recorded,
           Goes(w, next, attempt, recorded)
    PROVE  ~Overtaken'
<1>1. run'[w].pc \notin Working
  BY DEF Goes, Working
<1> QED
  BY <1>1, OvertakenOff

LEMMA NodeMoves ==
    ASSUME OneInv, AttInv, OneWalker, NEW w \in Walkers,
           \/ WalkerLoad(w) \/ CommitBudgetInterrupt(w) \/ Advanced(w) \/ Reviewed(w)
           \/ Concluded(w) \/ Replanned(w) \/ Approved(w)
    PROVE  SameCount
<1>0. TaskOK
  BY DEF OneInv, TypeInv
<1>1. CASE WalkerLoad(w)
  <2>1. snap' = snap /\ run'[w].last = snap
    BY <1>0, <1>1, LoadFields
  <2>2. ~Overtaken'
    BY <2>1 DEF Overtaken, Refused, OneWalker
  <2> QED
    BY <2>1, <2>2 DEF SameCount, SameAttempts
<1>2. CASE CommitBudgetInterrupt(w)
  <2>1. Plain /\ run'[w].pc \notin Working
    BY <1>0, <1>2, BudgetFields DEF Working
  <2> QED
    BY <2>1, OvertakenOff, PlainAttempts DEF SameCount
<1>3. CASE Advanced(w)
  <2>1. ~Overtaken'
    BY <1>3, GoesRests DEF Advanced
  <2> QED
    BY <1>3, <2>1 DEF Advanced, SameCount, SameAttempts
<1>4. CASE Reviewed(w)
  <2>1. PICK x \in SubTask :
           /\ x.att = snap.state.plan[snap.state.idx + 1].att
           /\ MovesOn(w, x) \/ StaysOn(w, x, "executor")
    BY <1>4 DEF Reviewed
  <2>2. Edits(x)
    BY <2>1 DEF MovesOn, StaysOn
  <2>3. ~Overtaken'
    BY <2>1, GoesRests DEF MovesOn, StaysOn
  <2> QED
    BY <2>1, <2>2, <2>3, EditAttempts DEF SameCount
<1>5. CASE Concluded(w)
  <2>1. ~Overtaken'
    BY <1>5, GoesRests DEF Concluded
  <2> QED
    BY <1>5, <2>1, PlainAttempts DEF Concluded, SameCount
<1>6. CASE Replanned(w)
  <2>1. ~Overtaken'
    BY <1>6, GoesRests DEF Replanned
  <2> QED
    BY <1>6, <2>1 DEF Replanned, SameCount, SameAttempts
<1>7. CASE Approved(w)
  <2>1. ~Overtaken'
    BY <1>7, GoesRests DEF Approved
  <2> QED
    BY <1>7, <2>1, PlainAttempts DEF Approved, SameCount
<1> QED
  BY <1>1, <1>2, <1>3, <1>4, <1>5, <1>6, <1>7

LEMMA PcTo ==
    ASSUME run \in [Walkers -> Run], NEW w \in Walkers, NEW pc,
           run' = [run EXCEPT ![w].pc = pc] \/ run' = [run EXCEPT ![w].pc = pc, ![w].rev = NoReview]
    PROVE  run'[w].pc = pc
<1>1. run[w] \in Run
  OBVIOUS
<1>2. CASE run' = [run EXCEPT ![w].pc = pc]
  BY <1>1, <1>2 DEF Run
<1>3. CASE run' = [run EXCEPT ![w].pc = pc, ![w].rev = NoReview]
  <2>1. run'[w] = [[run[w] EXCEPT !.pc = pc] EXCEPT !.rev = NoReview]
    BY <1>3
  <2> QED
    BY <1>1, <2>1 DEF Run
<1> QED
  BY <1>2, <1>3

LEMMA LoopRests ==
    ASSUME TaskOK, NEW w \in Walkers,
           \/ WalkerCtxErr(w) \/ WalkerCtxOk(w) \/ CommitFailureBoundary(w) \/ EndRun(w)
           \/ PlannerError(w) \/ PlannerCancelled(w) \/ NodeOutOfRange(w)
           \/ StoreFault(w) \/ BoundaryFault(w) \/ NodePanic(w)
           \/ StartGraphRun(w) \/ ResumeViaGraph(w) \/ RunViaGraph(w)
    PROVE  run'[w].pc \notin Working
<1>1. run \in [Walkers -> Run]
  BY DEF TaskOK
<1>2. ErrorPc(w) \in {"failing", "end"}
  BY DEF ErrorPc
<1>3. CASE EndRun(w) \/ ResumeViaGraph(w) \/ RunViaGraph(w)
  <2>1. \/ run'[w] = IdleRun
        \/ run'[w] = [IdleRun EXCEPT !.pc = "starting"]
        \/ run'[w] = [IdleRun EXCEPT !.pc = "starting", !.sync = TRUE]
    BY <1>1, <1>3 DEF EndRun, ResumeViaGraph, RunViaGraph
  <2>2. IdleRun.pc = "idle"
    BY DEF IdleRun
  <2>3. CASE run'[w] = [IdleRun EXCEPT !.pc = "starting"]
    BY <2>3 DEF IdleRun, Working
  <2>4. CASE run'[w] = [IdleRun EXCEPT !.pc = "starting", !.sync = TRUE]
    BY <2>4 DEF IdleRun, Working
  <2> QED
    BY <2>1, <2>2, <2>3, <2>4 DEF Working
<1>4. CASE \E pc \in {"end", "load", "loop", "failing"} :
              \/ run' = [run EXCEPT ![w].pc = pc]
              \/ run' = [run EXCEPT ![w].pc = pc, ![w].rev = NoReview]
  <2>1. PICK pc \in {"end", "load", "loop", "failing"} :
              \/ run' = [run EXCEPT ![w].pc = pc]
              \/ run' = [run EXCEPT ![w].pc = pc, ![w].rev = NoReview]
    BY <1>4
  <2>2. run'[w].pc = pc
    BY <1>1, <2>1, PcTo
  <2> QED
    BY <2>2 DEF Working
<1>5. CASE \/ WalkerCtxErr(w) \/ CommitFailureBoundary(w) \/ PlannerCancelled(w)
           \/ BoundaryFault(w) \/ WalkerCtxOk(w) \/ StartGraphRun(w)
  BY <1>4, <1>5 DEF WalkerCtxErr, CommitFailureBoundary, PlannerCancelled, BoundaryFault,
                    WalkerCtxOk, StartGraphRun
<1>6. CASE PlannerError(w) \/ NodeOutOfRange(w) \/ StoreFault(w) \/ NodePanic(w)
  BY <1>2, <1>4, <1>6 DEF PlannerError, NodeOutOfRange, NodeError, StoreFault, NodePanic
<1> QED
  BY <1>3, <1>5, <1>6

LEMMA LoopCount ==
    ASSUME OneInv, OneWalker, NEW w \in Walkers,
           \/ WalkerCtxErr(w) \/ WalkerCtxOk(w) \/ CommitFailureBoundary(w) \/ EndRun(w)
           \/ PlannerError(w) \/ PlannerCancelled(w) \/ NodeOutOfRange(w)
           \/ StoreFault(w) \/ BoundaryFault(w) \/ NodePanic(w)
           \/ StartGraphRun(w) \/ ResumeViaGraph(w) \/ RunViaGraph(w)
    PROVE  SameCount /\ ~Overtaken'
<1>1. ~Overtaken'
  BY LoopRests, OvertakenOff DEF OneInv, TypeInv
<1>2. Plain
  BY LoopCalm, LaunchCalm DEF Calm
<1> QED
  BY <1>1, <1>2, PlainAttempts DEF SameCount

LEMMA StatusStays ==
    ASSUME TaskOK, NEW u, NEW next, u.status = "", TryCommit(u, next) \/ UNCHANGED snap
    PROVE  snap'.state.status = snap.state.status
<1>1. CanCommit(u)
  BY PlainAccepted
<1>2. CASE TryCommit(u, next)
  <2>1. Wrote(u.status, u, next)
    BY <1>1, <1>2, CommitWrites DEF TryCommit
  <2> QED
    BY <2>1 DEF Wrote
<1> QED
  BY <1>2

LEMMA TokenStatus ==
    ASSUME NEW t
    PROVE  [NoUpdate EXCEPT !.tokens = t].status = ""
<1>1. NoUpdate.status = ""
  BY DEF NoUpdate
<1>2. [NoUpdate EXCEPT !.tokens = t].status = NoUpdate.status
  BY DEF NoUpdate
<1> QED
  BY <1>1, <1>2

LEMMA ReviewCount ==
    ASSUME OneInv, NEW w \in Walkers, ReviewTask(w) \/ ReviewSubTask(w)
    PROVE  SameCount
<1>1. PICK results : RunReview(w, results)
  BY DEF ReviewTask, ReviewSubTask
<1>2. PICK t \in TokenCosts :
         TryCommit([NoUpdate EXCEPT !.tokens = t], "reviewer") \/ UNCHANGED snap
  BY <1>1 DEF RunReview
<1> DEFINE u == [NoUpdate EXCEPT !.tokens = t]
<1>3. u.status = ""
  BY TokenStatus
<1>4. TryCommit(u, "reviewer") \/ UNCHANGED snap
  BY <1>2
<1>5. TaskOK
  BY DEF OneInv, TypeInv
<1> HIDE DEF u
<1>6. snap'.state.status = snap.state.status
  BY <1>3, <1>4, <1>5, StatusStays
<1>7. Calm
  BY ReviewCalm
<1> QED
  BY <1>6, <1>7, OvertakenSame, PlainAttempts DEF Calm, SameCount

LEMMA PendingCount ==
    ASSUME OneInv, OneWalker, NEW w \in Walkers, ApprovalPending(w)
    PROVE  SameCount
<1>1. TaskOK /\ run[w] \in Run /\ NodeCommit(w, run[w], NoUpdate, "approval", TRUE)
  BY RunTypes DEF ApprovalPending, OneInv, TypeInv
<1>2. /\ NoUpdate \in StateUpdate /\ NoUpdate.status = ""
      /\ run[w].cancelled = run[w].cancelled /\ run[w].sync = run[w].sync
  BY NoUpdateInner DEF Inner
<1>3. run'[w].pc = "end"
  BY <1>1, <1>2, HaltOutcome
<1>4. ~Overtaken'
  BY <1>3, OvertakenOff DEF Working
<1> QED
  BY <1>4, PendingCalm, PlainAttempts DEF Calm, SameCount

\* every step of a goroutine but a call, its end, and a new plan
Elsewhere(w) ==
    WalkerStep(w) /\ ~RunSubTask(w) /\ ~PlannerPlan(w)
    /\ ~\E ok \in BOOLEAN : ExecutorRun(w, ok)

LEMMA ElsewhereCount ==
    ASSUME OneInv, AttInv, OneWalker, NEW w \in Walkers, Elsewhere(w)
    PROVE  SameCount
<1>1. CASE WalkerLoad(w) \/ CommitBudgetInterrupt(w)
  BY <1>1, NodeMoves
<1>2. CASE ExecutorAdvance(w)
  BY <1>2, AdvanceEffect, NodeMoves, CalmCount
<1>3. CASE StrictReviewCommit(w)
  BY <1>3, StrictReviewEffect, NodeMoves, CalmCount
<1>4. CASE ReviewerCommit(w)
  BY <1>4, ReviewerEffect, NodeMoves, CalmCount
<1>5. CASE ReplanSetup(w) \/ ReplanSetupNoop(w)
  BY <1>5, ReplanEffect, NodeMoves, CalmCount
<1>6. CASE ApprovalRoute(w)
  BY <1>6, ApprovalRouteEffect, NodeMoves, CalmCount
<1>7. CASE ApprovalPending(w)
  BY <1>7, PendingCount
<1>8. CASE ReviewTask(w) \/ ReviewSubTask(w)
  BY <1>8, ReviewCount
<1>9. CASE \/ WalkerCtxErr(w) \/ WalkerCtxOk(w) \/ CommitFailureBoundary(w) \/ EndRun(w)
           \/ PlannerError(w) \/ PlannerCancelled(w) \/ NodeOutOfRange(w) \/ StartGraphRun(w)
  BY <1>9, LoopCount
<1> QED
  BY <1>1, <1>2, <1>3, <1>4, <1>5, <1>6, <1>7, <1>8, <1>9 DEF Elsewhere, WalkerStep

LEMMA ElsewhereFrame ==
    ASSUME TaskOK, NEW w \in Walkers, Elsewhere(w)
    PROVE  UNCHANGED calling /\ eng'.mu = eng.mu /\ events' = events
<1>1. CASE \/ WalkerCtxErr(w) \/ WalkerCtxOk(w) \/ WalkerLoad(w)
           \/ CommitBudgetInterrupt(w) \/ PlannerError(w) \/ PlannerCancelled(w)
           \/ NodeOutOfRange(w) \/ CommitFailureBoundary(w)
  BY <1>1 DEF WalkerCtxErr, WalkerCtxOk, WalkerLoad, CommitBudgetInterrupt,
              PlannerError, PlannerCancelled, NodeOutOfRange, CommitFailureBoundary, NodeError
<1>2. CASE \/ ExecutorAdvance(w) \/ ReviewTask(w) \/ ReviewerCommit(w) \/ ReviewSubTask(w)
           \/ StrictReviewCommit(w) \/ ReplanSetupNoop(w) \/ ReplanSetup(w)
           \/ ApprovalPending(w) \/ ApprovalRoute(w)
  BY <1>2 DEF ExecutorAdvance, ReviewTask, ReviewerCommit, ReviewSubTask, RunReview,
              StrictReviewCommit, ReplanSetupNoop, ReplanSetup, ApprovalPending, ApprovalRoute,
              NodeError, NodeCommit
<1>3. CASE StartGraphRun(w) \/ EndRun(w)
  <2>1. UNCHANGED calling /\ events' = events
    BY <1>3 DEF StartGraphRun, EndRun
  <2>2. \/ eng' = eng \/ eng' = [eng EXCEPT !.cancel = {w}]
        \/ eng' = [eng EXCEPT !.task = FALSE, !.cancel = {}]
    BY <1>3 DEF StartGraphRun, EndRun, ClearGraphRunState
  <2>3. eng \in [task : BOOLEAN, cancel : SUBSET Walkers, mu : BOOLEAN]
    BY DEF TaskOK
  <2> QED
    BY <2>1, <2>2, <2>3
<1> QED
  BY <1>1, <1>2, <1>3 DEF Elsewhere, WalkerStep

LEMMA ElsewhereFree ==
    ASSUME NEW w \in Walkers, Elsewhere(w)
    PROVE  ~InCall(w)
<1>1. CASE \/ StartGraphRun(w) \/ WalkerCtxErr(w) \/ WalkerCtxOk(w) \/ WalkerLoad(w)
           \/ CommitBudgetInterrupt(w) \/ PlannerError(w) \/ PlannerCancelled(w)
           \/ CommitFailureBoundary(w) \/ EndRun(w)
  BY <1>1 DEF StartGraphRun, WalkerCtxErr, WalkerCtxOk, WalkerLoad, CommitBudgetInterrupt,
              PlannerError, PlannerCancelled, CommitFailureBoundary, EndRun, InCall, AtNode
<1>2. CASE \/ ReviewTask(w) \/ ReviewerCommit(w) \/ ReviewSubTask(w) \/ StrictReviewCommit(w)
           \/ ReplanSetupNoop(w) \/ ReplanSetup(w) \/ ApprovalPending(w) \/ ApprovalRoute(w)
  BY <1>2 DEF ReviewTask, ReviewerCommit, ReviewSubTask, StrictReviewCommit, ReplanSetupNoop,
              ReplanSetup, ApprovalPending, ApprovalRoute, InCall, AtNode
<1>3. CASE NodeOutOfRange(w) \/ ExecutorAdvance(w)
  BY <1>3 DEF NodeOutOfRange, ExecutorAdvance, InCall, Settled
<1> QED
  BY <1>1, <1>2, <1>3 DEF Elsewhere, WalkerStep

LEMMA ElsewhereCalls ==
    ASSUME OneInv, AttInv, OneWalker, TaskOK', CallingOK, CallingOK', CallsInv,
           NEW w \in Walkers, Elsewhere(w)
    PROVE  CallsInv'
<1>1. TaskOK /\ running = {}
  BY ElsewhereFree, NotCalling DEF OneInv, TypeInv
<1>2. UNCHANGED calling /\ eng'.mu = eng.mu /\ events' = events
  BY <1>1, ElsewhereFrame
<1>3. SameAttempts /\ (Overtaken' => Overtaken)
  BY ElsewhereCount DEF SameCount
<1>4. Owed' + events <= Owed + events'
  BY <1>1, <1>2, <1>3, OwedFree
<1> QED
  BY <1>1, <1>2, <1>3, <1>4, CallsHeld

-----------------------------------------------------------------------------
(* The executor's call and its end, and a new plan *)

LEMMA CallsRaised ==
    ASSUME NEW p, NEW k \in 1..Len(p), p \in Seq(Nat), NEW q, q = [p EXCEPT ![k] = OneMore(@)]
    PROVE  /\ Len(q) = Len(p) /\ q[k] \in {p[k], p[k] + 1}
           /\ \A i \in 1..Len(p) : i # k => q[i] = p[i]
<1>1. OneMore(p[k]) \in {p[k], p[k] + 1}
  BY DEF OneMore
<1> QED
  BY <1>1

LEMMA StartCalls ==
    ASSUME OneInv, OneWalker, TaskOK', CallingOK, CallingOK', CallsInv,
           NEW w \in Walkers, RunSubTask(w)
    PROVE  CallsInv'
<1> DEFINE k == run[w].last.state.idx + 1
<1>1. /\ AtNode(w, "executor") /\ InRange(run[w].last.state) /\ w \notin running
      /\ ~Settled(run[w].last.state, k)
      /\ running' = running \cup {w} /\ UNCHANGED <<snap, run, eng, events>>
  BY DEF RunSubTask, Settled
<1>2. calls' = [calls EXCEPT ![k] = OneMore(@)]
  BY DEF RunSubTask
<1>3. running = {} /\ running' = {w}
  BY <1>1 DEF OneWalker, CallingOK
<1>4. run[w].pc \in Working /\ ~Pending(run[w].last)
  BY <1>1 DEF AtNode, Working, Pending
<1>5. k \in 1..Len(snap.state.plan) /\ Len(calls) = Len(snap.state.plan) /\ calls \in Seq(Nat)
  BY <1>1, <1>4, OnThePlan DEF CallsInv, CallingOK
<1>6. (\A v \in running : InCall(v))'
  BY <1>1, <1>3 DEF InCall, AtNode
<1>7. Overtaken' = Overtaken /\ Owed' = Owed
  BY <1>1 DEF Overtaken, Refused, Owed
<1>8. (\A i : Inside(i) = 0) /\ (\A i : Inside(i)' = IF i = k THEN 1 ELSE 0)
  BY <1>1, <1>3 DEF Inside, CalledFor, One
<1> HIDE DEF k
<1>9. /\ Len(calls') = Len(calls) /\ calls'[k] \in {calls[k], calls[k] + 1}
      /\ \A i \in 1..Len(calls) : i # k => calls'[i] = calls[i]
  BY <1>2, <1>5, CallsRaised
<1>10. ASSUME NEW i \in 1..Len(calls)
       PROVE  calls'[i] + Owed <= snap.state.plan[i].att + Inside(i)' + events
  <2>0. TaskOK
    BY DEF OneInv, TypeInv
  <2>1. /\ calls[i] \in Nat /\ snap.state.plan[i].att \in Nat /\ Owed \in Nat /\ events \in Nat
    BY <1>5, <2>0, CountTypes
  <2>2. calls[i] + Owed <= snap.state.plan[i].att + Inside(i) + events
    BY DEF CallsInv
  <2>3. calls[i] + Owed <= snap.state.plan[i].att + events
    BY <1>8, <2>1, <2>2
  <2>4. CASE i = k
    <3>1. calls'[i] \in {calls[i], calls[i] + 1} /\ Inside(i)' = 1
      BY <1>8, <1>9, <2>4
    <3> DEFINE c == calls[i]
               d == calls'[i]
               y == Inside(i)'
               a == snap.state.plan[i].att
               o == Owed
    <3>2. /\ c \in Nat /\ a \in Nat /\ o \in Nat /\ events \in Nat
          /\ d \in {c, c + 1} /\ y = 1 /\ c + o <= a + events
      BY <2>1, <2>3, <3>1
    <3> HIDE DEF c, d, y, a, o
    <3>3. d + o <= a + y + events
      BY <3>2
    <3> QED
      BY <3>3 DEF d, y, a, o
  <2>5. CASE i # k
    <3>1. calls'[i] = calls[i] /\ Inside(i)' = 0
      BY <1>8, <1>9, <2>5
    <3> QED
      BY <2>1, <2>3, <3>1
  <2> QED
    BY <2>4, <2>5
<1> QED
  BY <1>1, <1>5, <1>6, <1>7, <1>9, <1>10 DEF CallsInv

LEMMA CommittedCalls ==
    ASSUME OneInv, OneWalker, TaskOK', CallingOK, CallingOK', CallsInv, NEW w \in Walkers,
           w \in running, running' = running \ {w}, calls' = calls, eng' = eng, events' = events,
           InRange(run[w].last.state), Ran(w)
    PROVE  CallsInv'
<1> DEFINE k == snap.state.idx + 1
           p == snap.state.plan
           q == snap'.state.plan
<1>0. TaskOK
  BY DEF OneInv, TypeInv
<1>1. run[w].pc \in Working /\ ~Pending(run[w].last)
  BY DEF Ran, AtNode, Working, Pending
<1>2. k \in 1..Len(p) /\ p \in Seq(SubTask) /\ run[w].last.state.idx + 1 = k
  BY <1>1, OnThePlan
<1>3. PICK x \in SubTask :
         /\ x.att = p[k].att + 1 /\ Edits(x)
         /\ \E next : Goes(w, next, run[w].attempt, run[w].recorded)
  BY DEF Ran, MovesOn, StaysOn
<1>4. q = [p EXCEPT ![k] = x]
  BY <1>3 DEF Edits
<1>5. ~Overtaken'
  BY <1>3, GoesRests
<1>6. running = {w} /\ running' = {}
  BY DEF OneWalker, CallingOK
<1>7. (\A i : Inside(i) = IF i = k THEN 1 ELSE 0) /\ (\A i : Inside(i)' = 0)
  BY <1>2, <1>6 DEF Inside, CalledFor, One
<1> HIDE DEF k, p, q
<1>8. /\ Len(q) = Len(p) /\ q[k] = x
      /\ \A i \in 1..Len(p) : i # k => q[i] = p[i]
  BY <1>2, <1>4
<1>9. Owed' <= Owed /\ Owed' \in Nat /\ Owed \in Nat /\ events \in Nat
  <2>1. Overtaken' => Overtaken
    BY <1>5
  <2>2. Owed' + events <= Owed + events'
    BY <1>0, <2>1, OwedFree
  <2>3. Owed' \in Nat /\ Owed \in Nat /\ events \in Nat
    BY <1>0, ConfigAssumption DEF Owed, One, TaskOK
  <2>4. Owed' + events <= Owed + events
    BY <2>2
  <2> DEFINE o == Owed
             z == Owed'
             e == events
  <2>5. o \in Nat /\ z \in Nat /\ e \in Nat /\ z + e <= o + e
    BY <2>3, <2>4
  <2> HIDE DEF o, z, e
  <2>6. z <= o
    BY <2>5, NoMoreOwed
  <2> QED
    BY <2>3, <2>6 DEF o, z
<1>10. Len(calls) = Len(p) /\ Owed <= events
  BY DEF CallsInv, p
<1>11. ASSUME NEW i \in 1..Len(calls)
       PROVE  calls[i] + Owed' <= q[i].att + Inside(i)' + events
  <2>1. calls[i] \in Nat /\ p[i].att \in Nat
    BY <1>0, <1>10, CountTypes DEF p
  <2>2. calls[i] + Owed <= p[i].att + Inside(i) + events
    BY DEF CallsInv, p
  <2>3. q[i].att = p[i].att + Inside(i) /\ Inside(i) \in Nat
    BY <1>3, <1>7, <1>8, <1>10, <2>1
  <2>4. Inside(i)' = 0
    BY <1>7
  <2>5. calls[i] + Owed' <= p[i].att + Inside(i) + events
    BY <1>9, <2>1, <2>2, <2>3
  <2> QED
    BY <1>9, <2>1, <2>3, <2>4, <2>5
<1>12. Len(calls) = Len(q) /\ Owed' <= events
  BY <1>8, <1>9, <1>10
<1> QED
  BY <1>6, <1>11, <1>12 DEF CallsInv, q

LEMMA FinishCalls ==
    ASSUME OneInv, OneWalker, TaskOK', CallingOK, CallingOK', CallsInv,
           NEW w \in Walkers, NEW ok \in BOOLEAN, ExecutorRun(w, ok)
    PROVE  CallsInv'
<1>1. /\ AtNode(w, "executor") /\ InRange(run[w].last.state)
      /\ w \in running /\ running' = running \ {w} /\ calls' = calls
      /\ eng' = eng /\ events' = events
  BY DEF ExecutorRun, NodeCommit
<1>2. CASE Ran(w)
  BY <1>1, <1>2, CommittedCalls
<1>3. CASE Calm /\ snap' = snap /\ GaveUp(w)
  <2>1. TaskOK /\ running' = {}
    BY <1>1 DEF OneInv, TypeInv, OneWalker, CallingOK
  <2>2. Overtaken /\ ~Overtaken'
    BY <1>1, <1>3, OvertakenOff DEF GaveUp, Overtaken, AtNode, Working
  <2>3. events \in Nat /\ One(eng.mu) \in {0, 1} /\ One(eng.mu)' = One(eng.mu)
    BY <1>1, <2>1, ConfigAssumption DEF TaskOK, One
  <2>4. One(Overtaken) = 1 /\ One(Overtaken)' = 0
    BY <2>2 DEF One
  <2>5. 1 + Owed' + events <= Owed + events'
    BY <1>1, <2>3, <2>4 DEF Owed
  <2>6. SameAttempts
    BY <1>3, PlainAttempts DEF Calm
  <2> QED
    BY <1>1, <2>1, <2>5, <2>6, CallsLost
<1> QED
  BY <1>2, <1>3, RunEffect

\* the planner's commit starts the counts of the new plan; a refused one leaves the old ones
LEMMA PlannerCount ==
    ASSUME OneInv, NEW w \in Walkers, PlannerPlan(w)
    PROVE  /\ eng' = eng /\ events' = events /\ running' = running
           /\ run'[w].pc \notin Working
           /\ \/ snap' = snap /\ calls' = calls
              \/ /\ Len(calls') = Len(snap'.state.plan)
                 /\ \A i \in 1..Len(calls') : calls'[i] = 0
<1> DEFINE keep == run[w].last.state.replan.preserved
           on == run[w].last.state.replan.on
           m(n) == MergePreservedSubTasks(keep, n)
           u(n, t) == [NoUpdate EXCEPT !.status = "executing", !.idx = 0,
                         !.plan = m(n), !.clearReplan = on, !.tokens = t]
<1>1. PICK n \in PlanSizes, t \in TokenCosts :
         /\ NodeCommit(w, run[w], u(n, t), "executor", FALSE)
         /\ calls' = IF CanCommit(u(n, t)) THEN [i \in 1..Len(m(n)) |-> 0] ELSE calls
  BY DEF PlannerPlan
<1>2. TaskOK /\ run[w] \in Run /\ running' = running
  BY RunTypes DEF PlannerPlan, OneInv, TypeInv
<1>3. n \in Nat \ {0} /\ t \in Nat /\ keep \in Seq(SubTask) /\ on \in BOOLEAN
  BY <1>2, RunTypes, ConfigAssumption
<1> DEFINE plan == m(n)
           out == [NoUpdate EXCEPT !.status = "executing", !.idx = 0,
                      !.plan = plan, !.clearReplan = on, !.tokens = t]
<1>4. /\ NodeCommit(w, run[w], out, "executor", FALSE)
      /\ plan = MergePreservedSubTasks(keep, n)
      /\ calls' = IF CanCommit(out) THEN [i \in 1..Len(plan) |-> 0] ELSE calls
  BY <1>1
<1> HIDE DEF plan, on, keep, m, u
<1>5. plan \in Seq(SubTask) /\ plan # <<>>
  <2>1. plan \in Seq(SubTask) /\ Len(plan) = Len(keep) + n
    BY <1>3, <1>4, MergeType
  <2>2. Len(keep) \in Nat
    BY <1>3
  <2> QED
    BY <1>3, <2>1, <2>2
<1>6. out.status = "executing" /\ out.plan = plan
  BY DEF NoUpdate
<1>7. FinishingUpdate(w, out, "executor") = out
  BY DEF FinishingUpdate
<1> HIDE DEF out
<1>8. eng' = eng /\ events' = events
  BY <1>4 DEF NodeCommit
<1> DEFINE new == Committed(out, "executor")
           good == [run[w] EXCEPT !.last = new, !.rev = NoReview, !.pc = "loop"]
           bad == [run[w] EXCEPT !.rev = NoReview, !.pc = ErrorPc(w)]
<1>9. IF CanCommit(out) THEN snap' = new /\ run' = [run EXCEPT ![w] = good]
                        ELSE snap' = snap /\ run' = [run EXCEPT ![w] = bad]
  BY <1>4, <1>7 DEF NodeCommit
<1>10. good.pc = "loop" /\ bad.pc = ErrorPc(w) /\ ErrorPc(w) \notin Working
  <2>1. ErrorPc(w) \notin Working
    BY DEF ErrorPc, Working
  <2> DEFINE e == ErrorPc(w)
             half == [run[w] EXCEPT !.rev = NoReview]
  <2>2. half \in Run
    BY <1>2 DEF Run, NoReview, Verdict
  <2> HIDE DEF e, new
  <2>3. [half EXCEPT !.pc = e].pc = e /\ good.pc = "loop"
    BY <1>2, <2>2 DEF Run
  <2> QED
    BY <2>1, <2>3 DEF e
<1> HIDE DEF good, bad
<1>11. run \in [Walkers -> Run]
  BY <1>2 DEF TaskOK
<1>12. run'[w].pc \notin Working
  BY <1>9, <1>10, <1>11 DEF Working
<1>13. CASE CanCommit(out)
  <2>1. Wrote("executing", out, "executor")
    <3>1. Wrote(out.status, out, "executor")
      BY <1>2, <1>9, <1>13, CommitWrites
    <3> QED
      BY <1>6, <3>1
  <2>2. snap'.state.plan = plan
    BY <1>5, <1>6, <2>1 DEF Wrote
  <2>3. calls' = [i \in 1..Len(plan) |-> 0]
    BY <1>4, <1>13
  <2>4. Len(calls') = Len(plan) /\ \A i \in 1..Len(plan) : calls'[i] = 0
    BY <1>5, <2>3
  <2> QED
    BY <1>2, <1>8, <1>12, <2>2, <2>4
<1>14. CASE ~CanCommit(out)
  BY <1>2, <1>4, <1>8, <1>9, <1>12, <1>14
<1> QED
  BY <1>13, <1>14

LEMMA PlannerCalls ==
    ASSUME OneInv, OneWalker, TaskOK', CallingOK, CallingOK', CallsInv,
           NEW w \in Walkers, PlannerPlan(w)
    PROVE  CallsInv'
<1>1. TaskOK
  BY DEF OneInv, TypeInv
<1>2. running = {}
  <2>1. ~InCall(w)
    BY DEF PlannerPlan, InCall, AtNode
  <2> QED
    BY <2>1, NotCalling
<1>3. /\ eng' = eng /\ events' = events /\ running' = running
      /\ run'[w].pc \notin Working
  BY PlannerCount
<1>4. ~Overtaken'
  BY <1>3, OvertakenOff
<1>5. Owed' + events <= Owed + events'
  BY <1>1, <1>3, <1>4, OwedFree
<1>6. CASE snap' = snap /\ calls' = calls
  <2>1. SameAttempts /\ UNCHANGED calling
    BY <1>3, <1>6 DEF SameAttempts, calling
  <2> QED
    BY <1>1, <1>2, <1>5, <2>1, CallsHeld
<1>7. CASE Len(calls') = Len(snap'.state.plan) /\ \A i \in 1..Len(calls') : calls'[i] = 0
  <2>1. Owed' <= events' /\ Owed' \in Nat /\ events' \in Nat
    <3>1. Owed' \in Nat /\ Owed \in Nat /\ events \in Nat /\ events' \in Nat /\ Owed <= events
      BY <1>1, ConfigAssumption DEF Owed, One, TaskOK, CallsInv
    <3>2. Owed' + events <= Owed + events
      BY <1>3, <1>5
    <3> DEFINE o == Owed
               q == Owed'
               e == events
    <3>3. o \in Nat /\ q \in Nat /\ e \in Nat /\ q + e <= o + e /\ o <= e
      BY <3>1, <3>2
    <3> HIDE DEF o, q, e
    <3>4. q <= o
      BY <3>3, NoMoreOwed
    <3>5. q <= e
      BY <3>3, <3>4
    <3> QED
      BY <1>3, <3>1, <3>5 DEF q, e
  <2>2. ASSUME NEW i \in 1..Len(calls')
        PROVE  calls'[i] + Owed' <= snap'.state.plan[i].att + Inside(i)' + events'
    <3>1. snap'.state.plan[i].att \in Nat
      <4>1. snap'.state \in State
        BY DEF TaskOK, Snapshot
      <4>2. snap'.state.plan \in Seq(SubTask) /\ i \in 1..Len(snap'.state.plan)
        BY <1>7, <4>1, StateFields
      <4>3. snap'.state.plan[i] \in SubTask
        BY <4>2
      <4> QED
        BY <4>3 DEF SubTask
    <3>2. Inside(i)' \in Nat
      BY DEF Inside, One
    <3> QED
      BY <1>7, <2>1, <3>1, <3>2
  <2>3. (\A v \in running : InCall(v))'
    BY <1>2, <1>3
  <2> QED
    BY <1>7, <2>1, <2>2, <2>3 DEF CallsInv
<1> QED
  BY <1>6, <1>7, PlannerCount

-----------------------------------------------------------------------------
(* The environment *)

LEMMA LaunchCalls ==
    ASSUME OneInv, OneWalker, TaskOK', CallingOK, CallingOK', CallsInv,
           NEW w \in Walkers, ResumeViaGraph(w) \/ RunViaGraph(w)
    PROVE  CallsInv'
<1>1. TaskOK /\ eng \in [task : BOOLEAN, cancel : SUBSET Walkers, mu : BOOLEAN]
  BY DEF OneInv, TypeInv, TaskOK
<1>2. run[w].pc = "idle" /\ UNCHANGED calling /\ eng'.mu = eng.mu /\ events' = events + 1
  BY <1>1 DEF ResumeViaGraph, RunViaGraph, Event
<1>3. running = {}
  <2>1. ~InCall(w)
    BY <1>2 DEF InCall, AtNode
  <2> QED
    BY <2>1, NotCalling
<1>4. SameAttempts /\ ~Overtaken'
  BY LoopCount DEF SameCount
<1>5. running' = {} /\ calls' = calls
  BY <1>2, <1>3 DEF calling
<1>6. 1 + Owed' + events <= Owed + events'
  BY <1>1, <1>2, <1>4, OwedEvent
<1> QED
  BY <1>1, <1>4, <1>5, <1>6, CallsLost

LEMMA FaultCalls ==
    ASSUME OneInv, OneWalker, TaskOK', CallingOK, CallingOK', CallsInv,
           NEW w \in Walkers, NodePanic(w) \/ StoreFault(w) \/ BoundaryFault(w)
    PROVE  CallsInv'
<1>1. TaskOK
  BY DEF OneInv, TypeInv
<1>2. eng'.mu = eng.mu /\ events' = events + 1 /\ calls' = calls
  BY DEF NodePanic, StoreFault, BoundaryFault, Event, calling
<1>3. running' = {}
  <2>1. CASE NodePanic(w) \/ StoreFault(w)
    BY <2>1 DEF NodePanic, StoreFault, CallingOK, OneWalker
  <2>2. CASE BoundaryFault(w)
    <3>1. ~InCall(w) /\ running' = running
      BY <2>2 DEF BoundaryFault, calling, InCall, AtNode
    <3> QED
      BY <3>1, NotCalling
  <2> QED
    BY <2>1, <2>2
<1>4. SameAttempts /\ ~Overtaken'
  BY LoopCount DEF SameCount
<1>5. 1 + Owed' + events <= Owed + events'
  BY <1>1, <1>2, <1>4, OwedEvent
<1> QED
  BY <1>1, <1>2, <1>3, <1>4, <1>5, CallsLost

LEMMA CrashCalls ==
    ASSUME OneInv, TaskOK', CallingOK, CallingOK', CallsInv, Crash
    PROVE  CallsInv'
<1>1. TaskOK
  BY DEF OneInv, TypeInv
<1>2. calls' = calls /\ running' = {} /\ events' = events + 1 /\ ~eng'.mu /\ snap' = snap
  BY DEF Crash, Event
<1>3. ~Overtaken'
  BY DEF Crash, Overtaken, Working, IdleRun
<1>4. 1 + Owed' + events <= Owed + events'
  BY <1>1, <1>2, <1>3, OwedEvent
<1>5. SameAttempts
  BY <1>2 DEF SameAttempts
<1> QED
  BY <1>1, <1>2, <1>4, <1>5, CallsLost

\* a goroutine that is only cancelled keeps its place and its snapshot
LEMMA CancelKeeps ==
    ASSUME TaskOK, NEW v \in Walkers,
           run'[v] = run[v] \/ run'[v] = [run[v] EXCEPT !.cancelled = TRUE]
    PROVE  run'[v].pc = run[v].pc /\ run'[v].last = run[v].last
<1>1. run[v] \in Run
  BY DEF TaskOK
<1> QED
  BY <1>1 DEF Run

LEMMA OwedOne ==
    ASSUME TaskOK, TaskOK', Overtaken' <=> Overtaken, events' = events + 1
    PROVE  Owed' + events <= Owed + events'
<1>1. events \in Nat
  BY ConfigAssumption DEF TaskOK
<1>2. One(Overtaken)' = One(Overtaken) /\ One(eng.mu)' <= One(eng.mu) + 1
  BY DEF One
<1>3. One(Overtaken) \in {0, 1} /\ One(eng.mu) \in {0, 1} /\ One(eng.mu)' \in {0, 1}
  BY DEF One
<1> QED
  BY <1>1, <1>2, <1>3 DEF Owed

LEMMA EventCalls ==
    ASSUME OneInv, TaskOK', CallingOK, CallingOK', CallsInv,
           \/ InterruptWithCancel \/ WallclockElapses \/ \E w \in Walkers : ParentCancel(w)
    PROVE  CallsInv'
<1>1. TaskOK
  BY DEF OneInv, TypeInv
<1>2. UNCHANGED calling /\ snap' = snap /\ events' = events + 1
  BY DEF InterruptWithCancel, WallclockElapses, ParentCancel, Event
<1>3. \A v \in Walkers : run'[v] = run[v] \/ run'[v] = [run[v] EXCEPT !.cancelled = TRUE]
  <2>1. run \in [Walkers -> Run]
    BY <1>1 DEF TaskOK
  <2> QED
    BY <2>1 DEF InterruptWithCancel, WallclockElapses, ParentCancel
<1>4. \A v \in Walkers : run'[v].pc = run[v].pc /\ run'[v].last = run[v].last
  BY <1>1, <1>3, CancelKeeps
<1>5. Overtaken' <=> Overtaken
  BY <1>2, <1>4 DEF Overtaken, Refused
<1>6. Owed' + events <= Owed + events'
  BY <1>1, <1>2, <1>5, OwedOne
<1>7. SameAttempts
  BY <1>2 DEF SameAttempts
<1> QED
  BY <1>1, <1>2, <1>4, <1>6, <1>7, CallsHeld DEF CallingOK

\* the interrupt's boundary: what may be lost now was paid for when e.mu was taken
LEMMA InterruptCalls ==
    ASSUME OneInv, TaskOK', CallingOK, CallingOK', CallsInv, InterruptWithCommit
    PROVE  CallsInv'
<1>1. TaskOK /\ eng.mu = TRUE
  BY DEF OneInv, TypeInv, InterruptWithCommit
<1>2. UNCHANGED calling /\ run' = run /\ events' = events
  BY DEF InterruptWithCommit
<1>3. eng'.mu = FALSE
  BY <1>1 DEF InterruptWithCommit, TaskOK
<1>4. SameAttempts
  BY OutsideCalm, PlainAttempts DEF Calm
<1>5. One(eng.mu) = 1 /\ One(eng.mu)' = 0
  BY <1>1, <1>3 DEF One
<1>6. One(Overtaken)' \in {0, 1} /\ One(Overtaken) \in {0, 1} /\ events \in Nat
  BY <1>1, ConfigAssumption DEF One, TaskOK
<1>7. Owed' + events <= Owed + events'
  BY <1>2, <1>5, <1>6 DEF Owed
<1> QED
  BY <1>1, <1>2, <1>4, <1>7, CallsHeld

LEMMA SweepCalls ==
    ASSUME OneInv, TaskOK', CallingOK, CallingOK', CallsInv, Sweep
    PROVE  CallsInv'
<1>1. TaskOK
  BY DEF OneInv, TypeInv
<1>2. run' = run /\ UNCHANGED calling /\ eng' = eng /\ events' = events + 1
  BY DEF Sweep, Event
<1>3. Overtaken' <=> Overtaken
  BY <1>2 DEF Sweep, AllIdle, Overtaken, Working
<1>4. SameAttempts
  BY OutsideCalm, PlainAttempts DEF Calm
<1>5. Owed' + events <= Owed + events'
  BY <1>1, <1>2, <1>3, OwedOne
<1> QED
  BY <1>1, <1>2, <1>4, <1>5, CallsHeld

LEMMA StutterCalls ==
    ASSUME CallsInv, UNCHANGED vars
    PROVE  CallsInv'
<1>1. UNCHANGED <<snap, run, eng, events, running, calls>>
  BY DEF vars, calling
<1>2. Owed' = Owed
  BY <1>1 DEF Owed, Overtaken, Refused
<1>3. \A i : Inside(i)' = Inside(i)
  BY <1>1 DEF Inside, CalledFor
<1>4. \A w : InCall(w)' <=> InCall(w)
  BY <1>1 DEF InCall, AtNode
<1> QED
  BY <1>1, <1>2, <1>3, <1>4 DEF CallsInv

-----------------------------------------------------------------------------
LEMMA CallsInit == Init => CallsInv
<1> SUFFICES ASSUME Init PROVE CallsInv
  OBVIOUS
<1>1. calls = <<>> /\ running = {} /\ events = 0 /\ eng.mu = FALSE
      /\ snap.state.plan = <<>> /\ snap.state.status \notin TerminalStatus
  BY DEF Init, NoSnapshot, CreatedState, TerminalStatus
<1>2. ~Overtaken
  BY <1>1 DEF Overtaken, Refused
<1>3. Owed = 0
  BY <1>1, <1>2 DEF Owed, One
<1>4. Len(calls) = 0 /\ Len(snap.state.plan) = 0
  BY <1>1
<1> QED
  BY <1>1, <1>3, <1>4 DEF CallsInv

LEMMA CallsStep ==
    ASSUME OneInv, AttInv, OneWalker, Operators = {}, TaskOK', CallingOK, CallingOK',
           CallsInv, [Next]_vars
    PROVE  CallsInv'
<1>1. ASSUME NEW w \in Walkers, WalkerStep(w)
      PROVE  CallsInv'
  <2>1. CASE RunSubTask(w)
    BY <2>1, StartCalls
  <2>2. CASE PlannerPlan(w)
    BY <2>2, PlannerCalls
  <2>3. CASE \E ok \in BOOLEAN : ExecutorRun(w, ok)
    BY <2>3, FinishCalls
  <2>4. CASE Elsewhere(w)
    BY <2>4, ElsewhereCalls
  <2> QED
    BY <1>1, <2>1, <2>2, <2>3, <2>4 DEF Elsewhere
<1>2. ASSUME NEW w \in Walkers, ResumeViaGraph(w) \/ RunViaGraph(w)
      PROVE  CallsInv'
  BY <1>2, LaunchCalls
<1>3. ASSUME NEW w \in Walkers, NodePanic(w) \/ StoreFault(w) \/ BoundaryFault(w)
      PROVE  CallsInv'
  BY <1>3, FaultCalls
<1>4. CASE \/ InterruptWithCancel \/ WallclockElapses \/ \E w \in Walkers : ParentCancel(w)
  BY <1>4, EventCalls
<1>5. CASE InterruptWithCommit
  BY <1>5, InterruptCalls
<1>6. CASE Crash
  BY <1>6, CrashCalls
<1>7. CASE Sweep
  BY <1>7, SweepCalls
<1>8. CASE UNCHANGED vars
  BY <1>8, StutterCalls
<1> QED
  BY <1>1, <1>2, <1>3, <1>4, <1>5, <1>6, <1>7, <1>8 DEF Next

\* a call in progress has an attempt left, so counting it stays within the limit
LEMMA CallsWithin ==
    ASSUME OneInv, AttInv, OneWalker, TaskOK, CallingOK, CallsInv
    PROVE  AttemptsBounded
<1> SUFFICES ASSUME NEW i \in DOMAIN calls
             PROVE  calls[i] <= MaxRetriesPerSub + events
  BY DEF AttemptsBounded
<1>1. calls \in Seq(Nat) /\ i \in 1..Len(calls) /\ Len(calls) = Len(snap.state.plan)
  BY DEF CallingOK, CallsInv
<1>2. /\ calls[i] \in Nat /\ snap.state.plan[i].att \in Nat /\ Owed \in Nat /\ events \in Nat
      /\ MaxRetriesPerSub \in Nat
  BY <1>1, CountTypes, ConfigAssumption
<1>3. calls[i] + Owed <= snap.state.plan[i].att + Inside(i) + events
  BY <1>1 DEF CallsInv
<1>4. snap.state.plan[i].att + Inside(i) <= MaxRetriesPerSub
  <2>1. CASE ~CalledFor(i)
    <3>1. Inside(i) = 0
      BY <2>1 DEF Inside, One
    <3>2. snap.state.plan[i].att <= MaxRetriesPerSub
      BY <1>1 DEF AttInv, NoRetries
    <3> QED
      BY <1>2, <3>1, <3>2
  <2>2. CASE CalledFor(i)
    <3>1. PICK w \in running : run[w].last.state.idx + 1 = i
      BY <2>2 DEF CalledFor
    <3>2. w \in Walkers /\ InCall(w)
      BY <3>1 DEF CallingOK, CallsInv
    <3>3. run[w].pc \in Working /\ run[w].last.next = "executor" /\ ~Pending(run[w].last)
          /\ InRange(run[w].last.state) /\ ~Settled(run[w].last.state, i)
      BY <3>1, <3>2 DEF InCall, AtNode, Working, Pending
    <3>4. /\ InRange(snap.state) /\ run[w].last.state.idx = snap.state.idx
          /\ run[w].last.state.plan = snap.state.plan
      BY <3>2, <3>3, OnThePlan
    <3>5. i = snap.state.idx + 1 /\ ~Settled(snap.state, i)
      BY <3>1, <3>3, <3>4 DEF Settled
    <3>6. "executor" \in StepRoutes
      BY <3>2, <3>3, HoldsRoute DEF Working, Holding
    <3>7. MayRun("executor", snap.state)
      BY <3>6 DEF AttInv
    <3>8. RetryLeft(snap.state.plan[i].att)
      BY <3>4, <3>5, <3>7 DEF MayRun
    <3>9. Inside(i) = 1
      BY <2>2 DEF Inside, One
    <3> QED
      BY <1>2, <3>8, <3>9 DEF RetryLeft
  <2> QED
    BY <2>1, <2>2
<1>5. Inside(i) \in Nat
  BY DEF Inside, One
<1> QED
  BY <1>2, <1>3, <1>4, <1>5

\* A sub-task is run at most MaxRetriesPerSub times and once more for each event of the
\* environment, whatever the reviewers answer, and across crashes, panics, store faults,
\* interrupts, resumes, sweeps and replans, as long as no operator sends it back.
THEOREM AttemptsAreBounded ==
    ASSUME OneWalker, Operators = {}
    PROVE  Spec => []AttemptsBounded
<1>1. Init => CallsInv
  BY CallsInit
<1>2. OneInv /\ AttInv /\ TypeOK /\ TypeOK' /\ CallsInv /\ [Next]_vars => CallsInv'
  BY CallsStep DEF TypeOK
<1>3. OneInv /\ AttInv /\ TypeOK /\ CallsInv => AttemptsBounded
  BY CallsWithin DEF TypeOK
<1> QED
  BY <1>1, <1>2, <1>3, AttInvariant, TypeCorrect, PTL DEF Spec
=============================================================================
