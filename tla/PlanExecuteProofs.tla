------------------------- MODULE PlanExecuteProofs -------------------------
(***************************************************************************)
(* Proofs about PlanExecute, for every configuration, plan size and bound. *)
(*                                                                         *)
(* What makes them work is one fact: while the loop is among the sub-tasks *)
(* of a plan, its local copy and the stored plan agree but for the         *)
(* sub-task that is running.  Tracks says so.  The bound on the tokens     *)
(* needs another: how many calls the loop has made since its last gate.    *)
(* The attempt counters need a third: which call no plan has counted yet.  *)
(***************************************************************************)
EXTENDS PlanExecute, HermesStateProofs, FiniteSetTheorems, WellFoundedInduction, TLAPS

LEMMA Smallest ==
    ASSUME NEW S, S \subseteq Nat, S # {}
    PROVE  \E x \in S : \A y \in S : x <= y
<1> DEFINE R == OpToRel(<, Nat)
<1>1. IsWellFoundedOn(R, Nat)
  BY NatLessThanWellFounded
<1>2. \A x, y \in Nat : <<y, x>> \in R <=> y < x
  BY DEF OpToRel
<1> HIDE DEF R
<1>3. PICK x \in S : \A y \in S : ~(<<y, x>> \in R)
  BY <1>1, WFMin
<1>4. \A y \in S : ~(y < x)
  BY <1>2, <1>3
<1>5. ASSUME NEW y \in S
      PROVE  x <= y
  <2>1. x \in Nat /\ y \in Nat /\ ~(y < x)
    BY <1>4
  <2> QED
    BY <2>1
<1> QED
  BY <1>5

LEMMA ConfigTypes ==
    /\ \A c \in Configs : c \in Config /\ c.costs \subseteq Nat
    /\ PlanSizes \subseteq Nat \ {0} /\ MaxEvents \in Nat
  BY LoopAssumption DEF Config

Settled == {"done", "skipped"}

\* DecideTaskResume starts behind a prefix of settled sub-tasks
LEMMA FromIdxSettled ==
    ASSUME NEW plan \in Seq(SubTask)
    PROVE  FromIdx(plan) \in 0..Len(plan) /\ \A i \in 1..FromIdx(plan) : plan[i].st \in Settled
<1> DEFINE U == Unsettled(plan)
           first == CHOOSE i \in U : \A j \in U : i <= j
<1>1. U \subseteq 1..Len(plan) /\ \A i \in 1..Len(plan) : i \notin U => plan[i].st \in Settled
  BY DEF Unsettled, Settled
<1>2. CASE U = {}
  BY <1>1, <1>2 DEF FromIdx
<1>3. CASE U # {}
  <2>1. first \in U /\ \A j \in U : first <= j
    <3>1. \E i \in U : \A j \in U : i <= j
      <4>1. U \subseteq Nat
        BY <1>1
      <4> HIDE DEF U
      <4> QED
        BY <1>3, <4>1, Smallest
    <3> QED
      BY <3>1
  <2>2. FromIdx(plan) = first - 1
    BY <1>3 DEF FromIdx
  <2> HIDE DEF U, first
  <2> QED
    BY <1>1, <2>1, <2>2
<1> QED
  BY <1>2, <1>3

-----------------------------------------------------------------------------
(* What a commit writes *)

\* st, i and p are written to status, CurrentIdx and plan, unless nil
Writes(st, i, p) ==
    /\ snap' \in Snapshot
    /\ snap'.state.status = (IF st = "" THEN snap.state.status ELSE st)
    /\ snap'.state.idx = (IF i = -1 THEN snap.state.idx ELSE i)
    /\ snap'.state.plan = (IF p = <<>> THEN snap.state.plan ELSE p)
    /\ st # "" => ValidTaskStatusTransition(snap.state.status, st)

MayWrite(st, i, p) == snap' = snap \/ Writes(st, i, p)

LEMMA SeedIsState ==
    ASSUME snap \in Snapshot
    PROVE  snap.state \in State /\ CommitSeed(snap.state) = snap.state
<1>1. snap.state \in State
  BY DEF Snapshot
<1> QED
  BY <1>1, CommitSeedIsCurrent

LEMMA CommitWrites ==
    ASSUME snap \in Snapshot, NEW u \in StateUpdate, NEW next \in RuntimeStep,
           CanCommit(u), snap' = Committed(u, next)
    PROVE  Writes(u.status, u.idx, u.plan)
<1>1. /\ snap'.state = ApplyStateUpdates(snap.state, u) /\ snap'.next = next
      /\ snap' = [state |-> ApplyStateUpdates(snap.state, u), next |-> next]
  BY SeedIsState DEF Committed
<1>2. snap' \in Snapshot
  BY <1>1, SeedIsState, ApplyType DEF Snapshot
<1>3. Accepts(snap.state, u)
  BY SeedIsState DEF CanCommit
<1>4. /\ snap'.state.status = (IF u.status = "" THEN snap.state.status ELSE u.status)
      /\ snap'.state.idx = (IF u.idx = -1 THEN snap.state.idx ELSE u.idx)
      /\ snap'.state.plan = (IF u.plan = <<>> THEN snap.state.plan ELSE u.plan)
  <2> DEFINE new == ApplyStateUpdates(snap.state, u)
  <2>1. /\ new.idx = (IF u.idx = -1 THEN snap.state.idx ELSE u.idx)
        /\ new.plan = (IF u.plan = <<>> THEN snap.state.plan ELSE u.plan)
    BY Zenon DEF ApplyStateUpdates
  <2>2. new.status = (IF u.status = "" THEN snap.state.status ELSE u.status)
    BY ReducerFields
  <2>3. snap'.state = new
    BY <1>1
  <2> HIDE DEF new
  <2> QED
    BY <2>1, <2>2, <2>3
<1> QED
  BY <1>2, <1>3, <1>4 DEF Writes, Accepts

LEMMA EventType ==
    ASSUME NEW e, Event(e), events \in 0..MaxEvents
    PROVE  events' \in 0..MaxEvents /\ events' # events
  BY ConfigTypes DEF Event

LEMMA LoggedWrites ==
    ASSUME TypeOK, NEW u \in StateUpdate, NEW next \in RuntimeStep, Logged(u, next)
    PROVE  MayWrite(u.status, u.idx, u.plan) /\ events' \in 0..MaxEvents
<1>1. snap \in Snapshot /\ events \in 0..MaxEvents
  BY DEF TypeOK
<1>2. CASE snap' = (IF CanCommit(u) THEN Committed(u, next) ELSE snap) /\ UNCHANGED events
  BY <1>1, <1>2, CommitWrites DEF MayWrite
<1>3. CASE Event("store_fault") /\ UNCHANGED snap
  BY <1>1, <1>3, EventType DEF MayWrite
<1> QED
  BY <1>2, <1>3 DEF Logged

LEMMA CheckedWrites ==
    ASSUME TypeOK, NEW u \in StateUpdate, NEW next \in RuntimeStep, NEW good, Checked(u, next, good)
    PROVE  /\ events' \in 0..MaxEvents
           /\ \/ Writes(u.status, u.idx, u.plan) /\ run' = good
              \/ snap' = snap /\ run' = [run EXCEPT !.pc = ErrorPc]
<1>1. snap \in Snapshot /\ events \in 0..MaxEvents
  BY DEF TypeOK
<1>2. CASE CanCommit(u) /\ snap' = Committed(u, next) /\ run' = good /\ UNCHANGED events
  BY <1>1, <1>2, CommitWrites
<1>3. CASE ~CanCommit(u) /\ UNCHANGED <<snap, events>> /\ Goto(ErrorPc)
  BY <1>1, <1>3 DEF Goto
<1>4. CASE Event("store_fault") /\ UNCHANGED snap /\ Goto(ErrorPc)
  BY <1>1, <1>4, EventType DEF Goto
<1> QED
  BY <1>2, <1>3, <1>4 DEF Checked

LEMMA StepNames ==
    \A x \in {"planner", "executor", "reviewer", "approval", "terminal"} : x \in RuntimeStep
  BY DEF RuntimeStep

LEMMA NoUpdateFields ==
    NoUpdate \in StateUpdate /\ NoUpdate.status = "" /\ NoUpdate.idx = -1 /\ NoUpdate.plan = <<>>
  BY StateConstants DEF NoUpdate

\* a commit of tokens or of an interrupt
LEMMA QuietUpdates ==
    ASSUME NEW u \in {NoUpdate, [NoUpdate EXCEPT !.clearIntr = TRUE]}
                       \cup {[NoUpdate EXCEPT !.tokens = t] : t \in Nat}
                       \cup {[NoUpdate EXCEPT !.intr = x] : x \in Interrupt}
    PROVE  u \in StateUpdate /\ u.status = "" /\ u.idx = -1 /\ u.plan = <<>>
<1>1. u \in StateUpdate
  BY NoUpdateFields, UpdateFields
<1>2. CASE u = NoUpdate
  BY <1>2, NoUpdateFields
<1>5. ASSUME u = [NoUpdate EXCEPT !.clearIntr = TRUE]
      PROVE  u.status = "" /\ u.idx = -1 /\ u.plan = <<>>
  BY <1>5 DEF NoUpdate
<1>3. ASSUME NEW t \in Nat, u = [NoUpdate EXCEPT !.tokens = t]
      PROVE  u.status = "" /\ u.idx = -1 /\ u.plan = <<>>
  BY <1>3 DEF NoUpdate
<1>4. ASSUME NEW x \in Interrupt, u = [NoUpdate EXCEPT !.intr = x]
      PROVE  u.status = "" /\ u.idx = -1 /\ u.plan = <<>>
  BY <1>4 DEF NoUpdate
<1> QED
  BY <1>1, <1>2, <1>3, <1>4, <1>5

LEMMA FailedUpdate ==
    Failed \in StateUpdate /\ Failed.status = "failed" /\ Failed.idx = -1 /\ Failed.plan = <<>>
<1>1. "failed" \in TaskStatus
  BY DEF TaskStatus
<1>2. Failed \in StateUpdate
  BY <1>1, NoUpdateFields, UpdateFields DEF Failed
<1> QED
  BY <1>2 DEF Failed, NoUpdate

\* a commit of the plan and CurrentIdx
LEMMA PlanUpdates ==
    ASSUME NEW p \in Seq(SubTask), NEW i \in Int,
           NEW u \in {[NoUpdate EXCEPT !.plan = p, !.idx = i],
                      [NoUpdate EXCEPT !.plan = p, !.idx = i, !.clearIntr = TRUE]}
    PROVE  u \in StateUpdate /\ u.status = "" /\ u.idx = i /\ u.plan = p
<1>1. [NoUpdate EXCEPT !.plan = p] \in StateUpdate
  BY NoUpdateFields, UpdateFields
<1>2. [NoUpdate EXCEPT !.plan = p, !.idx = i] \in StateUpdate
  BY <1>1, UpdateFields
<1>3. [NoUpdate EXCEPT !.plan = p, !.idx = i, !.clearIntr = TRUE] \in StateUpdate
  BY <1>2, UpdateFields
<1>4. CASE u = [NoUpdate EXCEPT !.plan = p, !.idx = i]
  BY <1>2, <1>4 DEF NoUpdate
<1>5. CASE u = [NoUpdate EXCEPT !.plan = p, !.idx = i, !.clearIntr = TRUE]
  BY <1>3, <1>5 DEF NoUpdate
<1> QED
  BY <1>4, <1>5

LEMMA Interrupts ==
    /\ [reason |-> "user_interrupt", idx |-> -1, resume |-> NoStep] \in Interrupt
    /\ \A i \in Int : [reason |-> "subtask_failure_pause", idx |-> i, resume |-> "executor"]
                         \in Interrupt
  BY DEF Interrupt, InterruptReason, NoStep, RuntimeStep

\* model calls report what they cost
LEMMA TelemetryWrites ==
    ASSUME TypeOK, NEW t \in conf.costs, NEW next \in RuntimeStep, Telemetry(t, next)
    PROVE  MayWrite("", -1, <<>>) /\ events' \in 0..MaxEvents
<1>1. t \in Nat
  BY ConfigTypes DEF TypeOK
<1>2. CASE t = 0
  BY <1>2 DEF Telemetry, TypeOK, MayWrite
<1>3. CASE t # 0
  <2> DEFINE u == [NoUpdate EXCEPT !.tokens = t]
  <2>1. u \in StateUpdate /\ u.status = "" /\ u.idx = -1 /\ u.plan = <<>>
    BY <1>1, QuietUpdates
  <2>2. Logged(u, next)
    BY <1>3 DEF Telemetry
  <2> HIDE DEF u
  <2> QED
    BY <2>1, <2>2, LoggedWrites
<1> QED
  BY <1>2, <1>3

-----------------------------------------------------------------------------
(* The inductive invariant *)

InTask == {"exec", "strict", "judged", "pausing", "paused", "finish"}

InLoop == InTask \cup {"budget", "ctx", "ask", "pick"}

PastLoop == {"review", "reviewed", "final"}

OnPlan == InLoop \cup PastLoop \cup {"resumed"}

\* the statuses of a sub-task in the stored plan and in the local one
Agrees(stored, mine, current) ==
    stored = mine \/ (current /\ stored = "in_progress" /\ mine \notin Settled)

\* The local plan and the stored one agree; what is behind the loop is resolved; what is
\* ahead of run is done, from a partial replan, or untouched.
Tracks(r, plan) ==
    /\ r.tasks # <<>> /\ Len(plan) = Len(r.tasks) /\ r.idx <= Len(r.tasks)
    /\ \A i \in 1..Len(r.tasks) :
          /\ Agrees(plan[i].st, r.tasks[i].st, i = r.idx + 1)
          /\ i <= r.idx => r.tasks[i].st \in ResolvedStatus
          /\ r.kind = "run" /\ i > r.idx => r.tasks[i].st \in {"done", "pending"}

\* where the goroutine is in its plan
Placed(r) ==
    /\ r.pc \in InLoop => r.idx < Len(r.tasks)
    /\ r.pc \in InTask => r.tasks[r.idx + 1].st \notin Settled
    /\ r.pc \in PastLoop => r.idx = Len(r.tasks)
    /\ r.pc = "planned" =>
          r.tasks # <<>> /\ \A i \in 1..Len(r.tasks) : r.tasks[i].st \in {"done", "pending"}

Sound(r, plan) ==
    /\ r \in Run
    /\ r.pc \in OnPlan => Tracks(r, plan)
    /\ Placed(r)
    /\ \A i \in 1..Len(r.keep) : r.keep[i].st = "done"

LoopInv == TypeOK /\ snap.state.idx >= 0 /\ Sound(run, snap.state.plan)

-----------------------------------------------------------------------------
(* What the steps achieve: the three action properties, as one action *)

Active == snap.state.status \notin TerminalStatus

SettledStays ==
    /\ Len(snap'.state.plan) = Len(snap.state.plan)
    /\ \A i \in 1..Len(snap.state.plan) :
          snap.state.plan[i].st \in Settled => snap'.state.plan[i].st \in Settled

Resolved(plan) == plan # <<>> /\ \A i \in 1..Len(plan) : plan[i].st \in ResolvedStatus

\* Lifecycle!Next, or a step that leaves the snapshot's state alone
Lives ==
    \/ snap'.state = snap.state
    \/ Active /\ snap'.state.status = "executing" /\ snap'.state.idx = 0 /\ snap'.state.plan # <<>>
    \/ snap'.state.status = snap.state.status /\ SettledStays
    \/ Active /\ snap'.state.status = "executing" /\ snap'.state.plan = snap.state.plan
    \/ Active /\ snap'.state.status = "done" /\ SettledStays /\ Resolved(snap'.state.plan)
    \/ Active /\ snap'.state.status \in {"failed", "interrupted"} /\ SettledStays

Advances ==
    ~At("idle")
      => \A i \in snap.state.idx + 1 .. snap'.state.idx : snap'.state.plan[i].st \in ResolvedStatus

Leaves ==
    run.kind = "run" /\ run'.pc = "cleanup" /\ run.pc # "cleanup"
      => \/ snap'.state.status \in TerminalStatus
         \/ events' # events /\ snap' = snap

Progress == Lives /\ Advances /\ Leaves

LEMMA SnapTypes ==
    ASSUME TypeOK
    PROVE  /\ snap.state \in State /\ snap.state.status \in TaskStatus /\ snap.state.idx \in Int
           /\ snap.state.plan \in Seq(SubTask) /\ snap.state.intr \in Interrupt
  BY DEF TypeOK, Snapshot, State

LEMMA EmptyRange == ASSUME NEW n \in Int PROVE \A i \in n + 1 .. n : FALSE
  OBVIOUS

\* a commit that changes neither status nor plan nor CurrentIdx
LEMMA QuietStep ==
    ASSUME LoopInv, MayWrite("", -1, <<>>)
    PROVE  /\ snap' \in Snapshot /\ snap'.state.plan = snap.state.plan
           /\ snap'.state.idx = snap.state.idx /\ snap'.state.status = snap.state.status
           /\ Lives /\ Advances
<1>1. /\ snap' \in Snapshot /\ snap'.state.plan = snap.state.plan
      /\ snap'.state.idx = snap.state.idx /\ snap'.state.status = snap.state.status
  BY DEF MayWrite, Writes, LoopInv, TypeOK
<1>2. snap.state.idx \in Int
  BY SnapTypes DEF LoopInv
<1>3. Lives
  BY <1>1 DEF Lives, SettledStays
<1>4. \A i \in snap.state.idx + 1 .. snap'.state.idx : FALSE
  BY <1>1, <1>2, EmptyRange, Zenon
<1>5. Advances
  BY <1>4, Zenon DEF Advances
<1> QED
  BY <1>1, <1>3, <1>5

\* a terminal boundary: the status becomes st, or the reducer rejects it
LEMMA StopStep ==
    ASSUME LoopInv, NEW st \in {"failed", "interrupted"}, MayWrite(st, -1, <<>>)
    PROVE  /\ snap' \in Snapshot /\ snap'.state.plan = snap.state.plan
           /\ snap'.state.idx = snap.state.idx /\ Lives /\ Advances
<1>1. CASE snap' = snap
  <2>1. MayWrite("", -1, <<>>)
    BY <1>1 DEF MayWrite
  <2> QED
    BY <2>1, QuietStep
<1>2. CASE Writes(st, -1, <<>>)
  <2>1. /\ snap' \in Snapshot /\ snap'.state.plan = snap.state.plan
        /\ snap'.state.idx = snap.state.idx /\ snap'.state.status = st
        /\ snap.state.status = st \/ Active
    BY <1>2 DEF Writes, ValidTaskStatusTransition, TerminalStatus, Active
  <2>2. snap.state.idx \in Int
    BY SnapTypes DEF LoopInv
  <2>3. Lives
    BY <2>1 DEF Lives, SettledStays
  <2>4. \A i \in snap.state.idx + 1 .. snap'.state.idx : FALSE
    BY <2>1, <2>2, EmptyRange, Zenon
  <2> QED
    BY <2>1, <2>3, <2>4 DEF Advances
<1> QED
  BY <1>1, <1>2 DEF MayWrite

\* a goroutine that stays where it is in its plan
LEMMA SoundKept ==
    ASSUME NEW plan, Sound(run, plan), NEW r \in Run,
           r.tasks = run.tasks, r.idx = run.idx, r.kind = run.kind, r.keep = run.keep,
           r.pc \in InTask => run.pc \in InTask,
           r.pc \in InLoop => run.pc \in InLoop,
           r.pc \in PastLoop => run.pc \in PastLoop,
           r.pc \notin {"planned", "resumed"}
    PROVE  Sound(r, plan)
<1>1. r.pc \in OnPlan => Tracks(r, plan)
  <2>1. r.pc \in OnPlan => run.pc \in OnPlan
    BY DEF OnPlan
  <2> QED
    BY <2>1 DEF Tracks, Sound
<1>2. Placed(r)
  BY DEF Placed, Sound
<1> QED
  BY <1>1, <1>2 DEF Sound

\* the other variables keep their types
Frame ==
    /\ conf' = conf /\ eng' \in [task : BOOLEAN, mu : BOOLEAN] /\ late' \in BOOLEAN
    /\ execs' \in Nat /\ events' \in 0..MaxEvents

\* the goroutine goes on where it is in its plan, or leaves it
Follows ==
    /\ run' \in Run
    /\ run'.tasks = run.tasks /\ run'.idx = run.idx /\ run'.kind = run.kind
    /\ run'.keep = run.keep
    /\ run'.pc \in InTask => run.pc \in InTask
    /\ run'.pc \in InLoop => run.pc \in InLoop
    /\ run'.pc \in PastLoop => run.pc \in PastLoop
    /\ run'.pc \notin {"planned", "resumed"}
    /\ run'.pc = "cleanup" => run.pc = "cleanup" \/ run.kind = "resume"

LEMMA QuietMove ==
    ASSUME LoopInv, MayWrite("", -1, <<>>), Frame, Follows
    PROVE  LoopInv' /\ Progress
<1>1. /\ snap' \in Snapshot /\ snap'.state.plan = snap.state.plan
      /\ snap'.state.idx = snap.state.idx /\ Lives /\ Advances
  BY QuietStep
<1>2. Sound(run', snap.state.plan)
  BY SoundKept DEF Follows, LoopInv
<1>3. Leaves
  BY DEF Leaves, Follows
<1>4. TypeOK'
  BY <1>1 DEF TypeOK, Frame, Follows, LoopInv
<1> QED
  BY <1>1, <1>2, <1>3, <1>4 DEF LoopInv, Progress

LEMMA FrameKept ==
    ASSUME TypeOK
    PROVE  /\ UNCHANGED <<conf, eng, late, execs, events>> => Frame
           /\ UNCHANGED <<conf, eng, late, execs>> /\ events' \in 0..MaxEvents => Frame
  BY DEF TypeOK, Frame

LEMMA NoWrite ==
    ASSUME UNCHANGED snap
    PROVE  MayWrite("", -1, <<>>)
  BY DEF MayWrite

LEMMA RunTypes ==
    ASSUME TypeOK
    PROVE  /\ run \in Run /\ run.tasks \in Seq(SubTask) /\ run.idx \in Nat /\ run.tries \in Nat
           /\ run.keep \in Seq(SubTask) /\ run.attempt \in Nat /\ run.kind \in {"run", "resume"}
  BY DEF TypeOK, Run

\* an error of a checked boundary
LEMMA ErrorMove ==
    ASSUME LoopInv, snap' = snap, run' = [run EXCEPT !.pc = ErrorPc], Frame
    PROVE  LoopInv' /\ Progress
<1>1. ErrorPc \in {"fail", "cleanup"} /\ (ErrorPc = "cleanup" => run.kind = "resume")
  BY RunTypes DEF ErrorPc, LoopInv
<1>2. Follows
  BY <1>1 DEF Follows, LoopInv, TypeOK, Run, InTask, InLoop, PastLoop
<1> QED
  BY <1>2, NoWrite, QuietMove

LEMMA OutcomeFollows ==
    ASSUME LoopInv, NEW out \in {"done", "partial", "failed"}, Outcome(out), run.pc \in InTask
    PROVE  Follows
<1> DEFINE pc == OutcomePc(out)
<1>1. pc \in {"pausing", "finish"}
  BY DEF OutcomePc
<1>2. run' = [run EXCEPT !.out = out, !.pc = pc, !.bad = FALSE]
  BY DEF Outcome
<1> HIDE DEF pc
<1>3. run' \in Run
  BY <1>1, <1>2, RunTypes DEF Run, LoopInv
<1>4. /\ run'.tasks = run.tasks /\ run'.idx = run.idx /\ run'.kind = run.kind
      /\ run'.keep = run.keep /\ run'.pc = pc
  BY <1>2, RunTypes DEF Run, LoopInv
<1> QED
  BY <1>1, <1>3, <1>4 DEF Follows, InTask, InLoop, PastLoop

-----------------------------------------------------------------------------
(* The steps that leave plan and status alone *)

LEMMA GatesProgress ==
    ASSUME LoopInv, BudgetGate \/ BudgetTimeout \/ BudgetCancelled \/ CtxGate \/ PlanError
                      \/ StrictAccept \/ StrictGiveUp \/ ReviewDecide
    PROVE  LoopInv' /\ Progress
<1> USE DEF At, Goto, InTask, InLoop, PastLoop, Follows, Run, TypeOK, LoopInv
<1>1. UNCHANGED snap /\ Frame
  <2>1. UNCHANGED <<conf, snap, eng, late, execs, events>>
    BY DEF BudgetGate, BudgetTimeout, BudgetCancelled, CtxGate, PlanError, StrictAccept,
           StrictGiveUp, ReviewDecide
  <2> QED
    BY <2>1, FrameKept
<1>2. Follows
  <2>1. CASE BudgetGate
    BY <2>1 DEF BudgetGate
  <2>2. CASE BudgetTimeout \/ BudgetCancelled \/ PlanError
    BY <2>2 DEF BudgetTimeout, BudgetCancelled, PlanError
  <2>3. CASE CtxGate
    BY <2>3 DEF CtxGate
  <2>4. CASE StrictAccept \/ StrictGiveUp
    <3>1. \E out \in {"done", "partial"} : Outcome(out) /\ run.pc = "judged"
      BY <2>4 DEF StrictAccept, StrictGiveUp
    <3>2. run.pc \in InTask
      BY <3>1
    <3> QED
      BY <3>1, <3>2, OutcomeFollows
  <2>5. CASE ReviewDecide
    <3> DEFINE again == [run EXCEPT !.pc = "replan", !.attempt = @ + 1, !.bad = FALSE]
               accept == [run EXCEPT !.pc = "final", !.bad = FALSE]
    <3>1. run.attempt + 1 \in Nat
      BY RunTypes
    <3>2. again \in Run /\ accept \in Run
      BY <3>1
    <3>3. run' \in {again, accept} /\ run.pc = "reviewed"
      BY <2>5 DEF ReviewDecide
    <3>4. CASE run' = again
      BY <3>2, <3>3, <3>4
    <3>5. CASE run' = accept
      BY <3>2, <3>3, <3>5
    <3> QED
      BY <3>3, <3>4, <3>5
  <2> QED
    BY <2>1, <2>2, <2>3, <2>4, <2>5
<1> QED
  BY <1>1, <1>2, NoWrite, QuietMove

LEMMA ModelCallsProgress ==
    ASSUME LoopInv, NEW ok \in BOOLEAN, Execute(ok) \/ StrictReview \/ ReviewTask
    PROVE  LoopInv' /\ Progress
<1> USE DEF At, Goto, InTask, InLoop, PastLoop, Follows, Run, TypeOK, LoopInv
<1>1. CASE Execute(ok)
  <2>1. MayWrite("", -1, <<>>) /\ events' \in 0..MaxEvents
    BY <1>1, TelemetryWrites, StepNames DEF Execute
  <2>2. Frame
    <3>1. execs' \in Nat
      BY <1>1 DEF Execute
    <3> QED
      BY <1>1, <2>1, <3>1 DEF Execute, Frame
  <2>3. Follows
    <3>1. CASE \E out \in {"done", "failed"} : Outcome(out)
      <4>1. run.pc \in InTask
        BY <1>1 DEF Execute
      <4> QED
        BY <3>1, <4>1, OutcomeFollows
    <3>2. CASE Goto("strict")
      BY <1>1, <3>2 DEF Execute
    <3> QED
      BY <1>1, <3>1, <3>2 DEF Execute
  <2> QED
    BY <2>1, <2>2, <2>3, QuietMove
<1>2. CASE StrictReview
  <2>1. MayWrite("", -1, <<>>) /\ events' \in 0..MaxEvents
    BY <1>2, TelemetryWrites, StepNames, NoWrite DEF StrictReview
  <2>2. Frame
    BY <1>2, <2>1, FrameKept DEF StrictReview
  <2>3. Follows
    <3>1. CASE Outcome("done")
      <4>1. run.pc \in InTask
        BY <1>2 DEF StrictReview
      <4> QED
        BY <3>1, <4>1, OutcomeFollows
    <3>2. ASSUME NEW block \in BOOLEAN, run' = [run EXCEPT !.pc = "judged", !.bad = block]
          PROVE  Follows
      BY <1>2, <3>2 DEF StrictReview
    <3> QED
      BY <1>2, <3>1, <3>2 DEF StrictReview
  <2> QED
    BY <2>1, <2>2, <2>3, QuietMove
<1>3. CASE ReviewTask
  <2>1. MayWrite("", -1, <<>>) /\ events' \in 0..MaxEvents
    BY <1>3, TelemetryWrites, StepNames, NoWrite DEF ReviewTask
  <2>2. Frame
    BY <1>3, <2>1, FrameKept DEF ReviewTask
  <2>3. Follows
    <3>1. ASSUME NEW low \in BOOLEAN, run' = [run EXCEPT !.pc = "reviewed", !.bad = low]
          PROVE  Follows
      BY <1>3, <3>1 DEF ReviewTask
    <3> QED
      BY <1>3, <3>1 DEF ReviewTask
  <2> QED
    BY <2>1, <2>2, <2>3, QuietMove
<1> QED
  BY <1>1, <1>2, <1>3

LEMMA PausesProgress ==
    ASSUME LoopInv, NEW choice \in {"retry", "skip", "abort"},
           BudgetContinue \/ PauseSubTask \/ AnswerPause(choice)
    PROVE  LoopInv' /\ Progress
<1> USE DEF At, Goto, InTask, InLoop, PastLoop, Follows, Run, TypeOK, LoopInv
<1> DEFINE clear == [NoUpdate EXCEPT !.clearIntr = TRUE]
<1>1. CASE BudgetContinue
  <2>1. MayWrite("", -1, <<>>) /\ events' \in 0..MaxEvents
    BY <1>1, LoggedWrites, NoUpdateFields, StepNames DEF BudgetContinue
  <2>2. Frame
    BY <1>1, <2>1 DEF BudgetContinue, Frame
  <2>3. Follows
    BY <1>1 DEF BudgetContinue
  <2> QED
    BY <2>1, <2>2, <2>3, QuietMove
<1>2. CASE PauseSubTask
  <2> DEFINE pause == [reason |-> "subtask_failure_pause", idx |-> run.idx, resume |-> "executor"]
             u == [NoUpdate EXCEPT !.intr = pause]
  <2>1. pause \in Interrupt
    <3>1. run.idx \in Int
      BY RunTypes
    <3> QED
      BY <3>1, Interrupts
  <2>2. u \in StateUpdate /\ u.status = "" /\ u.idx = -1 /\ u.plan = <<>>
    <3> HIDE DEF pause
    <3> QED
      BY <2>1, QuietUpdates
  <2>3. Logged(u, "approval")
    BY <1>2 DEF PauseSubTask
  <2> HIDE DEF u
  <2>4. MayWrite("", -1, <<>>) /\ events' \in 0..MaxEvents
    BY <2>2, <2>3, LoggedWrites, StepNames
  <2>5. Frame
    BY <1>2, <2>4, FrameKept DEF PauseSubTask
  <2>6. Follows
    BY <1>2 DEF PauseSubTask
  <2> QED
    BY <2>4, <2>5, <2>6, QuietMove
<1>3. CASE AnswerPause(choice)
  <2>1. clear \in StateUpdate /\ clear.status = "" /\ clear.idx = -1 /\ clear.plan = <<>>
    BY QuietUpdates
  <2>2. Logged(clear, "executor") \/ (Event("retry") /\ snap' = Committed(clear, "executor"))
    BY <1>3 DEF AnswerPause
  <2>3. CanCommit(clear)
    BY <2>1 DEF CanCommit, Accepts
  <2> HIDE DEF clear
  <2>4. MayWrite("", -1, <<>>) /\ events' \in 0..MaxEvents
    BY <2>1, <2>2, <2>3, LoggedWrites, CommitWrites, EventType, StepNames DEF MayWrite
  <2>5. Frame
    BY <1>3, <2>4, FrameKept DEF AnswerPause
  <2>6. Follows
    BY <1>3 DEF AnswerPause, LoopPc
  <2> QED
    BY <2>4, <2>5, <2>6, QuietMove
<1> QED
  BY <1>1, <1>2, <1>3

-----------------------------------------------------------------------------
(* The steps that end a task or a run *)

\* a goroutine that has left its plan
LEMMA SoundOffPlan ==
    ASSUME LoopInv, NEW plan, NEW r \in Run, r.pc \notin OnPlan \cup {"planned"}, r.keep = run.keep
    PROVE  Sound(r, plan)
<1>1. r.pc \notin InTask /\ r.pc \notin InLoop /\ r.pc \notin PastLoop
  BY DEF OnPlan, InLoop
<1> QED
  BY <1>1 DEF Sound, Placed, LoopInv

LEMMA IdleSound == ASSUME NEW plan PROVE Sound(IdleRun, plan)
<1>1. IdleRun \in Run
  BY DEF IdleRun, Run
<1> QED
  BY <1>1 DEF IdleRun, Sound, Placed, OnPlan, InLoop, InTask, PastLoop

\* a terminal boundary of a goroutine that leaves its plan, or stays in place
LEMMA StopMove ==
    ASSUME LoopInv, NEW st \in {"failed", "interrupted"}, MayWrite(st, -1, <<>>), Frame,
           Sound(run', snap.state.plan), Leaves
    PROVE  LoopInv' /\ Progress
<1>1. /\ snap' \in Snapshot /\ snap'.state.plan = snap.state.plan
      /\ snap'.state.idx = snap.state.idx /\ Lives /\ Advances
  BY StopStep
<1>2. TypeOK'
  BY <1>1 DEF TypeOK, Frame, Sound, LoopInv
<1> QED
  BY <1>1, <1>2 DEF LoopInv, Progress

LEMMA EndsProgress ==
    ASSUME LoopInv, CommitFailure \/ Exit \/ Cleanup \/ Panic \/ Crash \/ Sweep
    PROVE  LoopInv' /\ Progress
<1> USE DEF At, Goto, LoopInv
<1>1. CASE CommitFailure
  <2>1. MayWrite("failed", -1, <<>>) /\ events' \in 0..MaxEvents
    BY <1>1, LoggedWrites, FailedUpdate, StepNames DEF CommitFailure
  <2>2. Frame
    BY <1>1, <2>1, FrameKept DEF CommitFailure
  <2>3. run' \in Run /\ run'.pc = "exit" /\ run'.keep = run.keep
    BY <1>1, RunTypes DEF CommitFailure, Run
  <2>4. Sound(run', snap.state.plan) /\ Leaves
    BY <2>3, SoundOffPlan DEF OnPlan, InLoop, InTask, PastLoop, Leaves
  <2> QED
    BY <2>1, <2>2, <2>4, StopMove
<1>2. CASE Exit
  <2>1. run' \in Run /\ run'.pc = "cleanup" /\ run'.keep = run.keep
    BY <1>2, RunTypes DEF Exit, Run
  <2>2. Sound(run', snap.state.plan)
    BY <2>1, SoundOffPlan DEF OnPlan, InLoop, InTask, PastLoop
  <2>3. CASE run.kind = "run" /\ snap.state.status \notin TerminalStatus
    <3>1. Logged(Failed, "terminal")
      BY <1>2, <2>3 DEF Exit
    <3>2. MayWrite("failed", -1, <<>>) /\ events' \in 0..MaxEvents
      BY <3>1, LoggedWrites, FailedUpdate, StepNames
    <3>3. Leaves
      <4>1. CanCommit(Failed)
        BY <2>3, FailedUpdate, SeedIsState, SnapTypes DEF CanCommit, Accepts,
          ValidTaskStatusTransition, TaskStatus, TerminalStatus, TypeOK
      <4>2. CASE snap' = Committed(Failed, "terminal")
        <5>1. Writes("failed", -1, <<>>)
          BY <4>1, <4>2, CommitWrites, FailedUpdate, StepNames DEF TypeOK
        <5>2. snap'.state.status = "failed"
          BY <5>1 DEF Writes
        <5> QED
          BY <5>2 DEF Leaves, TerminalStatus
      <4>3. CASE Event("store_fault") /\ UNCHANGED snap
        BY <4>3, EventType DEF Leaves, TypeOK
      <4> QED
        BY <3>1, <4>1, <4>2, <4>3 DEF Logged
    <3>4. Frame
      BY <1>2, <3>2, FrameKept DEF Exit
    <3> QED
      BY <2>2, <3>2, <3>3, <3>4, StopMove
  <2>4. CASE ~(run.kind = "run" /\ snap.state.status \notin TerminalStatus)
    <3>1. UNCHANGED <<conf, snap, eng, late, execs, events>>
      BY <1>2, <2>4 DEF Exit
    <3>2. MayWrite("failed", -1, <<>>) /\ Frame
      BY <3>1, FrameKept DEF MayWrite
    <3>3. Leaves
      BY <2>4, <3>1 DEF Leaves
    <3> QED
      BY <2>2, <3>2, <3>3, StopMove
  <2> QED
    BY <2>3, <2>4
<1>3. CASE Cleanup
  <2>1. MayWrite("failed", -1, <<>>) /\ Frame
    BY <1>3 DEF Cleanup, MayWrite, Frame, TypeOK
  <2>2. Sound(run', snap.state.plan) /\ Leaves
    BY <1>3, IdleSound DEF Cleanup, Leaves
  <2> QED
    BY <2>1, <2>2, StopMove
<1>4. CASE Panic
  <2>1. events' \in 0..MaxEvents /\ Frame
    BY <1>4, EventType DEF Panic, Frame, TypeOK
  <2>2. run' \in Run /\ run'.pc = "cleanup" /\ run'.keep = run.keep
    BY <1>4, RunTypes DEF Panic, Run
  <2>3. Sound(run', snap.state.plan)
    BY <2>2, SoundOffPlan DEF OnPlan, InLoop, InTask, PastLoop
  <2>4. MayWrite("failed", -1, <<>>)
    BY <1>4, CommitWrites, FailedUpdate, StepNames DEF Panic, MayWrite, TypeOK
  <2>5. snap'.state.status \in TerminalStatus
    <3>1. CASE CanCommit(Failed)
      <4>1. Writes("failed", -1, <<>>)
        BY <1>4, <3>1, CommitWrites, FailedUpdate, StepNames DEF Panic, TypeOK
      <4> QED
        BY <4>1 DEF Writes, TerminalStatus
    <3>2. CASE ~CanCommit(Failed)
      <4>1. snap' = snap
        BY <1>4, <3>2 DEF Panic
      <4>2. snap.state.status \in TerminalStatus
        BY <3>2, FailedUpdate, SeedIsState, SnapTypes DEF CanCommit, Accepts,
          ValidTaskStatusTransition, TaskStatus, TerminalStatus, TypeOK
      <4> QED
        BY <4>1, <4>2
    <3> QED
      BY <3>1, <3>2
  <2> QED
    BY <2>1, <2>3, <2>4, <2>5, StopMove DEF Leaves
<1>5. CASE Crash
  <2>1. MayWrite("failed", -1, <<>>) /\ Frame
    BY <1>5, EventType DEF Crash, MayWrite, Frame, TypeOK
  <2>2. Sound(run', snap.state.plan) /\ Leaves
    BY <1>5, IdleSound DEF Crash, Leaves, IdleRun
  <2> QED
    BY <2>1, <2>2, StopMove
<1>6. CASE Sweep
  <2>1. Frame /\ run' = run
    BY <1>6, EventType DEF Sweep, Frame, TypeOK
  <2>2. CanCommit(Failed)
    BY <1>6, FailedUpdate, SeedIsState, SnapTypes DEF Sweep, CanCommit, Accepts,
      ValidTaskStatusTransition, TaskStatus, TerminalStatus, TypeOK
  <2>3. MayWrite("failed", -1, <<>>)
    BY <1>6, <2>2, CommitWrites, FailedUpdate, StepNames DEF Sweep, MayWrite, TypeOK
  <2>4. Leaves
    BY <2>1 DEF Leaves
  <2> QED
    BY <2>1, <2>3, <2>4, StopMove
<1> QED
  BY <1>1, <1>2, <1>3, <1>4, <1>5, <1>6

-----------------------------------------------------------------------------
(* The steps that move the goroutine in its plan but write none *)

LEMMA QuietTo ==
    ASSUME LoopInv, MayWrite("", -1, <<>>), Frame, Sound(run', snap.state.plan), Leaves
    PROVE  LoopInv' /\ Progress
<1>1. /\ snap' \in Snapshot /\ snap'.state.plan = snap.state.plan
      /\ snap'.state.idx = snap.state.idx /\ Lives /\ Advances
  BY QuietStep
<1>2. TypeOK'
  BY <1>1 DEF TypeOK, Frame, Sound, LoopInv
<1> QED
  BY <1>1, <1>2 DEF LoopInv, Progress

LEMMA ReplanProgress ==
    ASSUME LoopInv, ReplanContext
    PROVE  LoopInv' /\ Progress
<1>1. PICK keep \in PreservedChoices(run.tasks) :
         Checked(NoUpdate, "planner", [run EXCEPT !.pc = "plan", !.keep = keep])
  BY DEF ReplanContext
<1> DEFINE good == [run EXCEPT !.pc = "plan", !.keep = keep]
<1>2. /\ events' \in 0..MaxEvents
      /\ \/ Writes("", -1, <<>>) /\ run' = good
         \/ snap' = snap /\ run' = [run EXCEPT !.pc = ErrorPc]
  BY <1>1, CheckedWrites, NoUpdateFields, StepNames DEF LoopInv
<1>3. Frame
  BY <1>2, FrameKept DEF ReplanContext, LoopInv
<1>4. CASE Writes("", -1, <<>>) /\ run' = good
  <2>1. keep \in Seq(SubTask) /\ \A i \in 1..Len(keep) : keep[i].st = "done"
    BY RunTypes, PreservedType DEF LoopInv
  <2>2. run' \in Run /\ run'.pc = "plan" /\ run'.keep = keep
    BY <1>4, <2>1, RunTypes DEF Run, LoopInv
  <2>3. Sound(run', snap.state.plan) /\ Leaves
    BY <2>1, <2>2 DEF Sound, Placed, OnPlan, InLoop, InTask, PastLoop, Leaves
  <2> QED
    BY <1>3, <1>4, <2>3, QuietTo DEF MayWrite
<1>5. CASE snap' = snap /\ run' = [run EXCEPT !.pc = ErrorPc]
  BY <1>3, <1>5, ErrorMove
<1> QED
  BY <1>2, <1>4, <1>5

LEMMA PlanReadyProgress ==
    ASSUME LoopInv, PlanReady
    PROVE  LoopInv' /\ Progress
<1>1. PICK n \in PlanSizes, t \in conf.costs :
         /\ Telemetry(t, "planner")
         /\ run' = [run EXCEPT !.tasks = MergePreservedSubTasks(run.keep, n),
                       !.pc = IF Len(MergePreservedSubTasks(run.keep, n)) > MaxSubTasks
                                THEN "fail" ELSE "planned"]
  BY DEF PlanReady
<1> DEFINE tasks == MergePreservedSubTasks(run.keep, n)
<1>2. MayWrite("", -1, <<>>) /\ events' \in 0..MaxEvents
  BY <1>1, TelemetryWrites, StepNames DEF LoopInv
<1>3. Frame
  BY <1>2, FrameKept DEF PlanReady, LoopInv
<1>4. run.keep \in Seq(SubTask) /\ n \in Nat \ {0}
  BY RunTypes, ConfigTypes DEF LoopInv
<1>5. /\ tasks \in Seq(SubTask) /\ Len(tasks) = Len(run.keep) + n
      /\ \A i \in 1..Len(run.keep) + n :
            tasks[i] = IF i <= Len(run.keep) THEN run.keep[i] ELSE PendingSubTask
  BY <1>4, MergeType
<1>6. tasks # <<>> /\ \A i \in 1..Len(tasks) : tasks[i].st \in {"done", "pending"}
  <2>1. \A i \in 1..Len(run.keep) : run.keep[i].st = "done"
    BY DEF LoopInv, Sound
  <2>2. Len(run.keep) \in Nat
    BY <1>4
  <2>3. PendingSubTask.st = "pending"
    BY DEF PendingSubTask
  <2> HIDE DEF tasks
  <2>4. tasks # <<>>
    BY <1>4, <1>5, <2>2
  <2>5. ASSUME NEW i \in 1..Len(tasks)
        PROVE  tasks[i].st \in {"done", "pending"}
    <3>1. i \in 1..Len(run.keep) + n
      BY <1>5
    <3>2. CASE i <= Len(run.keep)
      BY <1>5, <2>1, <2>2, <3>1, <3>2
    <3>3. CASE ~(i <= Len(run.keep))
      BY <1>5, <2>3, <3>1, <3>3
    <3> QED
      BY <3>2, <3>3
  <2> QED
    BY <2>4, <2>5
<1> HIDE DEF tasks
<1>7. PICK pc \in {"fail", "planned"} : run' = [run EXCEPT !.tasks = tasks, !.pc = pc]
  BY <1>1 DEF tasks
<1>8. run' \in Run /\ run'.pc = pc /\ run'.tasks = tasks /\ run'.keep = run.keep
  BY <1>5, <1>7, RunTypes DEF Run, LoopInv
<1>9. Sound(run', snap.state.plan) /\ Leaves
  BY <1>6, <1>8 DEF Sound, Placed, OnPlan, InLoop, InTask, PastLoop, Leaves, LoopInv
<1> QED
  BY <1>2, <1>3, <1>9, QuietTo

LEMMA OutsideProgress ==
    ASSUME LoopInv, InterruptWithCancel \/ InterruptWithCommit \/ WallclockElapses
    PROVE  LoopInv' /\ Progress
<1>1. CASE InterruptWithCancel
  <2>1. MayWrite("", -1, <<>>) /\ Frame
    <3>1. UNCHANGED <<conf, snap, late, execs>> /\ events' \in 0..MaxEvents
      BY <1>1, EventType DEF InterruptWithCancel, LoopInv, TypeOK
    <3>2. eng' \in [task : BOOLEAN, mu : BOOLEAN]
      BY <1>1 DEF InterruptWithCancel, LoopInv, TypeOK
    <3> QED
      BY <3>1, <3>2, NoWrite DEF Frame, LoopInv, TypeOK
  <2>2. /\ run' \in Run /\ run'.pc = run.pc /\ run'.tasks = run.tasks /\ run'.idx = run.idx
        /\ run'.kind = run.kind /\ run'.keep = run.keep
    BY <1>1, RunTypes DEF InterruptWithCancel, Run, LoopInv
  <2>3. Sound(run', snap.state.plan) /\ Leaves
    BY <2>2 DEF Sound, Tracks, Placed, Leaves, LoopInv
  <2> QED
    BY <2>1, <2>3, QuietTo
<1>2. CASE InterruptWithCommit
  <2> DEFINE x == [reason |-> "user_interrupt", idx |-> -1, resume |-> NoStep]
             u == [NoUpdate EXCEPT !.status = "interrupted", !.intr = x]
  <2>1. u \in StateUpdate /\ u.status = "interrupted" /\ u.idx = -1 /\ u.plan = <<>>
    <3>1. x \in Interrupt /\ "interrupted" \in TaskStatus
      BY Interrupts DEF TaskStatus
    <3> HIDE DEF x
    <3>2. [NoUpdate EXCEPT !.status = "interrupted"] \in StateUpdate
      BY <3>1, NoUpdateFields, UpdateFields
    <3>3. u \in StateUpdate
      BY <3>1, <3>2, UpdateFields
    <3> QED
      BY <3>3 DEF NoUpdate
  <2>2. snap' = IF CanCommit(u) THEN Committed(u, "terminal") ELSE snap
    BY <1>2 DEF InterruptWithCommit
  <2> HIDE DEF u
  <2>3. MayWrite("interrupted", -1, <<>>)
    BY <2>1, <2>2, CommitWrites, StepNames DEF MayWrite, LoopInv, TypeOK
  <2>4. Frame /\ run' = run
    <3>1. eng' \in [task : BOOLEAN, mu : BOOLEAN]
      BY <1>2 DEF InterruptWithCommit, LoopInv, TypeOK
    <3>2. UNCHANGED <<conf, run, late, execs, events>>
      BY <1>2 DEF InterruptWithCommit
    <3> QED
      BY <3>1, <3>2 DEF Frame, LoopInv, TypeOK
  <2>5. Sound(run', snap.state.plan) /\ Leaves
    BY <2>4 DEF LoopInv, Leaves
  <2> QED
    BY <2>3, <2>4, <2>5, StopMove
<1>3. CASE WallclockElapses
  <2>1. MayWrite("", -1, <<>>) /\ Frame /\ run' = run
    BY <1>3, EventType, NoWrite DEF WallclockElapses, Frame, LoopInv, TypeOK
  <2>2. Sound(run', snap.state.plan) /\ Leaves
    BY <2>1 DEF LoopInv, Leaves
  <2> QED
    BY <2>1, <2>2, QuietTo
<1> QED
  BY <1>1, <1>2, <1>3

LEMMA ResumesProgress ==
    ASSUME LoopInv, ResumeStart \/ ResumeMarkDone
    PROVE  LoopInv' /\ Progress
<1>1. CASE ResumeStart
  <2> DEFINE plan == snap.state.plan
  <2>1. MayWrite("", -1, <<>>) /\ Frame
    <3>1. UNCHANGED <<conf, snap, late, execs>> /\ events' \in 0..MaxEvents
      BY <1>1, EventType DEF ResumeStart, LoopInv, TypeOK
    <3>2. eng' \in [task : BOOLEAN, mu : BOOLEAN]
      BY <1>1 DEF ResumeStart, LoopInv, TypeOK
    <3> QED
      BY <3>1, <3>2, NoWrite DEF Frame, LoopInv, TypeOK
  <2>2. plan \in Seq(SubTask) /\ plan # <<>>
    BY <1>1, SnapTypes DEF ResumeStart, LoopInv
  <2>3. /\ FromIdx(plan) \in 0..Len(plan)
        /\ \A i \in 1..FromIdx(plan) : plan[i].st \in Settled
    BY <2>2, FromIdxSettled
  <2>4. /\ run' \in Run /\ run'.pc = "resumed" /\ run'.kind = "resume" /\ run'.tasks = plan
        /\ run'.idx = FromIdx(plan) /\ run'.keep = <<>>
    <3>1. run' = [IdleRun EXCEPT !.pc = "resumed", !.kind = "resume", !.tasks = plan,
                                 !.idx = FromIdx(plan)]
      BY <1>1 DEF ResumeStart
    <3>2. FromIdx(plan) \in Nat
      BY <2>2, <2>3
    <3> HIDE DEF plan
    <3>3. run' = [pc |-> "resumed", kind |-> "resume", cancelled |-> FALSE, tasks |-> plan,
                  idx |-> FromIdx(plan), tries |-> 0, out |-> "done", bad |-> FALSE,
                  attempt |-> 0, keep |-> <<>>]
      BY <3>1 DEF IdleRun
    <3> QED
      BY <2>2, <3>2, <3>3 DEF Run
  <2> HIDE DEF plan
  <2>5. Tracks(run', plan)
    BY <2>2, <2>3, <2>4 DEF Tracks, Agrees, Settled, ResolvedStatus
  <2>6. Sound(run', plan) /\ Leaves
    BY <2>4, <2>5 DEF Sound, Placed, InLoop, InTask, PastLoop, Leaves
  <2> QED
    BY <2>1, <2>6, QuietTo DEF plan
<1>2. CASE ResumeMarkDone
  <2>1. MayWrite("", -1, <<>>) /\ events' \in 0..MaxEvents
    <3>1. CASE UNCHANGED <<snap, events>>
      BY <3>1, NoWrite DEF LoopInv, TypeOK
    <3>2. CASE \E t \in conf.costs : Telemetry(t, "reviewer")
      BY <3>2, TelemetryWrites, StepNames DEF LoopInv
    <3> QED
      BY <1>2, <3>1, <3>2 DEF ResumeMarkDone
  <2>2. Frame
    BY <1>2, <2>1, FrameKept DEF ResumeMarkDone, LoopInv
  <2>3. /\ run' \in Run /\ run'.pc = "final" /\ run'.tasks = run.tasks /\ run'.idx = run.idx
        /\ run'.kind = run.kind /\ run'.keep = run.keep
    BY <1>2, RunTypes DEF ResumeMarkDone, Goto, Run, LoopInv
  <2>4. run.pc = "resumed" /\ run.idx >= Len(run.tasks)
    BY <1>2 DEF ResumeMarkDone, At
  <2>5. Tracks(run', snap.state.plan)
    BY <2>3, <2>4 DEF LoopInv, Sound, OnPlan, Tracks
  <2>6. run'.idx = Len(run'.tasks)
    BY <2>3, <2>4, <2>5, RunTypes DEF Tracks, LoopInv
  <2>7. Sound(run', snap.state.plan) /\ Leaves
    BY <2>3, <2>5, <2>6 DEF LoopInv, Sound, Placed, InLoop, InTask, PastLoop, Leaves
  <2> QED
    BY <2>1, <2>2, <2>7, QuietTo
<1> QED
  BY <1>1, <1>2

\* a sub-task passed over is settled in the stored plan too
LEMMA SkipProgress ==
    ASSUME LoopInv, SkipSettled
    PROVE  LoopInv' /\ Progress
<1> DEFINE plan == snap.state.plan
           pc == AfterSubTask(run.idx + 1)
<1>1. /\ run.pc = "pick" /\ PassedOver(run.tasks[run.idx + 1].st)
      /\ run' = [run EXCEPT !.idx = @ + 1, !.pc = pc]
      /\ UNCHANGED <<conf, snap, eng, late, execs, events>>
  BY DEF SkipSettled, At
<1>2. /\ Tracks(run, plan) /\ run.idx < Len(run.tasks)
      /\ run.tasks[run.idx + 1].st \in Settled
  BY <1>1 DEF LoopInv, Sound, Placed, OnPlan, InLoop, PassedOver, Settled
<1>3. /\ pc \in {"budget", "ctx", "review", "final"}
      /\ IF run.idx + 1 < Len(run.tasks) THEN pc \in {"budget", "ctx"}
                                         ELSE pc \in {"review", "final"}
  BY DEF AfterSubTask, LoopPc
<1>4. run.idx \in Nat /\ run.tasks \in Seq(SubTask) /\ Len(run.tasks) \in Nat
  BY RunTypes DEF LoopInv
<1> HIDE DEF pc, plan
<1>5. /\ run' \in Run /\ run'.pc = pc /\ run'.tasks = run.tasks /\ run'.idx = run.idx + 1
      /\ run'.kind = run.kind /\ run'.keep = run.keep
  <2>1. run' = [run EXCEPT !.idx = run.idx + 1, !.pc = pc] /\ run.idx + 1 \in Nat
    BY <1>1, <1>4
  <2>2. run \in Run
    BY RunTypes DEF LoopInv
  <2> QED
    BY <1>3, <2>1, <2>2 DEF Run
<1>6. Tracks(run', plan)
  <2>1. /\ run.tasks # <<>> /\ Len(plan) = Len(run.tasks)
        /\ \A i \in 1..Len(run.tasks) :
              /\ Agrees(plan[i].st, run.tasks[i].st, i = run.idx + 1)
              /\ i <= run.idx => run.tasks[i].st \in ResolvedStatus
              /\ run.kind = "run" /\ i > run.idx => run.tasks[i].st \in {"done", "pending"}
    BY <1>2 DEF Tracks
  <2>2. ASSUME NEW i \in 1..Len(run.tasks)
        PROVE  /\ plan[i].st = run.tasks[i].st
               /\ i <= run.idx + 1 => run.tasks[i].st \in ResolvedStatus
               /\ run.kind = "run" /\ i > run.idx + 1 => run.tasks[i].st \in {"done", "pending"}
    BY <1>2, <1>4, <2>1, <2>2 DEF Agrees, Settled, ResolvedStatus
  <2> QED
    BY <1>2, <1>4, <1>5, <2>1, <2>2 DEF Tracks, Agrees
<1>7. Placed(run')
  BY <1>2, <1>3, <1>4, <1>5 DEF Placed, InLoop, InTask, PastLoop
<1>8. Sound(run', plan) /\ Leaves
  BY <1>3, <1>5, <1>6, <1>7 DEF Sound, LoopInv, Leaves
<1>9. Frame /\ MayWrite("", -1, <<>>)
  BY <1>1, FrameKept, NoWrite DEF LoopInv
<1> QED
  BY <1>8, <1>9, QuietTo DEF plan

-----------------------------------------------------------------------------
(* The steps that write the plan *)

\* what is known about a plan the goroutine works on
LEMMA OnThePlan ==
    ASSUME LoopInv, run.pc \in OnPlan
    PROVE  LET plan == snap.state.plan IN
           /\ Tracks(run, plan) /\ plan \in Seq(SubTask) /\ plan # <<>>
           /\ run.tasks \in Seq(SubTask) /\ run.tasks # <<>> /\ Len(plan) = Len(run.tasks)
           /\ Len(plan) \in Nat /\ run.idx \in Nat /\ run.idx <= Len(run.tasks)
           /\ \A i \in 1..Len(plan) :
                 /\ i # run.idx + 1 => plan[i].st = run.tasks[i].st
                 /\ i = run.idx + 1 /\ run.tasks[i].st \notin Settled => plan[i].st \notin Settled
                 /\ i <= run.idx => plan[i].st \in ResolvedStatus
<1> DEFINE plan == snap.state.plan
<1>1. /\ Tracks(run, plan) /\ plan \in Seq(SubTask) /\ run.tasks \in Seq(SubTask)
      /\ run.idx \in Nat
  BY SnapTypes, RunTypes DEF LoopInv, Sound
<1> HIDE DEF plan
<1>2. /\ run.tasks # <<>> /\ Len(plan) = Len(run.tasks) /\ run.idx <= Len(run.tasks)
      /\ \A i \in 1..Len(run.tasks) :
            /\ Agrees(plan[i].st, run.tasks[i].st, i = run.idx + 1)
            /\ i <= run.idx => run.tasks[i].st \in ResolvedStatus
  BY <1>1 DEF Tracks
<1>3. plan # <<>> /\ Len(plan) \in Nat
  BY <1>1, <1>2
<1>4. ASSUME NEW i \in 1..Len(plan)
      PROVE  /\ i # run.idx + 1 => plan[i].st = run.tasks[i].st
             /\ i = run.idx + 1 /\ run.tasks[i].st \notin Settled => plan[i].st \notin Settled
             /\ i <= run.idx => plan[i].st \in ResolvedStatus
  BY <1>1, <1>2, <1>4 DEF Agrees, Settled
<1> QED
  BY <1>1, <1>2, <1>3, <1>4 DEF plan

\* an entry of a plan replaced
LEMMA OneEntry ==
    ASSUME NEW plan \in Seq(SubTask), NEW i \in 1..Len(plan), NEW x \in SubTask
    PROVE  LET new == [plan EXCEPT ![i] = x] IN
           /\ new \in Seq(SubTask) /\ Len(new) = Len(plan) /\ new[i] = x
           /\ \A j \in 1..Len(plan) : j # i => new[j] = plan[j]
<1> DEFINE new == [plan EXCEPT ![i] = x]
<1>1. new \in Seq(SubTask)
  BY PlanExcept
<1>2. plan \in [1..Len(plan) -> SubTask]
  OBVIOUS
<1>3. new[i] = x /\ \A j \in 1..Len(plan) : j # i => new[j] = plan[j]
  BY <1>2
<1>4. Len(new) = Len(plan)
  OBVIOUS
<1> QED
  BY <1>1, <1>3, <1>4

\* the sub-task that starts, or runs again, is in progress in the stored plan
LEMMA RunningProgress ==
    ASSUME LoopInv, run.pc \in {"pick", "judged"}, run.tasks[run.idx + 1].st \notin Settled,
           NEW x \in SubTask, x.st = "in_progress",
           \/ UNCHANGED <<snap, events>>
           \/ Logged([NoUpdate EXCEPT !.plan = [snap.state.plan EXCEPT ![run.idx + 1] = x],
                                      !.idx = run.idx], "executor"),
           UNCHANGED <<conf, eng, late, execs>>,
           run' \in Run, run'.pc = "exec", run'.tasks = run.tasks, run'.idx = run.idx,
           run'.kind = run.kind, run'.keep = run.keep
    PROVE  LoopInv' /\ Progress
<1> DEFINE plan == snap.state.plan
           new == [plan EXCEPT ![run.idx + 1] = x]
<1>1. run.pc \in OnPlan /\ run.pc \in InLoop
  BY DEF OnPlan, InLoop, InTask
<1>2. run.idx < Len(run.tasks)
  BY <1>1 DEF LoopInv, Sound, Placed
<1>3. /\ Tracks(run, plan) /\ plan \in Seq(SubTask) /\ plan # <<>>
      /\ run.tasks \in Seq(SubTask) /\ run.tasks # <<>> /\ Len(plan) = Len(run.tasks)
      /\ Len(plan) \in Nat /\ run.idx \in Nat
      /\ \A i \in 1..Len(plan) :
            /\ i # run.idx + 1 => plan[i].st = run.tasks[i].st
            /\ i = run.idx + 1 /\ run.tasks[i].st \notin Settled => plan[i].st \notin Settled
            /\ i <= run.idx => plan[i].st \in ResolvedStatus
  BY <1>1, OnThePlan
<1>a. Leaves
  BY DEF Leaves
<1>b. Placed(run')
  BY <1>2 DEF Placed, InLoop, InTask, PastLoop
<1>4. CASE UNCHANGED <<snap, events>>
  <2>1. Frame /\ MayWrite("", -1, <<>>)
    BY <1>4, FrameKept, NoWrite DEF LoopInv
  <2>2. Tracks(run', plan)
    BY <1>3 DEF Tracks
  <2>3. Sound(run', plan)
    BY <1>b, <2>2 DEF Sound, LoopInv
  <2> QED
    BY <1>a, <2>1, <2>3, QuietTo
<1>5. CASE Logged([NoUpdate EXCEPT !.plan = new, !.idx = run.idx], "executor")
  <2> DEFINE u == [NoUpdate EXCEPT !.plan = new, !.idx = run.idx]
  <2>1. run.idx + 1 \in 1..Len(plan) /\ run.idx \in Int
    BY <1>2, <1>3
  <2> HIDE DEF plan
  <2>2. /\ new \in Seq(SubTask) /\ Len(new) = Len(plan) /\ new[run.idx + 1] = x
        /\ \A j \in 1..Len(plan) : j # run.idx + 1 => new[j] = plan[j]
    BY <1>3, <2>1, OneEntry
  <2> HIDE DEF new
  <2>3. u \in StateUpdate /\ u.status = "" /\ u.idx = run.idx /\ u.plan = new
    BY <2>1, <2>2, PlanUpdates
  <2>4. new # <<>> /\ run.idx # -1
    BY <1>3, <2>2
  <2>5. MayWrite("", run.idx, new) /\ events' \in 0..MaxEvents
    <3> HIDE DEF u
    <3>1. Logged(u, "executor")
      BY <1>5 DEF u
    <3> QED
      BY <2>3, <3>1, LoggedWrites, StepNames DEF LoopInv
  <2>6. Frame
    BY <2>5, FrameKept DEF LoopInv
  <2>7. CASE snap' = snap
    <3>1. MayWrite("", -1, <<>>)
      BY <2>7 DEF MayWrite
    <3>2. Sound(run', plan)
      <4>1. Tracks(run', plan)
        BY <1>3 DEF Tracks
      <4> QED
        BY <1>b, <4>1 DEF Sound, LoopInv
    <3> QED
      BY <1>a, <2>6, <3>1, <3>2, QuietTo DEF plan
  <2>8. CASE Writes("", run.idx, new)
    <3>1. /\ snap' \in Snapshot /\ snap'.state.status = snap.state.status
          /\ snap'.state.idx = run.idx /\ snap'.state.plan = new
      BY <2>4, <2>8 DEF Writes
    <3>2. SettledStays
      BY <1>3, <2>2, <3>1 DEF SettledStays, plan
    <3>3. Advances
      <4>1. snap.state.idx \in Nat
        BY SnapTypes DEF LoopInv
      <4>2. ASSUME NEW i \in snap.state.idx + 1 .. run.idx
            PROVE  new[i].st \in ResolvedStatus
        <5>1. i \in 1..Len(plan) /\ i <= run.idx /\ i # run.idx + 1
          BY <1>2, <1>3, <4>1
        <5> QED
          BY <1>3, <2>2, <5>1
      <4> QED
        BY <3>1, <4>2 DEF Advances
    <3>4. Tracks(run', new)
      <4>1. \A i \in 1..Len(run.tasks) :
              Agrees(new[i].st, run.tasks[i].st, i = run.idx + 1)
        BY <1>3, <2>2 DEF Agrees
      <4> QED
        BY <1>3, <2>2, <4>1 DEF Tracks
    <3>5. Sound(run', new)
      BY <1>b, <3>4 DEF Sound, LoopInv
    <3>6. TypeOK'
      BY <2>6, <3>1 DEF TypeOK, Frame, LoopInv
    <3>7. Lives
      BY <3>1, <3>2 DEF Lives
    <3> QED
      BY <1>a, <1>3, <3>1, <3>3, <3>5, <3>6, <3>7 DEF LoopInv, Progress
  <2> QED
    BY <2>5, <2>7, <2>8 DEF MayWrite
<1> QED
  BY <1>4, <1>5

LEMMA SubTaskStartProgress ==
    ASSUME LoopInv, SubTaskStart
    PROVE  LoopInv' /\ Progress
<1> DEFINE plan == snap.state.plan
           k == run.idx + 1
           x == [plan[k] EXCEPT !.st = "in_progress"]
<1>1. /\ run.pc = "pick" /\ ~PassedOver(run.tasks[k].st)
      /\ run' = [run EXCEPT !.pc = "exec", !.tries = 0]
      /\ UNCHANGED <<conf, eng, late, execs>>
      /\ IF run.idx < Len(plan)
           THEN Logged([NoUpdate EXCEPT !.plan = [plan EXCEPT ![k].st = "in_progress"],
                                        !.idx = run.idx], "executor")
           ELSE UNCHANGED <<snap, events>>
  BY DEF SubTaskStart, At
<1>2. /\ run' \in Run /\ run'.pc = "exec" /\ run'.tasks = run.tasks /\ run'.idx = run.idx
      /\ run'.kind = run.kind /\ run'.keep = run.keep
  BY <1>1, RunTypes DEF Run, LoopInv
<1>3. run.pc \in OnPlan /\ run.pc \in InLoop
  BY <1>1 DEF OnPlan, InLoop
<1>4. /\ plan \in Seq(SubTask) /\ Len(plan) = Len(run.tasks) /\ Tracks(run, plan)
      /\ run.idx < Len(run.tasks) /\ run.idx \in Nat /\ Len(plan) \in Nat
  BY <1>3, OnThePlan DEF LoopInv, Sound, Placed
<1>5. k \in 1..Len(run.tasks) /\ run.idx < k
  BY <1>4
<1>6. run.tasks[k].st \notin Settled
  <2>1. run.kind = "run" => run.tasks[k].st \in {"done", "pending"}
    BY <1>4, <1>5 DEF Tracks
  <2>2. run.kind \in {"run", "resume"}
    BY RunTypes DEF LoopInv
  <2> QED
    BY <1>1, <2>1, <2>2 DEF PassedOver, Settled
<1>7. x \in SubTask /\ x.st = "in_progress"
  <2>1. plan[k] \in SubTask
    BY <1>4, <1>5
  <2> QED
    BY <2>1 DEF SubTask, SubTaskStatus
<1>8. [plan EXCEPT ![k].st = "in_progress"] = [plan EXCEPT ![k] = x]
  OBVIOUS
<1> HIDE DEF x
<1>9. \/ UNCHANGED <<snap, events>>
      \/ Logged([NoUpdate EXCEPT !.plan = [plan EXCEPT ![k] = x], !.idx = run.idx], "executor")
  <2>1. CASE run.idx < Len(plan)
    BY <1>1, <1>8, <2>1
  <2>2. CASE ~(run.idx < Len(plan))
    BY <1>1, <2>2
  <2> QED
    BY <2>1, <2>2
<1> QED
  BY <1>1, <1>2, <1>6, <1>7, <1>9, RunningProgress

LEMMA StrictRetryProgress ==
    ASSUME LoopInv, StrictRetry
    PROVE  LoopInv' /\ Progress
<1> DEFINE plan == snap.state.plan
           k == run.idx + 1
           x == [plan[k] EXCEPT !.st = "in_progress", !.att = plan[k].att + 1]
<1>1. /\ run.pc = "judged"
      /\ run' = [run EXCEPT !.pc = "exec", !.tries = @ + 1, !.bad = FALSE]
      /\ UNCHANGED <<conf, eng, late, execs>>
      /\ IF run.idx < Len(plan)
           THEN Logged([NoUpdate EXCEPT !.plan = Counted(plan, k), !.idx = run.idx], "executor")
           ELSE UNCHANGED <<snap, events>>
  BY DEF StrictRetry, At
<1>2. /\ run' \in Run /\ run'.pc = "exec" /\ run'.tasks = run.tasks /\ run'.idx = run.idx
      /\ run'.kind = run.kind /\ run'.keep = run.keep
  <2>1. run.tries + 1 \in Nat /\ run \in Run
    BY RunTypes DEF LoopInv
  <2> QED
    BY <1>1, <2>1 DEF Run
<1>3. run.pc \in OnPlan /\ run.pc \in InLoop /\ run.pc \in InTask
  BY <1>1 DEF OnPlan, InLoop, InTask
<1>4. /\ plan \in Seq(SubTask) /\ Len(plan) = Len(run.tasks)
      /\ run.idx < Len(run.tasks) /\ run.idx \in Nat /\ Len(plan) \in Nat
  BY <1>3, OnThePlan DEF LoopInv, Sound, Placed
<1>5. run.tasks[k].st \notin Settled
  BY <1>3 DEF LoopInv, Sound, Placed
<1>6. x \in SubTask /\ x.st = "in_progress"
  <2>1. plan[k] \in SubTask
    BY <1>4
  <2>2. plan[k].att + 1 \in Nat
    BY <2>1 DEF SubTask
  <2> QED
    BY <2>1, <2>2 DEF SubTask, SubTaskStatus
<1>7. Counted(plan, k) = [plan EXCEPT ![k] = x]
  <2>1. [plan[k] EXCEPT !.st = "in_progress", !.att = @ + 1] = x
    OBVIOUS
  <2> HIDE DEF plan, k, x
  <2> QED
    BY <2>1 DEF Counted
<1> HIDE DEF x
<1>8. \/ UNCHANGED <<snap, events>>
      \/ Logged([NoUpdate EXCEPT !.plan = [plan EXCEPT ![k] = x], !.idx = run.idx], "executor")
  BY <1>1, <1>7
<1> QED
  BY <1>1, <1>2, <1>5, <1>6, <1>8, RunningProgress

\* what is left to show of a step that writes
LEMMA WriteMove ==
    ASSUME LoopInv, Frame, snap' \in Snapshot, snap'.state.idx >= 0,
           Sound(run', snap'.state.plan), Lives, Advances, Leaves
    PROVE  LoopInv' /\ Progress
<1>1. TypeOK'
  BY DEF TypeOK, Frame, Sound, LoopInv
<1> QED
  BY <1>1 DEF LoopInv, Progress

\* only planning and executing tasks become executing
LEMMA BecomesExecuting ==
    ASSUME ValidTaskStatusTransition(snap.state.status, "executing")
    PROVE  Active
  BY DEF ValidTaskStatusTransition, Active, TerminalStatus

LEMMA CommitPlanProgress ==
    ASSUME LoopInv, CommitPlan
    PROVE  LoopInv' /\ Progress
<1> DEFINE u == [NoUpdate EXCEPT !.status = "executing", !.idx = 0, !.plan = run.tasks]
           good == [run EXCEPT !.pc = LoopPc, !.idx = 0]
<1>1. /\ run.pc = "planned" /\ Checked(u, "executor", good)
      /\ UNCHANGED <<conf, eng, late, execs>>
  BY DEF CommitPlan, At
<1>2. /\ run.tasks \in Seq(SubTask) /\ run.tasks # <<>>
      /\ \A i \in 1..Len(run.tasks) : run.tasks[i].st \in {"done", "pending"}
  BY <1>1, RunTypes DEF LoopInv, Sound, Placed
<1>3. u \in StateUpdate /\ u.status = "executing" /\ u.idx = 0 /\ u.plan = run.tasks
  <2>1. "executing" \in TaskStatus
    BY DEF TaskStatus
  <2>a. 0 \in Int
    OBVIOUS
  <2> DEFINE started == [NoUpdate EXCEPT !.status = "executing"]
  <2>2. started \in StateUpdate
    BY <2>1, NoUpdateFields, UpdateFields
  <2>3. [NoUpdate EXCEPT !.status = "executing", !.idx = 0] \in StateUpdate
    <3>1. [started EXCEPT !.idx = 0] \in StateUpdate
      <4> HIDE DEF started
      <4> QED
        BY <2>2, <2>a, UpdateFields
    <3> QED
      BY <3>1
  <2>4. u \in StateUpdate
    BY <1>2, <2>3, UpdateFields
  <2> QED
    BY <2>4 DEF NoUpdate
<1> HIDE DEF u
<1>4. /\ events' \in 0..MaxEvents
      /\ \/ Writes("executing", 0, run.tasks) /\ run' = good
         \/ snap' = snap /\ run' = [run EXCEPT !.pc = ErrorPc]
  BY <1>1, <1>3, CheckedWrites, StepNames DEF LoopInv
<1>5. Frame
  BY <1>1, <1>4, FrameKept DEF LoopInv
<1>6. CASE Writes("executing", 0, run.tasks) /\ run' = good
  <2>1. /\ snap' \in Snapshot /\ snap'.state.status = "executing" /\ snap'.state.idx = 0
        /\ snap'.state.plan = run.tasks /\ Active
    BY <1>2, <1>6, BecomesExecuting DEF Writes
  <2>2. PICK pc \in {"budget", "ctx"} : run' = [run EXCEPT !.pc = pc, !.idx = 0]
    BY <1>6 DEF LoopPc
  <2>3. /\ run' \in Run /\ run'.pc = pc /\ run'.tasks = run.tasks /\ run'.idx = 0
        /\ run'.kind = run.kind /\ run'.keep = run.keep
    BY <2>2, RunTypes DEF Run, LoopInv
  <2>4. Tracks(run', run.tasks)
    BY <1>2, <2>3 DEF Tracks, Agrees
  <2>5. Placed(run')
    BY <1>2, <2>3 DEF Placed, InLoop, InTask, PastLoop
  <2>6. Sound(run', snap'.state.plan)
    BY <2>1, <2>3, <2>4, <2>5 DEF Sound, LoopInv
  <2>7. Lives
    BY <1>2, <2>1 DEF Lives
  <2>8. Advances
    <3>1. snap.state.idx \in Int /\ snap.state.idx >= 0
      BY SnapTypes DEF LoopInv
    <3>2. \A i \in snap.state.idx + 1 .. 0 : FALSE
      BY <3>1
    <3> QED
      BY <2>1, <3>2 DEF Advances
  <2>9. Leaves
    BY <2>3 DEF Leaves
  <2> QED
    BY <1>5, <2>1, <2>6, <2>7, <2>8, <2>9, WriteMove
<1>7. CASE snap' = snap /\ run' = [run EXCEPT !.pc = ErrorPc]
  BY <1>5, <1>7, ErrorMove
<1> QED
  BY <1>4, <1>6, <1>7

LEMMA ResumeCommitProgress ==
    ASSUME LoopInv, ResumeCommit
    PROVE  LoopInv' /\ Progress
<1> DEFINE u == [NoUpdate EXCEPT !.status = "executing", !.idx = run.idx]
           good == [run EXCEPT !.pc = LoopPc]
           plan == snap.state.plan
<1>1. /\ run.pc = "resumed" /\ run.idx < Len(run.tasks) /\ Checked(u, "executor", good)
      /\ UNCHANGED <<conf, eng, late, execs>>
  BY DEF ResumeCommit, At
<1>2. run.pc \in OnPlan
  BY <1>1 DEF OnPlan
<1>3. /\ Tracks(run, plan) /\ run.idx \in Nat /\ run.idx <= Len(run.tasks)
      /\ Len(plan) = Len(run.tasks) /\ Len(plan) \in Nat
      /\ \A i \in 1..Len(plan) : i <= run.idx => plan[i].st \in ResolvedStatus
  BY <1>2, OnThePlan
<1>4. u \in StateUpdate /\ u.status = "executing" /\ u.idx = run.idx /\ u.plan = <<>>
  <2>1. "executing" \in TaskStatus /\ run.idx \in Int
    BY <1>3 DEF TaskStatus
  <2>2. [NoUpdate EXCEPT !.status = "executing"] \in StateUpdate
    BY <2>1, NoUpdateFields, UpdateFields
  <2>3. u \in StateUpdate
    BY <2>1, <2>2, UpdateFields
  <2> QED
    BY <2>3 DEF NoUpdate
<1> HIDE DEF u
<1>5. /\ events' \in 0..MaxEvents
      /\ \/ Writes("executing", run.idx, <<>>) /\ run' = good
         \/ snap' = snap /\ run' = [run EXCEPT !.pc = ErrorPc]
  BY <1>1, <1>4, CheckedWrites, StepNames DEF LoopInv
<1>6. Frame
  BY <1>1, <1>5, FrameKept DEF LoopInv
<1>7. CASE Writes("executing", run.idx, <<>>) /\ run' = good
  <2>1. /\ snap' \in Snapshot /\ snap'.state.status = "executing" /\ snap'.state.idx = run.idx
        /\ snap'.state.plan = plan /\ Active
    BY <1>3, <1>7, BecomesExecuting DEF Writes
  <2>2. PICK pc \in {"budget", "ctx"} : run' = [run EXCEPT !.pc = pc]
    BY <1>7 DEF LoopPc
  <2>3. /\ run' \in Run /\ run'.pc = pc /\ run'.tasks = run.tasks /\ run'.idx = run.idx
        /\ run'.kind = run.kind /\ run'.keep = run.keep
    BY <2>2, RunTypes DEF Run, LoopInv
  <2>4. Tracks(run', plan)
    BY <1>3, <2>3 DEF Tracks
  <2>5. Placed(run')
    BY <1>1, <2>3 DEF Placed, InLoop, InTask, PastLoop
  <2>6. Sound(run', snap'.state.plan)
    BY <2>1, <2>3, <2>4, <2>5 DEF Sound, LoopInv
  <2>7. Lives
    BY <2>1 DEF Lives
  <2>8. Advances
    <3>1. snap.state.idx \in Int /\ snap.state.idx >= 0
      BY SnapTypes DEF LoopInv
    <3>2. \A i \in snap.state.idx + 1 .. run.idx : i \in 1..Len(plan) /\ i <= run.idx
      BY <1>3, <3>1
    <3>3. \A i \in snap.state.idx + 1 .. run.idx : plan[i].st \in ResolvedStatus
      BY <1>3, <3>2
    <3> QED
      BY <2>1, <3>3 DEF Advances
  <2>9. Leaves
    BY <2>3 DEF Leaves
  <2> QED
    BY <1>3, <1>6, <2>1, <2>6, <2>7, <2>8, <2>9, WriteMove
<1>8. CASE snap' = snap /\ run' = [run EXCEPT !.pc = ErrorPc]
  BY <1>6, <1>8, ErrorMove
<1> QED
  BY <1>5, <1>7, <1>8

\* the loop is behind the last sub-task: the stored plan is resolved
LEMMA CommitTerminalProgress ==
    ASSUME LoopInv, CommitTerminal
    PROVE  LoopInv' /\ Progress
<1> DEFINE u == [NoUpdate EXCEPT !.status = "done"]
           good == [run EXCEPT !.pc = "exit"]
           plan == snap.state.plan
<1>1. /\ run.pc = "final" /\ Checked(u, "terminal", good)
      /\ UNCHANGED <<conf, eng, late, execs>>
  BY DEF CommitTerminal, At
<1>2. run.pc \in OnPlan /\ run.pc \in PastLoop
  BY <1>1 DEF OnPlan, PastLoop
<1>3. /\ plan # <<>> /\ Len(plan) = Len(run.tasks) /\ Len(plan) \in Nat
      /\ \A i \in 1..Len(plan) : i <= run.idx => plan[i].st \in ResolvedStatus
  BY <1>2, OnThePlan
<1>4. run.idx = Len(plan)
  BY <1>2, <1>3 DEF LoopInv, Sound, Placed
<1>5. Resolved(plan)
  BY <1>3, <1>4 DEF Resolved
<1>6. u \in StateUpdate /\ u.status = "done" /\ u.idx = -1 /\ u.plan = <<>>
  <2>1. "done" \in TaskStatus
    BY DEF TaskStatus
  <2>2. u \in StateUpdate
    BY <2>1, NoUpdateFields, UpdateFields
  <2> QED
    BY <2>2 DEF NoUpdate
<1> HIDE DEF u
<1>7. /\ events' \in 0..MaxEvents
      /\ \/ Writes("done", -1, <<>>) /\ run' = good
         \/ snap' = snap /\ run' = [run EXCEPT !.pc = ErrorPc]
  BY <1>1, <1>6, CheckedWrites, StepNames DEF LoopInv
<1>8. Frame
  BY <1>1, <1>7, FrameKept DEF LoopInv
<1>9. CASE Writes("done", -1, <<>>) /\ run' = good
  <2>1. /\ snap' \in Snapshot /\ snap'.state.status = "done" /\ snap'.state.plan = plan
        /\ snap'.state.idx = snap.state.idx
        /\ snap.state.status = "done" \/ Active
    BY <1>9 DEF Writes, ValidTaskStatusTransition, TerminalStatus, Active
  <2>2. run' \in Run /\ run'.pc = "exit" /\ run'.keep = run.keep
    BY <1>9, RunTypes DEF Run, LoopInv
  <2>3. Sound(run', snap'.state.plan) /\ Leaves
    BY <2>2, SoundOffPlan DEF OnPlan, InLoop, InTask, PastLoop, Leaves
  <2>4. Lives
    BY <1>5, <2>1 DEF Lives, SettledStays
  <2>5. snap.state.idx \in Int /\ snap.state.idx >= 0
    BY SnapTypes DEF LoopInv
  <2>6. \A i \in snap.state.idx + 1 .. snap'.state.idx : FALSE
    BY <2>1, <2>5, EmptyRange, Zenon
  <2> QED
    BY <1>8, <2>1, <2>3, <2>4, <2>5, <2>6, WriteMove DEF Advances
<1>10. CASE snap' = snap /\ run' = [run EXCEPT !.pc = ErrorPc]
  BY <1>8, <1>10, ErrorMove
<1> QED
  BY <1>7, <1>9, <1>10

LEMMA FinishProgress ==
    ASSUME LoopInv, FinishSubTask
    PROVE  LoopInv' /\ Progress
<1> DEFINE plan == snap.state.plan
           k == run.idx + 1
           new == WithOutcome(OutcomeStatus[run.out])
           u == [NoUpdate EXCEPT !.plan = new, !.idx = k]
           pc == AfterSubTask(k)
           good == [run EXCEPT !.tasks = new, !.idx = @ + 1, !.pc = pc]
<1>1. /\ run.pc = "finish" /\ Checked(u, NextAfter(k), good)
      /\ UNCHANGED <<conf, eng, late, execs>>
  BY DEF FinishSubTask, At
<1>2. run.pc \in OnPlan /\ run.pc \in InLoop /\ run.pc \in InTask
  BY <1>1 DEF OnPlan, InLoop, InTask
<1>3. /\ Tracks(run, plan) /\ plan \in Seq(SubTask) /\ run.tasks \in Seq(SubTask)
      /\ Len(plan) = Len(run.tasks) /\ Len(plan) \in Nat /\ run.idx \in Nat
      /\ \A i \in 1..Len(plan) :
            /\ i # k => plan[i].st = run.tasks[i].st
            /\ i = k /\ run.tasks[i].st \notin Settled => plan[i].st \notin Settled
            /\ i <= run.idx => plan[i].st \in ResolvedStatus
  BY <1>2, OnThePlan
<1>4. k \in 1..Len(run.tasks) /\ run.tasks[k].st \notin Settled
  BY <1>2, <1>3 DEF LoopInv, Sound, Placed
<1>5. /\ new \in Seq(SubTask) /\ Len(new) = Len(run.tasks) /\ new[k].st \in ResolvedStatus
      /\ \A i \in 1..Len(run.tasks) : i # k => new[i] = run.tasks[i]
  <2> DEFINE st == OutcomeStatus[run.out]
             att == IF k <= Len(plan) THEN plan[k].att ELSE run.tasks[k].att
             x == [run.tasks[k] EXCEPT !.st = st, !.att = att + 1]
  <2>1. st \in {"done", "skipped", "failed"}
    BY DEF OutcomeStatus, LoopInv, TypeOK, Run
  <2>2. att + 1 \in Nat
    <3>1. plan[k].att \in Nat /\ run.tasks[k].att \in Nat
      <4>1. plan[k] \in SubTask /\ run.tasks[k] \in SubTask
        BY <1>3, <1>4
      <4> QED
        BY <4>1 DEF SubTask
    <3>2. att \in Nat
      BY <3>1, Zenon
    <3> HIDE DEF att
    <3> QED
      BY <3>2
  <2>3. run.tasks[k] \in SubTask
    BY <1>3, <1>4
  <2>4. new = [run.tasks EXCEPT ![k] = x]
    BY DEF WithOutcome
  <2> HIDE DEF new, att, st
  <2>5. x \in SubTask /\ x.st = st
    BY <2>1, <2>2, <2>3 DEF SubTask, SubTaskStatus
  <2> HIDE DEF x, k
  <2>6. /\ new \in Seq(SubTask) /\ Len(new) = Len(run.tasks) /\ new[k] = x
        /\ \A i \in 1..Len(run.tasks) : i # k => new[i] = run.tasks[i]
    BY <1>3, <1>4, <2>4, <2>5, OneEntry
  <2> QED
    BY <2>1, <2>5, <2>6 DEF ResolvedStatus
<1>6. /\ pc \in {"budget", "ctx", "review", "final"}
      /\ IF k < Len(run.tasks) THEN pc \in {"budget", "ctx"} ELSE pc \in {"review", "final"}
  BY DEF AfterSubTask, LoopPc
<1>7. NextAfter(k) \in RuntimeStep
  BY StepNames DEF NextAfter
<1> HIDE DEF new, pc
<1>8. u \in StateUpdate /\ u.status = "" /\ u.idx = k /\ u.plan = new
  <2>1. k \in Int
    BY <1>4
  <2>2. new \in Seq(SubTask)
    BY <1>5
  <2> HIDE DEF k
  <2> QED
    BY <2>1, <2>2, PlanUpdates
<1>9. new # <<>> /\ k # -1
  BY <1>4, <1>5
<1> HIDE DEF u
<1>10. /\ events' \in 0..MaxEvents
       /\ \/ Writes("", k, new) /\ run' = good
          \/ snap' = snap /\ run' = [run EXCEPT !.pc = ErrorPc]
  BY <1>1, <1>7, <1>8, CheckedWrites DEF LoopInv
<1>11. Frame
  BY <1>1, <1>10, FrameKept DEF LoopInv
<1>12. CASE Writes("", k, new) /\ run' = good
  <2>1. /\ snap' \in Snapshot /\ snap'.state.status = snap.state.status
        /\ snap'.state.idx = k /\ snap'.state.plan = new
    BY <1>9, <1>12 DEF Writes
  <2>2. /\ run' \in Run /\ run'.pc = pc /\ run'.tasks = new /\ run'.idx = k
        /\ run'.kind = run.kind /\ run'.keep = run.keep
    <3>1. run' = [run EXCEPT !.tasks = new, !.idx = k, !.pc = pc]
      BY <1>12
    <3>2. k \in Nat /\ run \in Run
      BY <1>4, RunTypes DEF LoopInv
    <3> HIDE DEF k
    <3> QED
      BY <1>5, <1>6, <3>1, <3>2 DEF Run
  <2>3. ASSUME NEW i \in 1..Len(run.tasks)
        PROVE  /\ i <= k => new[i].st \in ResolvedStatus
               /\ plan[i].st \in Settled => new[i].st \in Settled
               /\ run.kind = "run" /\ i > k => new[i].st \in {"done", "pending"}
    <3>1. CASE i = k
      BY <1>3, <1>4, <1>5, <3>1
    <3>2. CASE i # k
      <4>1. new[i] = run.tasks[i] /\ plan[i].st = run.tasks[i].st
        BY <1>3, <1>5, <3>2
      <4>2. i <= k => i <= run.idx
        BY <1>3, <3>2
      <4>3. i > k => i > run.idx
        BY <1>3
      <4> QED
        BY <1>3, <4>1, <4>2, <4>3 DEF Tracks
    <3> QED
      BY <3>1, <3>2
  <2>4. Tracks(run', new)
    BY <1>4, <1>5, <1>9, <2>2, <2>3 DEF Tracks, Agrees
  <2>5. Placed(run')
    BY <1>3, <1>4, <1>5, <1>6, <2>2 DEF Placed, InLoop, InTask, PastLoop
  <2>6. Sound(run', snap'.state.plan) /\ Leaves
    BY <1>6, <2>1, <2>2, <2>4, <2>5 DEF Sound, LoopInv, Leaves
  <2>7. Lives
    <3>1. SettledStays
      BY <1>3, <1>5, <2>1, <2>3 DEF SettledStays
    <3> QED
      BY <2>1, <3>1 DEF Lives
  <2>8. Advances
    <3>1. snap.state.idx \in Int /\ snap.state.idx >= 0
      BY SnapTypes DEF LoopInv
    <3>2. \A i \in snap.state.idx + 1 .. k : i \in 1..Len(run.tasks) /\ i <= k
      BY <1>4, <3>1
    <3> QED
      BY <2>1, <2>3, <3>2 DEF Advances
  <2>9. snap'.state.idx >= 0
    BY <1>4, <2>1
  <2> QED
    BY <1>11, <2>1, <2>6, <2>7, <2>8, <2>9, WriteMove
<1>13. CASE snap' = snap /\ run' = [run EXCEPT !.pc = ErrorPc]
  BY <1>11, <1>13, ErrorMove
<1> QED
  BY <1>10, <1>12, <1>13

LEMMA ResolveProgress ==
    ASSUME LoopInv, Resolve
    PROVE  LoopInv' /\ Progress
<1> DEFINE s == snap.state
           clear == [NoUpdate EXCEPT !.clearIntr = TRUE]
           k == s.intr.idx + 1
           new == [s.plan EXCEPT ![k].st = "skipped"]
           skip == [NoUpdate EXCEPT !.plan = new, !.idx = k, !.clearIntr = TRUE]
<1>1. /\ run.pc = "idle" /\ Event("resolve") /\ UNCHANGED <<conf, run, eng, late, execs>>
      /\ \/ snap' = IF CanCommit(Failed) THEN Committed(Failed, "terminal") ELSE snap
         \/ snap' = Committed(clear, "executor")
         \/ s.intr.idx \in 0..Len(s.plan) - 1 /\ snap' = Committed(skip, "executor")
  BY DEF Resolve, At
<1>2. Frame
  <2>1. events' \in 0..MaxEvents
    BY <1>1, EventType DEF LoopInv, TypeOK
  <2> QED
    BY <1>1, <2>1, FrameKept DEF LoopInv
<1>3. ASSUME NEW plan
      PROVE  Sound(run', plan)
  <2>1. run' = run /\ run \in Run /\ run.pc \notin OnPlan \cup {"planned"}
    BY <1>1, RunTypes DEF LoopInv, OnPlan, InLoop, InTask, PastLoop
  <2> QED
    BY <2>1, SoundOffPlan
<1>4. Leaves /\ Advances
  BY <1>1 DEF Leaves, Advances, At
<1>5. CASE snap' = IF CanCommit(Failed) THEN Committed(Failed, "terminal") ELSE snap
  <2>1. MayWrite("failed", -1, <<>>)
    BY <1>5, CommitWrites, FailedUpdate, StepNames DEF MayWrite, LoopInv, TypeOK
  <2> QED
    BY <1>2, <1>3, <1>4, <2>1, StopMove
<1>6. CASE snap' = Committed(clear, "executor")
  <2>1. clear \in StateUpdate /\ clear.status = "" /\ clear.idx = -1 /\ clear.plan = <<>>
    BY QuietUpdates
  <2>2. CanCommit(clear)
    BY <2>1 DEF CanCommit, Accepts
  <2> HIDE DEF clear
  <2>3. MayWrite("", -1, <<>>)
    BY <1>6, <2>1, <2>2, CommitWrites, StepNames DEF MayWrite, LoopInv, TypeOK
  <2> QED
    BY <1>2, <1>3, <1>4, <2>3, QuietTo
<1>7. CASE s.intr.idx \in 0..Len(s.plan) - 1 /\ snap' = Committed(skip, "executor")
  <2> DEFINE x == [s.plan[k] EXCEPT !.st = "skipped"]
  <2>1. s.plan \in Seq(SubTask) /\ Len(s.plan) \in Nat /\ k \in 1..Len(s.plan)
    BY <1>7, SnapTypes DEF LoopInv
  <2>2. x \in SubTask /\ x.st = "skipped"
    <3>1. s.plan[k] \in SubTask
      BY <2>1
    <3> QED
      BY <3>1 DEF SubTask, SubTaskStatus
  <2>3. new = [s.plan EXCEPT ![k] = x]
    OBVIOUS
  <2> HIDE DEF x, new
  <2>4. /\ new \in Seq(SubTask) /\ Len(new) = Len(s.plan) /\ new[k] = x
        /\ \A j \in 1..Len(s.plan) : j # k => new[j] = s.plan[j]
    BY <2>1, <2>2, <2>3, OneEntry
  <2>5. skip \in StateUpdate /\ skip.status = "" /\ skip.idx = k /\ skip.plan = new
    <3>1. k \in Int
      BY <2>1
    <3>2. new \in Seq(SubTask)
      BY <2>4
    <3> HIDE DEF k
    <3> QED
      BY <3>1, <3>2, PlanUpdates
  <2>6. CanCommit(skip)
    BY <2>5 DEF CanCommit, Accepts
  <2> HIDE DEF skip
  <2>7. Writes("", k, new)
    BY <1>7, <2>5, <2>6, CommitWrites, StepNames DEF LoopInv, TypeOK
  <2>8. /\ snap' \in Snapshot /\ snap'.state.status = s.status /\ snap'.state.idx = k
        /\ snap'.state.plan = new /\ k >= 0
    BY <2>1, <2>4, <2>7 DEF Writes
  <2>9. Lives
    <3>1. SettledStays
      BY <2>1, <2>2, <2>4, <2>8 DEF SettledStays, Settled
    <3> QED
      BY <2>8, <3>1 DEF Lives
  <2>10. Sound(run', snap'.state.plan)
    BY <1>3
  <2> QED
    BY <1>2, <1>4, <2>8, <2>9, <2>10, WriteMove
<1> QED
  BY <1>1, <1>5, <1>6, <1>7

-----------------------------------------------------------------------------
(* The theorems *)

\* Every step keeps the invariant and moves the task as Progress allows.
LEMMA LoopStep ==
    ASSUME LoopInv, [Next]_vars
    PROVE  LoopInv' /\ (Progress \/ UNCHANGED vars)
<1>1. CASE UNCHANGED vars
  BY <1>1 DEF vars, LoopInv, TypeOK, Sound, Tracks, Placed
<1>2. CASE Next
  <2>1. CASE ReplanContext
    BY <2>1, ReplanProgress
  <2>2. CASE PlanReady
    BY <2>2, PlanReadyProgress
  <2>3. CASE CommitPlan
    BY <2>3, CommitPlanProgress
  <2>4. CASE BudgetGate \/ BudgetTimeout \/ BudgetCancelled \/ CtxGate \/ PlanError
               \/ StrictAccept \/ StrictGiveUp \/ ReviewDecide
    BY <2>4, GatesProgress
  <2>5. CASE SkipSettled
    BY <2>5, SkipProgress
  <2>6. CASE SubTaskStart
    BY <2>6, SubTaskStartProgress
  <2>7. ASSUME NEW ok \in BOOLEAN, Execute(ok) \/ StrictReview \/ ReviewTask
        PROVE  LoopInv' /\ Progress
    BY <2>7, ModelCallsProgress
  <2>8. CASE StrictRetry
    BY <2>8, StrictRetryProgress
  <2>9. ASSUME NEW choice \in {"retry", "skip", "abort"},
               BudgetContinue \/ PauseSubTask \/ AnswerPause(choice)
        PROVE  LoopInv' /\ Progress
    BY <2>9, PausesProgress
  <2>10. CASE FinishSubTask
    BY <2>10, FinishProgress
  <2>11. CASE CommitTerminal
    BY <2>11, CommitTerminalProgress
  <2>12. CASE CommitFailure \/ Exit \/ Cleanup \/ Panic \/ Crash \/ Sweep
    BY <2>12, EndsProgress
  <2>13. CASE ResumeStart \/ ResumeMarkDone
    BY <2>13, ResumesProgress
  <2>14. CASE ResumeCommit
    BY <2>14, ResumeCommitProgress
  <2>15. CASE InterruptWithCancel \/ InterruptWithCommit \/ WallclockElapses
    BY <2>15, OutsideProgress
  <2>16. CASE Resolve
    BY <2>16, ResolveProgress
  <2> QED
    BY <1>2, <2>1, <2>2, <2>3, <2>4, <2>5, <2>6, <2>7, <2>8, <2>9, <2>10, <2>11, <2>12,
       <2>13, <2>14, <2>15, <2>16 DEF Next, Step
<1> QED
  BY <1>1, <1>2

LEMMA LoopInit == ASSUME Init PROVE LoopInv
<1>1. CreatedState \in State /\ CreatedState.idx = 0
  BY StateConstants DEF CreatedState
<1>2. snap \in Snapshot /\ snap.state.idx >= 0
  BY <1>1 DEF Init, Snapshot
<1>3. run \in Run /\ run.pc = "plan" /\ run.keep = <<>>
  <2>1. run = [pc |-> "plan", kind |-> "run", cancelled |-> FALSE, tasks |-> <<>>, idx |-> 0,
               tries |-> 0, out |-> "done", bad |-> FALSE, attempt |-> 0, keep |-> <<>>]
    BY DEF Init, IdleRun
  <2> QED
    BY <2>1 DEF Run
<1>4. Sound(run, snap.state.plan)
  BY <1>3 DEF Sound, Placed, OnPlan, InLoop, InTask, PastLoop
<1>5. events \in 0..MaxEvents
  BY ConfigTypes DEF Init
<1>6. /\ conf \in Configs /\ eng \in [task : BOOLEAN, mu : BOOLEAN]
      /\ late \in BOOLEAN /\ execs \in Nat
  BY DEF Init
<1> QED
  BY <1>2, <1>3, <1>4, <1>5, <1>6 DEF TypeOK, LoopInv

\* The loop's local plan and the stored plan never part, in any configuration: LoopInv
\* holds in every reachable state.
THEOREM LoopInvariant == Spec => []LoopInv
<1>1. Init => LoopInv
  BY LoopInit
<1>2. LoopInv /\ [Next]_vars => LoopInv'
  BY LoopStep
<1> QED
  BY <1>1, <1>2, PTL DEF Spec

\* The snapshot, the goroutine of run or RunFromState and the engine keep the values of
\* their Go types, whatever the configuration and the events.
THEOREM LoopTypeCorrect == Spec => []TypeOK
<1>1. LoopInv => TypeOK
  BY DEF LoopInv
<1> QED
  BY <1>1, LoopInvariant, PTL

\* CurrentIdx moves forward only over sub-tasks resolved in the stored plan, although the
\* loop decides on its local copy.
THEOREM LoopAdvancesOverResolved == Spec => AdvanceOverResolved
<1>1. ASSUME LoopInv, [Next]_vars
      PROVE  [~At("idle")
                => \A i \in snap.state.idx + 1 .. snap'.state.idx :
                      snap'.state.plan[i].st \in ResolvedStatus]_vars
  BY <1>1, LoopStep DEF Progress, Advances
<1> QED
  BY <1>1, LoopInvariant, PTL DEF Spec, AdvanceOverResolved

\* run never returns from a task that is still planning or executing, unless the store
\* fails the boundary of its deferred check.
THEOREM RunLeavesTaskTerminal == Spec => RunLeavesTerminal
<1>1. ASSUME LoopInv, [Next]_vars
      PROVE  [run.kind = "run" /\ run'.pc = "cleanup" /\ run.pc # "cleanup"
                => \/ snap'.state.status \in TerminalStatus
                   \/ events' # events /\ snap' = snap]_vars
  BY <1>1, LoopStep DEF Progress, Leaves
<1> QED
  BY <1>1, LoopInvariant, PTL DEF Spec, RunLeavesTerminal

\* The legacy loop implements TaskLifecycle for every plan and every configuration:
\* settled work stays settled, a task is done only when its plan is resolved, and a
\* terminal status is final.
THEOREM LoopKeepsLifecycle == Spec => LoopImplementsLifecycle
<1>1. Init => Lifecycle!Init
  <2>1. Lifecycle!CreatedState = CreatedState
    BY Zenon DEF Lifecycle!CreatedState, CreatedState, Lifecycle!NoInterrupt, NoInterrupt,
      Lifecycle!NoReplan, NoReplan, Lifecycle!NoStep, NoStep
  <2>2. Init => snap.state = CreatedState
    BY DEF Init
  <2> QED
    BY <2>1, <2>2 DEF Lifecycle!Init
<1>2. ASSUME LoopInv, [Next]_vars
      PROVE  [Lifecycle!Next]_(snap.state)
  <2>1. CASE UNCHANGED vars
    BY <2>1 DEF vars
  <2>2. CASE Progress
    <3>1. Lives
      BY <2>2 DEF Progress
    <3> QED
      BY <3>1 DEF Lives, Active, SettledStays, Settled, Resolved, Lifecycle!Next,
        Lifecycle!NewPlan, Lifecycle!Work, Lifecycle!Resume, Lifecycle!Finish, Lifecycle!Stop,
        Lifecycle!Active, Lifecycle!SettledStays, Lifecycle!Settled, Lifecycle!AllResolved,
        Lifecycle!TerminalStatus, TerminalStatus, Lifecycle!ResolvedStatus, ResolvedStatus
  <2> QED
    BY <1>2, <2>1, <2>2, LoopStep
<1> QED
  BY <1>1, <1>2, LoopInvariant, PTL DEF Spec, LoopImplementsLifecycle, Lifecycle!Spec

-----------------------------------------------------------------------------
(***************************************************************************)
(* The token budget.  SinceGate counts the model calls since the gate last *)
(* let the loop pass, by the place the goroutine is at; while no operator  *)
(* continues, the tokens charged stay below the limit plus that many calls *)
(* and one for each event.                                                 *)
(***************************************************************************)
SinceGate(r) ==
    IF r.pc \in {"plan", "replan"} THEN IF conf.review = "task" THEN 2 ELSE 0
    ELSE IF r.pc = "planned" THEN IF conf.review = "task" THEN 3 ELSE 1
    ELSE IF r.pc = "pick" \/ (r.pc = "ctx" /\ r.kind = "run") THEN 0
    ELSE IF r.pc = "exec" THEN 2 * r.tries
    ELSE IF r.pc = "strict" THEN 2 * r.tries + 1
    ELSE IF r.pc = "judged" THEN 2 * r.tries + 2
    ELSE IF r.pc \in {"pausing", "paused", "finish", "review"} /\ conf.review = "task" THEN 1
    ELSE IF r.pc = "reviewed" THEN 2
    ELSE IF r.pc = "resumed" THEN CallsPerGate - 1
    ELSE CallsPerGate

\* places only some configurations reach, and the strict retries used up there
OnMode(r) ==
    /\ r.pc \in {"review", "reviewed", "replan"} => conf.review = "task"
    /\ r.pc \in {"strict", "judged"} => conf.review = "strict"
    /\ r.pc \in {"exec", "strict", "judged"} => r.tries <= MaxRetriesPerSub
    /\ r.pc = "exec" /\ conf.review # "strict" => r.tries = 0
    /\ r.pc = "ask" => conf.continue

Metered == conf.limit > 0 /\ ~conf.continue

\* the tokens charged are within n calls of the limit
Within(n) == snap.state.used < conf.limit + n * MaxCost

BudgetInv == OnMode(run) /\ (Metered => Within(SinceGate(run) + events))

\* a finite set of numbers has a largest one
LEMMA Largest ==
    ASSUME NEW S, IsFiniteSet(S), S \subseteq Nat, S # {}
    PROVE  \E x \in S : \A y \in S : y <= x
<1> DEFINE HasTop(T) == \E x \in T : \A y \in T : y <= x
           Bad == {T \in SUBSET S : T # {} /\ ~HasTop(T)}
           Sizes == {Cardinality(T) : T \in Bad}
<1>1. \A T \in SUBSET S : IsFiniteSet(T) /\ Cardinality(T) \in Nat
  BY FS_Subset, FS_CardinalityType
<1> SUFFICES ASSUME ~HasTop(S) PROVE FALSE
  OBVIOUS
<1>2. Sizes \subseteq Nat /\ Sizes # {}
  <2>1. S \in Bad
    OBVIOUS
  <2> QED
    BY <1>1, <2>1
<1> HIDE DEF HasTop
<1>3. PICK n \in Sizes : \A k \in Sizes : n <= k
  <2> HIDE DEF Sizes
  <2> QED
    BY <1>2, Smallest
<1>4. PICK T \in SUBSET S : T # {} /\ ~HasTop(T) /\ n = Cardinality(T)
  BY <1>3
<1>5. PICK x \in T : TRUE
  BY <1>4
<1> DEFINE R == T \ {x}
<1>6. R \in SUBSET S /\ Cardinality(R) = n - 1 /\ n \in Nat
  BY <1>1, <1>4, <1>5, FS_RemoveElement
<1>7. R = {} \/ HasTop(R)
  <2> SUFFICES ASSUME R # {}, ~HasTop(R) PROVE FALSE
    OBVIOUS
  <2>1. R \in Bad
    BY <1>6
  <2>2. Cardinality(R) \in Sizes
    BY <2>1
  <2>3. n <= Cardinality(R)
    BY <1>3, <2>2
  <2> QED
    BY <1>6, <2>3
<1>8. T \subseteq Nat
  OBVIOUS
<1>9. CASE R = {}
  <2>1. T = {x}
    BY <1>5, <1>9
  <2>2. HasTop(T)
    BY <1>8, <2>1 DEF HasTop
  <2> QED
    BY <1>4, <2>2
<1>10. CASE HasTop(R)
  <2>1. PICK m \in R : \A y \in R : y <= m
    BY <1>10 DEF HasTop
  <2>2. m \in T /\ x \in T /\ m \in Nat /\ x \in Nat /\ \A y \in T : y = x \/ y <= m
    BY <1>5, <1>8, <2>1
  <2>3. CASE x <= m
    <3>1. \A y \in T : y <= m
      BY <2>2, <2>3
    <3> QED
      BY <1>4, <2>2, <3>1 DEF HasTop
  <2>4. CASE m <= x
    <3>1. \A y \in T : y <= x
      BY <1>8, <2>2, <2>4
    <3> QED
      BY <1>4, <2>2, <3>1 DEF HasTop
  <2> QED
    BY <2>2, <2>3, <2>4
<1> QED
  BY <1>7, <1>9, <1>10

LEMMA CostTypes ==
    ASSUME conf \in Configs
    PROVE  /\ MaxCost \in Nat /\ \A t \in conf.costs : t \in Nat /\ t <= MaxCost
           /\ conf.limit \in Nat /\ conf.review \in {"task", "strict", "none"}
           /\ MaxRetriesPerSub \in Nat
<1>1. conf.costs \subseteq Nat /\ conf.costs # {} /\ IsFiniteSet(conf.costs)
  BY LoopAssumption, ConfigTypes
<1>2. \E c \in conf.costs : \A d \in conf.costs : d <= c
  BY <1>1, Largest
<1>3. MaxCost \in conf.costs /\ \A d \in conf.costs : d <= MaxCost
  BY <1>2 DEF MaxCost
<1> QED
  BY <1>1, <1>3, LoopAssumption DEF Config

LEMMA SinceGateBounds ==
    ASSUME conf \in Configs, NEW r \in Run, OnMode(r)
    PROVE  /\ CallsPerGate \in Nat \ {0} /\ SinceGate(r) \in Nat
           /\ SinceGate(r) <= CallsPerGate
<1>1. r.tries \in Nat /\ MaxRetriesPerSub \in Nat /\ conf.review \in {"task", "strict", "none"}
  BY CostTypes DEF Run
<1>2. /\ conf.review = "task" => CallsPerGate = 3
      /\ conf.review = "strict" => CallsPerGate = 2 * (MaxRetriesPerSub + 1)
      /\ conf.review = "none" => CallsPerGate = 1
  BY <1>1 DEF CallsPerGate
<1>3. CallsPerGate \in Nat \ {0}
  BY <1>1, <1>2
<1> DEFINE C == CallsPerGate
<1>4. CASE conf.review = "task"
  <2>1. C = 3
    BY <1>2, <1>4
  <2> HIDE DEF C
  <2>2. r.pc \in {"exec", "strict", "judged"} => r.tries = 0
    BY <1>4 DEF OnMode
  <2>3. SinceGate(r) \in 0..3
    BY <1>4, <2>1, <2>2 DEF SinceGate, OnMode, C
  <2> QED
    BY <1>3, <2>1, <2>3 DEF C
<1>5. CASE conf.review = "strict"
  <2>1. C = 2 * (MaxRetriesPerSub + 1)
    BY <1>2, <1>5
  <2> HIDE DEF C
  <2>3. r.pc \in {"exec", "strict", "judged"} => r.tries <= MaxRetriesPerSub
    BY DEF OnMode
  <2>4. CASE r.pc \in {"exec", "strict", "judged"}
    BY <1>1, <2>1, <2>3, <2>4 DEF SinceGate, C
  <2>5. CASE r.pc \notin {"exec", "strict", "judged"}
    <3>1. SinceGate(r) \in {0, 1, C, C - 1}
      BY <1>5, <2>5 DEF SinceGate, OnMode, C
    <3> QED
      BY <1>1, <2>1, <3>1 DEF C
  <2> QED
    BY <2>4, <2>5
<1>6. CASE conf.review = "none"
  <2>1. C = 1
    BY <1>2, <1>6
  <2> HIDE DEF C
  <2>2. SinceGate(r) \in {0, 1}
    BY <1>6, <2>1 DEF SinceGate, OnMode, C
  <2> QED
    BY <1>3, <2>1, <2>2 DEF C
<1> QED
  BY <1>1, <1>4, <1>5, <1>6

\* more calls since the gate leave more room
LEMMA Stretch ==
    ASSUME NEW used \in Nat, NEW limit \in Nat, NEW cost \in Nat, NEW n \in Nat, NEW m \in Nat
    PROVE  /\ n <= m /\ used < limit + n * cost => used < limit + m * cost
           /\ \A t \in Nat : t <= cost /\ n + 1 <= m /\ used < limit + n * cost
                => used + t < limit + m * cost
           /\ used < limit => used < limit + m * cost
<1>1. \A a, b \in Nat : a <= b => a * cost \in Nat /\ b * cost \in Nat /\ a * cost <= b * cost
  <2> SUFFICES ASSUME NEW a \in Nat, NEW b \in Nat, a <= b
               PROVE  a * cost \in Nat /\ b * cost \in Nat /\ a * cost <= b * cost
    OBVIOUS
  <2>1. PICK d \in Nat : b = a + d
    <3>1. b - a \in Nat /\ b = a + (b - a)
      OBVIOUS
    <3> QED
      BY <3>1
  <2>2. b * cost = a * cost + d * cost
    BY <2>1
  <2>3. a * cost \in Nat /\ d * cost \in Nat
    OBVIOUS
  <2> QED
    BY <2>2, <2>3
<1>2. (n + 1) * cost = n * cost + cost
  OBVIOUS
<1>3. n * cost \in Nat /\ m * cost \in Nat /\ (n + 1) * cost \in Nat
  BY <1>1
<1>4. n <= m => n * cost <= m * cost
  BY <1>1
<1>5. n + 1 <= m => (n + 1) * cost <= m * cost
  BY <1>1
<1> DEFINE x == n * cost
           y == m * cost
           z == (n + 1) * cost
<1>6. x \in Nat /\ y \in Nat /\ z = x + cost /\ (n <= m => x <= y) /\ (n + 1 <= m => z <= y)
  BY <1>2, <1>3, <1>4, <1>5
<1> HIDE DEF x, y, z
<1>7. /\ n <= m /\ used < limit + x => used < limit + y
      /\ \A t \in Nat : t <= cost /\ n + 1 <= m /\ used < limit + x => used + t < limit + y
      /\ used < limit => used < limit + y
  BY <1>6
<1> QED
  BY <1>7 DEF x, y

LEMMA Primes ==
    ASSUME conf' = conf
    PROVE  /\ MaxCost' = MaxCost /\ SinceGate(run)' = SinceGate(run')
           /\ OnMode(run)' = OnMode(run') /\ Metered' = Metered
<1>1. MaxCost' = MaxCost /\ Metered' = Metered
  BY DEF MaxCost, Metered
<1>2. SinceGate(run)' = SinceGate(run')
  BY DEF SinceGate, CallsPerGate
<1>3. OnMode(run)' = OnMode(run')
  BY DEF OnMode
<1> QED
  BY <1>1, <1>2, <1>3

Uses(t) == snap'.state.used = snap.state.used + t

\* the goroutine goes on without a model call, after one, or through the gate
BudgetMove ==
    \/ Uses(0) /\ SinceGate(run) + events <= SinceGate(run') + events'
    \/ /\ \E t \in conf.costs : Uses(t)
       /\ SinceGate(run) + events + 1 <= SinceGate(run') + events'
    \/ Uses(0) /\ snap.state.used < conf.limit

LEMMA BudgetKept ==
    ASSUME TypeOK, TypeOK', BudgetInv, conf' = conf, OnMode(run'), Metered => BudgetMove
    PROVE  BudgetInv'
<1>1. OnMode(run)' /\ Metered' = Metered
  BY Primes
<1>2. ASSUME Metered
      PROVE  Within(SinceGate(run) + events)'
  <2> DEFINE n == SinceGate(run) + events
             m == SinceGate(run') + events'
             used == snap.state.used
  <2>1. n \in Nat /\ m \in Nat
    BY SinceGateBounds DEF TypeOK, BudgetInv
  <2>2. used \in Nat /\ MaxCost \in Nat /\ conf.limit \in Nat
        /\ \A t \in conf.costs : t \in Nat /\ t <= MaxCost
    BY CostTypes DEF TypeOK, Snapshot, State
  <2>3. used < conf.limit + n * MaxCost
    BY <1>2 DEF BudgetInv, Within
  <2>4. MaxCost' = MaxCost /\ (SinceGate(run) + events)' = m
    BY Primes
  <2>5. \/ snap'.state.used = used /\ n <= m
        \/ (\E t \in conf.costs : snap'.state.used = used + t) /\ n + 1 <= m
        \/ snap'.state.used = used /\ used < conf.limit
    <3>1. used + 0 = used
      BY <2>2
    <3> QED
      BY <1>2, <3>1 DEF BudgetMove, Uses
  <2> HIDE DEF n, m, used
  <2>6. snap'.state.used < conf.limit + m * MaxCost
    BY <2>1, <2>2, <2>3, <2>5, Stretch
  <2> QED
    BY <2>4, <2>6 DEF Within
<1> QED
  BY <1>1, <1>2 DEF BudgetInv

LEMMA UsedByCommit ==
    ASSUME TypeOK, NEW u, NEW next, snap' = Committed(u, next)
    PROVE  Uses(u.tokens)
<1> DEFINE new == ApplyStateUpdates(snap.state, u)
<1>1. snap'.state = new
  BY SeedIsState DEF TypeOK, Committed
<1>2. new.used = snap.state.used + u.tokens
  BY ReducerFields
<1> HIDE DEF new
<1> QED
  BY <1>1, <1>2 DEF Uses

LEMMA UsedByNone ==
    ASSUME TypeOK, snap' = snap
    PROVE  Uses(0)
<1>1. snap.state.used \in Nat
  BY DEF TypeOK, Snapshot, State
<1> QED
  BY <1>1 DEF Uses

LEMMA UsedByLogged ==
    ASSUME TypeOK, NEW u, NEW next, Logged(u, next)
    PROVE  (Uses(0) \/ Uses(u.tokens)) /\ events' \in Nat /\ events <= events'
<1>1. events \in Nat
  BY ConfigTypes DEF TypeOK
<1> QED
  BY <1>1, UsedByCommit, UsedByNone DEF Logged, Event

LEMMA UsedByChecked ==
    ASSUME TypeOK, NEW u, NEW next, NEW good, Checked(u, next, good), u.tokens = 0
    PROVE  /\ Uses(0) /\ events' \in Nat /\ events <= events'
           /\ run' = good \/ run' = [run EXCEPT !.pc = ErrorPc]
<1>1. events \in Nat
  BY ConfigTypes DEF TypeOK
<1>2. Uses(0)
  BY UsedByCommit, UsedByNone DEF Checked
<1> QED
  BY <1>1, <1>2 DEF Checked, Event, Goto

LEMMA UsedByTelemetry ==
    ASSUME TypeOK, NEW t \in conf.costs, NEW next, Telemetry(t, next)
    PROVE  (Uses(0) \/ \E c \in conf.costs : Uses(c)) /\ events' \in Nat /\ events <= events'
<1>1. events \in Nat
  BY ConfigTypes DEF TypeOK
<1>2. CASE t = 0
  BY <1>1, <1>2, UsedByNone DEF Telemetry
<1>3. CASE t # 0
  <2> DEFINE u == [NoUpdate EXCEPT !.tokens = t]
  <2>1. u.tokens = t
    BY DEF NoUpdate
  <2>2. Logged(u, next)
    BY <1>3 DEF Telemetry
  <2> HIDE DEF u
  <2> QED
    BY <2>1, <2>2, UsedByLogged
<1> QED
  BY <1>2, <1>3

\* places with nothing left to count
Full(r) ==
    \/ r.pc \in {"idle", "budget", "fail", "exit", "cleanup", "final"}
    \/ r.pc = "ctx" /\ r.kind = "resume"

LEMMA FullPlaces ==
    ASSUME NEW r, Full(r)
    PROVE  SinceGate(r) = CallsPerGate /\ OnMode(r)
  BY DEF Full, SinceGate, OnMode

LEMMA ToFull ==
    ASSUME TypeOK, TypeOK', BudgetInv, conf' = conf, Full(run'), Uses(0), events <= events'
    PROVE  BudgetInv'
<1>1. SinceGate(run') = CallsPerGate /\ OnMode(run')
  BY FullPlaces
<1>2. SinceGate(run) \in Nat /\ CallsPerGate \in Nat /\ SinceGate(run) <= CallsPerGate
      /\ events \in Nat /\ events' \in Nat
  BY SinceGateBounds, ConfigTypes DEF TypeOK, BudgetInv
<1>3. BudgetMove
  BY <1>1, <1>2 DEF BudgetMove
<1> QED
  BY <1>1, <1>3, BudgetKept
LEMMA Slide ==
    ASSUME NEW n \in Nat, NEW m \in Nat, NEW e \in Nat, NEW f \in Nat, e <= f
    PROVE  /\ n <= m => n + e <= m + f
           /\ n + 1 <= m => n + e + 1 <= m + f /\ n <= m
  OBVIOUS

\* a step without a model call, or with one that the place counts
LEMMA Onward ==
    ASSUME TypeOK, TypeOK', BudgetInv, conf' = conf, OnMode(run'), events <= events',
           \/ Uses(0) /\ SinceGate(run) <= SinceGate(run')
           \/ /\ Uses(0) \/ \E c \in conf.costs : Uses(c)
              /\ SinceGate(run) + 1 <= SinceGate(run')
    PROVE  BudgetInv'
<1> DEFINE n == SinceGate(run)
           m == SinceGate(run')
<1>1. n \in Nat /\ m \in Nat /\ events \in Nat /\ events' \in Nat
  BY SinceGateBounds, ConfigTypes DEF TypeOK, BudgetInv
<1>2. (n <= m => n + events <= m + events')
      /\ (n + 1 <= m => n + events + 1 <= m + events' /\ n <= m)
  <2> HIDE DEF n, m
  <2> QED
    BY <1>1, Slide
<1>3. n = SinceGate(run) /\ m = SinceGate(run')
  OBVIOUS
<1>4. BudgetMove
  BY <1>2, <1>3 DEF BudgetMove
<1> QED
  BY <1>4, BudgetKept

LEMMA Calls ==
    ASSUME TypeOK
    PROVE  /\ conf.review \in {"task", "strict", "none"}
           /\ conf.review = "task" => CallsPerGate = 3
           /\ conf.review = "strict" => CallsPerGate = 2 * (MaxRetriesPerSub + 1)
           /\ conf.review = "none" => CallsPerGate = 1
           /\ CallsPerGate \in Nat \ {0} /\ MaxRetriesPerSub \in Nat
<1>1. conf.review \in {"task", "strict", "none"} /\ MaxRetriesPerSub \in Nat
  BY CostTypes DEF TypeOK
<1> QED
  BY <1>1 DEF CallsPerGate

\* the ways out of the middle of the loop
LEMMA WaysOut ==
    ASSUME run \in Run
    PROVE  /\ run'.pc = ErrorPc => Full(run')
           /\ run'.pc = LoopPc /\ run'.kind = run.kind => Full(run')
<1>1. run.kind \in {"run", "resume"}
  BY DEF Run
<1> QED
  BY <1>1 DEF ErrorPc, LoopPc, Full

LEMMA PlanningBudget ==
    ASSUME TypeOK, TypeOK', BudgetInv, ReplanContext \/ PlanReady \/ PlanError \/ CommitPlan
    PROVE  BudgetInv'
<1>1. run \in Run /\ snap.state.used \in Nat /\ events \in Nat
  BY ConfigTypes DEF TypeOK, Snapshot, State
<1>2. CASE ReplanContext
  <2>1. PICK keep : Checked(NoUpdate, "planner", [run EXCEPT !.pc = "plan", !.keep = keep])
    BY <1>2 DEF ReplanContext
  <2>2. At("replan") /\ conf' = conf
    BY <1>2 DEF ReplanContext
  <2>3. NoUpdate.tokens = 0
    BY DEF NoUpdate
  <2> DEFINE good == [run EXCEPT !.pc = "plan", !.keep = keep]
  <2>4. good.pc = "plan"
    BY <1>1 DEF Run
  <2>5. Checked(NoUpdate, "planner", good)
    BY <2>1
  <2> HIDE DEF good
  <2>6. Uses(0) /\ events <= events' /\ (run' = good \/ run' = [run EXCEPT !.pc = ErrorPc])
    BY <2>3, <2>5, UsedByChecked
  <2>7. CASE run' = good
    <3>1. SinceGate(run) = SinceGate(run') /\ OnMode(run')
      BY <2>2, <2>4, <2>7 DEF SinceGate, OnMode, At
    <3>2. SinceGate(run) <= SinceGate(run')
      BY <1>1, <3>1, SinceGateBounds DEF TypeOK, BudgetInv
    <3> QED
      BY <2>2, <2>6, <3>1, <3>2, Onward
  <2>8. CASE run' = [run EXCEPT !.pc = ErrorPc]
    <3>1. run'.pc = ErrorPc
      BY <1>1, <2>8 DEF Run
    <3> QED
      BY <1>1, <2>2, <2>6, <3>1, WaysOut, ToFull
  <2> QED
    BY <2>6, <2>7, <2>8
<1>3. CASE PlanReady
  <2>1. PICK n \in PlanSizes, t \in conf.costs :
           /\ Telemetry(t, "planner")
           /\ run' = [run EXCEPT !.tasks = MergePreservedSubTasks(run.keep, n),
                         !.pc = IF Len(MergePreservedSubTasks(run.keep, n)) > MaxSubTasks
                                THEN "fail" ELSE "planned"]
    BY <1>3 DEF PlanReady
  <2>2. At("plan") /\ conf' = conf
    BY <1>3 DEF PlanReady
  <2>3. (Uses(0) \/ \E c \in conf.costs : Uses(c)) /\ events <= events'
    BY <2>1, UsedByTelemetry
  <2>4. run'.pc \in {"fail", "planned"}
    BY <1>1, <2>1 DEF Run
  <2>5. OnMode(run') /\ SinceGate(run) + 1 <= SinceGate(run')
    <3> DEFINE C == CallsPerGate
    <3>1. C \in Nat \ {0} /\ (conf.review = "task" => C = 3)
      BY Calls
    <3> HIDE DEF C
    <3> QED
      BY <2>2, <2>4, <3>1 DEF SinceGate, OnMode, At, C
  <2> QED
    BY <2>2, <2>3, <2>5, Onward
<1>4. CASE PlanError
  <2>1. conf' = conf /\ Full(run') /\ snap' = snap /\ events' = events
    BY <1>1, <1>4 DEF PlanError, Goto, Full, Run
  <2> QED
    BY <1>1, <2>1, UsedByNone, ToFull
<1>5. CASE CommitPlan
  <2> DEFINE u == [NoUpdate EXCEPT !.status = "executing", !.idx = 0, !.plan = run.tasks]
             good == [run EXCEPT !.pc = LoopPc, !.idx = 0]
  <2>1. Checked(u, "executor", good) /\ conf' = conf
    BY <1>5 DEF CommitPlan
  <2>2. u.tokens = 0 /\ good.pc = LoopPc /\ good.kind = run.kind
    BY <1>1 DEF NoUpdate, Run
  <2> HIDE DEF u, good
  <2>3. Uses(0) /\ events <= events' /\ (run' = good \/ run' = [run EXCEPT !.pc = ErrorPc])
    BY <2>1, <2>2, UsedByChecked
  <2>4. Full(run')
    <3>1. run' = [run EXCEPT !.pc = ErrorPc] => run'.pc = ErrorPc
      BY <1>1 DEF Run
    <3> QED
      BY <1>1, <2>2, <2>3, <3>1, WaysOut
  <2> QED
    BY <2>1, <2>3, <2>4, ToFull
<1> QED
  BY <1>2, <1>3, <1>4, <1>5

LEMMA GateBudget ==
    ASSUME TypeOK, TypeOK', BudgetInv,
           BudgetGate \/ BudgetContinue \/ BudgetTimeout \/ BudgetCancelled \/ CtxGate
    PROVE  BudgetInv'
<1>1. run \in Run /\ snap.state.used \in Nat /\ events \in Nat /\ events <= events
      /\ run.kind \in {"run", "resume"} /\ conf.limit \in Nat
  BY ConfigTypes, CostTypes DEF TypeOK, Snapshot, State, Run
<1>2. CASE BudgetGate
  <2>1. conf' = conf /\ snap' = snap /\ events' = events /\ At("budget")
        /\ run'.kind = run.kind
        /\ run'.pc = IF ~Exceeded(snap.state) THEN IF run.kind = "run" THEN "ctx" ELSE "pick"
                     ELSE IF conf.continue THEN "ask"
                     ELSE "fail"
    BY <1>1, <1>2 DEF BudgetGate, Goto, Run
  <2>2. Uses(0)
    BY <2>1, UsedByNone
  <2>3. CASE run'.pc = "fail"
    <3>1. Full(run')
      BY <2>3 DEF Full
    <3> QED
      BY <1>1, <2>1, <2>2, <3>1, ToFull
  <2>4. CASE run'.pc = "ask"
    <3>1. OnMode(run') /\ ~Metered
      BY <1>1, <2>1, <2>4 DEF OnMode, Metered
    <3> QED
      BY <2>1, <3>1, BudgetKept
  <2>5. CASE run'.pc \in {"ctx", "pick"}
    <3>1. OnMode(run')
      BY <2>5 DEF OnMode
    <3>2. ~Exceeded(snap.state)
      BY <1>1, <2>1, <2>5
    <3>3. Metered => snap.state.used < conf.limit
      BY <1>1, <3>2 DEF Exceeded, Metered
    <3>4. Metered => BudgetMove
      BY <2>2, <3>3 DEF BudgetMove
    <3> QED
      BY <2>1, <3>1, <3>4, BudgetKept
  <2> QED
    BY <1>1, <2>1, <2>3, <2>4, <2>5
<1>3. CASE BudgetContinue
  <2>1. conf' = conf /\ At("ask") /\ run'.pc \in {"ctx", "pick"}
    BY <1>1, <1>3 DEF BudgetContinue, Goto, Run
  <2>2. OnMode(run') /\ ~Metered
    BY <2>1 DEF OnMode, Metered, BudgetInv, At
  <2> QED
    BY <2>1, <2>2, BudgetKept
<1>4. CASE BudgetTimeout \/ BudgetCancelled
  <2>1. conf' = conf /\ Full(run') /\ snap' = snap /\ events' = events
    BY <1>1, <1>4 DEF BudgetTimeout, BudgetCancelled, Goto, Full, Run
  <2> QED
    BY <1>1, <2>1, UsedByNone, ToFull
<1>5. CASE CtxGate
  <2>1. conf' = conf /\ snap' = snap /\ events' = events /\ At("ctx") /\ run'.kind = run.kind
        /\ run'.pc = IF run.cancelled THEN "exit" ELSE IF run.kind = "run" THEN "pick" ELSE "budget"
    BY <1>1, <1>5 DEF CtxGate, Goto, Run
  <2>2. Uses(0)
    BY <2>1, UsedByNone
  <2>3. CASE run'.pc = "pick" /\ run.kind = "run"
    <3>1. SinceGate(run) = 0 /\ SinceGate(run') = 0 /\ OnMode(run')
      BY <2>1, <2>3 DEF SinceGate, OnMode, At
    <3> QED
      BY <1>1, <2>1, <2>2, <3>1, Onward
  <2>4. CASE run'.pc \in {"exit", "budget"}
    <3>1. Full(run')
      BY <2>4 DEF Full
    <3> QED
      BY <1>1, <2>1, <2>2, <3>1, ToFull
  <2> QED
    BY <1>1, <2>1, <2>3, <2>4
<1> QED
  BY <1>2, <1>3, <1>4, <1>5
\* a sub-task has an outcome: one call, or all those of its strict attempts
LEMMA OutcomePlace ==
    ASSUME TypeOK, NEW out, Outcome(out)
    PROVE  /\ OnMode(run')
           /\ SinceGate(run') = IF conf.review = "task" THEN 1 ELSE CallsPerGate
<1>1. run'.pc \in {"pausing", "finish"}
  BY DEF Outcome, OutcomePc, TypeOK, Run
<1> QED
  BY <1>1 DEF SinceGate, OnMode

LEMMA ExecuteBudget ==
    ASSUME TypeOK, TypeOK', BudgetInv, NEW ok, Execute(ok)
    PROVE  BudgetInv'
<1> DEFINE C == CallsPerGate
           M == MaxRetriesPerSub
<1>1. run \in Run /\ run.tries \in Nat /\ conf' = conf /\ run.pc = "exec"
  BY DEF TypeOK, Run, Execute, At
<1>2. PICK t \in conf.costs : Telemetry(t, "executor")
  BY DEF Execute
<1>3. (Uses(0) \/ \E c \in conf.costs : Uses(c)) /\ events <= events'
  BY <1>2, UsedByTelemetry
<1>4. /\ conf.review \in {"task", "strict", "none"} /\ M \in Nat /\ C \in Nat \ {0}
      /\ conf.review = "task" => C = 3
      /\ conf.review = "strict" => C = 2 * (M + 1)
  BY Calls
<1>5. /\ SinceGate(run) = 2 * run.tries /\ run.tries <= M
      /\ conf.review # "strict" => run.tries = 0
  BY <1>1 DEF SinceGate, OnMode, BudgetInv
<1>6. CASE \E out : Outcome(out)
  <2>1. OnMode(run') /\ SinceGate(run') = IF conf.review = "task" THEN 1 ELSE C
    BY <1>6, OutcomePlace
  <2> HIDE DEF C, M
  <2>2. SinceGate(run) + 1 <= SinceGate(run')
    BY <1>1, <1>4, <1>5, <2>1
  <2> QED
    BY <1>1, <1>3, <2>1, <2>2, Onward
<1>7. CASE conf.review = "strict" /\ Goto("strict")
  <2>1. run'.pc = "strict" /\ run'.tries = run.tries
    BY <1>1, <1>7 DEF Goto, Run
  <2>2. OnMode(run') /\ SinceGate(run') = 2 * run.tries + 1
    BY <1>5, <1>7, <2>1 DEF OnMode, SinceGate
  <2> HIDE DEF C, M
  <2>3. SinceGate(run) + 1 <= SinceGate(run')
    BY <1>1, <1>5, <2>2
  <2> QED
    BY <1>1, <1>3, <2>2, <2>3, Onward
<1> QED
  BY <1>6, <1>7 DEF Execute

LEMMA StrictBudget ==
    ASSUME TypeOK, TypeOK', BudgetInv,
           StrictReview \/ StrictAccept \/ StrictRetry \/ StrictGiveUp
    PROVE  BudgetInv'
<1> DEFINE C == CallsPerGate
           M == MaxRetriesPerSub
<1>1. /\ run \in Run /\ run.tries \in Nat /\ snap.state.used \in Nat
      /\ events \in Nat /\ events <= events
  BY ConfigTypes DEF TypeOK, Run, Snapshot, State
<1>2. conf' = conf /\ run.pc \in {"strict", "judged"}
  BY DEF StrictReview, StrictAccept, StrictRetry, StrictGiveUp, At
<1>3. conf.review = "strict" /\ run.tries <= M
  BY <1>2 DEF OnMode, BudgetInv
<1>4. M \in Nat /\ C = 2 * (M + 1)
  BY <1>3, Calls
<1>5. /\ run.pc = "strict" => SinceGate(run) = 2 * run.tries + 1
      /\ run.pc = "judged" => SinceGate(run) = 2 * run.tries + 2
  BY DEF SinceGate
<1>6. ASSUME NEW out, Outcome(out)
      PROVE  OnMode(run') /\ SinceGate(run) <= SinceGate(run')
  <2>1. OnMode(run') /\ SinceGate(run') = C
    BY <1>3, <1>6, OutcomePlace
  <2> HIDE DEF C, M
  <2> QED
    BY <1>1, <1>2, <1>3, <1>4, <1>5, <2>1
<1>7. CASE StrictReview
  <2>1. CASE \E block \in BOOLEAN, t \in conf.costs :
                /\ Telemetry(t, "reviewer")
                /\ run' = [run EXCEPT !.pc = "judged", !.bad = block]
    <3>1. (Uses(0) \/ \E c \in conf.costs : Uses(c)) /\ events <= events'
      BY <2>1, UsedByTelemetry
    <3>2. run'.pc = "judged" /\ run'.tries = run.tries
      BY <1>1, <2>1 DEF Run
    <3>3. OnMode(run') /\ SinceGate(run') = 2 * run.tries + 2 /\ run.pc = "strict"
      BY <1>3, <1>7, <3>2 DEF OnMode, SinceGate, StrictReview, At
    <3>4. SinceGate(run) + 1 <= SinceGate(run')
      BY <1>1, <1>5, <3>3
    <3> QED
      BY <1>2, <3>1, <3>3, <3>4, Onward
  <2>2. CASE Outcome("done") /\ UNCHANGED <<snap, events>>
    <3>1. Uses(0) /\ events <= events'
      BY <1>1, <2>2, UsedByNone
    <3> QED
      BY <1>2, <1>6, <2>2, <3>1, Onward
  <2> QED
    BY <1>7, <2>1, <2>2 DEF StrictReview
<1>8. CASE StrictAccept \/ StrictGiveUp
  <2>1. Uses(0) /\ events <= events'
    BY <1>1, <1>8, UsedByNone DEF StrictAccept, StrictGiveUp
  <2>2. OnMode(run') /\ SinceGate(run) <= SinceGate(run')
    BY <1>6, <1>8 DEF StrictAccept, StrictGiveUp
  <2> QED
    BY <1>2, <2>1, <2>2, Onward
<1>9. CASE StrictRetry
  <2> DEFINE plan == Counted(snap.state.plan, run.idx + 1)
             u == [NoUpdate EXCEPT !.plan = plan, !.idx = run.idx]
  <2>1. Logged(u, "executor") \/ UNCHANGED <<snap, events>>
    BY <1>9 DEF StrictRetry
  <2>2. u.tokens = 0
    BY DEF NoUpdate
  <2> HIDE DEF u
  <2>3. Uses(0) /\ events <= events'
    BY <1>1, <2>1, <2>2, UsedByLogged, UsedByNone
  <2>4. run'.pc = "exec" /\ run'.tries = run.tries + 1 /\ run.tries < M /\ run.pc = "judged"
    BY <1>1, <1>9 DEF StrictRetry, StrictRetryLeft, Run, At
  <2>5. OnMode(run') /\ SinceGate(run') = 2 * (run.tries + 1)
    <3>1. run'.tries <= M
      <4> HIDE DEF M
      <4> QED
        BY <1>1, <1>4, <2>4
    <3> QED
      BY <1>3, <2>4, <3>1 DEF OnMode, SinceGate
  <2>6. SinceGate(run) <= SinceGate(run')
    BY <1>1, <1>5, <2>4, <2>5
  <2> QED
    BY <1>2, <2>3, <2>5, <2>6, Onward
<1> QED
  BY <1>7, <1>8, <1>9

LEMMA SubTaskBudget ==
    ASSUME TypeOK, TypeOK', BudgetInv, SkipSettled \/ SubTaskStart \/ FinishSubTask
    PROVE  BudgetInv'
<1> DEFINE C == CallsPerGate
<1>1. /\ run \in Run /\ snap.state.used \in Nat /\ events \in Nat /\ events <= events
      /\ conf' = conf
  BY ConfigTypes DEF TypeOK, Snapshot, State, SkipSettled, SubTaskStart, FinishSubTask
<1>2. /\ conf.review = "task" => C = 3
      /\ C \in Nat \ {0}
  BY Calls
\* behind a sub-task: at the gate again, or with its call still to count
<1>3. ASSUME NEW i, run'.pc = AfterSubTask(i), run'.kind = run.kind,
             run.pc = "pick" \/ run.pc = "finish"
      PROVE  OnMode(run') /\ SinceGate(run) <= SinceGate(run')
  <2>1. CASE run'.pc = "review" /\ conf.review = "task"
    <3>1. OnMode(run') /\ SinceGate(run') = 1 /\ SinceGate(run) \in {0, 1}
      BY <1>3, <2>1 DEF OnMode, SinceGate
    <3> QED
      BY <3>1
  <2>2. CASE Full(run')
    <3>1. SinceGate(run') = C /\ OnMode(run')
      BY <2>2, FullPlaces
    <3>2. SinceGate(run) <= C
      BY <1>1, SinceGateBounds DEF TypeOK, BudgetInv
    <3> QED
      BY <3>1, <3>2
  <2>3. run'.pc = LoopPc \/ run'.pc = "final" \/ (run'.pc = "review" /\ conf.review = "task")
    BY <1>3 DEF AfterSubTask
  <2>4. run'.pc = "final" => Full(run')
    BY DEF Full
  <2> QED
    BY <1>1, <1>3, <2>1, <2>2, <2>3, <2>4, WaysOut
<1>4. CASE SkipSettled
  <2>1. /\ Uses(0) /\ events <= events' /\ run.pc = "pick" /\ run'.kind = run.kind
        /\ run'.pc = AfterSubTask(run.idx + 1)
    BY <1>1, <1>4, UsedByNone DEF SkipSettled, At, Run
  <2> QED
    BY <1>1, <1>3, <2>1, Onward
<1>5. CASE SubTaskStart
  <2> DEFINE plan == [snap.state.plan EXCEPT ![run.idx + 1].st = "in_progress"]
             u == [NoUpdate EXCEPT !.plan = plan, !.idx = run.idx]
  <2>1. Logged(u, "executor") \/ UNCHANGED <<snap, events>>
    BY <1>5 DEF SubTaskStart
  <2>2. u.tokens = 0
    BY DEF NoUpdate
  <2> HIDE DEF u
  <2>3. Uses(0) /\ events <= events'
    BY <1>1, <2>1, <2>2, UsedByLogged, UsedByNone
  <2>4. run.pc = "pick" /\ run'.pc = "exec" /\ run'.tries = 0
    BY <1>1, <1>5 DEF SubTaskStart, At, Run
  <2>5. OnMode(run') /\ SinceGate(run) = 0 /\ SinceGate(run') = 0
    <3>1. 0 <= MaxRetriesPerSub /\ 2 * 0 = 0
      BY Calls
    <3> QED
      BY <2>4, <3>1 DEF OnMode, SinceGate
  <2> QED
    BY <1>1, <2>3, <2>5, Onward
<1>6. CASE FinishSubTask
  <2> DEFINE tasks == WithOutcome(OutcomeStatus[run.out])
             u == [NoUpdate EXCEPT !.plan = tasks, !.idx = run.idx + 1]
             good == [run EXCEPT !.tasks = tasks, !.idx = @ + 1, !.pc = AfterSubTask(run.idx + 1)]
  <2>1. Checked(u, NextAfter(run.idx + 1), good) /\ run.pc = "finish"
    BY <1>6 DEF FinishSubTask, At
  <2>2. u.tokens = 0 /\ good.kind = run.kind /\ good.pc = AfterSubTask(run.idx + 1)
    BY <1>1 DEF NoUpdate, Run
  <2> HIDE DEF u, good
  <2>3. Uses(0) /\ events <= events' /\ (run' = good \/ run' = [run EXCEPT !.pc = ErrorPc])
    BY <2>1, <2>2, UsedByChecked
  <2>4. CASE run' = good
    BY <1>1, <1>3, <2>1, <2>2, <2>3, <2>4, Onward
  <2>5. CASE run' = [run EXCEPT !.pc = ErrorPc]
    <3>1. run'.pc = ErrorPc
      BY <1>1, <2>5 DEF Run
    <3> QED
      BY <1>1, <2>3, <3>1, WaysOut, ToFull
  <2> QED
    BY <2>3, <2>4, <2>5
<1> QED
  BY <1>4, <1>5, <1>6
LEMMA PauseBudget ==
    ASSUME TypeOK, TypeOK', BudgetInv,
           PauseSubTask \/ \E choice \in {"retry", "skip", "abort"} : AnswerPause(choice)
    PROVE  BudgetInv'
<1> DEFINE i == [reason |-> "subtask_failure_pause", idx |-> run.idx, resume |-> "executor"]
           p == [NoUpdate EXCEPT !.intr = i]
           u == [NoUpdate EXCEPT !.clearIntr = TRUE]
<1>1. /\ run \in Run /\ snap.state.used \in Nat /\ events \in Nat /\ events <= events + 1
      /\ conf' = conf
  BY ConfigTypes DEF TypeOK, Snapshot, State, PauseSubTask, AnswerPause
<1>2. p.tokens = 0 /\ u.tokens = 0
  BY DEF NoUpdate
<1>3. CASE PauseSubTask
  <2>1. Logged(p, "approval") /\ run.pc = "pausing"
    BY <1>3 DEF PauseSubTask, At
  <2> HIDE DEF p, u
  <2>2. Uses(0) /\ events <= events'
    BY <1>2, <2>1, UsedByLogged
  <2>3. run'.pc = "paused"
    BY <1>1, <1>3 DEF PauseSubTask, Goto, Run
  <2>4. SinceGate(run) = SinceGate(run') /\ OnMode(run')
    BY <2>1, <2>3 DEF SinceGate, OnMode
  <2>5. SinceGate(run) <= SinceGate(run')
    BY <1>1, <2>4, SinceGateBounds DEF TypeOK, BudgetInv
  <2> QED
    BY <1>1, <2>2, <2>4, <2>5, Onward
<1>4. CASE \E choice \in {"retry", "skip", "abort"} : AnswerPause(choice)
  <2>1. PICK choice \in {"retry", "skip", "abort"} : AnswerPause(choice)
    BY <1>4
  <2>2. Uses(0) /\ events <= events'
    <3>1. CASE choice = "retry"
      <4>1. events' = events + 1 /\ snap' = Committed(u, "executor")
        BY <2>1, <3>1 DEF AnswerPause, Event
      <4> HIDE DEF p, u
      <4> QED
        BY <1>1, <1>2, <4>1, UsedByCommit
    <3>2. CASE choice # "retry"
      <4>1. Logged(u, "executor")
        BY <2>1, <3>2 DEF AnswerPause
      <4> HIDE DEF p, u
      <4> QED
        BY <1>2, <4>1, UsedByLogged
    <3> QED
      BY <3>1, <3>2
  <2>3. run'.kind = run.kind /\ run.pc = "paused" /\ run'.pc \in {LoopPc, "fail", "finish"}
    BY <1>1, <2>1 DEF AnswerPause, Goto, At, Run
  <2>4. CASE run'.pc = "finish"
    <3>1. SinceGate(run) = SinceGate(run') /\ OnMode(run')
      BY <2>3, <2>4 DEF SinceGate, OnMode
    <3>2. SinceGate(run) <= SinceGate(run')
      BY <1>1, <3>1, SinceGateBounds DEF TypeOK, BudgetInv
    <3> QED
      BY <1>1, <2>2, <3>1, <3>2, Onward
  <2>5. CASE run'.pc # "finish"
    <3>1. Full(run')
      BY <1>1, <2>3, <2>5, WaysOut DEF Full
    <3> QED
      BY <1>1, <2>2, <3>1, ToFull
  <2> QED
    BY <2>4, <2>5
<1> QED
  BY <1>3, <1>4

LEMMA ReviewBudget ==
    ASSUME TypeOK, TypeOK', BudgetInv, ReviewTask \/ ReviewDecide
    PROVE  BudgetInv'
<1>1. /\ run \in Run /\ snap.state.used \in Nat /\ events \in Nat /\ events <= events
      /\ conf' = conf
  <2>1. run \in Run /\ snap.state.used \in Nat /\ events \in Nat /\ events <= events
    BY ConfigTypes DEF TypeOK, Snapshot, State
  <2>2. conf' = conf
    BY DEF ReviewTask, ReviewDecide
  <2> QED
    BY <2>1, <2>2
<1>2. conf.review = "task" /\ CallsPerGate = 3
  BY Calls DEF BudgetInv, OnMode, ReviewTask, ReviewDecide, At
<1>3. CASE ReviewTask
  <2>1. run.pc = "review" /\ run'.pc = "reviewed"
    BY <1>1, <1>3 DEF ReviewTask, At, Run
  <2>2. (Uses(0) \/ \E c \in conf.costs : Uses(c)) /\ events <= events'
    BY <1>1, <1>3, UsedByTelemetry, UsedByNone DEF ReviewTask
  <2>3. SinceGate(run) = 1 /\ SinceGate(run') = 2 /\ OnMode(run')
    BY <1>2, <2>1 DEF SinceGate, OnMode
  <2> QED
    BY <1>1, <2>2, <2>3, Onward
<1>4. CASE ReviewDecide
  <2>1. run.pc = "reviewed" /\ run'.pc \in {"replan", "final"}
    BY <1>1, <1>4 DEF ReviewDecide, At, Run
  <2>2. Uses(0) /\ events <= events'
    BY <1>1, <1>4, UsedByNone DEF ReviewDecide
  <2>3. SinceGate(run) = 2 /\ SinceGate(run') \in {2, 3} /\ OnMode(run')
    BY <1>2, <2>1 DEF SinceGate, OnMode
  <2>4. SinceGate(run) <= SinceGate(run')
    BY <2>3
  <2> QED
    BY <1>1, <2>2, <2>3, <2>4, Onward
<1> QED
  BY <1>3, <1>4

\* the exits, the deferred checks and a crash
LEMMA EndBudget ==
    ASSUME TypeOK, TypeOK', BudgetInv,
           CommitTerminal \/ CommitFailure \/ Exit \/ Cleanup \/ Panic \/ Crash
    PROVE  BudgetInv'
<1> DEFINE u == [NoUpdate EXCEPT !.status = "done"]
<1>1. /\ run \in Run /\ snap.state.used \in Nat /\ events \in Nat
      /\ events <= events /\ events <= events + 1
      /\ conf' = conf
  BY ConfigTypes DEF TypeOK, Snapshot, State, CommitTerminal, CommitFailure, Exit, Cleanup,
    Panic, Crash
<1>2. u.tokens = 0 /\ Failed.tokens = 0
  BY DEF NoUpdate, Failed
<1>3. CASE CommitTerminal
  <2> DEFINE good == [run EXCEPT !.pc = "exit"]
  <2>1. Checked(u, "terminal", good)
    BY <1>3 DEF CommitTerminal
  <2>2. good.pc = "exit"
    BY <1>1 DEF Run
  <2> HIDE DEF u, good
  <2>3. Uses(0) /\ events <= events' /\ (run' = good \/ run' = [run EXCEPT !.pc = ErrorPc])
    BY <1>2, <2>1, UsedByChecked
  <2>4. CASE run' = good
    <3>1. Full(run')
      BY <2>2, <2>4 DEF Full
    <3> QED
      BY <1>1, <2>3, <3>1, ToFull
  <2>5. CASE run' = [run EXCEPT !.pc = ErrorPc]
    <3>1. run'.pc = ErrorPc
      BY <1>1, <2>5 DEF Run
    <3> QED
      BY <1>1, <2>3, <3>1, WaysOut, ToFull
  <2> QED
    BY <2>3, <2>4, <2>5
<1>4. CASE CommitFailure \/ Exit
  <2>1. Logged(Failed, "terminal") \/ UNCHANGED <<snap, events>>
    BY <1>4 DEF CommitFailure, Exit
  <2>2. Uses(0) /\ events <= events'
    BY <1>1, <1>2, <2>1, UsedByLogged, UsedByNone
  <2>3. Full(run')
    BY <1>1, <1>4 DEF CommitFailure, Exit, Goto, Full, Run
  <2> QED
    BY <1>1, <2>2, <2>3, ToFull
<1>5. CASE Cleanup
  <2>1. Uses(0) /\ events <= events'
    BY <1>1, <1>5, UsedByNone DEF Cleanup
  <2>2. Full(run')
    BY <1>5 DEF Cleanup, IdleRun, Full
  <2> QED
    BY <1>1, <2>1, <2>2, ToFull
<1>6. CASE Panic
  <2>1. snap' = Committed(Failed, "terminal") \/ snap' = snap
    BY <1>6 DEF Panic
  <2>2. Uses(0)
    BY <1>2, <2>1, UsedByCommit, UsedByNone
  <2>3. Full(run') /\ events' = events + 1
    BY <1>1, <1>6 DEF Panic, Event, Goto, Full, Run
  <2> QED
    BY <1>1, <2>2, <2>3, ToFull
<1>7. CASE Crash
  <2>1. Uses(0) /\ events' = events + 1
    BY <1>1, <1>7, UsedByNone DEF Crash, Event
  <2>2. Full(run')
    BY <1>7 DEF Crash, IdleRun, Full
  <2> QED
    BY <1>1, <2>1, <2>2, ToFull
<1> QED
  BY <1>3, <1>4, <1>5, <1>6, <1>7

\* a resume starts one call short of a full stretch, for the review of plan_complete_mark_done
LEMMA ResumeBudget ==
    ASSUME TypeOK, TypeOK', BudgetInv, ResumeStart \/ ResumeCommit \/ ResumeMarkDone
    PROVE  BudgetInv'
<1> DEFINE C == CallsPerGate
           u == [NoUpdate EXCEPT !.status = "executing", !.idx = run.idx]
           good == [run EXCEPT !.pc = LoopPc]
<1>1. /\ run \in Run /\ snap.state.used \in Nat /\ events \in Nat /\ events <= events
      /\ conf' = conf
  BY ConfigTypes DEF TypeOK, Snapshot, State, ResumeStart, ResumeCommit, ResumeMarkDone
<1>2. C \in Nat \ {0}
  BY Calls
<1>3. CASE ResumeStart
  <2>1. run.pc = "idle" /\ run'.pc = "resumed" /\ events' = events + 1
    BY <1>3 DEF ResumeStart, Event, At, IdleRun
  <2>2. Uses(0)
    BY <1>3, UsedByNone DEF ResumeStart
  <2>3. SinceGate(run) = C /\ SinceGate(run') = C - 1 /\ OnMode(run')
    BY <2>1 DEF SinceGate, OnMode
  <2> DEFINE n == SinceGate(run)
             m == SinceGate(run')
             now == events
             then == events'
  <2>4. n + now <= m + then
    <3>1. n = C /\ m = C - 1 /\ then = now + 1 /\ now \in Nat
      BY <1>1, <2>1, <2>3
    <3> HIDE DEF C, n, m, now, then
    <3> QED
      BY <1>2, <3>1
  <2>5. BudgetMove
    BY <2>2, <2>4 DEF BudgetMove
  <2> QED
    BY <1>1, <2>3, <2>5, BudgetKept
<1>4. CASE ResumeCommit
  <2>1. Checked(u, "executor", good)
    BY <1>4 DEF ResumeCommit
  <2>2. u.tokens = 0 /\ good.pc = LoopPc /\ good.kind = run.kind
    BY <1>1 DEF NoUpdate, Run
  <2> HIDE DEF u, good
  <2>3. Uses(0) /\ events <= events' /\ (run' = good \/ run' = [run EXCEPT !.pc = ErrorPc])
    BY <2>1, <2>2, UsedByChecked
  <2>4. Full(run')
    <3>1. run' = [run EXCEPT !.pc = ErrorPc] => run'.pc = ErrorPc
      BY <1>1 DEF Run
    <3> QED
      BY <1>1, <2>2, <2>3, <3>1, WaysOut
  <2> QED
    BY <1>1, <2>3, <2>4, ToFull
<1>5. CASE ResumeMarkDone
  <2>1. run.pc = "resumed" /\ run'.pc = "final"
    BY <1>1, <1>5 DEF ResumeMarkDone, At, Goto, Run
  <2>2. (Uses(0) \/ \E c \in conf.costs : Uses(c)) /\ events <= events'
    BY <1>1, <1>5, UsedByTelemetry, UsedByNone DEF ResumeMarkDone
  <2>3. SinceGate(run) = C - 1 /\ SinceGate(run') = C /\ OnMode(run')
    BY <2>1 DEF SinceGate, OnMode
  <2>4. SinceGate(run) + 1 <= SinceGate(run')
    <3> HIDE DEF C
    <3> QED
      BY <1>2, <2>3
  <2> QED
    BY <1>1, <2>2, <2>3, <2>4, Onward
<1> QED
  BY <1>3, <1>4, <1>5

\* what goes on beside the goroutine charges nothing and leaves it where it is
LEMMA AroundBudget ==
    ASSUME TypeOK, TypeOK', BudgetInv,
           \/ InterruptWithCancel \/ InterruptWithCommit \/ Sweep \/ Resolve
           \/ WallclockElapses \/ UNCHANGED vars
    PROVE  BudgetInv'
<1>1. /\ run \in Run /\ snap.state.used \in Nat /\ events \in Nat /\ events <= events + 1
      /\ events <= events /\ conf' = conf
  BY ConfigTypes DEF TypeOK, Snapshot, State, InterruptWithCancel, InterruptWithCommit, Sweep,
    Resolve, WallclockElapses, vars
<1>2. events <= events'
  BY <1>1 DEF InterruptWithCancel, InterruptWithCommit, Sweep, Resolve, WallclockElapses, vars,
    Event
<1>3. run'.pc = run.pc /\ run'.kind = run.kind /\ run'.tries = run.tries
  BY <1>1 DEF InterruptWithCancel, InterruptWithCommit, Sweep, Resolve, WallclockElapses, vars, Run
<1>4. SinceGate(run') = SinceGate(run) /\ OnMode(run')
  BY <1>3 DEF SinceGate, OnMode, BudgetInv
<1>5. SinceGate(run) <= SinceGate(run')
  BY <1>1, <1>4, SinceGateBounds DEF TypeOK, BudgetInv
<1>6. \/ snap' = snap
      \/ \E u, next : snap' = Committed(u, next) /\ u.tokens = 0
  <2> DEFINE stop == [NoUpdate EXCEPT !.status = "interrupted",
                         !.intr = [reason |-> "user_interrupt", idx |-> -1, resume |-> NoStep]]
             clear == [NoUpdate EXCEPT !.clearIntr = TRUE]
             plan == [snap.state.plan EXCEPT ![snap.state.intr.idx + 1].st = "skipped"]
             skip == [NoUpdate EXCEPT !.plan = plan, !.idx = snap.state.intr.idx + 1,
                         !.clearIntr = TRUE]
  <2>1. stop.tokens = 0 /\ clear.tokens = 0 /\ skip.tokens = 0 /\ Failed.tokens = 0
    BY DEF NoUpdate, Failed
  <2>2. \/ snap' = snap
        \/ snap' = Committed(stop, "terminal") \/ snap' = Committed(clear, "executor")
        \/ snap' = Committed(skip, "executor") \/ snap' = Committed(Failed, "terminal")
    BY DEF InterruptWithCancel, InterruptWithCommit, Sweep, Resolve, WallclockElapses, vars
  <2> HIDE DEF stop, clear, skip
  <2> QED
    BY <2>1, <2>2
<1>7. Uses(0)
  <2>1. ASSUME NEW u, NEW next, snap' = Committed(u, next), u.tokens = 0
        PROVE  Uses(0)
    BY <2>1, UsedByCommit
  <2> QED
    BY <1>6, <2>1, UsedByNone
<1> QED
  BY <1>1, <1>2, <1>4, <1>5, <1>7, Onward

\* Without an operator who continues, the tokens charged overshoot the limit by no more
\* than the calls between two gates and one for each event, whatever the configuration,
\* the plans and the costs of the calls (TokenBudget.checkBudget at the loop's gate).
THEOREM LoopOvershootBounded == Spec => []OvershootBounded
<1>1. Init => BudgetInv
  <2> SUFFICES ASSUME Init PROVE BudgetInv
    OBVIOUS
  <2>1. TypeOK
    BY LoopInit DEF LoopInv
  <2>2. run.pc = "plan" /\ snap.state.used = 0
    BY DEF Init, IdleRun, CreatedState
  <2>3. OnMode(run)
    BY <2>2 DEF OnMode
  <2>4. ASSUME Metered
        PROVE  Within(SinceGate(run) + events)
    <3> DEFINE n == SinceGate(run) + events
    <3>1. n \in Nat
      BY <2>1, <2>3, SinceGateBounds, ConfigTypes DEF TypeOK
    <3>2. conf.limit \in Nat /\ conf.limit > 0 /\ MaxCost \in Nat
      BY <2>1, <2>4, CostTypes DEF TypeOK, Metered
    <3>3. 0 < conf.limit
      BY <3>2
    <3> HIDE DEF n
    <3>4. 0 < conf.limit + n * MaxCost
      BY <3>1, <3>2, <3>3, Stretch
    <3> QED
      BY <2>2, <3>4 DEF Within, n
  <2> QED
    BY <2>3, <2>4 DEF BudgetInv
<1>2. ASSUME LoopInv, LoopInv', BudgetInv, [Next]_vars
      PROVE  BudgetInv'
  <2>1. TypeOK /\ TypeOK'
    BY <1>2 DEF LoopInv
  <2> QED
    BY <1>2, <2>1, PlanningBudget, GateBudget, SubTaskBudget, ExecuteBudget, StrictBudget,
      PauseBudget, ReviewBudget, EndBudget, ResumeBudget, AroundBudget DEF Next, Step
<1>3. LoopInv /\ BudgetInv => OvershootBounded
  <2> SUFFICES ASSUME LoopInv, BudgetInv, Metered
               PROVE  Within(CallsPerGate + events)
    BY DEF OvershootBounded, Metered, Within
  <2> DEFINE n == SinceGate(run) + events
             m == CallsPerGate + events
             used == snap.state.used
  <2>1. TypeOK
    BY DEF LoopInv
  <2>2. used \in Nat /\ conf.limit \in Nat /\ MaxCost \in Nat /\ n \in Nat /\ m \in Nat
    BY <2>1, CostTypes, ConfigTypes, SinceGateBounds DEF TypeOK, Snapshot, State, BudgetInv
  <2>3. n <= m
    BY <2>1, ConfigTypes, SinceGateBounds DEF TypeOK, BudgetInv
  <2>4. used < conf.limit + n * MaxCost
    BY DEF BudgetInv, Within
  <2> HIDE DEF n, m, used
  <2>5. used < conf.limit + m * MaxCost
    BY <2>2, <2>3, <2>4, Stretch
  <2> QED
    BY <2>5 DEF Within, m, used
<1> QED
  BY <1>1, <1>2, <1>3, LoopInvariant, PTL DEF Spec

-----------------------------------------------------------------------------
(* The attempts of a plan, as a set of pairs *)

LEMMA SlotsOf ==
    ASSUME NEW p \in Seq(SubTask)
    PROVE  /\ \A x : x \in AttemptSlots(p)
                 <=> \E i \in 1..Len(p) : \E k \in 1..p[i].att : x = <<i, k>>
           /\ IsFiniteSet(AttemptSlots(p)) /\ SumAttempts(p) \in Nat
<1> DEFINE Row(i) == {i} \X (1..p[i].att)
           rows == {Row(i) : i \in 1..Len(p)}
           f == [i \in 1..Len(p) |-> Row(i)]
<1>1. Len(p) \in Nat /\ DOMAIN p = 1..Len(p)
  OBVIOUS
<1>2. AttemptSlots(p) = UNION rows
  BY <1>1 DEF AttemptSlots
<1>3. \A x : x \in UNION rows <=> \E i \in 1..Len(p) : \E k \in 1..p[i].att : x = <<i, k>>
  OBVIOUS
<1>4. ASSUME NEW i \in 1..Len(p)
      PROVE  IsFiniteSet(Row(i))
  <2>1. p[i].att \in Int
    <3>1. p[i] \in SubTask
      BY <1>1
    <3> QED
      BY <3>1 DEF SubTask
  <2>2. IsFiniteSet(1..p[i].att)
    <3> DEFINE n == p[i].att
    <3>1. n \in Int /\ 1 \in Int
      BY <2>1
    <3> HIDE DEF n
    <3>2. IsFiniteSet(1..n)
      BY <3>1, FS_Interval
    <3> QED
      BY <3>2 DEF n
  <2>3. IsFiniteSet({i})
    BY FS_Singleton
  <2> QED
    BY <2>2, <2>3, FS_Product
<1>5. IsFiniteSet(rows)
  <2>1. f \in [1..Len(p) -> rows]
    OBVIOUS
  <2>2. \A T \in rows : \E i \in 1..Len(p) : f[i] = T
    OBVIOUS
  <2>3. IsFiniteSet(1..Len(p))
    BY <1>1, FS_Interval
  <2> HIDE DEF f, rows
  <2>4. f \in Surjection(1..Len(p), rows)
    BY <2>1, <2>2 DEF Surjection
  <2> QED
    BY <2>3, <2>4, FS_Surjection
<1>6. \A T \in rows : IsFiniteSet(T)
  BY <1>4
<1> HIDE DEF rows
<1>7. IsFiniteSet(UNION rows)
  BY <1>5, <1>6, FS_UNION
<1> QED
  BY <1>2, <1>3, <1>7, FS_CardinalityType DEF SumAttempts

\* plans with the same counts
LEMMA SameSum ==
    ASSUME NEW p \in Seq(SubTask), NEW q \in Seq(SubTask), Len(q) = Len(p),
           \A i \in 1..Len(p) : q[i].att = p[i].att
    PROVE  SumAttempts(q) = SumAttempts(p)
<1>1. \A x : x \in AttemptSlots(q) <=> x \in AttemptSlots(p)
  BY SlotsOf
<1>2. AttemptSlots(q) = AttemptSlots(p)
  BY <1>1
<1> QED
  BY <1>2 DEF SumAttempts

\* one attempt more
LEMMA OneMore ==
    ASSUME NEW p \in Seq(SubTask), NEW q \in Seq(SubTask), Len(q) = Len(p),
           NEW i \in 1..Len(p), q[i].att = p[i].att + 1,
           \A j \in 1..Len(p) : j # i => q[j].att = p[j].att
    PROVE  SumAttempts(q) = SumAttempts(p) + 1
<1> DEFINE a == p[i].att
           S == AttemptSlots(p)
           x == <<i, a + 1>>
<1>1. a \in Nat
  <2>1. p[i] \in SubTask
    OBVIOUS
  <2> QED
    BY <2>1 DEF SubTask
<1>2. x \notin S
  <2> SUFFICES ASSUME NEW j \in 1..Len(p), NEW k \in 1..p[j].att, x = <<j, k>>
               PROVE  FALSE
    BY SlotsOf
  <2>1. j = i /\ k = a + 1 /\ k <= a
    OBVIOUS
  <2> QED
    BY <1>1, <2>1
<1>3. AttemptSlots(q) = S \cup {x}
  <2>1. ASSUME NEW y \in AttemptSlots(q)
        PROVE  y \in S \cup {x}
    <3>1. PICK j \in 1..Len(p) : \E k \in 1..q[j].att : y = <<j, k>>
      BY <2>1, SlotsOf
    <3>2. PICK k \in 1..q[j].att : y = <<j, k>>
      BY <3>1
    <3>3. CASE j # i
      BY <3>2, <3>3, SlotsOf
    <3>4. CASE j = i
      <4>1. k \in 1..a \/ k = a + 1
        BY <1>1, <3>4
      <4> QED
        BY <3>2, <3>4, <4>1, SlotsOf
    <3> QED
      BY <3>3, <3>4
  <2>2. ASSUME NEW y \in S
        PROVE  y \in AttemptSlots(q)
    <3>1. PICK j \in 1..Len(p) : \E k \in 1..p[j].att : y = <<j, k>>
      BY <2>2, SlotsOf
    <3>2. PICK k \in 1..p[j].att : y = <<j, k>>
      BY <3>1
    <3>3. k \in 1..q[j].att
      <4>1. CASE j = i
        <5>1. k \in 1..a /\ q[j].att = a + 1
          BY <3>2, <4>1
        <5> QED
          BY <1>1, <5>1
      <4>2. CASE j # i
        BY <3>2, <4>2
      <4> QED
        BY <4>1, <4>2
    <3> QED
      BY <3>2, <3>3, SlotsOf
  <2>3. x \in AttemptSlots(q)
    <3>1. a + 1 \in 1..q[i].att /\ i \in 1..Len(q)
      BY <1>1
    <3> QED
      BY <3>1, SlotsOf
  <2> QED
    BY <2>1, <2>2, <2>3
<1>4. IsFiniteSet(S)
  BY SlotsOf
<1> HIDE DEF S, x
<1>5. Cardinality(S \cup {x}) = Cardinality(S) + 1
  BY <1>2, <1>4, FS_AddElement
<1> QED
  BY <1>3, <1>5 DEF SumAttempts, S

LEMMA NoAttempts == SumAttempts(<<>>) = 0
<1>1. AttemptSlots(<<>>) = {}
  BY DEF AttemptSlots
<1> QED
  BY <1>1, FS_EmptySet DEF SumAttempts

\* what a partial replan preserves was counted before
LEMMA FewerAttempts ==
    ASSUME NEW p \in Seq(SubTask), NEW q \in PreservedChoices(p)
    PROVE  SumAttempts(q) <= SumAttempts(p)
<1>1. q \in Seq(SubTask) /\ SumAttempts(p) \in Nat
  BY PreservedType, SlotsOf
<1>2. CASE q = <<>>
  BY <1>1, <1>2, NoAttempts
<1>3. CASE q # <<>>
  <2>1. PICK k \in 1..Len(p) - 1 :
           \E f \in {g \in [1..k -> DoneIdx(p)] : \A i, j \in 1..k : i < j => g[i] < g[j]} :
              q = [i \in 1..k |-> p[f[i]]]
    BY <1>3 DEF PreservedChoices
  <2>2. PICK f \in [1..k -> DoneIdx(p)] :
           (\A i, j \in 1..k : i < j => f[i] < f[j]) /\ q = [i \in 1..k |-> p[f[i]]]
    BY <2>1
  <2>3. k \in Nat /\ Len(q) = k /\ \A i \in 1..k : f[i] \in 1..Len(p) /\ q[i] = p[f[i]]
    <3>1. k \in Nat
      OBVIOUS
    <3>2. \A i \in 1..k : f[i] \in 1..Len(p)
      BY DEF DoneIdx
    <3>3. Len(q) = k
      BY <2>2, <3>1
    <3> QED
      BY <2>2, <3>1, <3>2, <3>3
  <2>4. \A i, j \in 1..k : f[i] = f[j] => i = j
    <3> SUFFICES ASSUME NEW i \in 1..k, NEW j \in 1..k, f[i] = f[j], i # j
                 PROVE  FALSE
      OBVIOUS
    <3>1. (i < j \/ j < i) /\ f[i] \in Int /\ f[j] \in Int
      BY <2>3
    <3>2. (i < j => f[i] < f[j]) /\ (j < i => f[j] < f[i])
      BY <2>2
    <3> QED
      BY <3>1, <3>2
  <2> DEFINE S == AttemptSlots(q)
             T == AttemptSlots(p)
             h == [x \in S |-> <<f[x[1]], x[2]>>]
  <2>5. \A x \in S : \E i \in 1..k : \E n \in 1..q[i].att : x = <<i, n>>
    BY <1>1, <2>3, SlotsOf
  <2>6. ASSUME NEW x \in S
        PROVE  h[x] \in T
    <3>1. PICK i \in 1..k : \E n \in 1..q[i].att : x = <<i, n>>
      BY <2>5
    <3>2. PICK n \in 1..q[i].att : x = <<i, n>>
      BY <3>1
    <3>3. f[i] \in 1..Len(p) /\ n \in 1..p[f[i]].att
      BY <2>3, <3>2
    <3>4. <<f[i], n>> \in T
      BY <3>3, SlotsOf
    <3> QED
      BY <3>2, <3>4
  <2>7. ASSUME NEW x \in S, NEW y \in S, h[x] = h[y]
        PROVE  x = y
    <3>1. PICK i \in 1..k : \E n \in 1..q[i].att : x = <<i, n>>
      BY <2>5
    <3>2. PICK n \in 1..q[i].att : x = <<i, n>>
      BY <3>1
    <3>3. PICK j \in 1..k : \E m \in 1..q[j].att : y = <<j, m>>
      BY <2>5
    <3>4. PICK m \in 1..q[j].att : y = <<j, m>>
      BY <3>3
    <3>5. f[i] = f[j] /\ n = m
      BY <2>7, <3>2, <3>4
    <3> QED
      BY <2>4, <3>2, <3>4, <3>5
  <2>8. h \in [S -> T]
    BY <2>6
  <2>9. IsFiniteSet(T)
    BY SlotsOf
  <2>a. DOMAIN h = S
    OBVIOUS
  <2> HIDE DEF S, T, h
  <2>10. h \in Injection(S, T)
    BY <2>7, <2>8, <2>a DEF Injection, IsInjective
  <2>11. Cardinality(S) <= Cardinality(T)
    BY <2>9, <2>10, FS_Injection
  <2> QED
    BY <2>11 DEF SumAttempts, S, T
<1> QED
  BY <1>2, <1>3

\* fresh sub-tasks have not been tried
LEMMA FreshAttempts ==
    ASSUME NEW keep \in Seq(SubTask), NEW n \in Nat \ {0}
    PROVE  SumAttempts(MergePreservedSubTasks(keep, n)) = SumAttempts(keep)
<1> DEFINE q == MergePreservedSubTasks(keep, n)
<1>1. /\ q \in Seq(SubTask) /\ Len(q) = Len(keep) + n
      /\ \A i \in 1..Len(keep) + n : q[i] = IF i <= Len(keep) THEN keep[i] ELSE PendingSubTask
  BY MergeType
<1>2. Len(keep) \in Nat /\ PendingSubTask.att = 0
  BY DEF PendingSubTask
<1> HIDE DEF q
<1>3. ASSUME NEW x \in AttemptSlots(q)
      PROVE  x \in AttemptSlots(keep)
  <2>1. PICK i \in 1..Len(q) : \E k \in 1..q[i].att : x = <<i, k>>
    BY <1>1, SlotsOf
  <2>2. q[i].att # 0
    BY <2>1
  <2>3. i \in 1..Len(keep) /\ q[i] = keep[i]
    BY <1>1, <1>2, <2>2
  <2> QED
    BY <2>1, <2>3, SlotsOf
<1>4. ASSUME NEW x \in AttemptSlots(keep)
      PROVE  x \in AttemptSlots(q)
  <2>1. PICK i \in 1..Len(keep) : \E k \in 1..keep[i].att : x = <<i, k>>
    BY SlotsOf
  <2>2. i \in 1..Len(q) /\ q[i] = keep[i]
    BY <1>1, <1>2
  <2> QED
    BY <1>1, <2>1, <2>2, SlotsOf
<1>5. AttemptSlots(q) = AttemptSlots(keep)
  BY <1>3, <1>4
<1> QED
  BY <1>5 DEF SumAttempts, q
-----------------------------------------------------------------------------
(* The attempts a plan may claim: an invariant for AttemptsHonest *)

\* the executor has been called for the sub-task and no plan says so yet
Owed(pc) == IF pc \in InTask \ {"exec"} THEN 1 ELSE 0

\* the local plan counts what the stored one counts, but for the sub-task that runs
SameCounts(r, plan) ==
    \A i \in 1..Len(r.tasks) :
        i # r.idx + 1 \/ r.tasks[i].st \in Settled => plan[i].att = r.tasks[i].att

Ledger(r, plan, n) ==
    /\ SumAttempts(plan) + Owed(r.pc) <= n
    /\ r.pc \in OnPlan => SameCounts(r, plan)
    /\ r.pc \in {"replan", "planned"} => SumAttempts(r.tasks) <= n
    /\ r.pc = "plan" => SumAttempts(r.keep) <= n

LedgerInv == Ledger(run, snap.state.plan, execs)

Planning == {"replan", "plan", "planned"}

\* a step that changes no counter of the stored plan
SameAtts ==
    /\ execs' = execs
    /\ snap'.state.plan \in Seq(SubTask) /\ Len(snap'.state.plan) = Len(snap.state.plan)
    /\ \A i \in 1..Len(snap.state.plan) : snap'.state.plan[i].att = snap.state.plan[i].att

\* a goroutine that stays where it is in its plan
Stays ==
    /\ run'.tasks = run.tasks /\ run'.idx = run.idx /\ run'.keep = run.keep
    /\ run'.pc \in OnPlan => run.pc \in OnPlan
    /\ Owed(run'.pc) <= Owed(run.pc)
    /\ run'.pc \in Planning => run'.pc = run.pc

\* one that has no plan any more
Left == run'.pc \notin OnPlan \cup Planning

LEMMA Sums ==
    ASSUME TypeOK
    PROVE  /\ \A p \in Seq(SubTask) : SumAttempts(p) \in Nat
           /\ execs \in Nat /\ \A pc : Owed(pc) \in {0, 1}
           /\ snap.state.plan \in Seq(SubTask) /\ run.tasks \in Seq(SubTask)
           /\ run.keep \in Seq(SubTask) /\ run.idx \in Nat
  BY SlotsOf, SnapTypes, RunTypes DEF TypeOK, Owed

LEMMA SumStays ==
    ASSUME TypeOK, SameAtts
    PROVE  SumAttempts(snap'.state.plan) = SumAttempts(snap.state.plan)
  BY SnapTypes, SameSum DEF SameAtts

LEMMA LedgerStays ==
    ASSUME LoopInv, LedgerInv, SameAtts, Stays
    PROVE  LedgerInv'
<1> DEFINE p == snap.state.plan
           q == snap'.state.plan
           sum == SumAttempts(p)
           owed == Owed(run.pc)
           owes == Owed(run'.pc)
<1>1. SumAttempts(q) = sum /\ sum \in Nat /\ execs \in Nat /\ owed \in Nat /\ owes \in Nat
  BY SumStays, Sums DEF LoopInv
<1>2. sum + owed <= execs /\ owes <= owed /\ execs' = execs
  BY DEF LedgerInv, Ledger, Stays, SameAtts
<1>3. SumAttempts(q) + Owed(run'.pc) <= execs'
  <2> HIDE DEF sum, owed, owes
  <2>1. sum + owes <= execs
    BY <1>1, <1>2
  <2> QED
    BY <1>1, <1>2, <2>1 DEF owes
<1>4. run'.pc \in OnPlan => SameCounts(run', q)
  <2> SUFFICES ASSUME run'.pc \in OnPlan
               PROVE  SameCounts(run', q)
    OBVIOUS
  <2>1. run.pc \in OnPlan /\ run'.tasks = run.tasks /\ run'.idx = run.idx
    BY DEF Stays
  <2>2. Len(p) = Len(run.tasks)
    BY <2>1, OnThePlan
  <2>3. SameCounts(run, p)
    BY <2>1 DEF LedgerInv, Ledger
  <2>4. \A i \in 1..Len(run.tasks) : q[i].att = p[i].att
    BY <2>2 DEF SameAtts
  <2> HIDE DEF p, q
  <2> QED
    BY <2>1, <2>3, <2>4 DEF SameCounts
<1>5. /\ run'.pc \in {"replan", "planned"} => SumAttempts(run'.tasks) <= execs'
      /\ run'.pc = "plan" => SumAttempts(run'.keep) <= execs'
  BY <1>2 DEF Stays, Planning, LedgerInv, Ledger
<1> QED
  BY <1>3, <1>4, <1>5 DEF LedgerInv, Ledger

LEMMA LedgerLeft ==
    ASSUME TypeOK, LedgerInv, SameAtts, Left
    PROVE  LedgerInv'
<1> DEFINE sum == SumAttempts(snap.state.plan)
           owed == Owed(run.pc)
<1>1. /\ SumAttempts(snap'.state.plan) = sum /\ sum \in Nat /\ execs \in Nat /\ owed \in Nat
      /\ sum + owed <= execs /\ execs' = execs
  BY SumStays, Sums DEF LedgerInv, Ledger, SameAtts
<1>2. Owed(run'.pc) = 0
  BY DEF Left, Owed, OnPlan, InLoop
<1>3. SumAttempts(snap'.state.plan) + Owed(run'.pc) <= execs'
  <2> HIDE DEF sum, owed
  <2> QED
    BY <1>1, <1>2
<1> QED
  BY <1>3 DEF Left, Planning, LedgerInv, Ledger

\* what the commits write to the plan
LEMMA PlanByCommit ==
    ASSUME TypeOK, NEW u, NEW next, snap' = Committed(u, next)
    PROVE  snap'.state.plan = IF u.plan = <<>> THEN snap.state.plan ELSE u.plan
<1> DEFINE new == ApplyStateUpdates(snap.state, u)
<1>1. snap'.state = new
  BY SeedIsState DEF TypeOK, Committed
<1>2. new.plan = (IF u.plan = <<>> THEN snap.state.plan ELSE u.plan)
  BY Zenon DEF ApplyStateUpdates
<1> HIDE DEF new
<1> QED
  BY <1>1, <1>2

LEMMA PlanByLogged ==
    ASSUME TypeOK, NEW u, NEW next, Logged(u, next)
    PROVE  \/ snap'.state.plan = snap.state.plan
           \/ u.plan # <<>> /\ snap'.state.plan = u.plan
  BY PlanByCommit DEF Logged

LEMMA PlanByChecked ==
    ASSUME TypeOK, NEW u, NEW next, NEW good, Checked(u, next, good)
    PROVE  \/ /\ run' = good
              /\ snap'.state.plan = IF u.plan = <<>> THEN snap.state.plan ELSE u.plan
           \/ run' = [run EXCEPT !.pc = ErrorPc] /\ snap'.state.plan = snap.state.plan
  BY PlanByCommit DEF Checked, Goto

LEMMA PlanByTelemetry ==
    ASSUME TypeOK, NEW t, NEW next, Telemetry(t, next)
    PROVE  snap'.state.plan = snap.state.plan
<1> DEFINE u == [NoUpdate EXCEPT !.tokens = t]
<1>1. u.plan = <<>>
  BY DEF NoUpdate
<1>2. Logged(u, next) \/ snap' = snap
  BY DEF Telemetry
<1> HIDE DEF u
<1> QED
  BY <1>1, <1>2, PlanByLogged

LEMMA PlanStays ==
    ASSUME TypeOK, snap'.state.plan = snap.state.plan, execs' = execs
    PROVE  SameAtts
  BY SnapTypes DEF SameAtts

LEMMA ErrorLeaves ==
    ASSUME TypeOK, run' = [run EXCEPT !.pc = ErrorPc]
    PROVE  Left
<1>1. run \in Run /\ ErrorPc \in {"fail", "cleanup"}
  BY DEF TypeOK, ErrorPc
<1>2. run'.pc = ErrorPc
  BY <1>1 DEF Run
<1> QED
  BY <1>1, <1>2 DEF Left, OnPlan, InLoop, InTask, PastLoop, Planning

LEMMA OutcomeKeeps ==
    ASSUME run \in Run, NEW out, Outcome(out)
    PROVE  /\ run'.tasks = run.tasks /\ run'.idx = run.idx /\ run'.keep = run.keep
           /\ run'.pc \in {"pausing", "finish"}
<1> DEFINE pc == OutcomePc(out)
<1>1. run' = [run EXCEPT !.out = out, !.pc = pc, !.bad = FALSE] /\ pc \in {"pausing", "finish"}
  BY DEF Outcome, OutcomePc
<1> HIDE DEF pc
<1> QED
  BY <1>1 DEF Run

\* the exits, the deferred checks, a crash and a planner that fails
LEMMA EndLedger ==
    ASSUME LoopInv, LedgerInv,
           PlanError \/ CommitFailure \/ Exit \/ Cleanup \/ Panic \/ Crash \/ CommitTerminal
    PROVE  LedgerInv'
<1> DEFINE u == [NoUpdate EXCEPT !.status = "done"]
           good == [run EXCEPT !.pc = "exit"]
<1>1. TypeOK /\ run \in Run
  BY RunTypes DEF LoopInv
<1>2. Failed.plan = <<>> /\ u.plan = <<>>
  BY DEF Failed, NoUpdate
<1>3. good.pc = "exit"
  BY <1>1 DEF Run
<1>4. /\ execs' = execs
      /\ \/ Checked(u, "terminal", good)
         \/ /\ run'.pc \in {"fail", "exit", "cleanup", "idle"}
            /\ \/ snap' = snap \/ Logged(Failed, "terminal")
               \/ snap' = Committed(Failed, "terminal")
  <2>1. CASE CommitTerminal
    BY <2>1 DEF CommitTerminal
  <2>2. CASE PlanError \/ CommitFailure \/ Exit \/ Panic
    BY <1>1, <2>2 DEF PlanError, CommitFailure, Exit, Panic, Goto, Run
  <2>3. CASE Cleanup \/ Crash
    BY <2>3 DEF Cleanup, Crash, IdleRun
  <2> QED
    BY <2>1, <2>2, <2>3
<1> HIDE DEF u, good
<1>5. SameAtts
  BY <1>1, <1>2, <1>4, PlanByChecked, PlanByLogged, PlanByCommit, PlanStays
<1>6. Left
  <2>1. run'.pc \in {"fail", "exit", "cleanup", "idle"} => Left
    BY DEF Left, OnPlan, InLoop, InTask, PastLoop, Planning
  <2> QED
    BY <1>1, <1>3, <1>4, <2>1, PlanByChecked, ErrorLeaves
<1> QED
  BY <1>1, <1>5, <1>6, LedgerLeft

\* the gates, the strict verdicts, the pause and the model calls that count nothing
LEMMA QuietLedger ==
    ASSUME LoopInv, LedgerInv,
           \/ BudgetGate \/ BudgetContinue \/ BudgetTimeout \/ BudgetCancelled \/ CtxGate
           \/ StrictReview \/ StrictAccept \/ StrictGiveUp \/ ReviewTask
           \/ PauseSubTask \/ (\E choice \in {"retry", "skip", "abort"} : AnswerPause(choice))
           \/ ResumeMarkDone
    PROVE  LedgerInv'
<1> DEFINE pause(i) == [NoUpdate EXCEPT !.intr = i]
           clear == [NoUpdate EXCEPT !.clearIntr = TRUE]
<1>1. TypeOK /\ run \in Run
  BY RunTypes DEF LoopInv
<1>2. clear.plan = <<>> /\ NoUpdate.plan = <<>> /\ \A i : pause(i).plan = <<>>
  BY DEF NoUpdate
<1>3. execs' = execs
  BY DEF BudgetGate, BudgetContinue, BudgetTimeout, BudgetCancelled, CtxGate, StrictReview,
    StrictAccept, StrictGiveUp, ReviewTask, PauseSubTask, AnswerPause, ResumeMarkDone
<1>4. \/ snap' = snap \/ snap' = Committed(clear, "executor")
      \/ Logged(clear, "executor") \/ Logged(NoUpdate, "executor")
      \/ (\E i : Logged(pause(i), "approval"))
      \/ \E t \in conf.costs : Telemetry(t, "reviewer")
  <2>1. CASE \/ BudgetGate \/ BudgetContinue \/ BudgetTimeout \/ BudgetCancelled \/ CtxGate
             \/ StrictAccept \/ StrictGiveUp
    BY <2>1 DEF BudgetGate, BudgetContinue, BudgetTimeout, BudgetCancelled, CtxGate,
      StrictAccept, StrictGiveUp
  <2>2. CASE StrictReview \/ ReviewTask \/ ResumeMarkDone
    BY <2>2 DEF StrictReview, ReviewTask, ResumeMarkDone
  <2>3. CASE PauseSubTask
    BY <2>3 DEF PauseSubTask
  <2>4. CASE \E choice \in {"retry", "skip", "abort"} : AnswerPause(choice)
    BY <2>4 DEF AnswerPause
  <2> QED
    BY <2>1, <2>2, <2>3, <2>4
<1> HIDE DEF clear, pause
<1>5. SameAtts
  BY <1>1, <1>2, <1>3, <1>4, PlanByLogged, PlanByCommit, PlanByTelemetry, PlanStays
<1>6. Stays
  <2> USE DEF At, Goto, Run, Planning, InTask, InLoop, PastLoop, OnPlan, Owed
  <2>1. CASE BudgetGate \/ BudgetContinue \/ CtxGate
    BY <1>1, <2>1 DEF BudgetGate, BudgetContinue, CtxGate, Stays
  <2>2. CASE BudgetTimeout \/ BudgetCancelled
    BY <1>1, <2>2 DEF BudgetTimeout, BudgetCancelled, Stays
  <2>3. CASE StrictReview \/ StrictAccept \/ StrictGiveUp
    <3>1. run.pc \in {"strict", "judged"}
      BY <2>3 DEF StrictReview, StrictAccept, StrictGiveUp
    <3>2. \/ \E out : Outcome(out)
          \/ \E block : run' = [run EXCEPT !.pc = "judged", !.bad = block]
      BY <2>3 DEF StrictReview, StrictAccept, StrictGiveUp
    <3>3. /\ run'.tasks = run.tasks /\ run'.idx = run.idx /\ run'.keep = run.keep
          /\ run'.pc \in {"judged", "pausing", "finish"}
      BY <1>1, <3>2, OutcomeKeeps
    <3> QED
      BY <3>1, <3>3 DEF Stays
  <2>4. CASE ReviewTask
    <3>1. run.pc = "review" /\ \E low : run' = [run EXCEPT !.pc = "reviewed", !.bad = low]
      BY <2>4 DEF ReviewTask
    <3>2. /\ run'.tasks = run.tasks /\ run'.idx = run.idx /\ run'.keep = run.keep
          /\ run'.pc = "reviewed"
      BY <1>1, <3>1
    <3> QED
      BY <3>1, <3>2 DEF Stays
  <2>5. CASE PauseSubTask
    BY <1>1, <2>5 DEF PauseSubTask, Stays
  <2>6. CASE \E choice \in {"retry", "skip", "abort"} : AnswerPause(choice)
    BY <1>1, <2>6 DEF AnswerPause, LoopPc, Stays
  <2>7. CASE ResumeMarkDone
    BY <1>1, <2>7 DEF ResumeMarkDone, Stays
  <2> QED
    BY <2>1, <2>2, <2>3, <2>4, <2>5, <2>6, <2>7
<1> QED
  BY <1>5, <1>6, LedgerStays

\* planning: what is preserved, and the fresh sub-tasks, claim no more than was counted
LEMMA PlanningLedger ==
    ASSUME LoopInv, LedgerInv, ReplanContext \/ PlanReady \/ CommitPlan
    PROVE  LedgerInv'
<1>1. /\ TypeOK /\ run \in Run /\ execs' = execs /\ execs \in Nat
      /\ SumAttempts(snap.state.plan) \in Nat /\ SumAttempts(snap.state.plan) <= execs
      /\ run.tasks \in Seq(SubTask) /\ run.keep \in Seq(SubTask)
      /\ SumAttempts(run.tasks) \in Nat
  <2>1. TypeOK /\ run \in Run /\ execs' = execs
    BY RunTypes DEF LoopInv, ReplanContext, PlanReady, CommitPlan
  <2>2. run.pc \in Planning => Owed(run.pc) = 0
    BY DEF Planning, Owed, InTask
  <2>3. run.pc \in Planning
    BY DEF ReplanContext, PlanReady, CommitPlan, At, Planning
  <2> QED
    BY <2>1, <2>2, <2>3, Sums DEF LedgerInv, Ledger
<1>2. CASE ReplanContext
  <2>1. run.pc = "replan" /\ SumAttempts(run.tasks) <= execs
    BY <1>2 DEF ReplanContext, At, LedgerInv, Ledger
  <2>2. PICK keep \in PreservedChoices(run.tasks) :
           Checked(NoUpdate, "planner", [run EXCEPT !.pc = "plan", !.keep = keep])
    BY <1>2 DEF ReplanContext
  <2> DEFINE good == [run EXCEPT !.pc = "plan", !.keep = keep]
  <2>3. keep \in Seq(SubTask) /\ SumAttempts(keep) <= SumAttempts(run.tasks)
    BY <1>1, PreservedType, FewerAttempts
  <2>4. SumAttempts(keep) \in Nat /\ good.pc = "plan" /\ good.keep = keep
    BY <1>1, <2>3, Sums DEF Run
  <2>5. NoUpdate.plan = <<>>
    BY DEF NoUpdate
  <2> HIDE DEF good
  <2>6. snap'.state.plan = snap.state.plan /\ (run' = good \/ run' = [run EXCEPT !.pc = ErrorPc])
    BY <1>1, <2>2, <2>5, PlanByChecked DEF good
  <2>7. CASE run' = good
    <3>1. Owed(run'.pc) = 0 /\ run'.pc \notin OnPlan
      BY <2>4, <2>7 DEF Owed, OnPlan, InLoop, InTask, PastLoop
    <3>2. SumAttempts(run'.keep) <= execs
      BY <1>1, <2>1, <2>3, <2>4, <2>7
    <3>3. SumAttempts(snap'.state.plan) + Owed(run'.pc) <= execs'
      BY <1>1, <2>6, <3>1
    <3> QED
      BY <1>1, <2>4, <2>7, <3>1, <3>2, <3>3 DEF LedgerInv, Ledger
  <2>8. CASE run' = [run EXCEPT !.pc = ErrorPc]
    BY <1>1, <2>6, <2>8, ErrorLeaves, PlanStays, LedgerLeft
  <2> QED
    BY <2>6, <2>7, <2>8
<1>3. CASE PlanReady
  <2>1. run.pc = "plan" /\ SumAttempts(run.keep) <= execs
    BY <1>3 DEF PlanReady, At, LedgerInv, Ledger
  <2>2. PICK n \in PlanSizes, t \in conf.costs :
           /\ Telemetry(t, "planner")
           /\ run' = [run EXCEPT !.tasks = MergePreservedSubTasks(run.keep, n),
                         !.pc = IF Len(MergePreservedSubTasks(run.keep, n)) > MaxSubTasks
                                  THEN "fail" ELSE "planned"]
    BY <1>3 DEF PlanReady
  <2> DEFINE tasks == MergePreservedSubTasks(run.keep, n)
             pc == IF Len(tasks) > MaxSubTasks THEN "fail" ELSE "planned"
  <2>3. n \in Nat \ {0}
    BY ConfigTypes
  <2>4. SumAttempts(tasks) = SumAttempts(run.keep)
    BY <1>1, <2>3, FreshAttempts
  <2>5. pc \in {"fail", "planned"}
    OBVIOUS
  <2>6. snap'.state.plan = snap.state.plan
    BY <1>1, <2>2, PlanByTelemetry
  <2>7. run' = [run EXCEPT !.tasks = tasks, !.pc = pc]
    BY <2>2
  <2> HIDE DEF tasks, pc
  <2>8. run'.tasks = tasks /\ run'.pc = pc
    BY <1>1, <2>7 DEF Run
  <2>9. Owed(run'.pc) = 0 /\ run'.pc \notin OnPlan /\ run'.pc # "plan"
    BY <2>5, <2>8 DEF Owed, OnPlan, InLoop, InTask, PastLoop
  <2>10. SumAttempts(snap'.state.plan) + Owed(run'.pc) <= execs'
    BY <1>1, <2>6, <2>9
  <2> QED
    BY <1>1, <2>1, <2>4, <2>8, <2>9, <2>10 DEF LedgerInv, Ledger
<1>4. CASE CommitPlan
  <2> DEFINE u == [NoUpdate EXCEPT !.status = "executing", !.idx = 0, !.plan = run.tasks]
             good == [run EXCEPT !.pc = LoopPc, !.idx = 0]
  <2>1. /\ run.pc = "planned" /\ SumAttempts(run.tasks) <= execs
        /\ Checked(u, "executor", good)
    BY <1>4 DEF CommitPlan, At, LedgerInv, Ledger
  <2>2. run.tasks # <<>>
    BY <2>1 DEF LoopInv, Sound, Placed
  <2>3. u.plan = run.tasks
    BY DEF NoUpdate
  <2>4. good.tasks = run.tasks /\ good.pc \in {"budget", "ctx"}
    BY <1>1 DEF Run, LoopPc
  <2> HIDE DEF u, good
  <2>5. \/ run' = good /\ snap'.state.plan = run.tasks
        \/ run' = [run EXCEPT !.pc = ErrorPc] /\ snap'.state.plan = snap.state.plan
    BY <1>1, <2>1, <2>2, <2>3, PlanByChecked
  <2>6. CASE run' = good /\ snap'.state.plan = run.tasks
    <3>1. Owed(run'.pc) = 0 /\ run'.pc \notin Planning
      BY <2>4, <2>6 DEF Owed, InTask, Planning
    <3>2. SameCounts(run', snap'.state.plan)
      BY <2>4, <2>6 DEF SameCounts
    <3>3. SumAttempts(snap'.state.plan) + Owed(run'.pc) <= execs'
      BY <1>1, <2>1, <2>6, <3>1
    <3> QED
      BY <3>1, <3>2, <3>3 DEF LedgerInv, Ledger, Planning
  <2>7. CASE run' = [run EXCEPT !.pc = ErrorPc] /\ snap'.state.plan = snap.state.plan
    BY <1>1, <2>7, ErrorLeaves, PlanStays, LedgerLeft
  <2> QED
    BY <2>5, <2>6, <2>7
<1> QED
  BY <1>2, <1>3, <1>4

\* a sub-task passed over counts the same in both plans, and so does one behind the loop
LEMMA MovesLedger ==
    ASSUME LoopInv, LedgerInv, SkipSettled \/ ReviewDecide
    PROVE  LedgerInv'
<1> DEFINE plan == snap.state.plan
<1>1. /\ TypeOK /\ run \in Run /\ execs' = execs /\ execs \in Nat /\ snap' = snap
      /\ SumAttempts(plan) \in Nat /\ SumAttempts(plan) <= execs
  <2>1. TypeOK /\ run \in Run /\ execs' = execs /\ snap' = snap
    BY RunTypes DEF LoopInv, SkipSettled, ReviewDecide
  <2>2. Owed(run.pc) = 0
    BY DEF SkipSettled, ReviewDecide, At, Owed, InTask
  <2> QED
    BY <2>1, <2>2, Sums DEF LedgerInv, Ledger
<1>2. run.pc \in {"pick", "reviewed"}
  BY DEF SkipSettled, ReviewDecide, At
<1>3. run.pc \in OnPlan /\ (run.pc = "reviewed" => run.pc \in PastLoop)
  BY <1>2 DEF OnPlan, InLoop, PastLoop
<1>4. /\ plan \in Seq(SubTask) /\ run.tasks \in Seq(SubTask) /\ Len(plan) = Len(run.tasks)
      /\ Len(plan) \in Nat /\ run.idx \in Nat /\ SameCounts(run, plan)
  BY <1>3, OnThePlan DEF LedgerInv, Ledger
<1>5. CASE SkipSettled
  <2> DEFINE pc == AfterSubTask(run.idx + 1)
  <2>1. run.tasks[run.idx + 1].st \in Settled /\ run' = [run EXCEPT !.idx = run.idx + 1, !.pc = pc]
    BY <1>5 DEF SkipSettled, PassedOver, Settled
  <2>2. pc \in {"budget", "ctx", "review", "final"}
    BY DEF AfterSubTask, LoopPc
  <2> HIDE DEF pc, plan
  <2>3. run'.tasks = run.tasks /\ run'.idx = run.idx + 1 /\ run'.pc = pc
    BY <1>1, <2>1 DEF Run
  <2>4. \A i \in 1..Len(run.tasks) :
           i # run.idx + 1 \/ run.tasks[i].st \in Settled => plan[i].att = run.tasks[i].att
    BY <1>4 DEF SameCounts
  <2>5. ASSUME NEW i \in 1..Len(run.tasks)
        PROVE  i # run.idx + 2 \/ run.tasks[i].st \in Settled => plan[i].att = run.tasks[i].att
    <3>1. CASE i = run.idx + 1
      BY <2>1, <2>4, <3>1
    <3>2. CASE i # run.idx + 1
      BY <2>4, <3>2
    <3> QED
      BY <3>1, <3>2
  <2>6. SameCounts(run', plan)
    <3>1. run.idx + 1 + 1 = run.idx + 2
      BY <1>4
    <3> QED
      BY <2>3, <2>5, <3>1 DEF SameCounts
  <2>7. Owed(run'.pc) = 0 /\ run'.pc \notin Planning
    BY <2>2, <2>3 DEF Owed, InTask, Planning
  <2>8. SumAttempts(plan) + Owed(run'.pc) <= execs
    BY <1>1, <2>7 DEF plan
  <2> QED
    BY <1>1, <2>6, <2>7, <2>8 DEF LedgerInv, Ledger, Planning, plan
<1>6. CASE ReviewDecide
  <2>1. /\ run'.tasks = run.tasks /\ run'.idx = run.idx /\ run'.keep = run.keep
        /\ run'.pc \in {"replan", "final"} /\ run.pc = "reviewed"
    BY <1>1, <1>6 DEF ReviewDecide, At, Run
  <2>2. CASE run'.pc = "final"
    <3>1. Stays
      BY <1>3, <2>1, <2>2 DEF Stays, Owed, InTask, Planning
    <3> QED
      BY <1>1, <3>1, PlanStays, LedgerStays
  <2>3. CASE run'.pc = "replan"
    <3>1. run.idx = Len(run.tasks)
      BY <1>3, <2>1 DEF LoopInv, Sound, Placed
    <3> HIDE DEF plan
    <3>2. \A i \in 1..Len(plan) : run.tasks[i].att = plan[i].att
      BY <1>4, <3>1 DEF SameCounts
    <3>3. SumAttempts(run.tasks) = SumAttempts(plan)
      BY <1>4, <3>2, SameSum
    <3>4. Owed(run'.pc) = 0 /\ run'.pc \notin OnPlan
      BY <2>3 DEF Owed, OnPlan, InLoop, InTask, PastLoop
    <3>5. SumAttempts(plan) + Owed(run'.pc) <= execs
      BY <1>1, <3>4 DEF plan
    <3> QED
      BY <1>1, <2>1, <2>3, <3>3, <3>4, <3>5 DEF LedgerInv, Ledger, plan
  <2> QED
    BY <2>1, <2>2, <2>3
<1> QED
  BY <1>5, <1>6

\* the call of the executor is what the sub-task owes
LEMMA ExecuteLedger ==
    ASSUME LoopInv, LedgerInv, NEW ok, Execute(ok)
    PROVE  LedgerInv'
<1> DEFINE sum == SumAttempts(snap.state.plan)
<1>1. /\ TypeOK /\ run \in Run /\ run.pc = "exec" /\ execs' = execs + 1
      /\ sum \in Nat /\ execs \in Nat
  BY RunTypes, Sums DEF LoopInv, Execute, At
<1>2. sum <= execs /\ SameCounts(run, snap.state.plan)
  <2>1. Owed(run.pc) = 0 /\ run.pc \in OnPlan
    BY <1>1 DEF Owed, OnPlan, InLoop, InTask
  <2> QED
    BY <1>1, <2>1 DEF LedgerInv, Ledger
<1>3. snap'.state.plan = snap.state.plan
  BY <1>1, PlanByTelemetry DEF Execute
<1>4. /\ run'.tasks = run.tasks /\ run'.idx = run.idx
      /\ run'.pc \in {"strict", "pausing", "finish"}
  <2>1. run' = [run EXCEPT !.pc = "strict"] \/ \E out : Outcome(out)
    BY DEF Execute, Goto
  <2> QED
    BY <1>1, <2>1, OutcomeKeeps DEF Run
<1>5. Owed(run'.pc) = 1 /\ run'.pc \notin Planning
  BY <1>4 DEF Owed, InTask, Planning
<1>6. SumAttempts(snap'.state.plan) + Owed(run'.pc) <= execs'
  <2> HIDE DEF sum
  <2>1. sum + 1 <= execs + 1
    BY <1>1, <1>2
  <2> QED
    BY <1>1, <1>3, <1>5, <2>1 DEF sum
<1>7. SameCounts(run', snap'.state.plan)
  BY <1>2, <1>3, <1>4 DEF SameCounts
<1> QED
  BY <1>5, <1>6, <1>7 DEF LedgerInv, Ledger, Planning

\* a start changes a status; a strict retry counts the blocked attempt, which was owed
LEMMA RunningLedger ==
    ASSUME LoopInv, LedgerInv, SubTaskStart \/ StrictRetry
    PROVE  LedgerInv'
<1> DEFINE plan == snap.state.plan
           k == run.idx + 1
           a == plan[k].att
           x == [plan[k] EXCEPT !.st = "in_progress"]
           y == [plan[k] EXCEPT !.st = "in_progress", !.att = a + 1]
           u(p) == [NoUpdate EXCEPT !.plan = p, !.idx = run.idx]
<1>1. /\ TypeOK /\ run \in Run /\ execs' = execs /\ execs \in Nat
      /\ run.pc \in {"pick", "judged"}
      /\ SumAttempts(plan) \in Nat
  BY RunTypes, Sums DEF LoopInv, SubTaskStart, StrictRetry, At
<1>2. /\ plan \in Seq(SubTask) /\ Len(plan) = Len(run.tasks) /\ Len(plan) \in Nat
      /\ run.idx \in Nat /\ run.idx < Len(run.tasks) /\ SameCounts(run, plan)
  <2>1. run.pc \in OnPlan /\ run.pc \in InLoop
    BY <1>1 DEF OnPlan, InLoop, InTask
  <2> QED
    BY <2>1, OnThePlan DEF LedgerInv, Ledger, LoopInv, Sound, Placed
<1>3. k \in 1..Len(plan) /\ plan[k] \in SubTask /\ a \in Nat
  <2>1. k \in 1..Len(plan) /\ plan[k] \in SubTask
    BY <1>2
  <2> QED
    BY <2>1 DEF SubTask
<1>4. /\ run'.tasks = run.tasks /\ run'.idx = run.idx /\ run'.keep = run.keep
      /\ run'.pc = "exec"
  BY <1>1 DEF SubTaskStart, StrictRetry, Run
<1>5. Stays
  BY <1>1, <1>4 DEF Stays, OnPlan, InLoop, InTask, Owed, Planning
<1>6. \A p : u(p).plan = p
  BY DEF NoUpdate
<1>7. \/ snap'.state.plan = plan
      \/ run.pc = "pick" /\ snap'.state.plan = [plan EXCEPT ![k] = x]
      \/ run.pc = "judged" /\ snap'.state.plan = [plan EXCEPT ![k] = y]
  <2>1. [plan EXCEPT ![k].st = "in_progress"] = [plan EXCEPT ![k] = x]
    OBVIOUS
  <2>2. Counted(plan, k) = [plan EXCEPT ![k] = y]
    <3>1. [plan[k] EXCEPT !.st = "in_progress", !.att = @ + 1] = y
      OBVIOUS
    <3> HIDE DEF plan, k, y
    <3> QED
      BY <3>1 DEF Counted
  <2>3. \/ snap' = snap
        \/ run.pc = "pick" /\ Logged(u([plan EXCEPT ![k] = x]), "executor")
        \/ run.pc = "judged" /\ Logged(u([plan EXCEPT ![k] = y]), "executor")
    <3>1. CASE SubTaskStart
      <4>1. \/ snap' = snap
            \/ Logged(u([plan EXCEPT ![k].st = "in_progress"]), "executor")
        BY <3>1 DEF SubTaskStart
      <4>2. run.pc = "pick"
        BY <3>1 DEF SubTaskStart, At
      <4> HIDE DEF u, x
      <4> QED
        BY <4>1, <4>2, <2>1
    <3>2. CASE StrictRetry
      <4>1. snap' = snap \/ Logged(u(Counted(plan, k)), "executor")
        BY <3>2 DEF StrictRetry
      <4>2. run.pc = "judged"
        BY <3>2 DEF StrictRetry, At
      <4> HIDE DEF u, y
      <4> QED
        BY <4>1, <4>2, <2>2
    <3> QED
      BY <3>1, <3>2
  <2> HIDE DEF u, x, y
  <2> QED
    BY <1>1, <1>6, <2>3, PlanByLogged
<1>8. CASE snap'.state.plan = plan
  BY <1>1, <1>5, <1>8, PlanStays, LedgerStays
<1>9. CASE snap'.state.plan = [plan EXCEPT ![k] = x]
  <2> DEFINE new == [plan EXCEPT ![k] = x]
  <2>1. x \in SubTask /\ x.att = a
    BY <1>3 DEF SubTask, SubTaskStatus
  <2> HIDE DEF x, k, plan
  <2>2. /\ new \in Seq(SubTask) /\ Len(new) = Len(plan) /\ new[k] = x
        /\ \A j \in 1..Len(plan) : j # k => new[j] = plan[j]
    BY <1>2, <1>3, <2>1, OneEntry
  <2> HIDE DEF new
  <2>3. \A i \in 1..Len(plan) : new[i].att = plan[i].att
    BY <2>1, <2>2
  <2>4. snap'.state.plan = new
    BY <1>9 DEF new
  <2>5. SameAtts
    BY <1>1, <2>2, <2>3, <2>4 DEF SameAtts, plan
  <2> QED
    BY <1>5, <2>5, LedgerStays
<1>10. CASE run.pc = "judged" /\ snap'.state.plan = [plan EXCEPT ![k] = y]
  <2> DEFINE new == [plan EXCEPT ![k] = y]
             sum == SumAttempts(plan)
  <2>1. y \in SubTask /\ y.att = a + 1
    <3>1. a + 1 \in Nat
      BY <1>3
    <3> HIDE DEF a
    <3> QED
      BY <1>3, <3>1 DEF SubTask, SubTaskStatus
  <2>2. run.tasks[k].st \notin Settled
    BY <1>10 DEF LoopInv, Sound, Placed, InTask
  <2>3. sum + 1 <= execs
    <3>1. Owed(run.pc) = 1
      BY <1>10 DEF Owed, InTask
    <3> QED
      BY <3>1 DEF LedgerInv, Ledger
  <2>4. k = run.idx + 1
    OBVIOUS
  <2> HIDE DEF y, k, plan
  <2>5. /\ new \in Seq(SubTask) /\ Len(new) = Len(plan) /\ new[k] = y
        /\ \A j \in 1..Len(plan) : j # k => new[j] = plan[j]
    BY <1>2, <1>3, <2>1, OneEntry
  <2> HIDE DEF new
  <2>6. SumAttempts(new) = sum + 1
    <3>1. new[k].att = plan[k].att + 1
      BY <2>1, <2>5
    <3>2. \A j \in 1..Len(plan) : j # k => new[j].att = plan[j].att
      BY <2>5
    <3> QED
      BY <1>2, <1>3, <2>5, <3>1, <3>2, OneMore
  <2>7. SameCounts(run', new)
    BY <1>2, <1>4, <2>2, <2>4, <2>5 DEF SameCounts
  <2>8. Owed(run'.pc) = 0 /\ run'.pc \notin Planning
    BY <1>4 DEF Owed, Planning
  <2>9. snap'.state.plan = new
    BY <1>10 DEF new
  <2>10. SumAttempts(new) + Owed(run'.pc) <= execs
    BY <1>1, <2>3, <2>6, <2>8 DEF sum, plan
  <2> QED
    BY <1>1, <2>7, <2>8, <2>9, <2>10 DEF LedgerInv, Ledger, Planning
<1> QED
  BY <1>7, <1>8, <1>9, <1>10

\* the outcome counts the attempt that was owed, on top of the stored counter
LEMMA FinishLedger ==
    ASSUME LoopInv, LedgerInv, FinishSubTask
    PROVE  LedgerInv'
<1> DEFINE plan == snap.state.plan
           k == run.idx + 1
           new == WithOutcome(OutcomeStatus[run.out])
           u == [NoUpdate EXCEPT !.plan = new, !.idx = k]
           pc == AfterSubTask(k)
           good == [run EXCEPT !.tasks = new, !.idx = @ + 1, !.pc = pc]
           sum == SumAttempts(plan)
<1>1. /\ TypeOK /\ run \in Run /\ execs' = execs /\ execs \in Nat /\ run.pc = "finish"
      /\ sum \in Nat /\ Checked(u, NextAfter(k), good)
  BY RunTypes, Sums DEF LoopInv, FinishSubTask, At
<1>2. /\ plan \in Seq(SubTask) /\ run.tasks \in Seq(SubTask) /\ Len(plan) = Len(run.tasks)
      /\ Len(plan) \in Nat /\ run.idx \in Nat /\ run.idx < Len(run.tasks)
      /\ SameCounts(run, plan)
  <2>1. run.pc \in OnPlan /\ run.pc \in InLoop
    BY <1>1 DEF OnPlan, InLoop, InTask
  <2> QED
    BY <2>1, OnThePlan DEF LedgerInv, Ledger, LoopInv, Sound, Placed
<1>3. k \in 1..Len(plan) /\ plan[k] \in SubTask /\ run.tasks[k] \in SubTask
  BY <1>2
<1>4. sum + 1 <= execs
  <2>1. Owed(run.pc) = 1
    BY <1>1 DEF Owed, InTask
  <2> QED
    BY <2>1 DEF LedgerInv, Ledger
<1>5. /\ new \in Seq(SubTask) /\ Len(new) = Len(plan) /\ new[k].att = plan[k].att + 1
      /\ \A i \in 1..Len(plan) : i # k => new[i] = run.tasks[i]
  <2> DEFINE st == OutcomeStatus[run.out]
             att == IF k <= Len(plan) THEN plan[k].att ELSE run.tasks[k].att
             x == [run.tasks[k] EXCEPT !.st = st, !.att = att + 1]
  <2>1. st \in {"done", "skipped", "failed"}
    BY <1>1 DEF OutcomeStatus, Run
  <2>2. att = plan[k].att
    BY <1>3
  <2>3. new = [run.tasks EXCEPT ![k] = x]
    BY DEF WithOutcome
  <2>4. plan[k].att + 1 \in Nat
    BY <1>3 DEF SubTask
  <2>5. x \in SubTask /\ x.att = plan[k].att + 1
    <3> HIDE DEF att, st, plan, k
    <3> QED
      BY <1>3, <2>1, <2>2, <2>4 DEF SubTask, SubTaskStatus
  <2> HIDE DEF x, k, plan, new
  <2>6. /\ new \in Seq(SubTask) /\ Len(new) = Len(run.tasks) /\ new[k] = x
        /\ \A i \in 1..Len(run.tasks) : i # k => new[i] = run.tasks[i]
    BY <1>2, <1>3, <2>3, <2>5, OneEntry
  <2> QED
    BY <1>2, <2>5, <2>6
<1>6. pc \in {"budget", "ctx", "review", "final"}
  BY DEF AfterSubTask, LoopPc
<1>7. u.plan = new /\ k = run.idx + 1
  BY DEF NoUpdate
<1> HIDE DEF new, pc, plan
<1>8. good.tasks = new /\ good.pc = pc
  BY <1>1 DEF Run
<1>9. new # <<>>
  BY <1>2, <1>3, <1>5
<1> HIDE DEF k, u, good
<1>10. \/ run' = good /\ snap'.state.plan = new
       \/ run' = [run EXCEPT !.pc = ErrorPc] /\ snap'.state.plan = plan
  BY <1>1, <1>7, <1>9, PlanByChecked DEF plan
<1>11. CASE run' = good /\ snap'.state.plan = new
  <2>1. \A i \in 1..Len(plan) : i # k => new[i].att = plan[i].att
    BY <1>2, <1>5, <1>7 DEF SameCounts
  <2>2. SumAttempts(new) = sum + 1
    BY <1>2, <1>3, <1>5, <2>1, OneMore
  <2>3. Owed(run'.pc) = 0 /\ run'.pc \notin Planning
    BY <1>6, <1>8, <1>11 DEF Owed, InTask, Planning
  <2>4. SumAttempts(snap'.state.plan) + Owed(run'.pc) <= execs'
    <3> HIDE DEF sum
    <3> QED
      BY <1>1, <1>4, <1>11, <2>2, <2>3
  <2>5. SameCounts(run', snap'.state.plan)
    BY <1>8, <1>11 DEF SameCounts
  <2> QED
    BY <2>3, <2>4, <2>5 DEF LedgerInv, Ledger, Planning
<1>12. CASE run' = [run EXCEPT !.pc = ErrorPc] /\ snap'.state.plan = plan
  BY <1>1, <1>12, ErrorLeaves, PlanStays, LedgerLeft DEF plan
<1> QED
  BY <1>10, <1>11, <1>12

\* a resume takes its local plan from the stored one
LEMMA ResumeLedger ==
    ASSUME LoopInv, LedgerInv, ResumeStart \/ ResumeCommit
    PROVE  LedgerInv'
<1>1. TypeOK /\ run \in Run
  BY RunTypes DEF LoopInv
<1>2. CASE ResumeStart
  <2> DEFINE plan == snap.state.plan
             k == FromIdx(plan)
  <2>1. /\ run.pc = "idle" /\ snap' = snap /\ execs' = execs
        /\ run' = [IdleRun EXCEPT !.pc = "resumed", !.kind = "resume", !.tasks = plan, !.idx = k]
    BY <1>2 DEF ResumeStart, At
  <2> HIDE DEF plan, k
  <2>2. run'.pc = "resumed" /\ run'.tasks = plan
    BY <2>1 DEF IdleRun
  <2>3. Owed(run'.pc) = 0 /\ Owed(run.pc) = 0 /\ run'.pc \notin Planning
    BY <2>1, <2>2 DEF Owed, InTask, Planning
  <2>4. SameCounts(run', plan)
    BY <2>2 DEF SameCounts
  <2> QED
    BY <2>1, <2>3, <2>4 DEF LedgerInv, Ledger, Planning, plan
<1>3. CASE ResumeCommit
  <2> DEFINE u == [NoUpdate EXCEPT !.status = "executing", !.idx = run.idx]
             good == [run EXCEPT !.pc = LoopPc]
  <2>1. execs' = execs /\ run.pc = "resumed" /\ Checked(u, "executor", good)
    BY <1>3 DEF ResumeCommit, At
  <2>2. u.plan = <<>>
    BY DEF NoUpdate
  <2>3. /\ good.tasks = run.tasks /\ good.idx = run.idx /\ good.keep = run.keep
        /\ good.pc \in {"budget", "ctx"}
    BY <1>1 DEF Run, LoopPc
  <2> HIDE DEF u, good
  <2>4. SameAtts /\ (run' = good \/ run' = [run EXCEPT !.pc = ErrorPc])
    BY <1>1, <2>1, <2>2, PlanByChecked, PlanStays
  <2>5. CASE run' = good
    <3>1. Stays
      BY <2>1, <2>3, <2>5 DEF Stays, OnPlan, Owed, InTask, Planning
    <3> QED
      BY <2>4, <3>1, LedgerStays
  <2>6. CASE run' = [run EXCEPT !.pc = ErrorPc]
    BY <1>1, <2>4, <2>6, ErrorLeaves, LedgerLeft
  <2> QED
    BY <2>4, <2>5, <2>6
<1> QED
  BY <1>2, <1>3

\* what goes on beside the goroutine counts nothing
LEMMA AroundLedger ==
    ASSUME LoopInv, LedgerInv,
           \/ InterruptWithCancel \/ InterruptWithCommit \/ Sweep \/ Resolve
           \/ WallclockElapses \/ UNCHANGED vars
    PROVE  LedgerInv'
<1> DEFINE plan == snap.state.plan
           k == snap.state.intr.idx + 1
           x == [plan[k] EXCEPT !.st = "skipped"]
           new == [plan EXCEPT ![k] = x]
           stop == [NoUpdate EXCEPT !.status = "interrupted",
                       !.intr = [reason |-> "user_interrupt", idx |-> -1, resume |-> NoStep]]
           clear == [NoUpdate EXCEPT !.clearIntr = TRUE]
           skip == [NoUpdate EXCEPT !.plan = new, !.idx = k, !.clearIntr = TRUE]
<1>1. TypeOK /\ run \in Run
  BY RunTypes DEF LoopInv
<1>2. /\ execs' = execs /\ run'.tasks = run.tasks /\ run'.idx = run.idx
      /\ run'.keep = run.keep /\ run'.pc = run.pc
  BY <1>1 DEF InterruptWithCancel, InterruptWithCommit, Sweep, Resolve, WallclockElapses, vars, Run
<1>3. Stays
  <2>1. Owed(run.pc) <= Owed(run.pc)
    BY DEF Owed
  <2> QED
    BY <1>2, <2>1 DEF Stays
<1>4. stop.plan = <<>> /\ clear.plan = <<>> /\ Failed.plan = <<>> /\ skip.plan = new
  BY DEF NoUpdate, Failed
<1>5. \/ snap' = snap
      \/ snap' = Committed(stop, "terminal") \/ snap' = Committed(clear, "executor")
      \/ snap' = Committed(Failed, "terminal")
      \/ snap.state.intr.idx \in 0..Len(plan) - 1 /\ snap' = Committed(skip, "executor")
  <2>1. [plan EXCEPT ![k].st = "skipped"] = new
    OBVIOUS
  <2>2. \/ snap' = snap
        \/ snap' = Committed(stop, "terminal") \/ snap' = Committed(clear, "executor")
        \/ snap' = Committed(Failed, "terminal")
        \/ /\ snap.state.intr.idx \in 0..Len(plan) - 1
           /\ snap' = Committed([NoUpdate EXCEPT !.plan = [plan EXCEPT ![k].st = "skipped"],
                                    !.idx = k, !.clearIntr = TRUE], "executor")
    BY DEF InterruptWithCancel, InterruptWithCommit, Sweep, Resolve, WallclockElapses, vars
  <2> HIDE DEF new, stop, clear
  <2> QED
    BY <2>1, <2>2
<1> HIDE DEF stop, clear, skip
<1>6. SameAtts
  <2>1. CASE snap'.state.plan = plan
    BY <1>1, <1>2, <2>1, PlanStays
  <2>2. CASE snap.state.intr.idx \in 0..Len(plan) - 1 /\ snap'.state.plan = new
    <3>1. plan \in Seq(SubTask) /\ k \in 1..Len(plan)
      BY <1>1, <2>2, SnapTypes
    <3>2. x \in SubTask /\ x.att = plan[k].att
      <4>1. plan[k] \in SubTask
        BY <3>1
      <4> QED
        BY <4>1 DEF SubTask, SubTaskStatus
    <3> HIDE DEF x, k, plan
    <3>3. /\ new \in Seq(SubTask) /\ Len(new) = Len(plan) /\ new[k] = x
          /\ \A j \in 1..Len(plan) : j # k => new[j] = plan[j]
      BY <3>1, <3>2, OneEntry
    <3> HIDE DEF new
    <3>4. \A i \in 1..Len(plan) : new[i].att = plan[i].att
      BY <3>2, <3>3
    <3> QED
      BY <1>2, <2>2, <3>3, <3>4 DEF SameAtts, plan
  <2>3. snap'.state.plan = plan \/ (snap.state.intr.idx \in 0..Len(plan) - 1 /\ snap'.state.plan = new)
    <3> HIDE DEF new
    <3> QED
      BY <1>1, <1>4, <1>5, PlanByCommit
  <2> QED
    BY <2>1, <2>2, <2>3
<1> QED
  BY <1>3, <1>6, LedgerStays

\* However a sub-task came to be tried again, by a strict retry, an operator, a replan, a
\* resume or a start after a crash, the plan claims no attempt the executor has not made, for
\* every configuration, plan and retry limit (commitSubTaskRetryBoundary, applySubTaskOutcome).
THEOREM AttemptsAreHonest == Spec => []AttemptsHonest
<1>1. Init => LedgerInv
  <2> SUFFICES ASSUME Init PROVE LedgerInv
    OBVIOUS
  <2>1. snap.state.plan = <<>> /\ run.pc = "plan" /\ run.keep = <<>> /\ execs = 0
    BY DEF Init, CreatedState, IdleRun
  <2>2. Owed(run.pc) = 0 /\ run.pc \notin OnPlan
    BY <2>1 DEF Owed, OnPlan, InLoop, InTask, PastLoop
  <2> QED
    BY <2>1, <2>2, NoAttempts DEF LedgerInv, Ledger
<1>2. ASSUME LoopInv, LedgerInv, [Next]_vars
      PROVE  LedgerInv'
  BY <1>2, PlanningLedger, MovesLedger, ExecuteLedger, RunningLedger, FinishLedger, ResumeLedger,
    AroundLedger, EndLedger, QuietLedger DEF Next, Step
<1>3. LoopInv /\ LedgerInv => AttemptsHonest
  <2> SUFFICES ASSUME LoopInv, LedgerInv PROVE AttemptsHonest
    OBVIOUS
  <2> DEFINE sum == SumAttempts(snap.state.plan)
             owed == Owed(run.pc)
  <2>1. sum \in Nat /\ owed \in Nat /\ execs \in Nat /\ sum + owed <= execs
    BY Sums DEF LoopInv, LedgerInv, Ledger
  <2>2. sum <= execs
    <3> HIDE DEF sum, owed
    <3> QED
      BY <2>1
  <2> QED
    BY <2>2 DEF AttemptsHonest
<1> QED
  BY <1>1, <1>2, <1>3, LoopInvariant, PTL DEF Spec

=============================================================================
