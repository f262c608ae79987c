------------------------ MODULE HermesRuntimeProofs ------------------------
(***************************************************************************)
(* Proofs about HermesRuntime, for every number of walkers and operators   *)
(* and every configuration that satisfies ConfigAssumption.                *)
(***************************************************************************)
EXTENDS HermesRuntime, HermesStateProofs, TLAPS

LEMMA ConstantTypes ==
    /\ NoInterrupt \in Interrupt /\ NoReplan \in Replan /\ CreatedState \in State
    /\ NoUpdate \in StateUpdate /\ NoSnapshot \in Snapshot /\ IdleRun \in Run
    /\ IdleOp \in OpState /\ PendingSubTask \in SubTask
  BY DEF NoInterrupt, Interrupt, InterruptReason, RuntimeStep, NoStep, NoReplan, Replan,
         CreatedState, State, TaskStatus, NoUpdate, StateUpdate, NoSnapshot, Snapshot,
         IdleRun, Run, NoReview, Verdict, IdleOp, OpState, PendingSubTask, SubTask,
         SubTaskStatus
-----------------------------------------------------------------------------
(* Type correctness *)

LEMMA CommittedType ==
    ASSUME NEW u \in StateUpdate, NEW next \in RuntimeStep \cup {NoStep}, snap \in Snapshot
    PROVE  Committed(u, next) \in Snapshot
<1>1. snap.state \in State
  BY DEF Snapshot
<1>2. Committed(u, next) = [state |-> ApplyStateUpdates(snap.state, u), next |-> next]
  BY <1>1, CommitSeedIsCurrent DEF Committed
<1>3. ApplyStateUpdates(snap.state, u) \in State
  BY <1>1, ApplyType
<1> QED
  BY <1>2, <1>3 DEF Snapshot

LEMMA TryCommitType ==
    ASSUME NEW u \in StateUpdate, NEW next \in RuntimeStep \cup {NoStep}, snap \in Snapshot,
           TryCommit(u, next)
    PROVE  snap' \in Snapshot
  BY CommittedType DEF TryCommit

\* the fields of a goroutine that an action replaces
LEMMA RunFields ==
    ASSUME NEW r \in Run
    PROVE  /\ \A pc \in {"idle", "starting", "loop", "load", "budget", "node", "reviewed",
                         "failing", "end"} :
                 [r EXCEPT !.pc = pc] \in Run
           /\ \A b \in BOOLEAN : [r EXCEPT !.sync = b] \in Run
           /\ \A c \in BOOLEAN : [r EXCEPT !.cancelled = c] \in Run
           /\ \A s \in Snapshot : [r EXCEPT !.last = s] \in Run
           /\ \A v \in [verdict : Verdict, low : BOOLEAN, tokens : Nat] :
                 [r EXCEPT !.rev = v] \in Run
           /\ \A n \in Nat : [r EXCEPT !.attempt = n] \in Run
           /\ \A p \in Seq(SubTask) : [r EXCEPT !.recorded = p] \in Run
  BY DEF Run

LEMMA NodeCommitType ==
    ASSUME NEW w \in Walkers, NEW r \in Run, NEW out \in StateUpdate,
           NEW next \in RuntimeStep, NEW halt \in BOOLEAN,
           TaskOK, NodeCommit(w, r, out, next, halt)
    PROVE  /\ snap' \in Snapshot /\ run' \in [Walkers -> Run]
           /\ UNCHANGED <<eng, op, late, events>>
<1> DEFINE u == FinishingUpdate(w, out, next)
           ok == CanCommit(u)
           pc == IF next = "terminal" \/ halt THEN "end" ELSE "loop"
<1>1. u \in StateUpdate
  BY DEF FinishingUpdate, StateUpdate, TaskStatus
<1>2. Committed(u, next) \in Snapshot
  BY <1>1, CommittedType DEF TaskOK
<1>3. NoReview \in [verdict : Verdict, low : BOOLEAN, tokens : Nat]
  BY DEF NoReview, Verdict
<1>4. ErrorPc(w) \in {"failing", "end"} /\ pc \in {"end", "loop"}
  BY DEF ErrorPc
<1>5. [r EXCEPT !.last = Committed(u, next), !.rev = NoReview, !.pc = pc] \in Run
  BY <1>2, <1>3, <1>4 DEF Run
<1>6. [r EXCEPT !.rev = NoReview, !.pc = ErrorPc(w)] \in Run
  BY <1>3, <1>4 DEF Run
<1>7. CASE ok
  BY <1>2, <1>5, <1>7 DEF NodeCommit, TaskOK
<1>8. CASE ~ok
  BY <1>6, <1>8 DEF NodeCommit, TaskOK
<1> QED
  BY <1>7, <1>8

\* what the executor, the strict reviewer and a skip write to one sub-task of a plan
LEMMA SubTaskFields ==
    ASSUME NEW p \in Seq(SubTask), NEW i \in Int
    PROVE  /\ Attempted(p, i) \in Seq(SubTask)
           /\ \A st \in SubTaskStatus : [p EXCEPT ![i].st = st] \in Seq(SubTask)
           /\ [p EXCEPT ![i].fb = FALSE] \in Seq(SubTask)
           /\ i \in 1..Len(p) =>
                 \A st \in SubTaskStatus, fb \in BOOLEAN :
                    [p EXCEPT ![i] = [@ EXCEPT !.st = st, !.fb = fb]] \in Seq(SubTask)
<1>1. CASE i \in 1..Len(p)
  <2>1. p[i] \in SubTask
    BY <1>1
  <2>2. [p[i] EXCEPT !.att = p[i].att + 1] \in SubTask
    <3>1. p[i].att + 1 \in Nat
      BY <2>1 DEF SubTask
    <3> QED
      BY <2>1, <3>1 DEF SubTask
  <2>3. Attempted(p, i) \in Seq(SubTask)
    BY <2>2, PlanExcept DEF Attempted
  <2>4. \A st \in SubTaskStatus, fb \in BOOLEAN :
            /\ [p[i] EXCEPT !.st = st] \in SubTask
            /\ [p[i] EXCEPT !.fb = fb] \in SubTask
            /\ [p[i] EXCEPT !.st = st, !.fb = fb] \in SubTask
    BY <2>1 DEF SubTask
  <2>5. \A x \in SubTask : [p EXCEPT ![i] = x] \in Seq(SubTask)
    BY PlanExcept
  <2>6. \A st \in SubTaskStatus : [p EXCEPT ![i].st = st] \in Seq(SubTask)
    BY <2>4, <2>5
  <2>7. [p EXCEPT ![i].fb = FALSE] \in Seq(SubTask)
    <3>1. [p[i] EXCEPT !.fb = FALSE] \in SubTask
      BY <2>1 DEF SubTask
    <3> QED
      BY <2>5, <3>1
  <2>8. \A st \in SubTaskStatus, fb \in BOOLEAN :
            [p EXCEPT ![i] = [@ EXCEPT !.st = st, !.fb = fb]] \in Seq(SubTask)
    BY <2>4, <2>5
  <2> QED
    BY <2>3, <2>6, <2>7, <2>8
<1>2. CASE i \notin 1..Len(p)
  <2>1. DOMAIN p = 1..Len(p)
    OBVIOUS
  <2>2. \A x : [p EXCEPT ![i] = x] = p
    BY <1>2, <2>1
  <2> QED
    BY <1>2, <2>2 DEF Attempted
<1> QED
  BY <1>1, <1>2

LEMMA InitTyped == Init => TaskOK
<1> SUFFICES ASSUME Init PROVE TaskOK
  OBVIOUS
<1>1. run \in [Walkers -> Run]
  <2>1. PICK w \in Walkers, sync \in BOOLEAN :
           run = [v \in Walkers |-> IF v = w THEN [IdleRun EXCEPT !.pc = "starting", !.sync = sync]
                                             ELSE IdleRun]
    BY DEF Init
  <2>2. IdleRun \in Run /\ [IdleRun EXCEPT !.pc = "starting", !.sync = sync] \in Run
    BY ConstantTypes DEF Run
  <2> QED
    BY <2>1, <2>2
<1>2. events \in 0..MaxEvents
  BY ConfigAssumption DEF Init
<1> QED
  BY <1>1, <1>2, ConstantTypes DEF Init, TaskOK
LEMMA RunTypes ==
    ASSUME TaskOK, NEW w \in Walkers
    PROVE  /\ run[w] \in Run /\ run[w].last \in Snapshot /\ run[w].last.state \in State
           /\ run[w].last.next \in RuntimeStep \cup {NoStep}
           /\ run[w].last.state.plan \in Seq(SubTask) /\ run[w].last.state.idx \in Int
           /\ run[w].last.state.replan.preserved \in Seq(SubTask)
           /\ run[w].last.state.replan.on \in BOOLEAN
           /\ run[w].attempt \in Nat /\ run[w].recorded \in Seq(SubTask)
           /\ run[w].rev.tokens \in Nat
<1>1. run[w] \in Run
  BY DEF TaskOK
<1>2. run[w].last \in Snapshot /\ run[w].attempt \in Nat /\ run[w].recorded \in Seq(SubTask)
      /\ run[w].rev \in [verdict : Verdict, low : BOOLEAN, tokens : Nat]
  BY <1>1 DEF Run
<1>3. run[w].last.state \in State /\ run[w].last.next \in RuntimeStep \cup {NoStep}
  BY <1>2 DEF Snapshot
<1>4. run[w].last.state.plan \in Seq(SubTask) /\ run[w].last.state.idx \in Int
      /\ run[w].last.state.replan \in Replan
  BY <1>3 DEF State
<1> QED
  BY <1>1, <1>2, <1>3, <1>4 DEF Replan

LEMMA NextStepAfterType ==
    ASSUME NEW i, NEW n PROVE NextStepAfter(i, n) \in RuntimeStep
  BY DEF NextStepAfter, RuntimeStep

LEMMA StepNames ==
    \A x \in {"planner", "replan_setup", "executor", "reviewer", "strict_review", "approval",
              "terminal"} : x \in RuntimeStep
  BY DEF RuntimeStep

\* what a planner commits
LEMMA PlanUpdateType ==
    ASSUME NEW m \in Seq(SubTask), NEW on \in BOOLEAN, NEW t \in Nat
    PROVE  [NoUpdate EXCEPT !.status = "executing", !.idx = 0, !.plan = m,
                            !.clearReplan = on, !.tokens = t] \in StateUpdate
<1> DEFINE z == 0
<1>1. z \in Int /\ "executing" \in TaskStatus \cup {""}
  BY DEF TaskStatus
<1> HIDE DEF z
<1>2. [NoUpdate EXCEPT !.status = "executing"] \in StateUpdate
  BY <1>1, ConstantTypes, UpdateFields
<1>3. [NoUpdate EXCEPT !.status = "executing", !.idx = z] \in StateUpdate
  BY <1>1, <1>2, UpdateFields
<1>4. [NoUpdate EXCEPT !.status = "executing", !.idx = z, !.plan = m] \in StateUpdate
  BY <1>3, UpdateFields
<1>5. [NoUpdate EXCEPT !.status = "executing", !.idx = z, !.plan = m, !.clearReplan = on]
         \in StateUpdate
  BY <1>4, UpdateFields
<1>6. [NoUpdate EXCEPT !.status = "executing", !.idx = z, !.plan = m, !.clearReplan = on,
                       !.tokens = t] \in StateUpdate
  BY <1>5, UpdateFields
<1> QED
  BY <1>6 DEF z

\* NodeCommit and the other actions that leave engine, operators and clock alone
LEMMA PlannerType ==
    ASSUME TaskOK, NEW w \in Walkers, PlannerPlan(w)
    PROVE  TaskOK'
<1>1. PICK n \in PlanSizes, t \in TokenCosts :
         /\ NodeCommit(w, run[w], [NoUpdate EXCEPT !.status = "executing", !.idx = 0,
               !.plan = MergePreservedSubTasks(run[w].last.state.replan.preserved, n),
               !.clearReplan = run[w].last.state.replan.on, !.tokens = t], "executor", FALSE)
         /\ Spend(t)
  BY DEF PlannerPlan
<1>2. n \in Nat /\ t \in Nat
  BY ConfigAssumption
<1>3. MergePreservedSubTasks(run[w].last.state.replan.preserved, n) \in Seq(SubTask)
  <2>1. [i \in 1..n |-> PendingSubTask] \in Seq(SubTask)
    BY <1>2, ConstantTypes
  <2> QED
    BY <2>1, RunTypes DEF MergePreservedSubTasks
<1> DEFINE m == MergePreservedSubTasks(run[w].last.state.replan.preserved, n)
           on == run[w].last.state.replan.on
           u == [NoUpdate EXCEPT !.status = "executing", !.idx = 0,
                    !.plan = m, !.clearReplan = on, !.tokens = t]
<1>a. m \in Seq(SubTask) /\ on \in BOOLEAN /\ NodeCommit(w, run[w], u, "executor", FALSE)
  BY <1>1, <1>3, RunTypes
<1> HIDE DEF m, on
<1>4. u \in StateUpdate
  BY <1>2, <1>a, PlanUpdateType
<1> HIDE DEF u
<1>5. snap' \in Snapshot /\ run' \in [Walkers -> Run] /\ UNCHANGED <<eng, op, late, events>>
  BY <1>a, <1>4, NodeCommitType, RunTypes, StepNames
<1>6. spent' \in Nat
  BY <1>1, <1>2 DEF Spend, TaskOK
<1> QED
  BY <1>5, <1>6 DEF TaskOK

LEMMA ExecutorType ==
    ASSUME TaskOK, NEW w \in Walkers, NEW ok \in BOOLEAN, ExecutorRun(w, ok)
    PROVE  TaskOK'
<1> DEFINE s == run[w].last.state
           tried == Attempted(s.plan, s.idx + 1)
           next == NextStepAfter(s.idx + 1, Len(s.plan))
           pause == [reason |-> "subtask_failure_pause", idx |-> s.idx, resume |-> "executor"]
           FinishU(st, t) == [NoUpdate EXCEPT !.idx = s.idx + 1, !.tokens = t,
                                 !.plan = [tried EXCEPT ![s.idx + 1].st = st]]
           PauseU(t) == [NoUpdate EXCEPT !.plan = tried, !.tokens = t, !.intr = pause]
           StrictU(t) == [NoUpdate EXCEPT !.plan = [tried EXCEPT ![s.idx + 1].fb = FALSE],
                                          !.tokens = t]
<1>1. PICK t \in TokenCosts :
         /\ \/ NodeCommit(w, run[w], PauseU(t), "approval", FALSE)
            \/ NodeCommit(w, run[w], FinishU("failed", t), next, FALSE)
            \/ NodeCommit(w, run[w], StrictU(t), "strict_review", FALSE)
            \/ NodeCommit(w, run[w], FinishU("done", t), next, FALSE)
         /\ Spend(t)
  BY DEF ExecutorRun, ApprovalPause
<1>2. t \in Nat
  BY ConfigAssumption
<1>3. s.plan \in Seq(SubTask) /\ s.idx \in Int /\ s.idx + 1 \in Int
  BY RunTypes
<1>4. tried \in Seq(SubTask)
  BY <1>3, SubTaskFields
<1> HIDE DEF tried
<1>5. /\ [tried EXCEPT ![s.idx + 1].st = "failed"] \in Seq(SubTask)
      /\ [tried EXCEPT ![s.idx + 1].st = "done"] \in Seq(SubTask)
      /\ [tried EXCEPT ![s.idx + 1].fb = FALSE] \in Seq(SubTask)
  BY <1>3, <1>4, SubTaskFields DEF SubTaskStatus
<1>6. pause \in Interrupt
  BY <1>3 DEF Interrupt, InterruptReason, RuntimeStep
<1> HIDE DEF s, pause
<1>7. FinishU("failed", t) \in StateUpdate /\ FinishU("done", t) \in StateUpdate
  BY <1>2, <1>3, <1>5, ConstantTypes DEF StateUpdate
<1>8. PauseU(t) \in StateUpdate
  BY <1>2, <1>4, <1>6, ConstantTypes DEF StateUpdate
<1>9. StrictU(t) \in StateUpdate
  BY <1>2, <1>5, ConstantTypes DEF StateUpdate
<1>10. next \in RuntimeStep
  BY NextStepAfterType
<1> HIDE DEF FinishU, PauseU, StrictU, next
<1>11. snap' \in Snapshot /\ run' \in [Walkers -> Run] /\ UNCHANGED <<eng, op, late, events>>
  BY <1>1, <1>7, <1>8, <1>9, <1>10, NodeCommitType, RunTypes, StepNames
<1>12. spent' \in Nat
  BY <1>1, <1>2 DEF Spend, TaskOK
<1> QED
  BY <1>11, <1>12 DEF TaskOK

LEMMA RunReviewType ==
    ASSUME TaskOK, NEW w \in Walkers,
           NEW results \in SUBSET [verdict : Verdict, low : BOOLEAN], RunReview(w, results)
    PROVE  TaskOK'
<1>1. PICK r \in results, t \in TokenCosts :
         /\ \/ TryCommit([NoUpdate EXCEPT !.tokens = t], "reviewer")
            \/ UNCHANGED snap
         /\ run' = [run EXCEPT ![w].pc = "reviewed",
                        ![w].rev = [verdict |-> r.verdict, low |-> r.low, tokens |-> t]]
         /\ Spend(t)
  BY DEF RunReview
<1>2. t \in Nat /\ r \in [verdict : Verdict, low : BOOLEAN]
  BY ConfigAssumption
<1>3. [NoUpdate EXCEPT !.tokens = t] \in StateUpdate
  BY <1>2, ConstantTypes, UpdateFields
<1>4. snap' \in Snapshot
  BY <1>1, <1>3, TryCommitType, StepNames DEF TaskOK
<1> DEFINE v == [verdict |-> r.verdict, low |-> r.low, tokens |-> t]
           q == [run[w] EXCEPT !.pc = "reviewed", !.rev = v]
<1>5. v \in [verdict : Verdict, low : BOOLEAN, tokens : Nat]
  BY <1>2
<1> HIDE DEF v
<1>6. q \in Run
  BY <1>5, RunTypes, RunFields
<1>7. run' = [run EXCEPT ![w] = q]
  BY <1>1 DEF v
<1>8. run' \in [Walkers -> Run]
  BY <1>6, <1>7 DEF TaskOK
<1>9. spent' \in Nat
  BY <1>1, <1>2 DEF Spend, TaskOK
<1> QED
  BY <1>4, <1>8, <1>9 DEF TaskOK, RunReview

LEMMA ReviewResultTypes ==
    /\ \A plan : TaskReviewResults(plan) \in SUBSET [verdict : Verdict, low : BOOLEAN]
    /\ StrictReviewResults \in SUBSET [verdict : Verdict, low : BOOLEAN]
<1>1. /\ [verdict |-> "", low |-> TRUE] \in [verdict : Verdict, low : BOOLEAN]
      /\ [verdict |-> "error", low |-> FALSE] \in [verdict : Verdict, low : BOOLEAN]
      /\ TaskReviews \subseteq [verdict : Verdict, low : BOOLEAN]
  BY ConfigAssumption DEF Verdict
<1>2. \A plan : TaskReviewResults(plan) \in SUBSET [verdict : Verdict, low : BOOLEAN]
  BY <1>1 DEF TaskReviewResults
<1>3. StrictReviewResults \in SUBSET [verdict : Verdict, low : BOOLEAN]
  BY DEF StrictReviewResults, Verdict
<1> QED
  BY <1>2, <1>3

LEMMA ReviewerCommitType ==
    ASSUME TaskOK, NEW w \in Walkers, ReviewerCommit(w)
    PROVE  TaskOK'
<1> DEFINE r == run[w]
           q == [r EXCEPT !.recorded = IF WantReplan(r) THEN r.last.state.plan ELSE @]
           next == IF r.rev.verdict = "block" /\ WantReplan(r) THEN "replan_setup" ELSE "terminal"
<1>1. q \in Run
  <2>1. r.recorded \in Seq(SubTask) /\ r.last.state.plan \in Seq(SubTask) /\ r \in Run
    BY RunTypes
  <2>2. [r EXCEPT !.recorded = r.recorded] \in Run
        /\ [r EXCEPT !.recorded = r.last.state.plan] \in Run
    BY <2>1, RunFields
  <2> HIDE DEF r
  <2> QED
    BY <2>2
<1>2. ReviewerUpdate(r.rev) \in StateUpdate
  BY ConstantTypes DEF ReviewerUpdate, StateUpdate, TaskStatus
<1>3. next \in RuntimeStep
  BY StepNames
<1>4. NodeCommit(w, q, ReviewerUpdate(r.rev), next, FALSE) /\ UNCHANGED spent
  BY DEF ReviewerCommit
<1> HIDE DEF q, next, r
<1>5. snap' \in Snapshot /\ run' \in [Walkers -> Run] /\ UNCHANGED <<eng, op, late, events>>
  BY <1>1, <1>2, <1>3, <1>4, NodeCommitType
<1> QED
  BY <1>4, <1>5 DEF TaskOK

LEMMA StrictReviewCommitType ==
    ASSUME TaskOK, NEW w \in Walkers, StrictReviewCommit(w), InRange(run[w].last.state)
    PROVE  TaskOK'
<1> DEFINE r == run[w]
           s == r.last.state
           Set(st, fb) == [s.plan EXCEPT ![s.idx + 1] = [@ EXCEPT !.st = st, !.fb = fb]]
           AdvU(st) == [NoUpdate EXCEPT !.plan = Set(st, FALSE), !.idx = s.idx + 1,
                                        !.tokens = r.rev.tokens]
           RetryU == [NoUpdate EXCEPT !.plan = Set(s.plan[s.idx + 1].st, TRUE),
                                      !.tokens = r.rev.tokens]
           next == NextStepAfter(s.idx + 1, Len(s.plan))
<1>1. /\ \/ NodeCommit(w, r, AdvU("done"), next, FALSE)
         \/ NodeCommit(w, r, AdvU("skipped"), next, FALSE)
         \/ NodeCommit(w, r, RetryU, "executor", FALSE)
      /\ UNCHANGED spent
  BY DEF StrictReviewCommit
<1>a. s.plan \in Seq(SubTask) /\ s.idx \in Int /\ r.rev.tokens \in Nat /\ r \in Run
  BY RunTypes
<1>b. s.idx \in 0 .. Len(s.plan) - 1
  BY DEF InRange
<1> HIDE DEF s, r
<1>2. s.plan \in Seq(SubTask) /\ s.idx + 1 \in 1..Len(s.plan) /\ s.idx + 1 \in Int
      /\ r.rev.tokens \in Nat /\ r \in Run
  BY <1>a, <1>b
<1>3. s.plan[s.idx + 1].st \in SubTaskStatus
  <2>1. s.plan[s.idx + 1] \in SubTask
    BY <1>2
  <2> QED
    BY <2>1 DEF SubTask
<1>4. /\ Set("done", FALSE) \in Seq(SubTask) /\ Set("skipped", FALSE) \in Seq(SubTask)
      /\ Set(s.plan[s.idx + 1].st, TRUE) \in Seq(SubTask)
  BY <1>2, <1>3, SubTaskFields DEF SubTaskStatus
<1> HIDE DEF Set
<1>5. AdvU("done") \in StateUpdate /\ AdvU("skipped") \in StateUpdate
  BY <1>2, <1>4, ConstantTypes DEF StateUpdate
<1>6. RetryU \in StateUpdate
  BY <1>2, <1>4, ConstantTypes DEF StateUpdate
<1>7. next \in RuntimeStep
  BY NextStepAfterType
<1> HIDE DEF AdvU, RetryU, next
<1>8. snap' \in Snapshot /\ run' \in [Walkers -> Run] /\ UNCHANGED <<eng, op, late, events>>
  BY <1>1, <1>2, <1>5, <1>6, <1>7, NodeCommitType, StepNames
<1> QED
  BY <1>1, <1>8 DEF TaskOK

LEMMA ReplanSetupType ==
    ASSUME TaskOK, NEW w \in Walkers, ReplanSetup(w)
    PROVE  TaskOK'
<1>1. PICK p \in PreservedChoices(run[w].recorded) :
         NodeCommit(w, [run[w] EXCEPT !.attempt = @ + 1],
                    [NoUpdate EXCEPT !.replan = [on |-> TRUE, preserved |-> p]],
                    "planner", FALSE)
  BY DEF ReplanSetup
<1>2. [on |-> TRUE, preserved |-> p] \in Replan
  BY PreservedType, RunTypes DEF Replan
<1>3. [NoUpdate EXCEPT !.replan = [on |-> TRUE, preserved |-> p]] \in StateUpdate
  BY <1>2, ConstantTypes, UpdateFields
<1>4. [run[w] EXCEPT !.attempt = @ + 1] \in Run
  <2>1. run[w].attempt + 1 \in Nat
    BY RunTypes
  <2> QED
    BY <2>1, RunTypes, RunFields
<1>5. snap' \in Snapshot /\ run' \in [Walkers -> Run] /\ UNCHANGED <<eng, op, late, events>>
  BY <1>1, <1>3, <1>4, NodeCommitType, StepNames
<1> QED
  BY <1>5 DEF TaskOK, ReplanSetup

\* node commits without any update
LEMMA PlainCommitType ==
    ASSUME TaskOK, NEW w \in Walkers, NEW out \in StateUpdate, NEW next \in RuntimeStep,
           NEW halt \in BOOLEAN, NodeCommit(w, run[w], out, next, halt), UNCHANGED spent
    PROVE  TaskOK'
  BY NodeCommitType, RunTypes DEF TaskOK

LEMMA PcType ==
    ASSUME TaskOK, NEW w \in Walkers, NEW pc \in {"idle", "starting", "loop", "load", "budget",
               "node", "reviewed", "failing", "end"},
           run' = [run EXCEPT ![w].pc = pc]
    PROVE  run' \in [Walkers -> Run]
  BY RunTypes, RunFields DEF TaskOK
-----------------------------------------------------------------------------
(***************************************************************************)
(* The strict reviewer writes to the sub-task at CurrentIdx of the         *)
(* snapshot its walker loaded.  That the index is in the plan is checked   *)
(* before the reviewer call and must still hold at the commit: this is     *)
(* what type correctness needs beyond itself.                              *)
(***************************************************************************)
CandidateInRange ==
    \A w \in Walkers :
        run[w].pc = "reviewed" /\ run[w].last.next = "strict_review"
          => InRange(run[w].last.state)

TypeInv == TaskOK /\ CandidateInRange

\* A node commit leaves its goroutine at a pc other than reviewed.
LEMMA NodeCommitPc ==
    ASSUME TaskOK, NEW w \in Walkers, NEW r \in Run, NEW out, NEW next, NEW halt,
           NodeCommit(w, r, out, next, halt)
    PROVE  /\ run'[w].pc # "reviewed"
           /\ \A v \in Walkers \ {w} : run'[v] = run[v]
<1> DEFINE u == FinishingUpdate(w, out, next)
           pc == IF next = "terminal" \/ halt THEN "end" ELSE "loop"
           good == [r EXCEPT !.last = Committed(u, next), !.rev = NoReview, !.pc = pc]
           bad == [r EXCEPT !.rev = NoReview, !.pc = ErrorPc(w)]
<1>1. run \in [Walkers -> Run]
  BY DEF TaskOK
<1>2. good.pc # "reviewed" /\ bad.pc # "reviewed"
  <2>1. good.pc = pc /\ bad.pc = ErrorPc(w)
    BY DEF Run
  <2> HIDE DEF good, bad
  <2> QED
    BY <2>1 DEF ErrorPc
<1>3. run' = [run EXCEPT ![w] = good] \/ run' = [run EXCEPT ![w] = bad]
  BY DEF NodeCommit
<1> HIDE DEF good, bad
<1> QED
  BY <1>1, <1>2, <1>3

LEMMA WalkerStepType ==
    ASSUME TypeInv, NEW w \in Walkers, WalkerStep(w)
    PROVE  TaskOK'
<1> USE DEF TypeInv
<1>1. CASE StartGraphRun(w)
  <2>1. run' \in [Walkers -> Run]
    BY <1>1, PcType DEF StartGraphRun
  <2>2. snap' \in Snapshot
    BY <1>1 DEF StartGraphRun, TaskOK, Snapshot, RuntimeStep
  <2>3. eng' \in [task : BOOLEAN, cancel : SUBSET Walkers, mu : BOOLEAN]
    BY <1>1 DEF StartGraphRun, TaskOK
  <2> QED
    BY <1>1, <2>1, <2>2, <2>3 DEF StartGraphRun, TaskOK
<1>2. CASE WalkerCtxErr(w)
  <2>1. CtxInterrupt(run[w].last.next) \in Interrupt
    BY RunTypes DEF CtxInterrupt, Interrupt, InterruptReason
  <2>2. [NoUpdate EXCEPT !.intr = CtxInterrupt(run[w].last.next)] \in StateUpdate
    BY <2>1, ConstantTypes, UpdateFields
  <2>3. snap' \in Snapshot
    BY <1>2, <2>2, TryCommitType, RunTypes DEF WalkerCtxErr, TaskOK
  <2> QED
    BY <1>2, <2>3, PcType DEF WalkerCtxErr, TaskOK
<1>3. CASE WalkerCtxOk(w)
  BY <1>3, PcType DEF WalkerCtxOk, TaskOK
<1>4. CASE WalkerLoad(w)
  <2>1. PICK pc \in {"end", "budget", "node"} :
          run' = [run EXCEPT ![w] = [[run[w] EXCEPT !.last = snap] EXCEPT !.pc = pc]]
    BY <1>4 DEF WalkerLoad
  <2>2. [[run[w] EXCEPT !.last = snap] EXCEPT !.pc = pc] \in Run
    BY RunTypes, RunFields DEF TaskOK
  <2>3. run' \in [Walkers -> Run]
    BY <2>1, <2>2 DEF TaskOK
  <2> QED
    BY <1>4, <2>3 DEF WalkerLoad, TaskOK
<1>5. CASE CommitBudgetInterrupt(w)
  <2> DEFINE i == [reason |-> "budget_exceeded", idx |-> -1, resume |-> run[w].last.next]
  <2>1. i \in Interrupt
    BY RunTypes DEF Interrupt, InterruptReason
  <2>2. [NoUpdate EXCEPT !.intr = i] \in StateUpdate
    BY <2>1, ConstantTypes, UpdateFields
  <2>3. snap' \in Snapshot
    BY <1>5, <2>2, TryCommitType, RunTypes DEF CommitBudgetInterrupt, TaskOK
  <2> QED
    BY <1>5, <2>3, PcType DEF CommitBudgetInterrupt, TaskOK
<1>6. CASE PlannerPlan(w)
  BY <1>6, PlannerType
<1>7. CASE PlannerError(w) \/ NodeOutOfRange(w)
  BY <1>7, PcType DEF PlannerError, NodeOutOfRange, NodeError, ErrorPc, TaskOK
<1>8. CASE PlannerCancelled(w)
  BY <1>8, PcType DEF PlannerCancelled, TaskOK
<1>9. CASE ExecutorAdvance(w)
  <2> DEFINE s == run[w].last.state
  <2>1. s.idx + 1 \in Int
    BY RunTypes
  <2>2. [NoUpdate EXCEPT !.idx = s.idx + 1] \in StateUpdate
    BY <2>1, ConstantTypes, UpdateFields
  <2> QED
    BY <1>9, <2>2, PlainCommitType, NextStepAfterType DEF ExecutorAdvance
<1>10. CASE \E ok \in BOOLEAN : ExecutorRun(w, ok)
  BY <1>10, ExecutorType
<1>11. CASE ReviewTask(w)
  BY <1>11, RunReviewType, ReviewResultTypes DEF ReviewTask
<1>12. CASE ReviewerCommit(w)
  BY <1>12, ReviewerCommitType
<1>13. CASE ReviewSubTask(w)
  BY <1>13, RunReviewType, ReviewResultTypes DEF ReviewSubTask
<1>14. CASE StrictReviewCommit(w)
  <2>1. InRange(run[w].last.state)
    BY <1>14 DEF StrictReviewCommit, CandidateInRange
  <2> QED
    BY <1>14, <2>1, StrictReviewCommitType
<1>15. CASE ReplanSetupNoop(w)
  BY <1>15, PlainCommitType, ConstantTypes, StepNames DEF ReplanSetupNoop
<1>16. CASE ReplanSetup(w)
  BY <1>16, ReplanSetupType
<1>17. CASE ApprovalPending(w)
  BY <1>17, PlainCommitType, ConstantTypes, StepNames DEF ApprovalPending
<1>18. CASE ApprovalRoute(w)
  <2> DEFINE s == run[w].last.state
  <2>1. CASE s.status = "failed"
    BY <1>18, <2>1, PlainCommitType, ConstantTypes, StepNames DEF ApprovalRoute
  <2>2. CASE s.status # "failed" /\ (s.plan = <<>> \/ s.idx \notin 0..Len(s.plan))
    BY <1>18, <2>2, PcType DEF ApprovalRoute, NodeError, ErrorPc, TaskOK
  <2>3. CASE s.status # "failed" /\ ~(s.plan = <<>> \/ s.idx \notin 0..Len(s.plan))
    BY <1>18, <2>3, PlainCommitType, ConstantTypes, NextStepAfterType DEF ApprovalRoute
  <2> QED
    BY <2>1, <2>2, <2>3
<1>19. CASE CommitFailureBoundary(w)
  <2>1. [NoUpdate EXCEPT !.status = "failed"] \in StateUpdate
    BY ConstantTypes, UpdateFields DEF TaskStatus
  <2>2. snap' \in Snapshot
    BY <1>19, <2>1, TryCommitType, StepNames DEF CommitFailureBoundary, TaskOK
  <2> QED
    BY <1>19, <2>2, PcType DEF CommitFailureBoundary, TaskOK
<1>20. CASE EndRun(w)
  BY <1>20, ConstantTypes DEF EndRun, ClearGraphRunState, TaskOK
<1>21. CASE RunSubTask(w)
  BY <1>21 DEF RunSubTask, TaskOK
<1> QED
  BY <1>1, <1>2, <1>3, <1>4, <1>5, <1>6, <1>7, <1>8, <1>9, <1>10, <1>11, <1>12, <1>13,
     <1>14, <1>15, <1>16, <1>17, <1>18, <1>19, <1>20, <1>21 DEF WalkerStep

LEMMA EventType ==
    ASSUME TaskOK, NEW e, Event(e)
    PROVE  events' \in 0..MaxEvents
  BY ConfigAssumption DEF Event, TaskOK

LEMMA EnvironmentStepType ==
    ASSUME TaskOK, NEW w \in Walkers,
           \/ ResumeViaGraph(w) \/ RunViaGraph(w) \/ NodePanic(w)
           \/ StoreFault(w) \/ BoundaryFault(w) \/ ParentCancel(w)
    PROVE  TaskOK'
<1>a. /\ IdleRun \in Run /\ NoUpdate \in StateUpdate
      /\ NoReview \in [verdict : Verdict, low : BOOLEAN, tokens : Nat]
  BY ConstantTypes DEF NoReview, Verdict
<1>1. CASE ResumeViaGraph(w)
  <2>1. [IdleRun EXCEPT !.pc = "starting"] \in Run
    BY <1>a, RunFields
  <2>2. run' \in [Walkers -> Run]
    BY <1>1, <2>1 DEF ResumeViaGraph, TaskOK
  <2> QED
    BY <1>1, <2>2, EventType DEF ResumeViaGraph, TaskOK
<1>2. CASE RunViaGraph(w)
  <2>a. [IdleRun EXCEPT !.pc = "starting"] \in Run
    BY <1>a, RunFields
  <2>1. [IdleRun EXCEPT !.pc = "starting", !.sync = TRUE] \in Run
    BY <2>a, RunFields
  <2>2. run' \in [Walkers -> Run]
    BY <1>2, <2>1 DEF RunViaGraph, TaskOK
  <2> QED
    BY <1>2, <2>2, EventType DEF RunViaGraph, TaskOK
<1>b. ASSUME NEW pc \in {"failing", "end"}, run' = [run EXCEPT ![w].pc = pc, ![w].rev = NoReview]
      PROVE  run' \in [Walkers -> Run]
  <2> DEFINE r == [[run[w] EXCEPT !.pc = pc] EXCEPT !.rev = NoReview]
  <2>1. r \in Run
    BY <1>a, RunTypes, RunFields
  <2>2. run' = [run EXCEPT ![w] = r]
    BY <1>b
  <2> HIDE DEF r
  <2> QED
    BY <2>1, <2>2 DEF TaskOK
<1>c. ErrorPc(w) \in {"failing", "end"}
  BY DEF ErrorPc
<1>3. CASE NodePanic(w)
  <2> DEFINE u == IF run[w].last.state.status \in TerminalStatus THEN NoUpdate
                  ELSE [NoUpdate EXCEPT !.status = "failed"]
  <2>1. u \in StateUpdate
    BY <1>a, UpdateFields DEF TaskStatus
  <2>2. TryCommit(u, "terminal")
    BY <1>3 DEF NodePanic
  <2> HIDE DEF u
  <2>3. snap' \in Snapshot
    BY <2>1, <2>2, TryCommitType, StepNames DEF TaskOK
  <2>4. run' \in [Walkers -> Run]
    BY <1>3, <1>b, <1>c DEF NodePanic
  <2> QED
    BY <1>3, <2>3, <2>4, EventType DEF NodePanic, TaskOK
<1>4. CASE StoreFault(w)
  <2>1. run' \in [Walkers -> Run]
    BY <1>4, <1>b, <1>c DEF StoreFault
  <2> QED
    BY <1>4, <2>1, EventType DEF StoreFault, TaskOK
<1>5. CASE BoundaryFault(w)
  BY <1>5, PcType, EventType DEF BoundaryFault, TaskOK
<1>6. CASE ParentCancel(w)
  <2>1. [run[w] EXCEPT !.cancelled = TRUE] \in Run
    BY RunTypes, RunFields
  <2>2. run' \in [Walkers -> Run]
    BY <1>6, <2>1 DEF ParentCancel, TaskOK
  <2> QED
    BY <1>6, <2>2, EventType DEF ParentCancel, TaskOK
<1> QED
  BY <1>1, <1>2, <1>3, <1>4, <1>5, <1>6

LEMMA ExternalStepType ==
    ASSUME TaskOK,
           \/ InterruptWithCancel \/ InterruptWithCommit \/ Crash \/ Sweep \/ WallclockElapses
    PROVE  TaskOK'
<1>a. /\ IdleRun \in Run /\ IdleOp \in OpState
      /\ [NoUpdate EXCEPT !.status = "failed"] \in StateUpdate
  BY ConstantTypes, UpdateFields DEF TaskStatus
<1>1. CASE InterruptWithCancel
  <2>1. \A w \in Walkers : run[w] \in Run /\ [run[w] EXCEPT !.cancelled = TRUE] \in Run
    BY RunTypes, RunFields
  <2>2. run' \in [Walkers -> Run]
    BY <1>1, <2>1 DEF InterruptWithCancel
  <2> QED
    BY <1>1, <2>2, EventType DEF InterruptWithCancel, TaskOK
<1>2. CASE InterruptWithCommit
  <2> DEFINE i == [reason |-> "user_interrupt", idx |-> -1, resume |-> NoStep]
             v == [NoUpdate EXCEPT !.status = "interrupted"]
             u == [v EXCEPT !.intr = i]
  <2>1. i \in Interrupt
    BY DEF Interrupt, InterruptReason
  <2>2. v \in StateUpdate
    BY ConstantTypes, UpdateFields DEF TaskStatus
  <2> HIDE DEF v, i
  <2>3. u \in StateUpdate
    BY <2>1, <2>2, UpdateFields
  <2>4. TryCommit(u, "terminal") \/ UNCHANGED snap
    BY <1>2 DEF InterruptWithCommit, v, i
  <2> HIDE DEF u
  <2>5. snap' \in Snapshot
    BY <2>3, <2>4, TryCommitType, StepNames DEF TaskOK
  <2> QED
    BY <1>2, <2>5 DEF InterruptWithCommit, TaskOK
<1>3. CASE Crash
  BY <1>3, <1>a, EventType DEF Crash, TaskOK
<1>4. CASE Sweep
  <2>1. snap' \in Snapshot
    BY <1>4, <1>a, TryCommitType, StepNames DEF Sweep, MarkTaskFailedDurable, TaskOK
  <2> QED
    BY <1>4, <2>1, EventType DEF Sweep, TaskOK
<1>5. CASE WallclockElapses
  BY <1>5, EventType DEF WallclockElapses, TaskOK
<1> QED
  BY <1>1, <1>2, <1>3, <1>4, <1>5

LEMMA OperatorStepType ==
    ASSUME TaskOK, NEW o \in Operators, OperatorRead(o) \/ OperatorCommit(o)
    PROVE  TaskOK'
<1>1. CASE OperatorRead(o)
  <2>1. PICK d \in {"retry", "skip", "abort"} : op' = [op EXCEPT ![o] = [decision |-> d, seen |-> snap]]
    BY <1>1 DEF OperatorRead
  <2>2. [decision |-> d, seen |-> snap] \in OpState
    BY DEF OpState, TaskOK
  <2>3. events' \in 0..MaxEvents
    BY <1>1, ConfigAssumption DEF OperatorRead, TaskOK
  <2> QED
    BY <1>1, <2>1, <2>2, <2>3 DEF OperatorRead, TaskOK
<1>2. CASE OperatorCommit(o)
  <2> DEFINE s == op[o].seen.state
  <2>1. op[o] \in OpState /\ s \in State /\ s.plan \in Seq(SubTask) /\ s.intr \in Interrupt
    BY DEF TaskOK, OpState, Snapshot, State
  <2>2. snap' \in Snapshot
    <3>1. CASE op[o].decision = "abort" /\ MarkTaskFailedDurable
      <4>1. [NoUpdate EXCEPT !.status = "failed"] \in StateUpdate
        BY ConstantTypes, UpdateFields DEF TaskStatus
      <4> QED
        BY <3>1, <4>1, TryCommitType, StepNames DEF MarkTaskFailedDurable, TaskOK
    <3>2. CASE op[o].decision = "skip" /\ TryCommit(SkipUpdate(s), "executor")
      <4> DEFINE j == s.intr.idx + 1
      <4>1. j \in Int
        BY <2>1 DEF Interrupt
      <4>2. [s.plan EXCEPT ![j].st = "skipped"] \in Seq(SubTask)
        <5>1. CASE j \in DOMAIN s.plan
          <6>1. s.plan[j] \in SubTask
            BY <2>1, <5>1
          <6>2. [s.plan[j] EXCEPT !.st = "skipped"] \in SubTask
            BY <6>1 DEF SubTask, SubTaskStatus
          <6> QED
            BY <2>1, <4>1, <6>2, PlanExcept
        <5>2. CASE j \notin DOMAIN s.plan
          <6> DEFINE q == [s.plan EXCEPT ![j].st = "skipped"]
          <6>1. Len(s.plan) \in Nat /\ s.plan \in [1..Len(s.plan) -> SubTask]
            BY <2>1
          <6>2. q \in [1..Len(s.plan) -> SubTask]
            BY <5>2, <6>1
          <6> HIDE DEF q
          <6>3. q \in Seq(SubTask)
            BY <6>1, <6>2, SMT
          <6> QED
            BY <6>3 DEF q
        <5> QED
          BY <5>1, <5>2
      <4>3. SkipUpdate(s) \in StateUpdate
        <5> DEFINE p == [s.plan EXCEPT ![j].st = "skipped"]
                   v == [NoUpdate EXCEPT !.plan = p]
                   x == [v EXCEPT !.idx = j]
        <5>1. v \in StateUpdate
          BY <4>2, ConstantTypes, UpdateFields
        <5> HIDE DEF v
        <5>2. x \in StateUpdate
          BY <4>1, <5>1, UpdateFields
        <5>3. SkipUpdate(s) = [x EXCEPT !.clearIntr = TRUE]
          BY DEF SkipUpdate, v
        <5> HIDE DEF x
        <5> QED
          BY <5>2, <5>3, UpdateFields
      <4> QED
        BY <3>2, <4>3, TryCommitType, StepNames DEF TaskOK
    <3>3. CASE op[o].decision = "retry"
               /\ TryCommit([NoUpdate EXCEPT !.clearIntr = TRUE], RetryStep(s.intr))
      <4>1. [NoUpdate EXCEPT !.clearIntr = TRUE] \in StateUpdate
        BY ConstantTypes, UpdateFields
      <4>2. RetryStep(s.intr) \in RuntimeStep \cup {NoStep}
        BY <2>1, StepNames DEF RetryStep, Interrupt
      <4> QED
        BY <3>3, <4>1, <4>2, TryCommitType DEF TaskOK
    <3> QED
      BY <1>2, <3>1, <3>2, <3>3 DEF OperatorCommit
  <2>3. op' \in [Operators -> OpState]
    BY <1>2, ConstantTypes DEF OperatorCommit, TaskOK
  <2>4. late' \in BOOLEAN
    BY <1>2 DEF OperatorCommit, TaskOK
  <2> QED
    BY <1>2, <2>2, <2>3, <2>4 DEF OperatorCommit, TaskOK
<1> QED
  BY <1>1, <1>2

-----------------------------------------------------------------------------
\* A commit of a node or a load changes no other goroutine, and only a reviewer call on
\* a sub-task of the plan makes its own goroutine a candidate for a strict-review commit.
LEMMA CandidateStep ==
    ASSUME TypeInv, NEW w \in Walkers, NEW r \in Run, r.pc # "reviewed",
           run' = [run EXCEPT ![w] = r]
    PROVE  CandidateInRange'
  BY DEF TypeInv, TaskOK, CandidateInRange

LEMMA CandidateSet ==
    ASSUME TypeInv, NEW w \in Walkers, run'[w].pc # "reviewed",
           \A v \in Walkers \ {w} : run'[v] = run[v]
    PROVE  CandidateInRange'
  BY DEF TypeInv, CandidateInRange

\* Every step of a goroutine keeps the sub-task under strict review inside its plan.
LEMMA WalkerStepCandidate ==
    ASSUME TypeInv, NEW w \in Walkers, WalkerStep(w)
    PROVE  CandidateInRange'
<1> USE DEF TypeInv
<1>0. run \in [Walkers -> Run]
  BY DEF TaskOK
<1>a. ASSUME NEW r \in Run, NEW out, NEW next, NEW halt, NodeCommit(w, r, out, next, halt)
      PROVE  CandidateInRange'
  BY <1>a, NodeCommitPc, CandidateSet
<1>b. ASSUME NEW pc \in {"idle", "starting", "loop", "load", "budget", "node", "failing", "end"},
             run' = [run EXCEPT ![w].pc = pc]
      PROVE  CandidateInRange'
  <2>1. run'[w].pc # "reviewed" /\ \A v \in Walkers \ {w} : run'[v] = run[v]
    BY <1>0, <1>b DEF Run
  <2> QED
    BY <2>1, CandidateSet
<1>c. ErrorPc(w) \in {"failing", "end"}
  BY DEF ErrorPc
<1>1. CASE StartGraphRun(w) \/ WalkerCtxErr(w) \/ WalkerCtxOk(w) \/ CommitBudgetInterrupt(w)
           \/ CommitFailureBoundary(w) \/ PlannerCancelled(w)
  BY <1>1, <1>b DEF StartGraphRun, WalkerCtxErr, WalkerCtxOk, CommitBudgetInterrupt,
                    CommitFailureBoundary, PlannerCancelled
<1>2. CASE PlannerError(w) \/ NodeOutOfRange(w)
  BY <1>2, <1>b, <1>c DEF PlannerError, NodeOutOfRange, NodeError
<1>3. CASE WalkerLoad(w)
  <2>1. PICK pc \in {"end", "budget", "node"} :
          run' = [run EXCEPT ![w] = [[run[w] EXCEPT !.last = snap] EXCEPT !.pc = pc]]
    BY <1>3 DEF WalkerLoad
  <2> DEFINE r == [[run[w] EXCEPT !.last = snap] EXCEPT !.pc = pc]
  <2>2. r \in Run
    BY RunTypes, RunFields DEF TaskOK
  <2>3. r.pc = pc
    BY RunTypes DEF Run
  <2> HIDE DEF r
  <2> QED
    BY <2>1, <2>2, <2>3, CandidateStep DEF r
<1>4. CASE EndRun(w)
  BY <1>4, ConstantTypes, CandidateStep DEF EndRun, IdleRun
<1>5. CASE ReviewTask(w) \/ ReviewSubTask(w)
  <2>1. PICK v, x, y :
          run' = [run EXCEPT ![w].pc = "reviewed", ![w].rev = [verdict |-> v, low |-> x, tokens |-> y]]
    BY <1>5 DEF ReviewTask, ReviewSubTask, RunReview
  <2>2. run'[w].last = run[w].last /\ \A u \in Walkers \ {w} : run'[u] = run[u]
    BY <1>0, <2>1 DEF Run
  <2>3. run[w].last.next = "strict_review" => InRange(run[w].last.state)
    BY <1>5 DEF ReviewTask, ReviewSubTask, AtNode
  <2> QED
    BY <2>2, <2>3 DEF CandidateInRange
<1>6. run[w] \in Run /\ [run[w] EXCEPT !.attempt = @ + 1] \in Run
      /\ \A p \in Seq(SubTask) : [run[w] EXCEPT !.recorded = p] \in Run
  <2>1. run[w].attempt + 1 \in Nat
    BY RunTypes
  <2> QED
    BY <2>1, RunTypes, RunFields
<1>7. CASE PlannerPlan(w)
  BY <1>7, <1>6, <1>a DEF PlannerPlan
<1>8. CASE ExecutorAdvance(w)
  BY <1>8, <1>6, <1>a DEF ExecutorAdvance
<1>9. CASE \E ok \in BOOLEAN : ExecutorRun(w, ok)
  BY <1>9, <1>6, <1>a DEF ExecutorRun
<1>10. CASE ReviewerCommit(w)
  <2> DEFINE p == IF WantReplan(run[w]) THEN run[w].last.state.plan ELSE run[w].recorded
  <2>1. p \in Seq(SubTask)
    BY RunTypes
  <2>2. PICK out, next : NodeCommit(w, [run[w] EXCEPT !.recorded = p], out, next, FALSE)
    BY <1>10 DEF ReviewerCommit
  <2> HIDE DEF p
  <2> QED
    BY <1>6, <1>a, <2>1, <2>2
<1>11. CASE StrictReviewCommit(w)
  BY <1>11, <1>6, <1>a DEF StrictReviewCommit
<1>12. CASE ReplanSetupNoop(w) \/ ReplanSetup(w)
  BY <1>12, <1>6, <1>a DEF ReplanSetupNoop, ReplanSetup
<1>13. CASE ApprovalPending(w)
  BY <1>13, <1>6, <1>a DEF ApprovalPending
<1>14. CASE ApprovalRoute(w)
  BY <1>14, <1>6, <1>a, <1>b, <1>c DEF ApprovalRoute, NodeError
<1>15. CASE RunSubTask(w)
  BY <1>15 DEF RunSubTask, CandidateInRange
<1> QED
  BY <1>1, <1>2, <1>3, <1>4, <1>5, <1>7, <1>8, <1>9, <1>10, <1>11, <1>12, <1>13, <1>14, <1>15
     DEF WalkerStep

\* The environment starts, cancels and ends goroutines; it never puts one at a review.
LEMMA OtherStepCandidate ==
    ASSUME TypeInv, Next, ~ \E w \in Walkers : WalkerStep(w)
    PROVE  CandidateInRange'
<1> USE DEF TypeInv
<1>0. run \in [Walkers -> Run]
  BY DEF TaskOK
<1>a. ASSUME NEW w \in Walkers, run'[w].pc # "reviewed",
             \A v \in Walkers \ {w} : run'[v] = run[v]
      PROVE  CandidateInRange'
  BY <1>a, CandidateSet
<1>b. ASSUME NEW w \in Walkers, NEW pc \in {"end", "failing"}, NEW x,
             \/ run' = [run EXCEPT ![w].pc = pc]
             \/ run' = [run EXCEPT ![w].pc = pc, ![w].rev = x]
      PROVE  CandidateInRange'
  <2>1. run'[w].pc # "reviewed" /\ \A v \in Walkers \ {w} : run'[v] = run[v]
    BY <1>0, <1>b DEF Run
  <2> QED
    BY <2>1, <1>a
<1>c. \A w \in Walkers : ErrorPc(w) \in {"failing", "end"}
  BY DEF ErrorPc
<1>1. ASSUME NEW w \in Walkers, ResumeViaGraph(w) \/ RunViaGraph(w)
      PROVE  CandidateInRange'
  <2>1. CASE ResumeViaGraph(w)
    BY <1>0, <1>a, <2>1 DEF ResumeViaGraph, IdleRun
  <2>2. CASE RunViaGraph(w)
    BY <1>0, <1>a, <2>2 DEF RunViaGraph, IdleRun
  <2> QED
    BY <1>1, <2>1, <2>2
<1>2. ASSUME NEW w \in Walkers, NodePanic(w) \/ StoreFault(w) \/ BoundaryFault(w)
      PROVE  CandidateInRange'
  BY <1>2, <1>b, <1>c DEF NodePanic, StoreFault, BoundaryFault
<1>3. ASSUME NEW w \in Walkers, ParentCancel(w)
      PROVE  CandidateInRange'
  <2>1. \A v \in Walkers : run'[v].pc = run[v].pc /\ run'[v].last = run[v].last
    BY <1>0, <1>3 DEF ParentCancel, Run
  <2> QED
    BY <2>1 DEF CandidateInRange
<1>4. CASE InterruptWithCancel
  <2>1. \A v \in Walkers : run'[v].pc = run[v].pc /\ run'[v].last = run[v].last
    BY <1>0, <1>4 DEF InterruptWithCancel, Run
  <2> QED
    BY <2>1 DEF CandidateInRange
<1>5. CASE Crash
  BY <1>5 DEF Crash, CandidateInRange, IdleRun
<1>6. CASE InterruptWithCommit \/ Sweep \/ WallclockElapses
  BY <1>6 DEF InterruptWithCommit, Sweep, WallclockElapses, CandidateInRange
<1>7. ASSUME NEW o \in Operators, OperatorRead(o) \/ OperatorCommit(o)
      PROVE  CandidateInRange'
  BY <1>7 DEF OperatorRead, OperatorCommit, CandidateInRange
<1> QED
  BY <1>1, <1>2, <1>3, <1>4, <1>5, <1>6, <1>7 DEF Next

LEMMA InvInit == Init => TypeInv
<1> SUFFICES ASSUME Init PROVE TypeInv
  OBVIOUS
<1>1. \A v \in Walkers : run[v].pc # "reviewed"
  BY DEF Init, IdleRun
<1> QED
  BY <1>1, InitTyped DEF TypeInv, CandidateInRange

LEMMA InvStep ==
    ASSUME TypeInv, [Next]_vars
    PROVE  TypeInv'
<1>1. CASE Next
  <2>1. TaskOK'
    <3>1. ASSUME NEW w \in Walkers, WalkerStep(w) PROVE TaskOK'
      BY <3>1, WalkerStepType
    <3>2. ASSUME NEW w \in Walkers,
                 \/ ResumeViaGraph(w) \/ RunViaGraph(w) \/ NodePanic(w)
                 \/ StoreFault(w) \/ BoundaryFault(w) \/ ParentCancel(w)
          PROVE  TaskOK'
      BY <3>2, EnvironmentStepType DEF TypeInv
    <3>3. ASSUME NEW o \in Operators, OperatorRead(o) \/ OperatorCommit(o) PROVE TaskOK'
      BY <3>3, OperatorStepType DEF TypeInv
    <3> QED
      BY <1>1, <3>1, <3>2, <3>3, ExternalStepType DEF Next, TypeInv
  <2>2. CandidateInRange'
    BY <1>1, WalkerStepCandidate, OtherStepCandidate
  <2> QED
    BY <2>1, <2>2 DEF TypeInv
<1>2. CASE UNCHANGED vars
  BY <1>2 DEF vars, TypeInv, TaskOK, CandidateInRange, InRange
<1> QED
  BY <1>1, <1>2

LEMMA TaskCorrect == Spec => []TaskOK
<1>1. Init => TypeInv
  BY InvInit
<1>2. TypeInv /\ [Next]_vars => TypeInv'
  BY InvStep
<1>3. TypeInv => TaskOK
  BY DEF TypeInv
<1> QED
  BY <1>1, <1>2, <1>3, PTL DEF Spec

\* executor calls are counted by RunSubTask alone, and forgotten with the plan they were for
CallStep ==
    \/ running' \subseteq running /\ calls' = calls
    \/ \E w \in Walkers : RunSubTask(w) \/ PlannerPlan(w)

LEMMA WalkerCallStep ==
    ASSUME NEW w \in Walkers, WalkerStep(w)
    PROVE  CallStep
<1>1. CASE \/ StartGraphRun(w) \/ WalkerCtxErr(w) \/ WalkerCtxOk(w) \/ WalkerLoad(w)
           \/ CommitBudgetInterrupt(w) \/ PlannerError(w) \/ PlannerCancelled(w)
           \/ NodeOutOfRange(w) \/ CommitFailureBoundary(w) \/ EndRun(w)
  BY <1>1 DEF StartGraphRun, WalkerCtxErr, WalkerCtxOk, WalkerLoad, CommitBudgetInterrupt,
              PlannerError, PlannerCancelled, NodeOutOfRange, CommitFailureBoundary, EndRun,
              NodeError, calling, CallStep
<1>2. CASE \/ ExecutorAdvance(w) \/ ReviewTask(w) \/ ReviewerCommit(w) \/ ReviewSubTask(w)
           \/ StrictReviewCommit(w) \/ ReplanSetupNoop(w) \/ ReplanSetup(w)
           \/ ApprovalPending(w) \/ ApprovalRoute(w)
  BY <1>2 DEF ExecutorAdvance, ReviewTask, ReviewerCommit, ReviewSubTask, RunReview,
              StrictReviewCommit, ReplanSetupNoop, ReplanSetup, ApprovalPending, ApprovalRoute,
              NodeError, calling, CallStep
<1>3. CASE \E ok \in BOOLEAN : ExecutorRun(w, ok)
  BY <1>3 DEF ExecutorRun, CallStep
<1>4. CASE RunSubTask(w) \/ PlannerPlan(w)
  BY <1>4 DEF CallStep
<1> QED
  BY <1>1, <1>2, <1>3, <1>4 DEF WalkerStep

LEMMA EveryCallStep ==
    ASSUME [Next]_vars
    PROVE  CallStep
<1>1. ASSUME NEW w \in Walkers, WalkerStep(w) PROVE CallStep
  BY <1>1, WalkerCallStep
<1>2. ASSUME NEW w \in Walkers,
             \/ ResumeViaGraph(w) \/ RunViaGraph(w) \/ NodePanic(w)
             \/ StoreFault(w) \/ BoundaryFault(w) \/ ParentCancel(w)
      PROVE  CallStep
  BY <1>2 DEF ResumeViaGraph, RunViaGraph, NodePanic, StoreFault, BoundaryFault, ParentCancel,
              calling, CallStep
<1>3. ASSUME NEW o \in Operators, OperatorRead(o) \/ OperatorCommit(o) PROVE CallStep
  BY <1>3 DEF OperatorRead, OperatorCommit, calling, CallStep
<1>4. CASE InterruptWithCancel \/ InterruptWithCommit \/ Crash \/ Sweep \/ WallclockElapses
  BY <1>4 DEF InterruptWithCancel, InterruptWithCommit, Crash, Sweep, WallclockElapses,
              calling, CallStep
<1>5. CASE UNCHANGED vars
  BY <1>5 DEF vars, CallStep
<1> QED
  BY <1>1, <1>2, <1>3, <1>4, <1>5 DEF Next

LEMMA CallingStep ==
    ASSUME TaskOK, CallingOK, CallStep
    PROVE  CallingOK'
<1>1. CASE running' \subseteq running /\ calls' = calls
  BY <1>1 DEF CallingOK
<1>2. ASSUME NEW w \in Walkers, RunSubTask(w)
      PROVE  CallingOK'
  <2> DEFINE i == run[w].last.state.idx + 1
  <2>1. calls' = [calls EXCEPT ![i] = OneMore(@)] /\ running' = running \cup {w}
    BY <1>2 DEF RunSubTask
  <2> HIDE DEF i
  <2>2. calls' \in Seq(Nat)
    <3>1. CASE i \in DOMAIN calls
      <4>1. OneMore(calls[i]) \in Nat
        BY <3>1 DEF CallingOK, OneMore
      <4> QED
        BY <2>1, <3>1, <4>1 DEF CallingOK
    <3>2. CASE i \notin DOMAIN calls
      <4>1. calls = [j \in DOMAIN calls |-> calls[j]]
        BY DEF CallingOK
      <4>2. calls' = calls
        BY <2>1, <3>2, <4>1
      <4> QED
        BY <4>2 DEF CallingOK
    <3> QED
      BY <3>1, <3>2
  <2> QED
    BY <2>1, <2>2 DEF CallingOK
<1>3. ASSUME NEW w \in Walkers, PlannerPlan(w)
      PROVE  CallingOK'
  <2> DEFINE keep == run[w].last.state.replan.preserved
  <2>1. PICK n \in PlanSizes :
           /\ running' = running
           /\ \/ calls' = calls
              \/ calls' = [i \in 1..Len(MergePreservedSubTasks(keep, n)) |-> 0]
    BY <1>3 DEF PlannerPlan
  <2>2. MergePreservedSubTasks(keep, n) \in Seq(SubTask)
    BY RunTypes, MergeType, ConfigAssumption
  <2> HIDE DEF keep
  <2>3. Len(MergePreservedSubTasks(keep, n)) \in Nat
    BY <2>2
  <2> QED
    BY <2>1, <2>3 DEF CallingOK
<1> QED
  BY <1>1, <1>2, <1>3 DEF CallStep

\* In every configuration, with any number of goroutines and operators, all state keeps
\* the types of the Go structures.
THEOREM TypeCorrect == Spec => []TypeOK
<1>1. Init => CallingOK
  BY DEF Init, CallingOK
<1>2. TaskOK /\ CallingOK /\ [Next]_vars => CallingOK'
  BY EveryCallStep, CallingStep
<1> QED
  BY <1>1, <1>2, TaskCorrect, PTL DEF Spec, TypeOK
-----------------------------------------------------------------------------
(***************************************************************************)
(* What any step may write to the store.  Nothing but CommitRuntimeStep    *)
(* changes the state of a task, and only an operator's resolution commits  *)
(* an update that clears the interrupt.                                    *)
(***************************************************************************)
OperatorResolves ==
    \E o \in Operators : op[o].decision \in {"retry", "skip"} /\ op'[o] = IdleOp

Keeps(u) == "clearIntr" \in DOMAIN u /\ u.clearIntr = FALSE

CommitStep(u, next) ==
    /\ CanCommit(u) /\ snap' = Committed(u, next)
    /\ Keeps(u) \/ OperatorResolves

StoreStep == snap'.state = snap.state \/ \E u, next : CommitStep(u, next)

LEMMA TryCommitStore ==
    ASSUME NEW u, NEW next, TryCommit(u, next), Keeps(u) \/ OperatorResolves
    PROVE  StoreStep
  BY DEF TryCommit, StoreStep, CommitStep

\* Writing any other field leaves the interrupt alone.
LEMMA KeepsFields ==
    /\ Keeps(NoUpdate)
    /\ \A u : Keeps(u) =>
         /\ \A x : Keeps([u EXCEPT !.status = x])
         /\ \A x : Keeps([u EXCEPT !.idx = x])
         /\ \A x : Keeps([u EXCEPT !.plan = x])
         /\ \A x : Keeps([u EXCEPT !.intr = x])
         /\ \A x : Keeps([u EXCEPT !.replan = x])
         /\ \A x : Keeps([u EXCEPT !.clearReplan = x])
         /\ \A x : Keeps([u EXCEPT !.tokens = x])
  BY DEF NoUpdate, Keeps

LEMMA NodeCommitStore ==
    ASSUME NEW w, NEW r, NEW out, Keeps(out), NEW next, NEW halt,
           NodeCommit(w, r, out, next, halt)
    PROVE  StoreStep
<1> DEFINE u == FinishingUpdate(w, out, next)
<1>1. Keeps(u)
  BY KeepsFields DEF FinishingUpdate
<1>2. snap' = snap \/ (CanCommit(u) /\ snap' = Committed(u, next))
  BY DEF NodeCommit
<1> HIDE DEF u
<1> QED
  BY <1>1, <1>2 DEF StoreStep, CommitStep

LEMMA WalkerStepStore ==
    ASSUME NEW w \in Walkers, WalkerStep(w)
    PROVE  StoreStep
<1>1. CASE StartGraphRun(w)
  BY <1>1 DEF StartGraphRun, StoreStep
<1>2. CASE WalkerCtxErr(w) \/ CommitBudgetInterrupt(w) \/ CommitFailureBoundary(w)
  <2>1. \A x : Keeps([NoUpdate EXCEPT !.intr = x]) /\ Keeps([NoUpdate EXCEPT !.status = x])
    BY KeepsFields
  <2>2. UNCHANGED snap \/ \E u, next : Keeps(u) /\ TryCommit(u, next)
    BY <1>2, <2>1 DEF WalkerCtxErr, CommitBudgetInterrupt, CommitFailureBoundary
  <2> QED
    BY <2>2, TryCommitStore DEF StoreStep
<1>3. CASE WalkerCtxOk(w) \/ WalkerLoad(w) \/ PlannerError(w) \/ PlannerCancelled(w)
           \/ NodeOutOfRange(w) \/ EndRun(w) \/ RunSubTask(w)
  BY <1>3 DEF RunSubTask, WalkerCtxOk, WalkerLoad, PlannerError, PlannerCancelled, NodeOutOfRange, NodeError,
              EndRun, StoreStep
<1>4. CASE PlannerPlan(w)
  <2>1. \A a, b, c, d, e : Keeps([NoUpdate EXCEPT !.status = a, !.idx = b, !.plan = c,
                                                  !.clearReplan = d, !.tokens = e])
    BY KeepsFields
  <2> QED
    BY <1>4, <2>1, NodeCommitStore DEF PlannerPlan
<1>5. CASE ExecutorAdvance(w)
  <2>1. \A x : Keeps([NoUpdate EXCEPT !.idx = x])
    BY KeepsFields
  <2> QED
    BY <1>5, <2>1, NodeCommitStore DEF ExecutorAdvance
<1>6. CASE \E ok \in BOOLEAN : ExecutorRun(w, ok)
  <2>1. /\ \A a, b, c : Keeps([NoUpdate EXCEPT !.idx = a, !.tokens = b, !.plan = c])
        /\ \A a, b, c : Keeps(ApprovalPause(a, b, c))
        /\ \A a, b : Keeps([NoUpdate EXCEPT !.plan = a, !.tokens = b])
    BY KeepsFields DEF ApprovalPause
  <2> QED
    BY <1>6, <2>1, NodeCommitStore DEF ExecutorRun
<1>7. CASE ReviewTask(w) \/ ReviewSubTask(w)
  <2>1. \A x : Keeps([NoUpdate EXCEPT !.tokens = x])
    BY KeepsFields
  <2>2. UNCHANGED snap \/ \E x : TryCommit([NoUpdate EXCEPT !.tokens = x], "reviewer")
    BY <1>7 DEF ReviewTask, ReviewSubTask, RunReview
  <2> QED
    BY <2>1, <2>2, TryCommitStore DEF StoreStep
<1>8. CASE ReviewerCommit(w)
  <2>1. Keeps(ReviewerUpdate(run[w].rev))
    BY KeepsFields DEF ReviewerUpdate
  <2> QED
    BY <1>8, <2>1, NodeCommitStore DEF ReviewerCommit
<1>9. CASE StrictReviewCommit(w)
  <2>1. /\ \A a, b, c : Keeps([NoUpdate EXCEPT !.plan = a, !.idx = b, !.tokens = c])
        /\ \A a, b : Keeps([NoUpdate EXCEPT !.plan = a, !.tokens = b])
    BY KeepsFields
  <2> QED
    BY <1>9, <2>1, NodeCommitStore DEF StrictReviewCommit
<1>10. CASE ReplanSetup(w)
  <2>1. \A x : Keeps([NoUpdate EXCEPT !.replan = x])
    BY KeepsFields
  <2> QED
    BY <1>10, <2>1, NodeCommitStore DEF ReplanSetup
<1>11. CASE ReplanSetupNoop(w) \/ ApprovalPending(w) \/ ApprovalRoute(w)
  BY <1>11, KeepsFields, NodeCommitStore
     DEF ReplanSetupNoop, ApprovalPending, ApprovalRoute, NodeError, StoreStep
<1> QED
  BY <1>1, <1>2, <1>3, <1>4, <1>5, <1>6, <1>7, <1>8, <1>9, <1>10, <1>11 DEF WalkerStep

LEMMA EveryStepStore ==
    ASSUME TaskOK, [Next]_vars
    PROVE  StoreStep
<1>a. /\ \A x : Keeps([NoUpdate EXCEPT !.status = x])
      /\ \A x, y : Keeps([NoUpdate EXCEPT !.status = x, !.intr = y])
  BY KeepsFields
<1>1. ASSUME NEW w \in Walkers, ResumeViaGraph(w) \/ RunViaGraph(w) \/ StoreFault(w)
                                \/ BoundaryFault(w) \/ ParentCancel(w)
      PROVE  StoreStep
  BY <1>1 DEF ResumeViaGraph, RunViaGraph, StoreFault, BoundaryFault, ParentCancel, StoreStep
<1>2. ASSUME NEW w \in Walkers, NodePanic(w)
      PROVE  StoreStep
  BY <1>a, <1>2, KeepsFields, TryCommitStore DEF NodePanic
<1>3. ASSUME NEW o \in Operators, OperatorRead(o)
      PROVE  StoreStep
  BY <1>3 DEF OperatorRead, StoreStep
<1>4. ASSUME NEW o \in Operators, OperatorCommit(o)
      PROVE  StoreStep
  <2>1. CASE op[o].decision = "abort" /\ MarkTaskFailedDurable
    BY <1>a, <2>1, TryCommitStore DEF MarkTaskFailedDurable
  <2>2. CASE op[o].decision \in {"retry", "skip"}
    <3>1. op'[o] = IdleOp
      BY <1>4 DEF OperatorCommit, TaskOK
    <3>2. OperatorResolves
      BY <2>2, <3>1 DEF OperatorResolves
    <3> QED
      BY <1>4, <2>2, <3>2, TryCommitStore DEF OperatorCommit
  <2> QED
    BY <1>4, <2>1, <2>2 DEF OperatorCommit
<1>5. CASE InterruptWithCommit
  BY <1>5, <1>a, TryCommitStore DEF InterruptWithCommit, StoreStep
<1>6. CASE Sweep
  BY <1>6, <1>a, TryCommitStore DEF Sweep, MarkTaskFailedDurable
<1>7. CASE InterruptWithCancel \/ Crash \/ WallclockElapses \/ UNCHANGED vars
  BY <1>7 DEF InterruptWithCancel, Crash, WallclockElapses, vars, StoreStep
<1> QED
  BY <1>1, <1>2, <1>3, <1>4, <1>5, <1>6, <1>7, WalkerStepStore DEF Next
-----------------------------------------------------------------------------
\* The reducer leaves a terminal status alone and drops an interrupt only when it is told to.
LEMMA CommitStepKeeps ==
    ASSUME TaskOK, NEW u, NEW next, CommitStep(u, next)
    PROVE  /\ snap.state.status \in TerminalStatus => snap'.state.status = snap.state.status
           /\ snap.state.intr # NoInterrupt /\ snap'.state.intr = NoInterrupt
                => OperatorResolves
<1> DEFINE s == snap.state
<1>1. CommitSeed(s) = s
  BY CommitSeedIsCurrent DEF TaskOK, Snapshot
<1>2. Accepts(s, u) /\ snap'.state = ApplyStateUpdates(s, u)
  BY <1>1 DEF CommitStep, CanCommit, Committed
<1> DEFINE n == ApplyStateUpdates(s, u)
<1>3. n.status = IF u.status = "" THEN s.status ELSE u.status
  BY ReducerFields
<1>4. n.intr = IF u.intr # NoInterrupt THEN u.intr
               ELSE IF u.clearIntr THEN NoInterrupt ELSE s.intr
  BY ReducerFields
<1> HIDE DEF n
<1>5. s.status \in TerminalStatus => n.status = s.status
  BY <1>2, <1>3 DEF Accepts, ValidTaskStatusTransition, TerminalStatus
<1>6. Keeps(u) /\ s.intr # NoInterrupt => n.intr # NoInterrupt
  BY <1>4 DEF Keeps
<1> QED
  BY <1>2, <1>5, <1>6 DEF CommitStep, n

\* Whatever walkers, operators, interrupts, sweeps, panics, store faults and crashes
\* interleave, a task that is done, failed or interrupted keeps that status.
THEOREM TerminalStatusIsImmutable == Spec => TerminalStatusImmutable
<1>1. TaskOK /\ [Next]_vars
        => (snap.state.status \in TerminalStatus => snap'.state.status = snap.state.status)
  BY EveryStepStore, CommitStepKeeps DEF StoreStep
<1> QED
  BY <1>1, TaskCorrect, PTL DEF Spec, TerminalStatusImmutable

\* A pending interrupt outlives every commit, however stale the state it was computed
\* from, until an operator resolves it with retry or skip.
THEOREM InterruptIsDurable == Spec => InterruptDurable
<1>1. TaskOK /\ [Next]_vars
        => (snap.state.intr # NoInterrupt /\ snap'.state.intr = NoInterrupt
              => \E o \in Operators : op[o].decision \in {"retry", "skip"} /\ op'[o] = IdleOp)
  BY EveryStepStore, CommitStepKeeps DEF StoreStep, OperatorResolves
<1> QED
  BY <1>1, TaskCorrect, PTL DEF Spec, InterruptDurable

=============================================================================
