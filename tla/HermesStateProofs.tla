------------------------- MODULE HermesStateProofs -------------------------
(***************************************************************************)
(* Facts about the reducer and the commit seed of HermesState.             *)
(***************************************************************************)
EXTENDS HermesState, TLAPS

\* Replacing one entry keeps a plan a plan; an index outside the plan changes nothing.
LEMMA PlanExcept ==
    ASSUME NEW p \in Seq(SubTask), NEW i \in Int, NEW x \in SubTask
    PROVE  [p EXCEPT ![i] = x] \in Seq(SubTask)
<1> DEFINE q == [p EXCEPT ![i] = x]
<1>1. Len(p) \in Nat /\ p \in [1..Len(p) -> SubTask]
  OBVIOUS
<1>2. q \in [1..Len(p) -> SubTask]
  BY <1>1
<1> HIDE DEF q
<1>3. q \in Seq(SubTask)
  BY <1>1, <1>2, SMT
<1> QED
  BY <1>3 DEF q

\* The state a commit starts from is the latest state: what HermesStateFromTaskState
\* loses, CarryForwardSnapshotFields restores.
THEOREM CommitSeedIsCurrent ==
    ASSUME NEW s \in State
    PROVE  CommitSeed(s) = s
<1> DEFINE t == HermesStateFromTaskState(HermesStateToTaskState(s))
<1>a. t = [status |-> s.status, idx |-> s.idx, plan |-> s.plan,
           intr |-> IF s.intr.reason = "user_interrupt"
                    THEN [reason |-> "legacy_interrupted_by", idx |-> -1, resume |-> NoStep]
                    ELSE NoInterrupt,
           replan |-> NoReplan, used |-> s.used]
  BY DEF HermesStateFromTaskState, HermesStateToTaskState
<1>b. CommitSeed(s) = [t EXCEPT !.intr = IF s.intr # NoInterrupt THEN s.intr ELSE @,
                                !.replan = IF s.replan # NoReplan THEN s.replan ELSE @]
  BY DEF CommitSeed, CarryForwardSnapshotFields
<1> HIDE DEF t
<1>1. CommitSeed(s) =
        [status |-> s.status, idx |-> s.idx, plan |-> s.plan,
         intr |-> IF s.intr # NoInterrupt THEN s.intr
                  ELSE IF s.intr.reason = "user_interrupt"
                    THEN [reason |-> "legacy_interrupted_by", idx |-> -1, resume |-> NoStep]
                    ELSE NoInterrupt,
         replan |-> IF s.replan # NoReplan THEN s.replan ELSE NoReplan,
         used |-> s.used]
  BY <1>a, <1>b
<1>2. s.intr = NoInterrupt => s.intr.reason # "user_interrupt"
  BY DEF NoInterrupt
<1>3. CommitSeed(s) = [status |-> s.status, idx |-> s.idx, plan |-> s.plan,
                       intr |-> s.intr, replan |-> s.replan, used |-> s.used]
  BY <1>1, <1>2
<1> QED
  BY <1>3 DEF State

LEMMA ApplyType ==
    ASSUME NEW s \in State, NEW u \in StateUpdate
    PROVE  ApplyStateUpdates(s, u) \in State
<1> DEFINE n == ApplyStateUpdates(s, u)
<1>1. /\ s.status \in TaskStatus /\ s.idx \in Int /\ s.plan \in Seq(SubTask)
      /\ s.intr \in Interrupt /\ s.replan \in Replan /\ s.used \in Nat
  BY DEF State
<1>2. /\ u.status \in TaskStatus \cup {""} /\ u.idx \in Int /\ u.plan \in Seq(SubTask)
      /\ u.intr \in Interrupt /\ u.replan \in Replan /\ u.tokens \in Nat
  BY DEF StateUpdate
<1>3. NoInterrupt \in Interrupt /\ NoReplan \in Replan
  BY DEF NoInterrupt, Interrupt, InterruptReason, NoStep, RuntimeStep, NoReplan, Replan
<1>a. n.status \in TaskStatus
  BY <1>1, <1>2 DEF ApplyStateUpdates
<1>b. n.idx \in Int
  BY <1>1, <1>2 DEF ApplyStateUpdates
<1>c. n.plan \in Seq(SubTask)
  BY <1>1, <1>2 DEF ApplyStateUpdates
<1>d. n.used \in Nat
  <2>1. n.used = s.used + u.tokens
    BY DEF ApplyStateUpdates
  <2>2. s.used \in Nat /\ u.tokens \in Nat
    BY <1>1, <1>2
  <2> HIDE DEF n
  <2> QED
    BY <2>1, <2>2
<1>5. n.intr \in Interrupt /\ n.replan \in Replan
  BY <1>1, <1>2, <1>3 DEF ApplyStateUpdates
<1>6. n = [status |-> n.status, idx |-> n.idx, plan |-> n.plan, intr |-> n.intr,
           replan |-> n.replan, used |-> n.used]
  BY DEF ApplyStateUpdates
<1> QED
  BY <1>a, <1>b, <1>c, <1>d, <1>5, <1>6 DEF State

LEMMA ReducerFields ==
    ASSUME NEW s, NEW u
    PROVE  /\ ApplyStateUpdates(s, u).status = IF u.status = "" THEN s.status ELSE u.status
           /\ ApplyStateUpdates(s, u).intr = IF u.intr # NoInterrupt THEN u.intr
                                  ELSE IF u.clearIntr THEN NoInterrupt ELSE s.intr
           /\ ApplyStateUpdates(s, u).used = s.used + u.tokens
<1>1. ApplyStateUpdates(s, u).status = IF u.status = "" THEN s.status ELSE u.status
  BY Zenon DEF ApplyStateUpdates
<1>2. ApplyStateUpdates(s, u).intr = IF u.intr # NoInterrupt THEN u.intr
                                  ELSE IF u.clearIntr THEN NoInterrupt ELSE s.intr
  BY Zenon DEF ApplyStateUpdates
<1>3. ApplyStateUpdates(s, u).used = s.used + u.tokens
  BY Zenon DEF ApplyStateUpdates
<1> QED
  BY <1>1, <1>2, <1>3

LEMMA StateConstants ==
    /\ NoInterrupt \in Interrupt /\ NoReplan \in Replan /\ CreatedState \in State
    /\ NoUpdate \in StateUpdate
  BY DEF NoInterrupt, Interrupt, InterruptReason, RuntimeStep, NoStep, NoReplan, Replan,
         CreatedState, State, TaskStatus, NoUpdate, StateUpdate

\* the fields of NoUpdate that an action writes
LEMMA UpdateFields ==
    ASSUME NEW u \in StateUpdate
    PROVE  /\ \A st \in TaskStatus \cup {""} : [u EXCEPT !.status = st] \in StateUpdate
           /\ \A i \in Int : [u EXCEPT !.idx = i] \in StateUpdate
           /\ \A p \in Seq(SubTask) : [u EXCEPT !.plan = p] \in StateUpdate
           /\ \A i \in Interrupt : [u EXCEPT !.intr = i] \in StateUpdate
           /\ \A b \in BOOLEAN : [u EXCEPT !.clearIntr = b] \in StateUpdate
           /\ \A x \in Replan : [u EXCEPT !.replan = x] \in StateUpdate
           /\ \A b \in BOOLEAN : [u EXCEPT !.clearReplan = b] \in StateUpdate
           /\ \A t \in Nat : [u EXCEPT !.tokens = t] \in StateUpdate
  BY DEF StateUpdate

\* what a partial replan preserves is a plan of done sub-tasks
LEMMA PreservedType ==
    ASSUME NEW plan \in Seq(SubTask), NEW p \in PreservedChoices(plan)
    PROVE  p \in Seq(SubTask) /\ \A i \in 1..Len(p) : p[i].st = "done"
<1>1. CASE p = <<>>
  BY <1>1
<1>2. CASE p # <<>>
  <2>a. PICK k \in 1..Len(plan) - 1 :
           \E f \in [1..k -> DoneIdx(plan)] : p = [i \in 1..k |-> plan[f[i]]]
    BY <1>2 DEF PreservedChoices
  <2>1. PICK f \in [1..k -> DoneIdx(plan)] : p = [i \in 1..k |-> plan[f[i]]]
    BY <2>a
  <2>2. \A i \in 1..k : plan[f[i]] \in SubTask /\ plan[f[i]].st = "done"
    BY <2>1 DEF DoneIdx
  <2>3. k \in Nat
    BY <2>1
  <2>4. p \in Seq(SubTask)
    <3>1. p \in [1..k -> SubTask]
      <4> HIDE DEF SubTask, DoneIdx
      <4> QED
        BY <2>1, <2>2
    <3> QED
      BY <2>3, <3>1
  <2>5. Len(p) = k
    BY <2>1, <2>3, <2>4
  <2> QED
    BY <2>1, <2>2, <2>4, <2>5
<1> QED
  BY <1>1, <1>2

LEMMA MergeType ==
    ASSUME NEW keep \in Seq(SubTask), NEW n \in Nat \ {0}
    PROVE  /\ MergePreservedSubTasks(keep, n) \in Seq(SubTask)
           /\ Len(MergePreservedSubTasks(keep, n)) = Len(keep) + n
           /\ \A i \in 1..Len(keep) + n :
                 MergePreservedSubTasks(keep, n)[i]
                   = IF i <= Len(keep) THEN keep[i] ELSE PendingSubTask
<1> DEFINE fresh == [i \in 1..n |-> PendingSubTask]
<1>1. PendingSubTask \in SubTask
  BY DEF PendingSubTask, SubTask, SubTaskStatus
<1> HIDE DEF PendingSubTask
<1>2. fresh \in Seq(SubTask) /\ Len(fresh) = n /\ \A i \in 1..n : fresh[i] = PendingSubTask
  <2>1. fresh \in Seq(SubTask)
    BY <1>1
  <2>2. fresh \in [1..n -> SubTask]
    BY <1>1
  <2> QED
    BY <2>1, <2>2
<1>3. MergePreservedSubTasks(keep, n) = keep \o fresh
  BY DEF MergePreservedSubTasks
<1> HIDE DEF fresh
<1>4. \A i \in 1..Len(keep) + n :
        (keep \o fresh)[i] = IF i <= Len(keep) THEN keep[i] ELSE PendingSubTask
  <2> TAKE i \in 1..Len(keep) + n
  <2>1. CASE i <= Len(keep)
    BY <1>2, <2>1
  <2>2. CASE ~(i <= Len(keep))
    <3>1. i - Len(keep) \in 1..n
      BY <2>2
    <3>2. fresh[i - Len(keep)] = PendingSubTask
      BY <1>2, <3>1
    <3>3. (keep \o fresh)[i] = fresh[i - Len(keep)]
      BY <1>2, <2>2
    <3> QED
      BY <2>2, <3>2, <3>3, Zenon
  <2> QED
    BY <2>1, <2>2, Zenon
<1>5. keep \o fresh \in Seq(SubTask) /\ Len(keep \o fresh) = Len(keep) + n
  BY <1>2
<1> QED
  BY <1>3, <1>4, <1>5, Zenon

=============================================================================
