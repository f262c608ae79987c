------------------------ MODULE RuntimeCommitProofs ------------------------
(***************************************************************************)
(* Proofs about RuntimeCommit: the history is linear with and without the  *)
(* mutex, and with the mutex the commits are serialised.                   *)
(***************************************************************************)
EXTENDS RuntimeCommit, HermesStateProofs, TLAPS

Row == [state : State, parent : Nat, by : Writers]

LEMMA ToTaskType ==
    ASSUME NEW s \in State
    PROVE  HermesStateToTaskState(s) \in Task
  BY DEF HermesStateToTaskState, State, Task

\* Reading the row and the previous snapshot at different moments still gives a state.
LEMMA SeedType ==
    ASSUME NEW t \in Task, NEW prev \in State
    PROVE  CarryForwardSnapshotFields(HermesStateFromTaskState(t), prev) \in State
<1> DEFINE i == IF t.by # 0 THEN [reason |-> "legacy_interrupted_by", idx |-> -1, resume |-> NoStep]
                ELSE NoInterrupt
           s == HermesStateFromTaskState(t)
           c == [s EXCEPT !.intr = IF prev.intr # NoInterrupt THEN prev.intr ELSE @]
<1>1. [reason |-> "legacy_interrupted_by", idx |-> -1, resume |-> NoStep] \in Interrupt
  BY DEF Interrupt, InterruptReason
<1>2. i \in Interrupt /\ NoReplan \in Replan
  BY <1>1, StateConstants
<1>3. prev.intr \in Interrupt /\ prev.replan \in Replan
  BY DEF State
<1>4. s = [status |-> t.status, idx |-> t.idx, plan |-> t.plan, intr |-> i,
           replan |-> NoReplan, used |-> t.used]
  BY DEF HermesStateFromTaskState
<1> HIDE DEF i, s
<1>5. s \in State
  BY <1>2, <1>4 DEF Task, State
<1>6. c \in State
  BY <1>3, <1>5 DEF State
<1>7. CarryForwardSnapshotFields(s, prev)
        = [c EXCEPT !.replan = IF prev.replan # NoReplan THEN prev.replan ELSE @]
  BY DEF CarryForwardSnapshotFields
<1> HIDE DEF c
<1> QED
  BY <1>3, <1>6, <1>7 DEF State, s

LEMMA CurrentType ==
    ASSUME TypeOK
    PROVE  Current \in State /\ log \in Seq(Row) /\ Len(log) \in Nat
<1>1. log \in Seq(Row) /\ Len(log) \in Nat
  BY DEF TypeOK, Row
<1>2. ASSUME log # <<>> PROVE log[Len(log)] \in Row
  BY <1>1, <1>2
<1> QED
  BY <1>1, <1>2, StateConstants DEF Current, Row
-----------------------------------------------------------------------------
Call == [pc : {"idle", "task", "prev", "latest", "insert"}, u : Updates \cup {NoUpdate},
         task : Task, next : State, latest : Nat]

LEMMA IdleWriterType == IdleWriter \in Call /\ IdleWriter.pc = "idle"
  BY StateConstants, ToTaskType DEF IdleWriter, Call

LEMMA CallFields ==
    ASSUME NEW c \in Call
    PROVE  /\ \A pc \in {"idle", "task", "prev", "latest", "insert"} : [c EXCEPT !.pc = pc] \in Call
           /\ \A u \in Updates : [c EXCEPT !.u = u] \in Call
           /\ \A t \in Task : [c EXCEPT !.task = t] \in Call
           /\ \A s \in State : [c EXCEPT !.next = s] \in Call
           /\ \A n \in Nat : [c EXCEPT !.latest = n] \in Call
           /\ c.u \in StateUpdate /\ c.task \in Task /\ c.next \in State /\ c.latest \in Nat
  BY CommitAssumption, StateConstants DEF Call

LEMMA TypeInit == Init => TypeOK
<1> SUFFICES ASSUME Init PROVE TypeOK
  OBVIOUS
<1>1. log \in Seq(Row)
  BY DEF Init
<1>2. begun \in 0..MaxCommits
  BY CommitAssumption DEF Init
<1> QED
  BY <1>1, <1>2, IdleWriterType DEF Init, TypeOK, Row, Call

LEMMA TypeStep == TypeOK /\ [Next]_vars => TypeOK'
<1> SUFFICES ASSUME TypeOK, [Next]_vars PROVE TypeOK'
  OBVIOUS
<1>0. log \in Seq(Row) /\ writer \in [Writers -> Call] /\ holder \in SUBSET Writers
      /\ begun \in 0..MaxCommits /\ charged \in Nat
  BY DEF TypeOK, Row, Call
<1>a. SUFFICES log' \in Seq(Row) /\ writer' \in [Writers -> Call] /\ holder' \in SUBSET Writers
               /\ begun' \in 0..MaxCommits /\ charged' \in Nat
  BY DEF TypeOK, Row, Call
<1>c. log' \in Seq(Row) /\ writer' \in [Writers -> Call] /\ holder' \in SUBSET Writers
      /\ begun' \in 0..MaxCommits /\ charged' \in Nat => TypeOK'
  BY DEF TypeOK, Row, Call
<1>b. ASSUME NEW w \in Writers, Return(w)
      PROVE  writer' \in [Writers -> Call] /\ holder' \in SUBSET Writers
  BY <1>0, <1>b, IdleWriterType DEF Return
<1>1. ASSUME NEW w \in Writers, NEW u \in Updates, Begin(w, u)
      PROVE  TypeOK'
  <2>1. [IdleWriter EXCEPT !.pc = "task", !.u = u] \in Call
    BY IdleWriterType, CallFields
  <2>2. begun' \in 0..MaxCommits
    BY <1>0, <1>1, CommitAssumption DEF Begin
  <2> QED
    BY <1>0, <1>1, <1>c, <2>1, <2>2 DEF Begin
<1>2. ASSUME NEW w \in Writers, ReadTask(w)
      PROVE  TypeOK'
  <2> DEFINE t == HermesStateToTaskState(Current)
             c == [writer[w] EXCEPT !.pc = "prev", !.task = t]
  <2>1. t \in Task
    BY CurrentType, ToTaskType
  <2>2. c \in Call
    BY <1>0, <2>1, CallFields
  <2>3. writer' = [writer EXCEPT ![w] = c]
    BY <1>2 DEF ReadTask
  <2> HIDE DEF c
  <2> QED
    BY <1>0, <1>2, <1>c, <2>2, <2>3 DEF ReadTask
<1>3. ASSUME NEW w \in Writers, ReadPrev(w)
      PROVE  TypeOK'
  <2> DEFINE seed == CarryForwardSnapshotFields(HermesStateFromTaskState(writer[w].task), Current)
             n == ApplyStateUpdates(seed, writer[w].u)
             c == [writer[w] EXCEPT !.pc = "latest", !.next = n]
  <2>1. seed \in State /\ writer[w].u \in StateUpdate
    BY <1>0, CurrentType, SeedType, CallFields
  <2>2. n \in State
    BY <2>1, ApplyType
  <2>3. c \in Call
    BY <1>0, <2>2, CallFields
  <2>4. (writer' = [writer EXCEPT ![w] = c] /\ UNCHANGED holder) \/ Return(w)
    BY <1>3 DEF ReadPrev
  <2> HIDE DEF c
  <2>5. writer' \in [Writers -> Call] /\ holder' \in SUBSET Writers
    BY <1>0, <1>b, <2>3, <2>4
  <2> QED
    BY <1>0, <1>3, <1>c, <2>5 DEF ReadPrev
<1>4. ASSUME NEW w \in Writers, ReadLatest(w)
      PROVE  TypeOK'
  <2> DEFINE c == [writer[w] EXCEPT !.pc = "insert", !.latest = Len(log)]
  <2>1. c \in Call
    BY <1>0, CurrentType, CallFields
  <2>2. writer' = [writer EXCEPT ![w] = c]
    BY <1>4 DEF ReadLatest
  <2> HIDE DEF c
  <2> QED
    BY <1>0, <1>4, <1>c, <2>1, <2>2 DEF ReadLatest
<1>5. ASSUME NEW w \in Writers, Insert(w)
      PROVE  TypeOK'
  <2> DEFINE row == [state |-> writer[w].next, parent |-> writer[w].latest, by |-> w]
             k == writer[w].u.tokens
  <2>1. row \in Row /\ writer[w].u \in StateUpdate
    BY <1>0, CallFields DEF Row
  <2>2. k \in Nat
    BY <2>1 DEF StateUpdate
  <2>3. \/ log' = Append(log, row) /\ charged' = charged + k
        \/ UNCHANGED <<log, charged>>
    BY <1>5 DEF Insert
  <2> HIDE DEF row, k
  <2>4. log' \in Seq(Row) /\ charged' \in Nat
    BY <1>0, <2>1, <2>2, <2>3
  <2> QED
    BY <1>0, <1>5, <1>b, <1>c, <2>4 DEF Insert
<1>6. ASSUME NEW w \in Writers, Abandon(w)
      PROVE  TypeOK'
  BY <1>0, <1>6, <1>b, <1>c DEF Abandon
<1>7. CASE UNCHANGED vars
  BY <1>7, <1>0 DEF vars
<1> QED
  BY <1>1, <1>2, <1>3, <1>4, <1>5, <1>6, <1>7 DEF Next, TypeOK, Row, Call

\* Rows and calls keep their types, whatever two commits read between each other's writes.
THEOREM CommitTypeCorrect == Spec => []TypeOK
  BY TypeInit, TypeStep, PTL DEF Spec

-----------------------------------------------------------------------------
(***************************************************************************)
(* A linear history.  A commit that has read its step number knows a lower *)
(* bound of the log's length; the unique index makes the bound exact at    *)
(* the insert.                                                             *)
(***************************************************************************)
LinearInv ==
    /\ LinearHistory
    /\ \A w \in Writers : writer[w].pc = "insert" => writer[w].latest <= Len(log)

\* What one step does to the log and to the calls that are about to insert.
LEMMA LogStep ==
    ASSUME TypeOK, [Next]_vars
    PROVE  /\ \/ UNCHANGED log
              \/ \E w \in Writers :
                   /\ writer[w].pc = "insert" /\ writer[w].latest + 1 > Len(log)
                   /\ log' = Append(log, [state |-> writer[w].next, parent |-> writer[w].latest,
                                          by |-> w])
           /\ \A v \in Writers : writer'[v].pc = "insert" =>
                \/ writer'[v].latest = Len(log) /\ UNCHANGED log
                \/ writer[v].pc = "insert" /\ writer'[v].latest = writer[v].latest
<1>0. writer \in [Writers -> Call]
  BY DEF TypeOK, Call
<1>1. ASSUME NEW w \in Writers, NEW u \in Updates, Begin(w, u)
      PROVE  /\ UNCHANGED log
             /\ \A v \in Writers : writer'[v].pc = "insert" => writer'[v] = writer[v]
  <2>1. [IdleWriter EXCEPT !.pc = "task", !.u = u].pc # "insert"
    BY DEF IdleWriter
  <2> QED
    BY <1>0, <1>1, <2>1 DEF Begin
<1>2. ASSUME NEW w \in Writers, ReadTask(w) \/ ReadPrev(w) \/ Abandon(w)
      PROVE  /\ UNCHANGED log
             /\ \A v \in Writers : writer'[v].pc = "insert" => writer'[v] = writer[v]
  <2>1. UNCHANGED log /\ \A v \in Writers \ {w} : writer'[v] = writer[v]
    BY <1>0, <1>2 DEF ReadTask, ReadPrev, Abandon, Return
  <2>2. CASE ReadTask(w)
    <3>1. writer'[w].pc = "prev"
      BY <1>0, <2>2 DEF ReadTask, Call
    <3> QED
      BY <2>1, <3>1
  <2>3. CASE ReadPrev(w)
    <3>1. writer'[w].pc \in {"latest", "idle"}
      BY <1>0, <2>3, IdleWriterType DEF ReadPrev, Return, Call
    <3> QED
      BY <2>1, <3>1
  <2>4. CASE Abandon(w)
    BY <1>0, <2>1, <2>4, IdleWriterType DEF Abandon, Return
  <2> QED
    BY <1>2, <2>2, <2>3, <2>4
<1>3. ASSUME NEW w \in Writers, ReadLatest(w)
      PROVE  /\ UNCHANGED log /\ writer'[w].latest = Len(log)
             /\ \A v \in Writers \ {w} : writer'[v] = writer[v]
  BY <1>0, <1>3 DEF ReadLatest, Call
<1>4. ASSUME NEW w \in Writers, Insert(w)
      PROVE  /\ \/ UNCHANGED log
                \/ /\ writer[w].pc = "insert" /\ writer[w].latest + 1 > Len(log)
                   /\ log' = Append(log, [state |-> writer[w].next, parent |-> writer[w].latest,
                                          by |-> w])
             /\ \A v \in Writers : writer'[v].pc = "insert" => writer'[v] = writer[v]
  BY <1>0, <1>4, IdleWriterType DEF Insert, Return, StepIsFree
<1>5. CASE UNCHANGED vars
  BY <1>5 DEF vars
<1> QED
  BY <1>1, <1>2, <1>3, <1>4, <1>5 DEF Next

LEMMA LinearStep ==
    ASSUME TypeOK, LinearInv, [Next]_vars
    PROVE  LinearInv'
<1>0. log \in Seq(Row) /\ Len(log) \in Nat /\ writer \in [Writers -> Call]
  BY CurrentType DEF TypeOK, Call
<1>a. \A v \in Writers : writer[v].latest \in Nat
  BY <1>0, CallFields
<1>1. CASE UNCHANGED log
  BY <1>0, <1>1, LogStep DEF LinearInv, LinearHistory
<1>2. CASE \E w \in Writers :
             /\ writer[w].pc = "insert" /\ writer[w].latest + 1 > Len(log)
             /\ log' = Append(log, [state |-> writer[w].next, parent |-> writer[w].latest,
                                    by |-> w])
  <2> DEFINE row(w) == [state |-> writer[w].next, parent |-> writer[w].latest, by |-> w]
  <2>1. PICK w \in Writers : /\ writer[w].pc = "insert" /\ writer[w].latest + 1 > Len(log)
                             /\ log' = Append(log, row(w))
    BY <1>2
  <2>2. writer[w].latest = Len(log)
    BY <1>0, <1>a, <2>1 DEF LinearInv
  <2>3. row(w) \in Row /\ row(w).parent = Len(log)
    BY <1>0, <2>2, CallFields DEF Row
  <2> HIDE DEF row
  <2>4. /\ Len(log') = Len(log) + 1 /\ log'[Len(log) + 1] = row(w)
        /\ \A i \in 1..Len(log) : log'[i] = log[i]
    BY <1>0, <2>1, <2>3
  <2>5. LinearHistory'
    <3> SUFFICES ASSUME NEW i \in 1..Len(log') PROVE log'[i].parent = i - 1
      BY DEF LinearHistory
    <3>1. CASE i \in 1..Len(log)
      BY <2>4, <3>1 DEF LinearInv, LinearHistory
    <3>2. CASE i = Len(log) + 1
      BY <1>0, <2>3, <2>4, <3>2
    <3> QED
      BY <1>0, <2>4, <3>1, <3>2
  <2>6. ~ UNCHANGED log
    BY <1>0, <2>4
  <2>7. \A v \in Writers : writer'[v].pc = "insert" => writer'[v].latest <= Len(log')
    BY <1>0, <1>a, <2>4, <2>6, LogStep DEF LinearInv
  <2> QED
    BY <2>5, <2>7 DEF LinearInv
<1> QED
  BY <1>1, <1>2, LogStep

\* With or without a mutex, for any number of concurrent commits and crashes, every
\* snapshot's parent is the snapshot one step before it: the history never forks.
THEOREM HistoryIsLinear == Spec => []LinearHistory
<1>1. Init => LinearInv
  BY DEF Init, LinearInv, LinearHistory, IdleWriter
<1>2. TypeOK /\ LinearInv /\ [Next]_vars => LinearInv'
  BY LinearStep
<1>3. LinearInv => LinearHistory
  BY DEF LinearInv
<1> QED
  BY <1>1, <1>2, <1>3, CommitTypeCorrect, PTL DEF Spec

-----------------------------------------------------------------------------
(***************************************************************************)
(* MemoryTaskStore: with the mutex there is at most one call, and what it  *)
(* has read is still current when it inserts.                              *)
(***************************************************************************)
Fresh(c) ==
    /\ c.pc # "idle" => c.u \in Updates
    /\ c.pc = "prev" => c.task = HermesStateToTaskState(Current)
    /\ c.pc \in {"latest", "insert"} =>
         Accepts(Current, c.u) /\ c.next = ApplyStateUpdates(Current, c.u)
    /\ c.pc = "insert" => c.latest = Len(log)

SerialInv ==
    /\ \A w \in Writers : writer[w].pc # "idle" => holder = {w}
    /\ \A w \in Writers : Fresh(writer[w])
    /\ charged = Current.used

\* A commit that inserts: the reducer applied to the latest state.
Inserts(u) ==
    /\ u \in Updates /\ Accepts(Current, u)
    /\ log' # <<>> /\ Current' = ApplyStateUpdates(Current, u)
    /\ History' = Append(History, ApplyStateUpdates(Current, u))
    /\ charged' = charged + u.tokens

LEMMA HistoryAppend ==
    ASSUME TypeOK, NEW row \in Row, log' = Append(log, row)
    PROVE  /\ log' # <<>> /\ Current' = row.state
           /\ History' = Append(History, row.state)
<1> DEFINE states(l) == [i \in 1..Len(l) |-> l[i].state]
<1>0. log \in Seq(Row) /\ Len(log) \in Nat /\ row.state \in State
  BY CurrentType DEF Row
<1>1. /\ log' \in Seq(Row) /\ Len(log') = Len(log) + 1 /\ log'[Len(log) + 1] = row
      /\ \A i \in 1..Len(log) : log'[i] = log[i]
  BY <1>0
<1>2. log' # <<>> /\ Current' = row.state
  BY <1>0, <1>1 DEF Current
<1>3. \A i \in 1..Len(log) : log[i] \in Row
  BY <1>0
<1>4. states(log) \in Seq(State) /\ Len(states(log)) = Len(log)
  BY <1>0, <1>3 DEF Row
<1>5. states(log') = Append(states(log), row.state)
  BY <1>0, <1>1, <1>4
<1> HIDE DEF states
<1>6. <<CreatedState>> \o Append(states(log), row.state)
        = Append(<<CreatedState>> \o states(log), row.state)
  BY <1>0, <1>4, StateConstants
<1>7. History = <<CreatedState>> \o states(log) /\ History' = <<CreatedState>> \o states(log')
  BY DEF History, states
<1> QED
  BY <1>2, <1>5, <1>6, <1>7

LEMMA SerialStep ==
    ASSUME Mutex, TypeOK, SerialInv, [Next]_vars
    PROVE  /\ SerialInv'
           /\ UNCHANGED <<log, charged>> \/ \E u \in Updates : Inserts(u)
<1>0. /\ writer \in [Writers -> Call] /\ holder \in SUBSET Writers
      /\ Current \in State /\ log \in Seq(Row)
  BY CurrentType DEF TypeOK, Call
<1>a. CommitSeed(Current) = Current
  BY <1>0, CommitSeedIsCurrent
\* a step of w that leaves the log alone and keeps its own call fresh
<1>b. ASSUME NEW w \in Writers, UNCHANGED <<log, charged>>, Fresh(writer'[w]),
             \A v \in Writers \ {w} : writer'[v] = writer[v],
             \/ writer'[w].pc = "idle" /\ holder = {w} /\ holder' = {}
             \/ writer'[w].pc # "idle" /\ holder' = {w} /\ holder \in {{}, {w}}
      PROVE  SerialInv' /\ UNCHANGED <<log, charged>>
  <2>1. Current' = Current
    BY <1>b DEF Current
  <2>2. \A v \in Writers : Fresh(writer[v])' <=> Fresh(writer'[v])
    BY <1>b, <2>1 DEF Fresh
  <2>3. \A v \in Writers \ {w} : writer[v].pc = "idle"
    BY <1>b DEF SerialInv
  <2>4. \A v \in Writers : writer'[v].pc # "idle" => holder' = {v}
    BY <1>b, <2>3
  <2> QED
    BY <1>b, <2>1, <2>2, <2>4 DEF SerialInv
<1>c. Fresh(IdleWriter)
  BY DEF Fresh, IdleWriter
<1>d. ASSUME NEW w \in Writers, writer[w].pc # "idle", Return(w)
      PROVE  /\ holder = {w} /\ holder' = {} /\ writer'[w] = IdleWriter
             /\ writer'[w].pc = "idle" /\ \A v \in Writers \ {w} : writer'[v] = writer[v]
  BY <1>0, <1>d, IdleWriterType DEF Return, SerialInv
<1>1. ASSUME NEW w \in Writers, NEW u \in Updates, Begin(w, u)
      PROVE  SerialInv' /\ UNCHANGED <<log, charged>>
  <2> DEFINE c == [IdleWriter EXCEPT !.pc = "task", !.u = u]
  <2>1. c.pc = "task" /\ c.u = u
    BY DEF IdleWriter
  <2>2. writer' = [writer EXCEPT ![w] = c]
    BY <1>1 DEF Begin
  <2> HIDE DEF c
  <2>3. Fresh(writer'[w]) /\ writer'[w].pc = "task"
    BY <1>0, <2>1, <2>2 DEF Fresh
  <2> QED
    BY <1>0, <1>1, <1>b, <2>2, <2>3 DEF Begin
<1>2. ASSUME NEW w \in Writers, ReadTask(w)
      PROVE  SerialInv' /\ UNCHANGED <<log, charged>>
  <2> DEFINE c == [writer[w] EXCEPT !.pc = "prev", !.task = HermesStateToTaskState(Current)]
  <2>1. c.pc = "prev" /\ c.task = HermesStateToTaskState(Current) /\ c.u = writer[w].u
    BY <1>0 DEF Call
  <2>2. writer' = [writer EXCEPT ![w] = c] /\ writer[w].pc = "task"
    BY <1>2 DEF ReadTask
  <2> HIDE DEF c
  <2>3. Fresh(writer'[w]) /\ writer'[w].pc = "prev" /\ holder = {w}
    BY <1>0, <2>1, <2>2 DEF Fresh, SerialInv
  <2> QED
    BY <1>0, <1>2, <1>b, <2>2, <2>3 DEF ReadTask
<1>3. ASSUME NEW w \in Writers, ReadPrev(w)
      PROVE  SerialInv' /\ UNCHANGED <<log, charged>>
  <2> DEFINE n == ApplyStateUpdates(Current, writer[w].u)
             c == [writer[w] EXCEPT !.pc = "latest", !.next = n]
  <2>1. c.pc = "latest" /\ c.next = n /\ c.u = writer[w].u
    BY <1>0 DEF Call
  <2>2. holder = {w} /\ writer[w].u \in Updates /\ writer[w].pc = "prev"
        /\ writer[w].task = HermesStateToTaskState(Current)
    BY <1>3 DEF ReadPrev, SerialInv, Fresh
  <2>3. CarryForwardSnapshotFields(HermesStateFromTaskState(writer[w].task), Current) = Current
    BY <1>a, <2>2 DEF CommitSeed
  <2>4. \/ /\ Accepts(Current, writer[w].u)
           /\ writer' = [writer EXCEPT ![w] = c] /\ UNCHANGED holder
        \/ Return(w)
    BY <1>3, <2>3 DEF ReadPrev
  <2> HIDE DEF c, n
  <2>5. CASE Accepts(Current, writer[w].u) /\ writer' = [writer EXCEPT ![w] = c] /\ UNCHANGED holder
    <3>1. Fresh(writer'[w]) /\ writer'[w].pc = "latest"
      BY <1>0, <2>1, <2>2, <2>5 DEF Fresh, n
    <3> QED
      BY <1>0, <1>3, <1>b, <2>2, <2>5, <3>1 DEF ReadPrev
  <2>6. CASE Return(w)
    BY <1>3, <1>b, <1>c, <1>d, <2>2, <2>6 DEF ReadPrev
  <2> QED
    BY <2>4, <2>5, <2>6
<1>4. ASSUME NEW w \in Writers, ReadLatest(w)
      PROVE  SerialInv' /\ UNCHANGED <<log, charged>>
  <2> DEFINE c == [writer[w] EXCEPT !.pc = "insert", !.latest = Len(log)]
  <2>1. c.pc = "insert" /\ c.latest = Len(log) /\ c.u = writer[w].u /\ c.next = writer[w].next
    BY <1>0 DEF Call
  <2>2. writer' = [writer EXCEPT ![w] = c] /\ writer[w].pc = "latest"
    BY <1>4 DEF ReadLatest
  <2> HIDE DEF c
  <2>3. Fresh(writer'[w]) /\ writer'[w].pc = "insert" /\ holder = {w}
    BY <1>0, <2>1, <2>2 DEF Fresh, SerialInv
  <2> QED
    BY <1>0, <1>4, <1>b, <2>2, <2>3 DEF ReadLatest
<1>5. ASSUME NEW w \in Writers, Insert(w)
      PROVE  SerialInv' /\ \E u \in Updates : Inserts(u)
  <2> DEFINE u == writer[w].u
             row == [state |-> writer[w].next, parent |-> writer[w].latest, by |-> w]
  <2>1. /\ u \in Updates /\ Accepts(Current, u) /\ writer[w].latest = Len(log)
        /\ writer[w].next = ApplyStateUpdates(Current, u)
    BY <1>5 DEF Insert, SerialInv, Fresh
  <2>2. log' = Append(log, row) /\ charged' = charged + u.tokens
    BY <1>0, <1>5, <2>1, CurrentType DEF Insert, StepIsFree
  <2>3. row \in Row /\ row.state = ApplyStateUpdates(Current, u)
    BY <1>0, <2>1, CallFields DEF Row
  <2> HIDE DEF row
  <2>4. Inserts(u)
    BY <2>1, <2>2, <2>3, HistoryAppend DEF Inserts
  <2>5. /\ holder' = {} /\ writer'[w] = IdleWriter /\ holder = {w}
        /\ \A v \in Writers \ {w} : writer'[v] = writer[v] /\ writer[v].pc = "idle"
    BY <1>5, <1>d DEF Insert, SerialInv
  <2>6. \A v \in Writers : writer'[v].pc = "idle"
    BY <2>5, IdleWriterType
  <2>7. \A v \in Writers : Fresh(writer[v])'
    BY <2>6 DEF Fresh
  <2>8. charged' = Current'.used
    <3>1. Current'.used = Current.used + u.tokens
      BY <2>4, ReducerFields DEF Inserts
    <3> QED
      BY <2>2, <3>1 DEF SerialInv
  <2> QED
    BY <2>1, <2>4, <2>6, <2>7, <2>8 DEF SerialInv
<1>6. ASSUME NEW w \in Writers, Abandon(w)
      PROVE  SerialInv' /\ UNCHANGED <<log, charged>>
  BY <1>6, <1>b, <1>c, <1>d DEF Abandon
<1>7. CASE UNCHANGED vars
  <2>1. SerialInv'
    BY <1>7 DEF vars, SerialInv, Fresh, Current
  <2> QED
    BY <1>7, <2>1 DEF vars
<1> QED
  BY <1>1, <1>2, <1>3, <1>4, <1>5, <1>6, <1>7 DEF Next

LEMMA SerialInit == Init => SerialInv /\ History = <<CreatedState>>
<1> SUFFICES ASSUME Init PROVE SerialInv /\ History = <<CreatedState>>
  OBVIOUS
<1>1. log = <<>> /\ charged = 0 /\ \A w \in Writers : writer[w] = IdleWriter
  BY DEF Init
<1>2. Current = CreatedState /\ CreatedState.used = 0
  BY <1>1 DEF Current, CreatedState
<1>3. SerialInv
  BY <1>1, <1>2, IdleWriterType DEF SerialInv, Fresh
<1>4. [i \in 1..Len(log) |-> log[i].state] = <<>>
  BY <1>1
<1>5. <<CreatedState>> \o <<>> = <<CreatedState>>
  BY StateConstants
<1> QED
  BY <1>3, <1>4, <1>5 DEF History

\* The latest state of the abstract history is the one the task store reads.
LEMMA HistoryLatest ==
    ASSUME TypeOK
    PROVE  History[Len(History)] = Current
<1> DEFINE states == [i \in 1..Len(log) |-> log[i].state]
<1>0. log \in Seq(Row) /\ Len(log) \in Nat /\ \A i \in 1..Len(log) : log[i] \in Row
  BY CurrentType
<1>1. states \in Seq(State) /\ Len(states) = Len(log)
  BY <1>0 DEF Row
<1>2. CASE log = <<>>
  <2>1. states = <<>>
    BY <1>2
  <2> QED
    BY <1>2, <2>1, StateConstants DEF History, Current
<1>3. CASE log # <<>>
  <2>1. Len(log) \in 1..Len(log)
    BY <1>0, <1>3
  <2>2. states[Len(log)] = Current
    BY <1>3, <2>1 DEF Current
  <2> HIDE DEF states
  <2>3. LET h == <<CreatedState>> \o states IN h[Len(h)] = states[Len(states)]
    BY <1>0, <1>1, <2>1, StateConstants
  <2> QED
    BY <1>1, <2>2, <2>3 DEF History, states
<1> QED
  BY <1>2, <1>3

\* MemoryTaskStore, or any store that holds one lock across CommitRuntimeStep: the
\* latest state has the tokens of every commit that returned success.
THEOREM NoUpdateIsLost ==
    ASSUME Mutex
    PROVE  Spec => []NoLostUpdate
<1>1. Init => SerialInv
  BY SerialInit
<1>2. TypeOK /\ SerialInv /\ [Next]_vars => SerialInv'
  BY SerialStep
<1>3. SerialInv => NoLostUpdate
  BY DEF SerialInv, NoLostUpdate
<1> QED
  BY <1>1, <1>2, <1>3, CommitTypeCorrect, PTL DEF Spec

\* MemoryTaskStore implements the commit log: its snapshots are the reducer applied
\* to one commit after another, with nothing applied to a state already replaced.
THEOREM MemoryImplementsLog ==
    ASSUME Mutex
    PROVE  Spec => SerializedSpec
<1>1. Init => SerialInv /\ Serialized!Init
  BY SerialInit DEF Serialized!Init, Serialized!CreatedState, Serialized!NoInterrupt,
    Serialized!NoReplan, Serialized!NoStep, CreatedState, NoInterrupt, NoReplan, NoStep
<1>2. TypeOK /\ SerialInv /\ [Next]_vars => SerialInv'
  BY SerialStep
<1>3. TypeOK /\ SerialInv /\ [Next]_vars => [Serialized!Next]_History
  <2> SUFFICES ASSUME TypeOK, SerialInv, [Next]_vars PROVE [Serialized!Next]_History
    OBVIOUS
  <2>1. CASE UNCHANGED <<log, charged>>
    BY <2>1 DEF History
  <2>2. ASSUME NEW u \in Updates, Inserts(u) PROVE Serialized!Next
    <3>1. Serialized!Latest = Current
      BY HistoryLatest DEF Serialized!Latest
    <3>2. Serialized!Commit(u)
      BY <2>2, <3>1 DEF Inserts, Serialized!Commit, Serialized!Accepts, Accepts,
        Serialized!ValidTaskStatusTransition, ValidTaskStatusTransition,
        Serialized!TaskStatus, TaskStatus, Serialized!ApplyStateUpdates, ApplyStateUpdates,
        Serialized!NoInterrupt, NoInterrupt, Serialized!NoReplan, NoReplan,
        Serialized!NoStep, NoStep
    <3> QED
      BY <3>2 DEF Serialized!Next
  <2> QED
    BY <2>1, <2>2, SerialStep
<1> QED
  BY <1>1, <1>2, <1>3, CommitTypeCorrect, PTL DEF Spec, SerializedSpec, Serialized!Spec

\* Under the mutex a task that has reached a terminal status keeps it, for any number of
\* concurrent commits: the status check of the reducer is made on the current state.
THEOREM MemoryTerminalIsImmutable ==
    ASSUME Mutex
    PROVE  Spec => TerminalImmutable
<1>1. Init => SerialInv
  BY SerialInit
<1>2. TypeOK /\ SerialInv /\ [Next]_vars => SerialInv'
  BY SerialStep
<1>3. TypeOK /\ SerialInv /\ [Next]_vars
        => [Current.status \in TerminalStatus => Current'.status = Current.status]_vars
  <2> SUFFICES ASSUME TypeOK, SerialInv, [Next]_vars, Current.status \in TerminalStatus
               PROVE  Current'.status = Current.status
    OBVIOUS
  <2>1. CASE UNCHANGED <<log, charged>>
    BY <2>1 DEF Current
  <2>2. ASSUME NEW u \in Updates, Inserts(u) PROVE Current'.status = Current.status
    <3>1. Current \in State /\ u \in StateUpdate
      BY CurrentType, CommitAssumption
    <3>2. Current'.status = IF u.status = "" THEN Current.status ELSE u.status
      BY <2>2, <3>1, ReducerFields DEF Inserts
    <3>3. u.status = "" \/ ValidTaskStatusTransition(Current.status, u.status)
      BY <2>2 DEF Inserts, Accepts
    <3> QED
      BY <3>2, <3>3 DEF ValidTaskStatusTransition, TerminalStatus
  <2> QED
    BY <2>1, <2>2, SerialStep
<1> QED
  BY <1>1, <1>2, <1>3, CommitTypeCorrect, PTL DEF Spec, TerminalImmutable

=============================================================================
