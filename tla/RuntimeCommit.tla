--------------------------- MODULE RuntimeCommit ---------------------------
(***************************************************************************)
(* CommitRuntimeStep of the two task stores.  SQLiteTaskStore              *)
(* (hermes/store.go) reads the task, the previous snapshot and the latest  *)
(* step number in three separate queries and then writes in a transaction; *)
(* only the unique index on (task_id, step) stands between two concurrent  *)
(* commits.  MemoryTaskStore (hermes/memory_store.go) does the same work   *)
(* under its mutex.                                                        *)
(***************************************************************************)
EXTENDS HermesState

CONSTANTS
    Writers,     \* goroutines committing to one task: a walker, InterruptWith, an operator
    Updates,     \* the StateUpdates they commit
    Mutex,       \* TRUE for MemoryTaskStore
    MaxCommits   \* bound on the number of commits begun

ASSUME CommitAssumption ==
    /\ Updates \subseteq StateUpdate
    /\ Mutex \in BOOLEAN
    /\ MaxCommits \in Nat

VARIABLES
    log,     \* hermes_snapshots of the task in step order: state, parent step, committer
    writer,  \* each goroutine's call in progress
    holder,  \* the owner of MemoryTaskStore.mu, as a set of at most one writer
    begun,   \* commits begun so far
    charged  \* history: tokens of the commits that returned success

vars == <<log, writer, holder, begun, charged>>

IdleWriter == [pc |-> "idle", u |-> NoUpdate, task |-> HermesStateToTaskState(CreatedState),
               next |-> CreatedState, latest |-> 0]

Init ==
    /\ log = <<>>
    /\ writer = [w \in Writers |-> IdleWriter]
    /\ holder = {}
    /\ begun = 0
    /\ charged = 0

Current == IF log = <<>> THEN CreatedState ELSE log[Len(log)].state

Begin_Unlocked(w, u) ==
    /\ writer[w].pc = "idle" /\ begun < MaxCommits
    /\ holder' = IF Mutex THEN {w} ELSE {}
    /\ writer' = [writer EXCEPT ![w] = [IdleWriter EXCEPT !.pc = "task", !.u = u]]
    /\ begun' = begun + 1
    /\ UNCHANGED <<log, charged>>

\* MemoryTaskStore.CommitRuntimeStep locks its mutex first
Begin(w, u) ==
    /\ writer[w].pc = "idle" /\ begun < MaxCommits
    /\ Mutex => holder = {}
    /\ holder' = IF Mutex THEN {w} ELSE {}
    /\ writer' = [writer EXCEPT ![w] = [IdleWriter EXCEPT !.pc = "task", !.u = u]]
    /\ begun' = begun + 1
    /\ UNCHANGED <<log, charged>>

\* GetTask: the row under the overlay of the latest snapshot
ReadTask(w) ==
    /\ writer[w].pc = "task"
    /\ writer' = [writer EXCEPT ![w].pc = "prev",
                                ![w].task = HermesStateToTaskState(Current)]
    /\ UNCHANGED <<log, holder, begun, charged>>

Return(w) ==
    /\ writer' = [writer EXCEPT ![w] = IdleWriter]
    /\ holder' = holder \ {w}

\* GetLatestSnapshot for the fields to carry forward, then the reducer
ReadPrev(w) ==
    LET seed == CarryForwardSnapshotFields(HermesStateFromTaskState(writer[w].task), Current)
    IN  /\ writer[w].pc = "prev"
        /\ IF Accepts(seed, writer[w].u)
             THEN /\ writer' = [writer EXCEPT ![w].pc = "latest",
                                   ![w].next = ApplyStateUpdates(seed, writer[w].u)]
                  /\ UNCHANGED holder
             ELSE Return(w)
        /\ UNCHANGED <<log, begun, charged>>

\* GetLatestSnapshot again, for the parent id and the step number
ReadLatest(w) ==
    /\ writer[w].pc = "latest"
    /\ writer' = [writer EXCEPT ![w].pc = "insert", ![w].latest = Len(log)]
    /\ UNCHANGED <<log, holder, begun, charged>>

StepIsFree_NoIndex(step) == TRUE

\* idx_hermes_snapshots_task_step
StepIsFree(step) == step > Len(log)

\* the transaction; a duplicate step is an error execWithRetry does not retry
Insert(w) ==
    /\ writer[w].pc = "insert"
    /\ IF StepIsFree(writer[w].latest + 1)
         THEN /\ log' = Append(log, [state |-> writer[w].next, parent |-> writer[w].latest,
                                     by |-> w])
              /\ charged' = charged + writer[w].u.tokens
         ELSE UNCHANGED <<log, charged>>
    /\ Return(w)
    /\ UNCHANGED begun

\* the process dies, or the database stays locked: the transaction is rolled back
Abandon(w) ==
    /\ writer[w].pc # "idle"
    /\ Return(w)
    /\ UNCHANGED <<log, begun, charged>>

Next ==
    \E w \in Writers :
        \/ \E u \in Updates : Begin(w, u)
        \/ ReadTask(w) \/ ReadPrev(w) \/ ReadLatest(w) \/ Insert(w) \/ Abandon(w)

Spec == Init /\ [][Next]_vars

-----------------------------------------------------------------------------
(* Properties *)

\* Rows and calls in progress have their Go types.
TypeOK ==
    /\ log \in Seq([state : State, parent : Nat, by : Writers])
    /\ writer \in [Writers -> [pc : {"idle", "task", "prev", "latest", "insert"},
                               u : Updates \cup {NoUpdate}, task : Task, next : State,
                               latest : Nat]]
    /\ holder \in SUBSET Writers
    /\ begun \in 0..MaxCommits
    /\ charged \in Nat

\* Without any mutex the history is still a chain: every snapshot's parent is the
\* snapshot one step before it, so no two commits share a parent.
LinearHistory == \A i \in 1..Len(log) : log[i].parent = i - 1

History == <<CreatedState>> \o [i \in 1..Len(log) |-> log[i].state]

\* The commits are serialised: each snapshot is the reducer applied to the one before it.
Serialized == INSTANCE CommitLog WITH history <- History

SerializedSpec == Serialized!Spec

\* store.go: CommitRuntimeStep applies its updates atomically, so the tokens of every
\* commit that returned success are in the latest state.
NoLostUpdate == Current.used = charged

\* state.go: terminal states are immutable.
TerminalImmutable ==
    [][Current.status \in TerminalStatus => Current'.status = Current.status]_vars

=============================================================================
