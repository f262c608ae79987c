----------------------------- MODULE CommitLog -----------------------------
(***************************************************************************)
(* What CommitRuntimeStep promises (hermes/store.go, RuntimeStepStore):    *)
(* the history of a task is a list of states, each one the reducer applied *)
(* to its predecessor.                                                     *)
(***************************************************************************)
EXTENDS HermesState

CONSTANT Updates   \* the StateUpdates callers commit

VARIABLE history   \* states of the task row (first) and of its snapshots

Init == history = <<CreatedState>>

Latest == history[Len(history)]

Commit(u) ==
    /\ Accepts(Latest, u)
    /\ history' = Append(history, ApplyStateUpdates(Latest, u))

Next == \E u \in Updates : Commit(u)

Spec == Init /\ [][Next]_history

=============================================================================
