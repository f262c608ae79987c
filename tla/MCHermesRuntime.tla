-------------------------- MODULE MCHermesRuntime --------------------------
(***************************************************************************)
(* HermesRuntime on small instances: the values the .cfg files give to the *)
(* constants that are sets of records.                                     *)
(***************************************************************************)
EXTENDS HermesRuntime

\* one review of every kind: accepted, blocked, failed; low is score < threshold
AllReviews == {[verdict |-> "pass", low |-> FALSE], [verdict |-> "partial", low |-> TRUE],
               [verdict |-> "block", low |-> TRUE], [verdict |-> "block", low |-> FALSE],
               [verdict |-> "fail", low |-> TRUE]}

NoTaskReviews == {}

=============================================================================
