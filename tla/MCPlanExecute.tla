--------------------------- MODULE MCPlanExecute ---------------------------
(***************************************************************************)
(* PlanExecute on small instances: the engine configurations of a run.     *)
(***************************************************************************)
EXTENDS PlanExecute

Base == [review |-> "none", pause |-> FALSE, continue |-> FALSE, retries |-> 0,
         limit |-> 0, costs |-> {0}]

\* every review mode, with and without pauses, with and without a token budget
LoopConfigs ==
    {[Base EXCEPT !.pause = TRUE],
     [Base EXCEPT !.review = "task", !.retries = 1, !.pause = TRUE],
     [Base EXCEPT !.review = "task", !.retries = 1, !.limit = 2, !.costs = {0, 1}],
     [Base EXCEPT !.review = "strict", !.pause = TRUE],
     [Base EXCEPT !.review = "strict", !.limit = 2, !.costs = {1}],
     [Base EXCEPT !.continue = TRUE, !.limit = 1, !.costs = {1}]}

=============================================================================
