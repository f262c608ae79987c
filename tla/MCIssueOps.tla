----------------------------- MODULE MCIssueOps -----------------------------
(***************************************************************************)
(* IssueOps on small instances: issues of two items, to which people may   *)
(* add a third, with and without the plan section of an earlier task, and  *)
(* plans that declare items or not.                                        *)
(***************************************************************************)
EXTENDS IssueOps

Flat == <<OtherLine("h2"), Item("a"), Item("b")>>

\* an issue that still carries an old plan section: below its items, between them (the
\* heading that ends it goes to the end of the line above), or on top
OldPlanLast == Flat \o <<OtherLine("plan"), OtherLine("other")>>

OldPlanBetween ==
    <<Item("a"), OtherLine("other"), OtherLine("plan"), OtherLine("other"), OtherLine("h2"),
      Item("b")>>

OldPlanFirst == <<OtherLine("plan"), OtherLine("other"), OtherLine("h2"), Item("a"), Item("b")>>

Plan(declared) ==
    <<[covers |-> {"a"}, declared |-> declared], [covers |-> {"b"}, declared |-> declared]>>

\* both sub-tasks declare the same item
Clash == <<[covers |-> {"a"}, declared |-> TRUE], [covers |-> {"a", "b"}, declared |-> TRUE]>>

\* one description matches both items by their first 16 runes, the other none that is there
Prefixes == <<[covers |-> {"a", "b"}, declared |-> FALSE], [covers |-> {"c"}, declared |-> FALSE]>>

TwoItemIssues ==
    {[body |-> b, plan |-> Plan(TRUE), label |-> TRUE, edited |-> FALSE] : b \in {Flat, OldPlanLast}}
    \cup {[body |-> Flat, plan |-> Clash, label |-> TRUE, edited |-> FALSE]}
    \cup {[body |-> OldPlanBetween, plan |-> Plan(FALSE), label |-> l, edited |-> TRUE] : l \in BOOLEAN}
    \cup {[body |-> OldPlanFirst, plan |-> Prefixes, label |-> TRUE, edited |-> TRUE]}

\* the theorems of IssueOpsProofs are about issues like these
ASSUME InstanceAssumption == ItemsOutlivePlans /\ DeclaredLinesStand /\ AllOrNoneDeclare

=============================================================================
