------------------------------ MODULE IssueOps ------------------------------
(***************************************************************************)
(* Keeping a GitHub issue in step with a Hermes task: the engine's hooks   *)
(* onPlanReady, onSubTaskDone and onDone (engine/plan_execute.go), the     *)
(* operations of issueops.Service they call (issueops/service.go,          *)
(* issueops/checklist_mapping.go), and the edits of the issue body         *)
(* (hermes/github.go).                                                     *)
(*                                                                         *)
(* GitHub is reached by gh calls with nothing held in between: every       *)
(* operation reads the issue, computes on its copy, and writes the whole   *)
(* body back in a second call.  A call may fail, and a write that fails    *)
(* (it timed out) may have been applied.                                   *)
(*                                                                         *)
(* A body is a sequence of lines.  A checklist item is named by the line   *)
(* it stood on when the planner saw the body (ChecklistItem.ID), which is  *)
(* what a sub-task declares.  Blank lines, comments and notes are left     *)
(* out.                                                                    *)
(***************************************************************************)
EXTENDS Integers, Sequences, FiniteSets

CONSTANTS
    Texts,      \* the texts of checklist items
    Issues,     \* the issues and plans a behaviour may start from, see Case
    Events,     \* what may go wrong, or be done by people, in a run
    MaxEvents   \* bound on how many of these happen

(***************************************************************************)
(* kind: an item, a heading of level 2, a heading of another level, the    *)
(* heading of a Hermes plan section, or any other line; only items have a  *)
(* text (checklistRe), the others' does not matter                         *)
(* glued: a heading that stood on a line of its own has become the end of  *)
(* this one                                                                *)
(***************************************************************************)
Line == {l \in [kind : {"item", "h2", "h", "plan", "other"}, text : Texts \cup {""},
                on : BOOLEAN, glued : BOOLEAN] :
            l.kind = "item" <=> l.text # ""}

\* covers are the texts of the items the engine ticks for a sub-task: those it names in
\* checklist_item_ids, when it declares any, or else those that equal its description or
\* begin with the first 16 runes of it (matchesChecklistItem), which may be none or several
SubTask == [covers : SUBSET Texts, declared : BOOLEAN]

\* body: the issue as it is; plan: the sub-tasks; label: it has AutoCloseLabel;
\* edited: people add lines above the checklist while the task runs
Case == [body : Seq(Line), plan : Seq(SubTask), label : BOOLEAN, edited : BOOLEAN]

ASSUME IssueAssumption ==
    /\ "" \notin Texts
    /\ Issues \subseteq Case
    /\ \A c \in Issues : c.plan # <<>>
    /\ Events \subseteq {"tick", "untick", "add", "block", "insert", "restart", "gh_error", "rerun"}
    /\ MaxEvents \in Nat

VARIABLES
    case,    \* the issue and plan the behaviour started from
    issue,   \* the issue on GitHub: body, open or closed, the blocked label
    eng,     \* the engine's hooks, see Engine
    credit,  \* history: texts a done sub-task covers, or that were ticked by people
    fresh,   \* history: texts people ticked, unticked or added since the engine read the
             \* body it is to write or to close on
    events   \* events so far

vars == <<case, issue, eng, credit, fresh, events>>

Issue == [body : Seq(Line), closed : BOOLEAN, blocked : BOOLEAN]

(***************************************************************************)
(* pc: fetch, write       WritePlanToIssue reads, then writes the body     *)
(*     work               the loop runs the next sub-task                  *)
(*     map, load, edit    onSubTaskDone: mapping, SyncChecklist            *)
(*     assess             onDone, after its own map, load, edit            *)
(*     recheck, close     CloseIssue                                       *)
(*     end                the task is finished                             *)
(* ids: the lines each sub-task declares; done: the sub-tasks that are     *)
(* done; next: the sub-task to run; read: the body in hand; human: the     *)
(* mapping asks for a human; final: onDone has begun; resumed: RunFromState*)
(* drives the task.                                                        *)
(***************************************************************************)
Engine == [pc : {"fetch", "write", "work", "map", "load", "edit", "assess", "recheck",
                 "close", "end"},
           ids : Seq(SUBSET Nat), done : SUBSET Nat, next : Nat, read : Seq(Line),
           human : BOOLEAN, final : BOOLEAN, resumed : BOOLEAN]

-----------------------------------------------------------------------------
(* Issue bodies *)

\* the k-th of a set of lines, from the top
NthLine(lines, k) == CHOOSE i \in lines : Cardinality({j \in lines : j <= i}) = k

\* a body with no other lines than these
Kept(b, lines) == [k \in 1..Cardinality(lines) |-> b[NthLine(lines, k)]]

IsHeading(l) == l.kind \in {"h2", "h", "plan"}

InPlanSection(b, i) ==
    \E j \in 1..i - 1 : b[j].kind = "plan" /\ \A k \in j + 1..i : ~IsHeading(b[k])

\* ExtractChecklist: the lines of the items, those of the plan section excepted
ItemLines(b) == {i \in DOMAIN b : b[i].kind = "item" /\ ~InPlanSection(b, i)}

Unticked(b) == {i \in ItemLines(b) : ~b[i].on}

LinesOf(b, texts) == {i \in ItemLines(b) : b[i].text \in texts}

\* stripHermesPlanSections removes a plan heading and all up to the next level-2 heading,
Stripped(b, i) ==
    \E j \in 1..i : b[j].kind = "plan" /\ \A k \in j + 1..i : b[k].kind # "h2"

\* and the line breaks above the section as well: the heading after it becomes the end of
\* the line before it, when there is one
Swallowed(b, i) ==
    /\ i > 1 /\ ~Stripped(b, i) /\ Stripped(b, i - 1)
    /\ \E j \in 1..i - 1 : ~Stripped(b, j)

TakesHeading(b, i) ==
    /\ i < Len(b) /\ ~Stripped(b, i) /\ Stripped(b, i + 1)
    /\ \E j \in i + 1..Len(b) : ~Stripped(b, j)

Survivors(b) == {i \in DOMAIN b : ~Stripped(b, i) /\ ~Swallowed(b, i)}

WithHeadings(b) == [i \in DOMAIN b |-> [b[i] EXCEPT !.glued = @ \/ TakesHeading(b, i)]]

WithoutPlan_ToEnd(b) ==
    Kept(b, {i \in DOMAIN b : \A j \in 1..i : b[j].kind # "plan"})

WithoutPlan(b) == Kept(WithHeadings(b), Survivors(b))

OtherLine(kind) == [kind |-> kind, text |-> "", on |-> FALSE, glued |-> FALSE]

Item(text) == [kind |-> "item", text |-> text, on |-> FALSE, glued |-> FALSE]

\* WritePlanToIssue: the old plan sections go, the new one is appended, one line a sub-task
WithPlan(b) ==
    WithoutPlan(b) \o <<OtherLine("plan")>> \o [i \in DOMAIN case.plan |-> OtherLine("other")]

Marked(b, lines, on) ==
    [i \in DOMAIN b |-> IF i \in lines THEN [b[i] EXCEPT !.on = on] ELSE b[i]]

Ticked(b, lines) == Marked(b, lines, TRUE)

\* a line added below line m, or on top
Inserted(b, m, line) ==
    [i \in 1..Len(b) + 1 |-> IF i <= m THEN b[i] ELSE IF i = m + 1 THEN line ELSE b[i - 1]]

Declared(tasks) == UNION {eng.ids[t] : t \in tasks}

PreviewLines_Shifted(b) ==
    IF Declared(eng.done) # {} THEN Unticked(b) \cap {i + 1 : i \in Declared(eng.done)}
    ELSE Unticked(b) \cap LinesOf(b, UNION {case.plan[t].covers : t \in eng.done})

PreviewLines_AnyStatus(b) ==
    LET all == DOMAIN case.plan IN
    IF Declared(all) # {} THEN Unticked(b) \cap Declared(all)
    ELSE Unticked(b) \cap LinesOf(b, UNION {case.plan[t].covers : t \in all})

\* BuildChecklistSyncPreview: the lines of the done sub-tasks' declarations, or, when none
\* of them declares any, the items their descriptions match
PreviewLines(b) ==
    IF Declared(eng.done) # {} THEN Unticked(b) \cap Declared(eng.done)
    ELSE Unticked(b) \cap LinesOf(b, UNION {case.plan[t].covers : t \in eng.done})

\* buildChecklistMapping: declarations must name items, and no item twice
BadDeclarations(b) ==
    \/ ~(Declared(DOMAIN case.plan) \subseteq ItemLines(b))
    \/ \E s, t \in DOMAIN case.plan : s # t /\ eng.ids[s] \cap eng.ids[t] # {}

\* Whether the mapping may ask for a human.  Without declarations every sub-task needs a
\* confident match, which scoreChecklistMapping looks for by the words the texts share:
\* this says nothing of the items matchesChecklistItem ticks, so both answers are possible.
HumanAsked(b) ==
    IF ItemLines(b) = {} THEN {FALSE}
    ELSE IF Declared(DOMAIN case.plan) # {} THEN {BadDeclarations(b)}
    ELSE BOOLEAN

-----------------------------------------------------------------------------

\* the planner read the body before it planned
PlannedIds(b) ==
    [t \in DOMAIN case.plan |->
        IF case.plan[t].declared THEN LinesOf(b, case.plan[t].covers) ELSE {}]

Planned(b) ==
    [pc |-> "fetch", ids |-> PlannedIds(b), done |-> {}, next |-> 1, read |-> <<>>,
     human |-> FALSE, final |-> FALSE, resumed |-> FALSE]

TickedTexts(b) == {b[i].text : i \in {j \in DOMAIN b : b[j].kind = "item" /\ b[j].on}}

Init ==
    /\ case \in Issues
    /\ issue = [body |-> case.body, closed |-> FALSE, blocked |-> FALSE]
    /\ eng = Planned(case.body)
    /\ credit = TickedTexts(case.body)
    /\ fresh = {}
    /\ events = 0

Event(e) == e \in Events /\ events < MaxEvents /\ events' = events + 1

At(pc) == eng.pc = pc

Goto(pc) == eng' = [eng EXCEPT !.pc = pc]

\* a gh call that reads: it answers, or fails and the hook goes on at pc
ReadFails(pc) == Event("gh_error") /\ Goto(pc) /\ UNCHANGED issue

\* a gh call that writes: it is applied, or it fails, applied or not
Write(new) ==
    \/ issue' = new /\ UNCHANGED events
    \/ issue' \in {issue, new} /\ Event("gh_error")

-----------------------------------------------------------------------------
(* onPlanReady: Service.PlanIssue *)

PlanFetch ==
    /\ At("fetch")
    /\ \/ /\ eng' = [eng EXCEPT !.pc = "write", !.read = issue.body] /\ fresh' = {}
          /\ UNCHANGED <<issue, events>>
       \/ ReadFails("work") /\ UNCHANGED fresh
    /\ UNCHANGED <<case, credit>>

PlanWrite ==
    /\ At("write")
    /\ Write([issue EXCEPT !.body = WithPlan(eng.read)])
    /\ eng' = [eng EXCEPT !.pc = "work", !.read = <<>>]
    /\ UNCHANGED <<case, credit, fresh>>

-----------------------------------------------------------------------------
(* onSubTaskDone and onDone: the mapping, then Service.SyncChecklist *)

SubTaskResolved_OffByOne(ok) ==
    /\ At("work") /\ eng.next <= Len(case.plan)
    /\ eng' = [eng EXCEPT !.pc = "map", !.next = @ + 1,
                          !.done = IF ok THEN @ \cup {eng.next + 1} ELSE @]
    /\ credit' = IF ok THEN credit \cup case.plan[eng.next].covers ELSE credit
    /\ UNCHANGED <<case, issue, fresh, events>>

\* the loop resolves the next sub-task, done or not
SubTaskResolved(ok) ==
    /\ At("work") /\ eng.next <= Len(case.plan)
    /\ eng' = [eng EXCEPT !.pc = "map", !.next = @ + 1,
                          !.done = IF ok THEN @ \cup {eng.next} ELSE @]
    /\ credit' = IF ok THEN credit \cup case.plan[eng.next].covers ELSE credit
    /\ UNCHANGED <<case, issue, fresh, events>>

\* onDone; RunFromState has no such hook
LoopEnds ==
    /\ At("work") /\ eng.next > Len(case.plan)
    /\ eng' = [eng EXCEPT !.pc = IF eng.resumed THEN "end" ELSE "map", !.final = ~eng.resumed]
    /\ UNCHANGED <<case, issue, credit, fresh, events>>

\* LoadIssueChecklistMapping.  When it fails, RequireHumanDecision is set, but
\* SyncChecklist looks at it only next to a mapping: nobody is asked.
LoadMapping ==
    /\ At("map")
    /\ \/ /\ \E human \in HumanAsked(issue.body) :
                eng' = [eng EXCEPT !.pc = "load", !.human = human]
          /\ UNCHANGED <<issue, events>>
       \/ /\ Event("gh_error")
          /\ eng' = [eng EXCEPT !.pc = "load", !.human = FALSE]
          /\ UNCHANGED issue
    /\ UNCHANGED <<case, credit, fresh>>

AfterSync == IF eng.final THEN "assess" ELSE "work"

\* ChecklistSyncGuard.CanWrite on the issue as loaded
SyncCanWrite ==
    /\ ~issue.closed /\ ~issue.blocked
    /\ eng.done # {}
    /\ PreviewLines(issue.body) # {}
    /\ ~eng.human

SyncLoad ==
    /\ At("load")
    /\ \/ /\ eng' = IF SyncCanWrite THEN [eng EXCEPT !.pc = "edit", !.read = issue.body]
                                    ELSE [eng EXCEPT !.pc = AfterSync]
          /\ fresh' = {}
          /\ UNCHANGED <<issue, events>>
       \/ ReadFails(AfterSync) /\ UNCHANGED fresh
    /\ UNCHANGED <<case, credit>>

\* UpdateIssueBody writes the body read before, ticked
SyncEdit ==
    /\ At("edit")
    /\ Write([issue EXCEPT !.body = Ticked(eng.read, PreviewLines(eng.read))])
    /\ eng' = [eng EXCEPT !.pc = AfterSync, !.read = <<>>]
    /\ UNCHANGED <<case, credit, fresh>>

-----------------------------------------------------------------------------
(* onDone: AssessCloseReadiness, CloseIssue *)

CanAutoClose_Unchecked == ~issue.closed /\ ~issue.blocked /\ case.label

\* buildCloseReadiness with ReviewAccepted and ValidationPassed, which onDone always sets
CanAutoClose ==
    /\ ~issue.closed /\ ~issue.blocked
    /\ Unticked(issue.body) = {}
    /\ case.label

\* completed == total, AutoCloseLabel is configured
Assess ==
    /\ At("assess")
    /\ \/ /\ Goto(IF eng.done = DOMAIN case.plan /\ CanAutoClose THEN "recheck" ELSE "end")
          /\ UNCHANGED <<issue, events>>
       \/ ReadFails("end")
    /\ UNCHANGED <<case, credit, fresh>>

\* CloseIssue reads the issue again
CloseRecheck ==
    /\ At("recheck")
    /\ \/ /\ Goto(IF CanAutoClose THEN "close" ELSE "end") /\ fresh' = {}
          /\ UNCHANGED <<issue, events>>
       \/ ReadFails("end") /\ UNCHANGED fresh
    /\ UNCHANGED <<case, credit>>

Close ==
    /\ At("close")
    /\ Write([issue EXCEPT !.closed = TRUE])
    /\ Goto("end")
    /\ UNCHANGED <<case, credit, fresh>>

-----------------------------------------------------------------------------
(* People, restarts, another task for the same issue *)

\* people touch an item: the engine has not seen it yet
Touched(text) == fresh' = fresh \cup {text}

HumanTicks ==
    /\ Event("tick")
    /\ \E i \in Unticked(issue.body) :
          /\ issue' = [issue EXCEPT !.body = Ticked(@, {i})]
          /\ credit' = credit \cup {issue.body[i].text}
          /\ Touched(issue.body[i].text)
    /\ UNCHANGED <<case, eng>>

HumanUnticks ==
    /\ Event("untick")
    /\ \E i \in ItemLines(issue.body) \ Unticked(issue.body) :
          /\ issue' = [issue EXCEPT !.body = Marked(@, {i}, FALSE)]
          /\ Touched(issue.body[i].text)
    /\ UNCHANGED <<case, eng, credit>>

\* a new item at the end of the checklist
HumanAdds ==
    /\ Event("add")
    /\ \E i \in ItemLines(issue.body), text \in Texts :
          /\ \A j \in ItemLines(issue.body) : j <= i /\ issue.body[j].text # text
          /\ issue' = [issue EXCEPT !.body = Inserted(@, i, Item(text))]
          /\ Touched(text)
    /\ UNCHANGED <<case, eng, credit>>

HumanBlocks ==
    /\ Event("block")
    /\ issue' = [issue EXCEPT !.blocked = ~@]
    /\ UNCHANGED <<case, eng, credit, fresh>>

\* a line is added above the checklist
HumanInserts ==
    /\ Event("insert") /\ case.edited
    /\ issue' = [issue EXCEPT !.body = Inserted(@, 0, OtherLine("other"))]
    /\ UNCHANGED <<case, eng, credit, fresh>>

\* the process dies; RunFromState resumes the task, its sub-tasks as persisted
Restart ==
    /\ Event("restart") /\ ~At("end")
    /\ eng' = [eng EXCEPT !.pc = "fetch", !.read = <<>>, !.human = FALSE, !.final = FALSE,
                          !.resumed = TRUE]
    /\ UNCHANGED <<case, issue, credit, fresh>>

\* a new task for the issue, planned from the body as it is now
Rerun ==
    /\ Event("rerun") /\ At("end") /\ ~issue.closed
    /\ eng' = Planned(issue.body)
    /\ UNCHANGED <<case, issue, credit, fresh>>

-----------------------------------------------------------------------------
Hook ==
    \/ PlanFetch \/ PlanWrite
    \/ \E ok \in BOOLEAN : SubTaskResolved(ok)
    \/ LoopEnds \/ LoadMapping \/ SyncLoad \/ SyncEdit
    \/ Assess \/ CloseRecheck \/ Close

People == HumanTicks \/ HumanUnticks \/ HumanAdds \/ HumanBlocks \/ HumanInserts

Next == Hook \/ People \/ Restart \/ Rerun

Spec == Init /\ [][Next]_vars /\ WF_vars(Hook)

-----------------------------------------------------------------------------
(* Issues the theorems are about *)

\* no item is where WritePlanToIssue removes it, behind a plan section and under a heading
\* of another level than 2, or puts a heading at its end, right above such a section
NothingLost(b) == \A i \in ItemLines(b) : ~Stripped(b, i) /\ ~TakesHeading(b, i)

\* nothing above an item is removed
Anchored(b) == \A i \in ItemLines(b) : \A j \in 1..i : ~Stripped(b, j)

ItemsOutlivePlans == \A c \in Issues : NothingLost(c.body)

\* where a plan names lines, the lines stay where they are
DeclaredLinesStand ==
    \A c \in Issues : \A t \in DOMAIN c.plan : c.plan[t].declared => ~c.edited /\ Anchored(c.body)

\* the planner declares lines for every sub-task or for none
AllOrNoneDeclare ==
    \A c \in Issues : \A s, t \in DOMAIN c.plan : c.plan[s].declared = c.plan[t].declared

-----------------------------------------------------------------------------
(* Properties *)

\* The issue and the engine hold values of their Go types.
TypeOK ==
    /\ case \in Issues
    /\ issue \in Issue
    /\ eng \in Engine
    /\ eng.done \subseteq DOMAIN case.plan /\ eng.next \in 1..Len(case.plan) + 1
    /\ credit \subseteq Texts /\ fresh \subseteq Texts
    /\ events \in 0..MaxEvents

\* A checklist item is ticked only when a done sub-task covers it or a person ticked it,
\* whatever calls fail and however the task is resumed: the line numbers declared before
\* the plan section was written still name the items they were declared for
\* (applyDeclaredChecklistTicks, github.go).
TicksCovered == TickedTexts(issue.body) \subseteq credit

\* the items people have not touched
Settled(b, touched) == {i \in ItemLines(b) : b[i].text \notin touched}

SameItem(new, old) == new.text = old.text /\ new.glued = old.glued /\ (old.on => new.on)

KeepsItems(new, old, touched) ==
    LET S == Settled(old, touched)
        T == Settled(new, touched)
    IN  /\ Cardinality(T) = Cardinality(S)
        /\ \A k \in 1..Cardinality(S) : SameItem(new[NthLine(T, k)], old[NthLine(S, k)])

\* No write of the engine loses, adds, reorders, rewrites or unticks a checklist item,
\* although each writes back a whole body it read earlier and replaces the plan section in
\* it; an edit of people may be lost only when they made it after that read.
ChecklistKept == [][KeepsItems(issue'.body, issue.body, fresh')]_vars

\* An issue Hermes closes has no unticked item left but those people unticked or added
\* after CloseIssue looked, and no sub-task of the closing task failed, also when ticking
\* it failed halfway or a person ticked in between.
ClosedMeansDone ==
    issue.closed => /\ eng.done = DOMAIN case.plan
                    /\ \A i \in Unticked(issue.body) : issue.body[i].text \in fresh

\* When nothing went wrong and nobody interfered, the final sync leaves no item unticked
\* that the ids or the description of a done sub-task match, unless the mapping, which
\* scores the same texts in another way, asks for a human.
DoneWorkTicked ==
    (At("assess") /\ events = 0 /\ ~eng.human)
        => \A t \in eng.done : LinesOf(issue.body, case.plan[t].covers) \cap Unticked(issue.body) = {}

=============================================================================
