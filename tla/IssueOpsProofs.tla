--------------------------- MODULE IssueOpsProofs ---------------------------
(***************************************************************************)
(* Proofs about IssueOps, for any issues, plans, texts and number of       *)
(* events.  IssueTypeCorrect and ClosedIsDone hold for all of them;        *)
(* ChecklistIsKept, TicksAreCovered and DoneWorkIsTicked name the issues   *)
(* they are about (ItemsOutlivePlans, DeclaredLinesStand,                  *)
(* AllOrNoneDeclare), and fail for others.                                 *)
(*                                                                         *)
(* The engine writes bodies that it made by leaving lines out, so the      *)
(* first part is about numbering what is left: the k-th line of a set of   *)
(* lines is the one with k of them down to it.                             *)
(***************************************************************************)
EXTENDS IssueOps, FiniteSetTheorems, SequenceTheorems, TLAPS

\* how many of these lines stand above line i or on it
Rank(lines, i) == Cardinality({j \in lines : j <= i})

LEMMA RankOrder ==
    ASSUME NEW S, S \subseteq Nat, IsFiniteSet(S), NEW i \in S, NEW k \in S
    PROVE  /\ Rank(S, i) \in 1..Cardinality(S)
           /\ i < k => Rank(S, i) < Rank(S, k)
<1> DEFINE Down(x) == {j \in S : j <= x}
<1>1. \A x \in S : IsFiniteSet(Down(x)) /\ Cardinality(Down(x)) \in Nat
                    /\ Cardinality(Down(x)) <= Cardinality(S) /\ Cardinality(S) \in Nat
  <2> TAKE x \in S
  <2>1. Down(x) \in SUBSET S
    OBVIOUS
  <2> HIDE DEF Down
  <2> QED
    BY <2>1, FS_Subset, FS_CardinalityType
<1>2. Cardinality(Down(i)) # 0
  <2>1. i \in Down(i)
    OBVIOUS
  <2>2. Down(i) # {}
    BY <2>1
  <2> HIDE DEF Down
  <2> QED
    BY <1>1, <2>2, FS_EmptySet
<1>3. ASSUME i < k
      PROVE  Cardinality(Down(i)) < Cardinality(Down(k))
  <2>a. i \in Nat /\ k \in Nat /\ \A j \in S : j \in Nat
    OBVIOUS
  <2>b. \A j \in S : j <= i => j <= k
    BY <1>3, <2>a
  <2>1. Down(i) \in SUBSET Down(k)
    BY <2>b
  <2>2. k \in Down(k) /\ k \notin Down(i)
    BY <1>3, <2>a
  <2>3. Down(i) # Down(k)
    BY <2>2
  <2> HIDE DEF Down
  <2>4. Cardinality(Down(i)) <= Cardinality(Down(k)) /\ Cardinality(Down(i)) # Cardinality(Down(k))
    BY <1>1, <2>1, <2>3, FS_Subset
  <2> QED
    BY <1>1, <2>4
<1>4. Rank(S, i) = Cardinality(Down(i)) /\ Rank(S, k) = Cardinality(Down(k))
  BY DEF Rank
<1> HIDE DEF Down
<1> QED
  BY <1>1, <1>2, <1>3, <1>4

LEMMA RanksOrder ==
    ASSUME NEW S, S \subseteq Nat, IsFiniteSet(S)
    PROVE  /\ Cardinality(S) \in Nat
           /\ \A i \in S : Rank(S, i) \in 1..Cardinality(S) /\ Rank(S, i) \in Nat
           /\ \A i, k \in S : i < k => Rank(S, i) < Rank(S, k)
<1>1. \A i \in S : \A k \in S : Rank(S, i) \in 1..Cardinality(S) /\ (i < k => Rank(S, i) < Rank(S, k))
  <2> TAKE i \in S
  <2> TAKE k \in S
  <2> QED
    BY RankOrder
<1>2. Cardinality(S) \in Nat
  BY FS_CardinalityType
<1>3. \A x \in 1..Cardinality(S) : x \in Nat
  BY <1>2
<1> QED
  BY <1>1, <1>2, <1>3

\* every number up to the size of the set is some line's, and no two lines have the same
LEMMA NthLineExists ==
    ASSUME NEW S, S \subseteq Nat, IsFiniteSet(S), NEW k \in 1..Cardinality(S)
    PROVE  NthLine(S, k) \in S /\ Rank(S, NthLine(S, k)) = k
<1> DEFINE T == 1..Cardinality(S)
           f == [i \in S |-> Rank(S, i)]
<1>1. Cardinality(S) \in Nat /\ IsFiniteSet(T) /\ Cardinality(T) = Cardinality(S)
  <2>1. Cardinality(S) \in Nat
    BY FS_CardinalityType
  <2> DEFINE n == Cardinality(S)
  <2>2. IsFiniteSet(1..n) /\ Cardinality(1..n) = IF 1 > n THEN 0 ELSE n - 1 + 1
    BY <2>1, FS_Interval
  <2>3. n \in Nat
    BY <2>1
  <2> HIDE DEF n
  <2>4. Cardinality(1..n) = n
    BY <2>2, <2>3
  <2> QED
    BY <2>1, <2>2, <2>4 DEF n
<1>2. f \in [S -> T]
  <2>1. \A i \in S : Rank(S, i) \in T
    BY RanksOrder
  <2> HIDE DEF T
  <2> QED
    BY <2>1
<1>3. \A i, j \in S : f[i] = f[j] => i = j
  <2> SUFFICES ASSUME NEW i \in S, NEW j \in S, Rank(S, i) = Rank(S, j), i # j
               PROVE  FALSE
    BY Zenon
  <2>1. i < j \/ j < i
    OBVIOUS
  <2>2. Rank(S, i) \in Nat /\ Rank(S, j) \in Nat
    BY <1>1, RanksOrder
  <2>3. \A x, y \in S : x < y => Rank(S, x) < Rank(S, y)
    BY RanksOrder
  <2>4. (i < j => Rank(S, i) < Rank(S, j)) /\ (j < i => Rank(S, j) < Rank(S, i))
    BY <2>3
  <2> QED
    BY <2>1, <2>2, <2>4
<1>4. f \in Injection(S, T)
  <2> HIDE DEF f, T
  <2> QED
    BY <1>2, <1>3 DEF Injection, IsInjective
<1>5. f \in Surjection(S, T)
  <2> HIDE DEF f, T
  <2> QED
    BY <1>1, <1>4, FS_Injection
<1>6. \E i \in S : f[i] = k
  <2> HIDE DEF f
  <2> QED
    BY <1>5 DEF Surjection
<1>7. \E i \in S : Cardinality({j \in S : j <= i}) = k
  BY <1>6 DEF Rank
<1> QED
  BY <1>7 DEF NthLine, Rank

\* the lines keep their order
LEMMA NthLineOrder ==
    ASSUME NEW S, S \subseteq Nat, IsFiniteSet(S)
    PROVE  /\ \A i \in S : NthLine(S, Rank(S, i)) = i
           /\ \A k, l \in 1..Cardinality(S) : k < l => NthLine(S, k) < NthLine(S, l)
<1>0. /\ Cardinality(S) \in Nat /\ \A x, y \in S : x < y => Rank(S, x) < Rank(S, y)
      /\ \A i \in S : Rank(S, i) \in 1..Cardinality(S) /\ Rank(S, i) \in Nat
      /\ \A k \in 1..Cardinality(S) : NthLine(S, k) \in S /\ Rank(S, NthLine(S, k)) = k
                                       /\ k \in Nat
  <2>1. /\ Cardinality(S) \in Nat /\ \A x, y \in S : x < y => Rank(S, x) < Rank(S, y)
        /\ \A i \in S : Rank(S, i) \in 1..Cardinality(S) /\ Rank(S, i) \in Nat
    BY RanksOrder
  <2>2. \A k \in 1..Cardinality(S) : NthLine(S, k) \in S /\ Rank(S, NthLine(S, k)) = k
    BY NthLineExists
  <2>3. \A k \in 1..Cardinality(S) : k \in Nat
    BY <2>1
  <2> QED
    BY <2>1, <2>2, <2>3
<1>1. ASSUME NEW i \in S
      PROVE  NthLine(S, Rank(S, i)) = i
  <2> DEFINE m == NthLine(S, Rank(S, i))
  <2>1. m \in S /\ Rank(S, m) = Rank(S, i) /\ Rank(S, i) \in Nat
    BY <1>0
  <2> HIDE DEF m
  <2>2. ~(m < i) /\ ~(i < m)
    <3>1. (m < i => Rank(S, m) < Rank(S, i)) /\ (i < m => Rank(S, i) < Rank(S, m))
      BY <1>0, <2>1
    <3> QED
      BY <2>1, <3>1
  <2>3. m \in Nat /\ i \in Nat
    BY <2>1
  <2>4. m = i
    BY <2>2, <2>3
  <2> QED
    BY <2>4 DEF m
<1>2. ASSUME NEW k \in 1..Cardinality(S), NEW l \in 1..Cardinality(S), k < l
      PROVE  NthLine(S, k) < NthLine(S, l)
  <2> DEFINE i == NthLine(S, k)
             j == NthLine(S, l)
  <2>1. i \in S /\ j \in S /\ Rank(S, i) = k /\ Rank(S, j) = l /\ k \in Nat /\ l \in Nat
    BY <1>0
  <2> HIDE DEF i, j
  <2>2. ~(j < i) /\ i # j
    <3>1. j < i => Rank(S, j) < Rank(S, i)
      BY <1>0, <2>1
    <3> QED
      BY <1>2, <2>1, <3>1
  <2>3. i < j
    BY <2>1, <2>2
  <2> QED
    BY <2>3 DEF i, j
<1> QED
  BY <1>1, <1>2

-----------------------------------------------------------------------------
(* Bodies: what the edits make of one, line by line *)

LEMMA LineTypes ==
    /\ \A l \in Line : l.kind \in {"item", "h2", "h", "plan", "other"} /\ l.text \in Texts \cup {""}
                       /\ l.on \in BOOLEAN /\ l.glued \in BOOLEAN /\ (l.kind = "item" <=> l.text # "")
    /\ \A kind \in {"h2", "h", "plan", "other"} :
          OtherLine(kind) \in Line /\ OtherLine(kind).kind = kind
    /\ \A text \in Texts : Item(text) \in Line /\ Item(text).kind = "item" /\ Item(text).text = text
                           /\ Item(text).on = FALSE
<1>1. \A l \in Line : l.kind \in {"item", "h2", "h", "plan", "other"} /\ l.text \in Texts \cup {""}
                      /\ l.on \in BOOLEAN /\ l.glued \in BOOLEAN /\ (l.kind = "item" <=> l.text # "")
  BY DEF Line
<1>2. \A kind \in {"h2", "h", "plan", "other"} :
         OtherLine(kind) \in Line /\ OtherLine(kind).kind = kind
  BY DEF Line, OtherLine
<1>3. \A text \in Texts : Item(text) \in Line /\ Item(text).kind = "item" /\ Item(text).text = text
                          /\ Item(text).on = FALSE
  BY IssueAssumption DEF Line, Item
<1> QED
  BY <1>1, <1>2, <1>3

\* a line whose box, or whose end, is another
OnIs(l, v) == [l EXCEPT !.on = v]

GluedIs(l, v) == [l EXCEPT !.glued = v]

LEMMA LineChanged ==
    /\ \A l \in Line, v \in BOOLEAN :
          /\ OnIs(l, v) \in Line /\ OnIs(l, v).on = v /\ OnIs(l, v).kind = l.kind
          /\ OnIs(l, v).text = l.text /\ OnIs(l, v).glued = l.glued
    /\ \A l \in Line, v \in BOOLEAN :
          /\ GluedIs(l, v) \in Line /\ GluedIs(l, v).on = l.on /\ GluedIs(l, v).kind = l.kind
          /\ GluedIs(l, v).text = l.text /\ GluedIs(l, v).glued = v
          /\ l.glued = v => GluedIs(l, v) = l
<1>1. ASSUME NEW l \in Line, NEW v \in BOOLEAN
      PROVE  /\ OnIs(l, v) \in Line /\ OnIs(l, v).on = v /\ OnIs(l, v).kind = l.kind
             /\ OnIs(l, v).text = l.text /\ OnIs(l, v).glued = l.glued
  BY DEF Line, OnIs
<1>2. ASSUME NEW l \in Line, NEW v \in BOOLEAN
      PROVE  /\ GluedIs(l, v) \in Line /\ GluedIs(l, v).on = l.on /\ GluedIs(l, v).kind = l.kind
             /\ GluedIs(l, v).text = l.text /\ GluedIs(l, v).glued = v
             /\ l.glued = v => GluedIs(l, v) = l
  BY DEF Line, GluedIs
<1> QED
  BY <1>1, <1>2

LEMMA CaseTypes ==
    ASSUME case \in Issues
    PROVE  /\ case.body \in Seq(Line) /\ case.plan \in Seq(SubTask) /\ case.plan # <<>>
           /\ Len(case.plan) \in Nat \ {0} /\ DOMAIN case.plan = 1..Len(case.plan)
           /\ \A t \in DOMAIN case.plan : case.plan[t].covers \subseteq Texts
<1>1. case \in Case /\ case.plan # <<>>
  BY IssueAssumption
<1>2. case.body \in Seq(Line) /\ case.plan \in Seq(SubTask)
  BY <1>1 DEF Case
<1>3. Len(case.plan) \in Nat \ {0} /\ DOMAIN case.plan = 1..Len(case.plan)
  BY <1>1, <1>2
<1>4. \A t \in DOMAIN case.plan : case.plan[t] \in SubTask
  BY <1>2
<1> QED
  BY <1>1, <1>2, <1>3, <1>4 DEF SubTask

LEMMA Joined ==
    ASSUME NEW s \in Seq(Line), NEW t \in Seq(Line)
    PROVE  /\ s \o t \in Seq(Line) /\ Len(s \o t) = Len(s) + Len(t)
           /\ \A k \in 1..Len(s) + Len(t) : (s \o t)[k] = IF k <= Len(s) THEN s[k] ELSE t[k - Len(s)]
  BY ConcatProperties

LEMMA KeptBody ==
    ASSUME NEW b \in Seq(Line), NEW S \in SUBSET DOMAIN b
    PROVE  /\ S \subseteq Nat /\ IsFiniteSet(S) /\ Cardinality(S) \in Nat
           /\ Kept(b, S) \in Seq(Line) /\ Len(Kept(b, S)) = Cardinality(S)
           /\ \A k \in 1..Cardinality(S) : /\ NthLine(S, k) \in S
                                           /\ Kept(b, S)[k] = b[NthLine(S, k)]
<1>1. S \subseteq 1..Len(b) /\ Len(b) \in Nat
  OBVIOUS
<1>2. S \subseteq Nat /\ IsFiniteSet(S)
  <2>1. IsFiniteSet(1..Len(b))
    BY <1>1, FS_Interval
  <2> QED
    BY <1>1, <2>1, FS_Subset
<1>3. Cardinality(S) \in Nat
  BY <1>2, FS_CardinalityType
<1>4. \A k \in 1..Cardinality(S) : NthLine(S, k) \in S
  BY <1>2, NthLineExists
<1> DEFINE n == Cardinality(S)
           line == [k \in 1..n |-> NthLine(S, k)]
           kept == [k \in 1..n |-> b[NthLine(S, k)]]
<1>5. \A k \in 1..n : b[NthLine(S, k)] \in Line
  BY <1>1, <1>4
<1>6. kept \in Seq(Line) /\ Len(kept) = n
  <2>1. n \in Nat
    BY <1>3
  <2>2. kept \in [1..n -> Line]
    BY <1>5
  <2> HIDE DEF kept, n
  <2> QED
    BY <2>1, <2>2
<1> QED
  BY <1>2, <1>3, <1>4, <1>6 DEF Kept

LEMMA MarkedBody ==
    ASSUME NEW b \in Seq(Line), NEW lines, NEW on \in BOOLEAN
    PROVE  /\ Marked(b, lines, on) \in Seq(Line) /\ Len(Marked(b, lines, on)) = Len(b)
           /\ DOMAIN Marked(b, lines, on) = DOMAIN b
           /\ \A i \in DOMAIN b :
                 /\ Marked(b, lines, on)[i].kind = b[i].kind
                 /\ Marked(b, lines, on)[i].text = b[i].text
                 /\ Marked(b, lines, on)[i].glued = b[i].glued
                 /\ i \in lines => Marked(b, lines, on)[i].on = on
                 /\ i \notin lines => Marked(b, lines, on)[i] = b[i]
<1>1. DOMAIN b = 1..Len(b) /\ Len(b) \in Nat /\ \A i \in DOMAIN b : b[i] \in Line
  OBVIOUS
<1> DEFINE new == [i \in DOMAIN b |-> IF i \in lines THEN [b[i] EXCEPT !.on = on] ELSE b[i]]
<1>2. \A i \in DOMAIN b : new[i] \in Line /\ new[i].kind = b[i].kind /\ new[i].text = b[i].text
                          /\ new[i].glued = b[i].glued
                          /\ (i \in lines => new[i].on = on) /\ (i \notin lines => new[i] = b[i])
  <2> TAKE i \in DOMAIN b
  <2>1. b[i] \in Line
    BY <1>1
  <2>2. CASE i \in lines
    <3> DEFINE l == b[i]
    <3>1. new[i] = OnIs(l, on)
      BY <2>2 DEF OnIs
    <3>2. /\ OnIs(l, on) \in Line /\ OnIs(l, on).on = on /\ OnIs(l, on).kind = l.kind
          /\ OnIs(l, on).text = l.text /\ OnIs(l, on).glued = l.glued
      BY <2>1, LineChanged
    <3> HIDE DEF new, l
    <3> QED
      BY <2>2, <3>1, <3>2 DEF l
  <2>3. CASE i \notin lines
    BY <2>1, <2>3
  <2> QED
    BY <2>2, <2>3
<1>4. new \in [1..Len(b) -> Line]
  BY <1>1, <1>2
<1>5. DOMAIN new = 1..Len(b)
  BY <1>1
<1> HIDE DEF new
<1>6. new \in Seq(Line) /\ Len(new) = Len(b)
  BY <1>1, <1>4, <1>5
<1>7. Marked(b, lines, on) = new
  BY DEF Marked, new
<1> QED
  BY <1>1, <1>2, <1>5, <1>6, <1>7

LEMMA TickedBody ==
    ASSUME NEW b \in Seq(Line), NEW lines
    PROVE  /\ Ticked(b, lines) \in Seq(Line) /\ Len(Ticked(b, lines)) = Len(b)
           /\ DOMAIN Ticked(b, lines) = DOMAIN b
           /\ \A i \in DOMAIN b : /\ Ticked(b, lines)[i].kind = b[i].kind
                                  /\ Ticked(b, lines)[i].text = b[i].text
                                  /\ Ticked(b, lines)[i].glued = b[i].glued
                                  /\ Ticked(b, lines)[i].on => b[i].on \/ i \in lines
                                  /\ b[i].on \/ i \in lines => Ticked(b, lines)[i].on
<1> DEFINE on == TRUE
           new == Marked(b, lines, on)
<1>1. on \in BOOLEAN
  OBVIOUS
<1> HIDE DEF on
<1>2. /\ new \in Seq(Line) /\ Len(new) = Len(b) /\ DOMAIN new = DOMAIN b
      /\ \A i \in DOMAIN b : /\ new[i].kind = b[i].kind /\ new[i].text = b[i].text
                             /\ new[i].glued = b[i].glued
                             /\ i \in lines => new[i].on = on
                             /\ i \notin lines => new[i] = b[i]
  BY <1>1, MarkedBody
<1>3. Ticked(b, lines) = new
  BY DEF Ticked, on
<1> HIDE DEF new
<1> QED
  BY <1>2, <1>3 DEF on

\* the body with the headings that end plan sections where they go
LEMMA HeadingsBody ==
    ASSUME NEW b \in Seq(Line)
    PROVE  /\ WithHeadings(b) \in Seq(Line) /\ DOMAIN WithHeadings(b) = DOMAIN b
           /\ \A i \in DOMAIN b : /\ WithHeadings(b)[i].kind = b[i].kind
                                  /\ WithHeadings(b)[i].text = b[i].text
                                  /\ WithHeadings(b)[i].on = b[i].on
                                  /\ ~TakesHeading(b, i) => WithHeadings(b)[i] = b[i]
<1>1. DOMAIN b = 1..Len(b) /\ Len(b) \in Nat /\ \A i \in DOMAIN b : b[i] \in Line
  OBVIOUS
<1> DEFINE glue(i) == b[i].glued \/ TakesHeading(b, i)
           new == [i \in DOMAIN b |-> [b[i] EXCEPT !.glued = glue(i)]]
<1>2. \A i \in DOMAIN b : new[i] \in Line /\ new[i].kind = b[i].kind /\ new[i].text = b[i].text
                          /\ new[i].on = b[i].on /\ (~TakesHeading(b, i) => new[i] = b[i])
  <2> TAKE i \in DOMAIN b
  <2> DEFINE l == b[i]
             v == glue(i)
  <2>1. l \in Line /\ new[i] = GluedIs(l, v)
    BY <1>1 DEF GluedIs
  <2>2. v \in BOOLEAN
    OBVIOUS
  <2>3. ~TakesHeading(b, i) => (v <=> l.glued)
    OBVIOUS
  <2>4. l.glued \in BOOLEAN
    BY <2>1, LineTypes
  <2> HIDE DEF l, v, new
  <2>5. ~TakesHeading(b, i) => l.glued = v
    BY <2>2, <2>3, <2>4
  <2>6. /\ GluedIs(l, v) \in Line /\ GluedIs(l, v).on = l.on /\ GluedIs(l, v).kind = l.kind
        /\ GluedIs(l, v).text = l.text /\ (l.glued = v => GluedIs(l, v) = l)
    BY <2>1, <2>2, LineChanged
  <2> QED
    BY <2>1, <2>5, <2>6 DEF l
<1>3. new \in [1..Len(b) -> Line] /\ DOMAIN new = 1..Len(b)
  BY <1>1, <1>2
<1>4. WithHeadings(b) = new
  BY DEF WithHeadings
<1> HIDE DEF new
<1>5. new \in Seq(Line)
  BY <1>1, <1>3
<1> QED
  BY <1>1, <1>2, <1>3, <1>4, <1>5

\* only a heading is swallowed
LEMMA SwallowedHeading ==
    ASSUME NEW b, NEW i \in Nat, Swallowed(b, i)
    PROVE  b[i].kind = "h2"
<1>1. i > 1 /\ ~Stripped(b, i)
  BY DEF Swallowed
<1>2. PICK j \in 1..i - 1 : b[j].kind = "plan" /\ \A k \in j + 1..i - 1 : b[k].kind # "h2"
  BY DEF Swallowed, Stripped
<1>3. j \in 1..i /\ \A k \in j + 1..i : k = i \/ k \in j + 1..i - 1
  BY <1>1
<1>4. b[i].kind # "h2" => \A k \in j + 1..i : b[k].kind # "h2"
  BY <1>2, <1>3
<1> QED
  BY <1>1, <1>2, <1>3, <1>4 DEF Stripped

LEMMA WithPlanBody ==
    ASSUME case \in Issues, NEW b \in Seq(Line)
    PROVE  LET n == Cardinality(Survivors(b))
               new == WithPlan(b)
           IN  /\ n \in Nat /\ new \in Seq(Line) /\ Len(new) = n + 1 + Len(case.plan)
               /\ \A k \in 1..n : /\ NthLine(Survivors(b), k) \in Survivors(b)
                                  /\ new[k] = WithHeadings(b)[NthLine(Survivors(b), k)]
               /\ new[n + 1].kind = "plan"
               /\ \A k \in 1..Len(new) : k > n + 1 => new[k].kind = "other"
<1> DEFINE S == Survivors(b)
           c == WithHeadings(b)
           n == Cardinality(S)
           old == Kept(c, S)
           head == <<OtherLine("plan")>>
           tail == [i \in DOMAIN case.plan |-> OtherLine("other")]
           p == Len(case.plan)
<1>1. S \in SUBSET DOMAIN c /\ c \in Seq(Line)
  BY HeadingsBody DEF Survivors
<1>2. n \in Nat /\ old \in Seq(Line) /\ Len(old) = n
      /\ \A k \in 1..n : NthLine(S, k) \in S /\ old[k] = c[NthLine(S, k)]
  <2> HIDE DEF S, c
  <2> QED
    BY <1>1, KeptBody
<1>3. WithPlan(b) = old \o head \o tail
  BY DEF WithPlan, WithoutPlan
<1>4. p \in Nat /\ tail \in Seq(Line) /\ Len(tail) = p
      /\ \A i \in 1..p : tail[i].kind = "other"
  <2>1. p \in Nat /\ DOMAIN case.plan = 1..p
    BY CaseTypes
  <2>2. OtherLine("other") \in Line /\ OtherLine("other").kind = "other"
    BY LineTypes
  <2>3. tail \in [1..p -> Line] /\ \A i \in 1..p : tail[i] = OtherLine("other")
    BY <2>1, <2>2
  <2> HIDE DEF tail, p
  <2> QED
    BY <2>1, <2>2, <2>3
<1>5. head \in Seq(Line) /\ Len(head) = 1 /\ head[1].kind = "plan"
  <2>1. OtherLine("plan") \in Line /\ OtherLine("plan").kind = "plan"
    BY LineTypes
  <2> QED
    BY <2>1
<1> HIDE DEF S, c, n, old, head, tail, p
<1> DEFINE body == old \o head
           new == body \o tail
<1>a. /\ body \in Seq(Line) /\ Len(body) = n + 1
      /\ \A k \in 1..n + 1 : body[k] = IF k <= n THEN old[k] ELSE head[k - n]
  <2>1. /\ body \in Seq(Line) /\ Len(body) = Len(old) + Len(head)
        /\ \A k \in 1..Len(old) + Len(head) :
              body[k] = IF k <= Len(old) THEN old[k] ELSE head[k - Len(old)]
    BY <1>2, <1>5, Joined
  <2> HIDE DEF body
  <2> QED
    BY <1>2, <1>5, <2>1
<1> HIDE DEF body
<1>b. /\ new \in Seq(Line) /\ Len(new) = n + 1 + p
      /\ \A k \in 1..n + 1 + p : new[k] = IF k <= n + 1 THEN body[k] ELSE tail[k - (n + 1)]
  <2>1. /\ new \in Seq(Line) /\ Len(new) = Len(body) + Len(tail)
        /\ \A k \in 1..Len(body) + Len(tail) :
              new[k] = IF k <= Len(body) THEN body[k] ELSE tail[k - Len(body)]
    BY <1>4, <1>a, Joined
  <2> HIDE DEF new
  <2> QED
    BY <1>4, <1>a, <2>1
<1> HIDE DEF new
<1>6. new \in Seq(Line) /\ Len(new) = n + 1 + p
  BY <1>b
<1>7. \A k \in 1..n : new[k] = old[k]
  <2> TAKE k \in 1..n
  <2>1. k \in 1..n + 1 + p /\ k \in 1..n + 1 /\ k <= n + 1 /\ k <= n
    BY <1>2, <1>4
  <2> QED
    BY <2>1, <1>a, <1>b
<1>8. new[n + 1] = head[1]
  <2> DEFINE m == n + 1
             one == m - n
  <2>1. m \in 1..n + 1 + p /\ m \in 1..n + 1 /\ m <= n + 1 /\ ~(m <= n) /\ one = 1
    BY <1>2, <1>4
  <2>2. new[m] = body[m] /\ body[m] = head[one]
    <3> HIDE DEF m
    <3> QED
      BY <2>1, <1>a, <1>b
  <2> HIDE DEF one
  <2> QED
    BY <2>1, <2>2
<1>9. \A k \in 1..Len(new) : k > n + 1 => k - (n + 1) \in 1..p /\ new[k] = tail[k - (n + 1)]
  <2> TAKE k \in 1..Len(new)
  <2> HAVE k > n + 1
  <2>1. k \in 1..n + 1 + p /\ ~(k <= n + 1) /\ k - (n + 1) \in 1..p
    BY <1>2, <1>4, <1>b
  <2> QED
    BY <2>1, <1>b
<1>10. \A k \in 1..Len(new) : k > n + 1 => new[k].kind = "other"
  BY <1>4, <1>9
<1>11. WithPlan(b) = new /\ Len(case.plan) = p
  BY <1>3 DEF new, body, p
<1> QED
  BY <1>2, <1>5, <1>6, <1>7, <1>8, <1>10, <1>11 DEF S, c, n

\* where a line stands below whose line m one was put
Shifted(m, i) == IF i <= m THEN i ELSE i + 1

LEMMA InsertedBody ==
    ASSUME NEW b \in Seq(Line), NEW m \in 0..Len(b), NEW l \in Line
    PROVE  /\ Inserted(b, m, l) \in Seq(Line) /\ Len(Inserted(b, m, l)) = Len(b) + 1
           /\ DOMAIN Inserted(b, m, l) = 1..Len(b) + 1
           /\ Inserted(b, m, l)[m + 1] = l
           /\ \A i \in 1..Len(b) : /\ Shifted(m, i) \in 1..Len(b) + 1 /\ Shifted(m, i) # m + 1
                                   /\ Inserted(b, m, l)[Shifted(m, i)] = b[i]
           /\ \A k \in 1..Len(b) + 1 : k # m + 1 => \E i \in 1..Len(b) : k = Shifted(m, i)
<1> DEFINE n == Len(b)
           new == [i \in 1..n + 1 |-> IF i <= m THEN b[i] ELSE IF i = m + 1 THEN l ELSE b[i - 1]]
<1>1. n \in Nat /\ m \in Nat /\ m <= n /\ \A i \in 1..n : b[i] \in Line
  OBVIOUS
<1>2. Inserted(b, m, l) = new
  BY DEF Inserted
<1> HIDE DEF n
<1>3. \A i \in 1..n + 1 : new[i] \in Line
  <2> TAKE i \in 1..n + 1
  <2>1. CASE i <= m
    <3>1. i \in 1..n
      BY <1>1, <2>1
    <3> QED
      BY <1>1, <2>1, <3>1
  <2>2. CASE i = m + 1
    BY <1>1, <2>2
  <2>3. CASE ~(i <= m) /\ i # m + 1
    <3>1. i - 1 \in 1..n
      BY <1>1, <2>3
    <3> QED
      BY <1>1, <2>3, <3>1
  <2> QED
    BY <2>1, <2>2, <2>3
<1>4. new \in [1..n + 1 -> Line] /\ DOMAIN new = 1..n + 1
  BY <1>3
<1>5. new \in Seq(Line) /\ Len(new) = n + 1
  <2> HIDE DEF new
  <2> QED
    BY <1>1, <1>4
<1>6. new[m + 1] = l
  <2>1. m + 1 \in 1..n + 1 /\ ~(m + 1 <= m)
    BY <1>1
  <2> QED
    BY <2>1
<1>7. \A i \in 1..n : /\ Shifted(m, i) \in 1..n + 1 /\ Shifted(m, i) # m + 1
                      /\ new[Shifted(m, i)] = b[i]
  <2> TAKE i \in 1..n
  <2>1. CASE i <= m
    <3>1. Shifted(m, i) = i /\ i \in 1..n + 1 /\ i # m + 1
      BY <1>1, <2>1 DEF Shifted
    <3> QED
      BY <2>1, <3>1
  <2>2. CASE ~(i <= m)
    <3> DEFINE k == i + 1
    <3>1. Shifted(m, i) = k /\ k \in 1..n + 1 /\ ~(k <= m) /\ k # m + 1 /\ k - 1 = i
      BY <1>1, <2>2 DEF Shifted
    <3> HIDE DEF k
    <3> QED
      BY <3>1
  <2> QED
    BY <2>1, <2>2
<1>8. \A k \in 1..n + 1 : k # m + 1 => \E i \in 1..n : k = Shifted(m, i)
  <2> TAKE k \in 1..n + 1
  <2> HAVE k # m + 1
  <2>1. CASE k <= m
    <3>1. k \in 1..n /\ k = Shifted(m, k)
      BY <1>1, <2>1 DEF Shifted
    <3> QED
      BY <3>1
  <2>2. CASE ~(k <= m)
    <3> DEFINE i == k - 1
    <3>1. i \in 1..n /\ ~(i <= m) /\ k = i + 1
      BY <1>1, <2>2
    <3>2. k = Shifted(m, i)
      BY <3>1 DEF Shifted
    <3> QED
      BY <3>1, <3>2
  <2> QED
    BY <2>1, <2>2
<1> HIDE DEF new
<1> QED
  BY <1>2, <1>4, <1>5, <1>6, <1>7, <1>8 DEF n

-----------------------------------------------------------------------------
(* Types *)

LEMMA PlannedTypes ==
    ASSUME case \in Issues, NEW b \in Seq(Line)
    PROVE  /\ Planned(b) \in Engine /\ Planned(b).done \subseteq DOMAIN case.plan
           /\ Planned(b).next \in 1..Len(case.plan) + 1
           /\ Planned(b).pc = "fetch" /\ Planned(b).done = {} /\ Planned(b).read = <<>>
           /\ Planned(b).ids = PlannedIds(b)
<1>1. DOMAIN case.plan = 1..Len(case.plan) /\ Len(case.plan) \in Nat \ {0}
  BY CaseTypes
<1> DEFINE ids == PlannedIds(b)
<1>2. \A texts : LinesOf(b, texts) \in SUBSET Nat
  BY DEF LinesOf, ItemLines
<1>3. ids \in Seq(SUBSET Nat)
  <2>1. ids \in [1..Len(case.plan) -> SUBSET Nat]
    BY <1>1, <1>2 DEF PlannedIds
  <2> HIDE DEF ids
  <2> QED
    BY <1>1, <2>1
<1>4. 1 \in 1..Len(case.plan) + 1
  BY <1>1
<1> HIDE DEF ids
<1>5. Planned(b) = [pc |-> "fetch", ids |-> ids, done |-> {}, next |-> 1, read |-> <<>>,
                    human |-> FALSE, final |-> FALSE, resumed |-> FALSE]
  BY DEF Planned, ids
<1>6. <<>> \in Seq(Line)
  OBVIOUS
<1> QED
  BY <1>3, <1>4, <1>5, <1>6 DEF Engine, ids

LEMMA EngineFields ==
    ASSUME NEW e \in Engine
    PROVE  /\ e.pc \in {"fetch", "write", "work", "map", "load", "edit", "assess", "recheck",
                        "close", "end"}
           /\ e.ids \in Seq(SUBSET Nat) /\ e.done \in SUBSET Nat /\ e.next \in Nat
           /\ e.read \in Seq(Line) /\ e.human \in BOOLEAN /\ e.final \in BOOLEAN
           /\ e.resumed \in BOOLEAN
  BY DEF Engine

\* a step of the engine that leaves the sub-tasks alone
Steps(pc) ==
    /\ eng'.pc = pc /\ eng' \in Engine
    /\ eng'.ids = eng.ids /\ eng'.done = eng.done /\ eng'.next = eng.next

LEMMA GotoSteps ==
    ASSUME eng \in Engine,
           NEW pc \in {"fetch", "write", "work", "map", "load", "edit", "assess", "recheck",
                       "close", "end"},
           Goto(pc)
    PROVE  Steps(pc) /\ eng'.read = eng.read
  BY DEF Goto, Steps, Engine

LEMMA ItemTexts ==
    ASSUME NEW b \in Seq(Line)
    PROVE  /\ TickedTexts(b) \subseteq Texts
           /\ \A i \in ItemLines(b) : i \in DOMAIN b /\ b[i].text \in Texts /\ b[i].kind = "item"
           /\ Unticked(b) \subseteq ItemLines(b)
<1>1. \A i \in DOMAIN b : b[i].kind = "item" => b[i].text \in Texts
  <2> TAKE i \in DOMAIN b
  <2>1. b[i] \in Line
    OBVIOUS
  <2>2. b[i].text \in Texts \cup {""} /\ (b[i].kind = "item" => b[i].text # "")
    BY <2>1, LineTypes
  <2> QED
    BY <2>2
<1> QED
  BY <1>1 DEF TickedTexts, Unticked, ItemLines

LEMMA WriteTypes ==
    ASSUME TypeOK, NEW new \in Issue, Write(new)
    PROVE  /\ issue' \in Issue /\ events' \in 0..MaxEvents
           /\ issue' = issue \/ issue' = new
           /\ events' # events \/ issue' = new
<1>1. events \in 0..MaxEvents /\ MaxEvents \in Nat /\ issue \in Issue
  BY IssueAssumption DEF TypeOK
<1>2. CASE issue' = new /\ UNCHANGED events
  BY <1>1, <1>2
<1>3. CASE issue' \in {issue, new} /\ Event("gh_error")
  <2>1. events' = events + 1 /\ events < MaxEvents
    BY <1>3 DEF Event
  <2>2. events' \in 0..MaxEvents /\ events' # events
    BY <1>1, <2>1
  <2> QED
    BY <1>1, <1>3, <2>2
<1> QED
  BY <1>2, <1>3 DEF Write

LEMMA IssueFields ==
    ASSUME NEW i \in Issue
    PROVE  /\ i.body \in Seq(Line) /\ i.closed \in BOOLEAN /\ i.blocked \in BOOLEAN
           /\ \A b \in Seq(Line) : /\ [i EXCEPT !.body = b] \in Issue
                                    /\ [i EXCEPT !.body = b].body = b
                                    /\ [i EXCEPT !.body = b].closed = i.closed
           /\ [i EXCEPT !.closed = TRUE] \in Issue
           /\ [i EXCEPT !.closed = TRUE].body = i.body /\ [i EXCEPT !.closed = TRUE].closed = TRUE
           /\ [i EXCEPT !.blocked = ~@] \in Issue
           /\ [i EXCEPT !.blocked = ~@].body = i.body
           /\ [i EXCEPT !.blocked = ~@].closed = i.closed
  BY DEF Issue

\* what a typed state gives the steps
LEMMA StateTypes ==
    ASSUME TypeOK
    PROVE  /\ case \in Issues /\ issue \in Issue /\ eng \in Engine /\ issue.body \in Seq(Line)
           /\ eng.read \in Seq(Line) /\ eng.done \subseteq DOMAIN case.plan
           /\ eng.next \in 1..Len(case.plan) + 1 /\ credit \subseteq Texts /\ fresh \subseteq Texts
           /\ events \in 0..MaxEvents /\ MaxEvents \in Nat
  BY IssueAssumption, IssueFields, EngineFields DEF TypeOK

LEMMA EventTypes ==
    ASSUME TypeOK, NEW e, Event(e)
    PROVE  events' \in 0..MaxEvents /\ events' # events /\ events' > 0
  BY StateTypes DEF Event

LEMMA HookTypes ==
    ASSUME TypeOK, Hook
    PROVE  TypeOK'
<1>1. /\ case \in Issues /\ issue \in Issue /\ eng \in Engine /\ issue.body \in Seq(Line)
      /\ eng.read \in Seq(Line) /\ eng.done \subseteq DOMAIN case.plan
      /\ eng.next \in 1..Len(case.plan) + 1 /\ credit \subseteq Texts
      /\ events \in 0..MaxEvents /\ MaxEvents \in Nat
  BY StateTypes
<1>f. fresh' \subseteq Texts
  <2>1. fresh' = fresh \/ fresh' = {}
    BY DEF Hook, PlanFetch, PlanWrite, SubTaskResolved, LoopEnds, LoadMapping, SyncLoad, SyncEdit,
      Assess, CloseRecheck, Close
  <2>2. fresh \subseteq Texts
    BY StateTypes
  <2> QED
    BY <2>1, <2>2
<1> DEFINE Pcs == {"fetch", "write", "work", "map", "load", "edit", "assess", "recheck",
                   "close", "end"}
           Plain == eng' \in Engine /\ eng'.done = eng.done /\ eng'.next = eng.next
<1>e. <<>> \in Seq(Line)
  OBVIOUS
\* a step that only moves the hooks on
<1>2. ASSUME Plain, issue' \in Issue, events' \in 0..MaxEvents, case' = case, credit' = credit
      PROVE  TypeOK'
  BY <1>1, <1>f, <1>2 DEF TypeOK
<1>3. ASSUME NEW pc \in Pcs, Goto(pc)
      PROVE  Plain
  BY <1>1, <1>3, GotoSteps DEF Steps
<1>4. ASSUME NEW pc \in Pcs, ReadFails(pc)
      PROVE  Plain /\ issue' \in Issue /\ events' \in 0..MaxEvents
  BY <1>1, <1>3, <1>4, EventTypes DEF ReadFails
<1>5. AfterSync \in Pcs
  BY DEF AfterSync
<1>6. CASE PlanFetch
  <2>1. CASE /\ eng' = [eng EXCEPT !.pc = "write", !.read = issue.body]
             /\ UNCHANGED <<issue, events>>
    <3>1. Plain
      BY <1>1, <2>1 DEF Engine
    <3> QED
      BY <1>1, <1>2, <1>6, <2>1, <3>1 DEF PlanFetch
  <2>2. CASE ReadFails("work")
    BY <1>2, <1>4, <1>6, <2>2 DEF PlanFetch
  <2> QED
    BY <1>6, <2>1, <2>2 DEF PlanFetch
<1>7. CASE PlanWrite
  <2>1. WithPlan(eng.read) \in Seq(Line)
    BY <1>1, WithPlanBody
  <2> DEFINE new == [issue EXCEPT !.body = WithPlan(eng.read)]
  <2>2. new \in Issue
    BY <1>1, <2>1, IssueFields
  <2>3. Write(new)
    BY <1>7 DEF PlanWrite
  <2> HIDE DEF new
  <2>4. issue' \in Issue /\ events' \in 0..MaxEvents
    BY <2>2, <2>3, WriteTypes
  <2>5. Plain
    BY <1>1, <1>7, <1>e DEF PlanWrite, Engine
  <2> QED
    BY <1>2, <1>7, <2>4, <2>5 DEF PlanWrite
<1>8. CASE \E ok \in BOOLEAN : SubTaskResolved(ok)
  <2>1. PICK ok \in BOOLEAN : SubTaskResolved(ok)
    BY <1>8
  <2>2. eng.next \in DOMAIN case.plan /\ eng.next \in Nat /\ eng.next + 1 \in 1..Len(case.plan) + 1
    BY <1>1, <2>1, CaseTypes DEF SubTaskResolved
  <2>3. \A t \in DOMAIN case.plan : t \in Nat
    BY <1>1, CaseTypes
  <2>4. eng' = [eng EXCEPT !.pc = "map", !.next = @ + 1,
                           !.done = IF ok THEN @ \cup {eng.next} ELSE @]
    BY <2>1 DEF SubTaskResolved
  <2>5. /\ eng' \in Engine /\ eng'.next = eng.next + 1
        /\ eng'.done \subseteq DOMAIN case.plan
    <3> DEFINE done == IF ok THEN eng.done \cup {eng.next} ELSE eng.done
               next == eng.next + 1
    <3>1. done \in SUBSET Nat /\ done \subseteq DOMAIN case.plan /\ next \in Nat
      BY <1>1, <2>2, <2>3
    <3>2. eng' = [eng EXCEPT !.pc = "map", !.next = next, !.done = done]
      BY <2>4
    <3> HIDE DEF done, next
    <3>3. eng' \in Engine /\ eng'.next = next /\ eng'.done = done
      BY <1>1, <3>1, <3>2 DEF Engine
    <3> QED
      BY <3>1, <3>3 DEF next
  <2>6. credit' \subseteq Texts
    BY <1>1, <2>1, <2>2, CaseTypes DEF SubTaskResolved
  <2> QED
    BY <1>1, <1>f, <2>1, <2>2, <2>5, <2>6 DEF TypeOK, SubTaskResolved
<1>9. CASE LoopEnds
  <2>1. Plain
    BY <1>1, <1>9 DEF LoopEnds, Engine
  <2> QED
    BY <1>1, <1>2, <1>9, <2>1 DEF LoopEnds
<1>10. CASE LoadMapping
  <2>1. HumanAsked(issue.body) \subseteq BOOLEAN
    BY DEF HumanAsked, BadDeclarations
  <2>2. PICK human \in BOOLEAN : eng' = [eng EXCEPT !.pc = "load", !.human = human]
    BY <1>10, <2>1 DEF LoadMapping
  <2>3. Plain
    BY <1>1, <2>2 DEF Engine
  <2>4. issue' \in Issue /\ events' \in 0..MaxEvents
    BY <1>1, <1>10, EventTypes DEF LoadMapping
  <2> QED
    BY <1>2, <1>10, <2>3, <2>4 DEF LoadMapping
<1>11. CASE SyncLoad
  <2>1. CASE /\ eng' = IF SyncCanWrite THEN [eng EXCEPT !.pc = "edit", !.read = issue.body]
                                       ELSE [eng EXCEPT !.pc = AfterSync]
             /\ UNCHANGED <<issue, events>>
    <3>1. Plain
      BY <1>1, <1>5, <2>1 DEF Engine
    <3> QED
      BY <1>1, <1>2, <1>11, <2>1, <3>1 DEF SyncLoad
  <2>2. CASE ReadFails(AfterSync)
    BY <1>2, <1>4, <1>5, <1>11, <2>2 DEF SyncLoad
  <2> QED
    BY <1>11, <2>1, <2>2 DEF SyncLoad
<1>12. CASE SyncEdit
  <2>1. Ticked(eng.read, PreviewLines(eng.read)) \in Seq(Line)
    BY <1>1, TickedBody
  <2> DEFINE new == [issue EXCEPT !.body = Ticked(eng.read, PreviewLines(eng.read))]
  <2>2. new \in Issue
    BY <1>1, <2>1, IssueFields
  <2>3. Write(new)
    BY <1>12 DEF SyncEdit
  <2> HIDE DEF new
  <2>4. issue' \in Issue /\ events' \in 0..MaxEvents
    BY <2>2, <2>3, WriteTypes
  <2>5. Plain
    BY <1>1, <1>5, <1>12, <1>e DEF SyncEdit, Engine
  <2> QED
    BY <1>2, <1>12, <2>4, <2>5 DEF SyncEdit
<1>13. CASE Assess
  <2> DEFINE pc == IF eng.done = DOMAIN case.plan /\ CanAutoClose THEN "recheck" ELSE "end"
  <2>1. CASE Goto(pc) /\ UNCHANGED <<issue, events>>
    <3>1. pc \in Pcs
      OBVIOUS
    <3> HIDE DEF pc
    <3> QED
      BY <1>1, <1>2, <1>3, <1>13, <2>1, <3>1 DEF Assess
  <2>2. CASE ReadFails("end")
    BY <1>2, <1>4, <1>13, <2>2 DEF Assess
  <2> QED
    BY <1>13, <2>1, <2>2 DEF Assess
<1>14. CASE CloseRecheck
  <2> DEFINE pc == IF CanAutoClose THEN "close" ELSE "end"
  <2>1. CASE Goto(pc) /\ UNCHANGED <<issue, events>>
    <3>1. pc \in Pcs
      OBVIOUS
    <3> HIDE DEF pc
    <3> QED
      BY <1>1, <1>2, <1>3, <1>14, <2>1, <3>1 DEF CloseRecheck
  <2>2. CASE ReadFails("end")
    BY <1>2, <1>4, <1>14, <2>2 DEF CloseRecheck
  <2> QED
    BY <1>14, <2>1, <2>2 DEF CloseRecheck
<1>15. CASE Close
  <2>1. [issue EXCEPT !.closed = TRUE] \in Issue
    BY <1>1, IssueFields
  <2>2. issue' \in Issue /\ events' \in 0..MaxEvents
    BY <1>15, <2>1, WriteTypes DEF Close
  <2> QED
    BY <1>2, <1>3, <1>15, <2>2 DEF Close
<1> QED
  BY <1>6, <1>7, <1>8, <1>9, <1>10, <1>11, <1>12, <1>13, <1>14, <1>15 DEF Hook

\* what people make of the issue
LEMMA PeopleSteps ==
    ASSUME TypeOK, People
    PROVE  /\ eng' = eng /\ case' = case /\ issue' \in Issue /\ issue'.closed = issue.closed
           /\ credit \subseteq credit' /\ credit' \subseteq Texts
           /\ fresh \subseteq fresh' /\ fresh' \subseteq Texts
           /\ events' \in 0..MaxEvents /\ events' > 0
           /\ \/ issue'.body = issue.body
              \/ \E i \in ItemLines(issue.body) :
                    /\ issue'.body = Ticked(issue.body, {i})
                    /\ issue.body[i].text \in credit' /\ issue.body[i].text \in fresh'
              \/ \E i \in ItemLines(issue.body) :
                    issue'.body = Marked(issue.body, {i}, FALSE) /\ issue.body[i].text \in fresh'
              \/ \E i \in ItemLines(issue.body), text \in fresh' \cap Texts :
                    /\ issue'.body = Inserted(issue.body, i, Item(text))
                    /\ \A j \in ItemLines(issue.body) : j <= i
              \/ case.edited /\ issue'.body = Inserted(issue.body, 0, OtherLine("other"))
<1>1. /\ issue \in Issue /\ issue.body \in Seq(Line) /\ credit \subseteq Texts /\ fresh \subseteq Texts
      /\ events \in 0..MaxEvents
  BY StateTypes
<1>2. /\ events' \in 0..MaxEvents /\ events' > 0 /\ eng' = eng /\ case' = case
      /\ credit \subseteq credit' /\ fresh \subseteq fresh'
  BY EventTypes DEF People, HumanTicks, HumanUnticks, HumanAdds, HumanBlocks, HumanInserts, Touched
\* enough: the body as it is after the edit
<1>3. ASSUME NEW new \in Seq(Line), issue' = [issue EXCEPT !.body = new]
      PROVE  issue' \in Issue /\ issue'.closed = issue.closed /\ issue'.body = new
  BY <1>1, <1>3 DEF Issue
<1>4. \A i \in ItemLines(issue.body) : issue.body[i].text \in Texts /\ i \in DOMAIN issue.body
  BY <1>1, ItemTexts
<1>5. CASE HumanTicks
  <2>1. PICK i \in Unticked(issue.body) :
           /\ issue' = [issue EXCEPT !.body = Ticked(@, {i})]
           /\ credit' = credit \cup {issue.body[i].text} /\ Touched(issue.body[i].text)
    BY <1>5 DEF HumanTicks
  <2>2. i \in ItemLines(issue.body)
    BY DEF Unticked
  <2>3. Ticked(issue.body, {i}) \in Seq(Line)
    BY <1>1, TickedBody
  <2>4. credit' \subseteq Texts /\ fresh' \subseteq Texts /\ issue.body[i].text \in credit' \cap fresh'
    BY <1>1, <1>4, <2>1, <2>2 DEF Touched
  <2> QED
    BY <1>2, <1>3, <2>1, <2>2, <2>3, <2>4
<1>6. CASE HumanUnticks
  <2>1. PICK i \in ItemLines(issue.body) :
           issue' = [issue EXCEPT !.body = Marked(@, {i}, FALSE)] /\ Touched(issue.body[i].text)
    BY <1>6 DEF HumanUnticks
  <2> DEFINE on == FALSE
  <2>2. Marked(issue.body, {i}, on) \in Seq(Line)
    <3>1. on \in BOOLEAN
      OBVIOUS
    <3> HIDE DEF on
    <3> QED
      BY <1>1, <3>1, MarkedBody
  <2>3. credit' \subseteq Texts /\ fresh' \subseteq Texts /\ issue.body[i].text \in fresh'
    BY <1>1, <1>4, <1>6, <2>1 DEF Touched, HumanUnticks
  <2> QED
    BY <1>2, <1>3, <2>1, <2>2, <2>3
<1>7. CASE HumanAdds
  <2>1. PICK i \in ItemLines(issue.body), text \in Texts :
           /\ \A j \in ItemLines(issue.body) : j <= i
           /\ issue' = [issue EXCEPT !.body = Inserted(@, i, Item(text))] /\ Touched(text)
    BY <1>7 DEF HumanAdds
  <2>2. Item(text) \in Line /\ i \in 0..Len(issue.body)
    <3>1. Item(text) \in Line
      BY LineTypes
    <3>2. i \in 1..Len(issue.body) /\ Len(issue.body) \in Nat
      BY <1>1, <1>4
    <3> QED
      BY <3>1, <3>2
  <2>3. Inserted(issue.body, i, Item(text)) \in Seq(Line)
    BY <1>1, <2>2, InsertedBody
  <2>4. credit' \subseteq Texts /\ fresh' \subseteq Texts /\ text \in fresh'
    BY <1>1, <1>7, <2>1 DEF Touched, HumanAdds
  <2>5. issue' \in Issue /\ issue'.closed = issue.closed
        /\ issue'.body = Inserted(issue.body, i, Item(text))
    BY <1>3, <2>1, <2>3
  <2> QED
    BY <1>2, <2>1, <2>4, <2>5
<1>8. CASE HumanBlocks
  <2>1. issue' \in Issue /\ issue'.closed = issue.closed /\ issue'.body = issue.body
    BY <1>1, <1>8, IssueFields DEF HumanBlocks
  <2> QED
    BY <1>1, <1>2, <1>8, <2>1 DEF HumanBlocks
<1>9. CASE HumanInserts
  <2> DEFINE l == OtherLine("other")
  <2>1. l \in Line /\ 0 \in 0..Len(issue.body)
    <3>1. l \in Line
      BY LineTypes
    <3>2. Len(issue.body) \in Nat
      BY <1>1
    <3> QED
      BY <3>1, <3>2
  <2>2. issue' = [issue EXCEPT !.body = Inserted(issue.body, 0, l)] /\ case.edited
        /\ credit' = credit /\ fresh' = fresh
    BY <1>9 DEF HumanInserts
  <2> HIDE DEF l
  <2>3. Inserted(issue.body, 0, l) \in Seq(Line)
    BY <1>1, <2>1, InsertedBody
  <2>4. issue' \in Issue /\ issue'.closed = issue.closed /\ issue'.body = Inserted(issue.body, 0, l)
    BY <1>3, <2>2, <2>3
  <2> QED
    BY <1>1, <1>2, <2>2, <2>4 DEF l
<1> QED
  BY <1>5, <1>6, <1>7, <1>8, <1>9 DEF People

LEMMA OutsideTypes ==
    ASSUME TypeOK, People \/ Restart \/ Rerun
    PROVE  TypeOK'
<1>1. /\ case \in Issues /\ issue \in Issue /\ eng \in Engine /\ issue.body \in Seq(Line)
      /\ eng.read \in Seq(Line) /\ eng.done \subseteq DOMAIN case.plan
      /\ eng.next \in 1..Len(case.plan) + 1 /\ credit \subseteq Texts /\ fresh \subseteq Texts
  BY StateTypes
<1>2. CASE People
  BY <1>1, <1>2, PeopleSteps DEF TypeOK
<1>3. CASE Restart
  <2>1. /\ eng' \in Engine /\ eng'.done = eng.done /\ eng'.next = eng.next
    <3>1. <<>> \in Seq(Line)
      OBVIOUS
    <3> QED
      BY <1>1, <1>3, <3>1 DEF Restart, Engine
  <2>2. events' \in 0..MaxEvents /\ case' = case
    BY <1>3, EventTypes DEF Restart
  <2> QED
    BY <1>1, <1>3, <2>1, <2>2 DEF TypeOK, Restart
<1>4. CASE Rerun
  <2>1. /\ eng' \in Engine /\ eng'.done \subseteq DOMAIN case.plan
        /\ eng'.next \in 1..Len(case.plan) + 1
    BY <1>1, <1>4, PlannedTypes DEF Rerun
  <2>2. events' \in 0..MaxEvents /\ case' = case
    BY <1>4, EventTypes DEF Rerun
  <2> QED
    BY <1>1, <1>4, <2>1, <2>2 DEF TypeOK, Rerun
<1> QED
  BY <1>2, <1>3, <1>4

LEMMA InitTypes == Init => TypeOK
<1> SUFFICES ASSUME Init PROVE TypeOK
  OBVIOUS
<1>1. case \in Issues /\ case.body \in Seq(Line) /\ 0 \in 0..MaxEvents
  <2>1. case \in Issues
    BY DEF Init
  <2>2. 0 \in 0..MaxEvents
    <3>1. MaxEvents \in Nat
      BY IssueAssumption
    <3> QED
      BY <3>1
  <2> QED
    BY <2>1, <2>2, CaseTypes
<1>2. issue \in Issue
  BY <1>1 DEF Init, Issue
<1>3. credit \subseteq Texts
  BY <1>1, ItemTexts DEF Init
<1> QED
  BY <1>1, <1>2, <1>3, PlannedTypes DEF Init, TypeOK

LEMMA TypesKept == TypeOK /\ [Next]_vars => TypeOK'
<1>1. TypeOK /\ UNCHANGED vars => TypeOK'
  BY DEF vars, TypeOK
<1>2. TypeOK /\ Next => TypeOK'
  BY HookTypes, OutsideTypes DEF Next
<1> QED
  BY <1>1, <1>2

\* The issue and the engine's hooks keep the values of their Go types: every body the engine
\* writes is a body again, whatever lines it leaves out of the one it read.
THEOREM IssueTypeCorrect == Spec => []TypeOK
  BY InitTypes, TypesKept, PTL DEF Spec

-----------------------------------------------------------------------------
(* Items: where they stand after an edit *)

\* marking moves no item
LEMMA MarkedItems ==
    ASSUME NEW b \in Seq(Line), NEW lines, NEW on \in BOOLEAN
    PROVE  ItemLines(Marked(b, lines, on)) = ItemLines(b)
<1> DEFINE new == Marked(b, lines, on)
<1>1. /\ DOMAIN new = DOMAIN b /\ DOMAIN b = 1..Len(b) /\ Len(b) \in Nat
      /\ \A i \in DOMAIN b : new[i].kind = b[i].kind
  BY MarkedBody
<1> HIDE DEF new
<1>2. ASSUME NEW i \in DOMAIN b
      PROVE  InPlanSection(new, i) <=> InPlanSection(b, i)
  <2>1. \A j \in 1..i - 1 : /\ j \in DOMAIN b
                            /\ \A k \in j + 1..i : k \in DOMAIN b
    BY <1>1
  <2>2. \A k \in DOMAIN b : IsHeading(new[k]) <=> IsHeading(b[k])
    BY <1>1 DEF IsHeading
  <2>3. \A j \in 1..i - 1 : (\A k \in j + 1..i : ~IsHeading(new[k]))
                              <=> (\A k \in j + 1..i : ~IsHeading(b[k]))
    BY <2>1, <2>2
  <2>4. \A j \in 1..i - 1 : new[j].kind = b[j].kind
    BY <1>1, <2>1
  <2> QED
    BY <2>3, <2>4 DEF InPlanSection
<1> QED
  BY <1>1, <1>2 DEF ItemLines, new

LEMMA TickedItems ==
    ASSUME NEW b \in Seq(Line), NEW lines
    PROVE  /\ ItemLines(Ticked(b, lines)) = ItemLines(b)
           /\ \A i \in Unticked(Ticked(b, lines)) : i \in Unticked(b) /\ i \notin lines
<1> DEFINE new == Ticked(b, lines)
           on == TRUE
<1>1. \A i \in DOMAIN b : b[i].on \/ i \in lines => new[i].on
  BY TickedBody
<1>2. ItemLines(new) = ItemLines(b)
  <2>1. new = Marked(b, lines, on)
    BY DEF Ticked
  <2>2. on \in BOOLEAN
    OBVIOUS
  <2> HIDE DEF new, on
  <2> QED
    BY <2>1, <2>2, MarkedItems
<1>3. \A i \in ItemLines(b) : i \in DOMAIN b
  BY DEF ItemLines
<1> HIDE DEF new
<1> QED
  BY <1>1, <1>2, <1>3 DEF Unticked, new

\* line i is below a plan heading, and none of these kinds is between them
Reached(b, i, kinds) ==
    \E j \in 1..i : b[j].kind = "plan" /\ \A k \in j + 1..i : b[k].kind \notin kinds

HeadingKinds == {"h2", "h", "plan"}

LEMMA ReachedSections ==
    ASSUME NEW b, NEW i \in Nat
    PROVE  /\ Stripped(b, i) <=> Reached(b, i, {"h2"})
           /\ b[i].kind \notin HeadingKinds
                => (InPlanSection(b, i) <=> Reached(b, i, HeadingKinds))
<1>1. Stripped(b, i) <=> Reached(b, i, {"h2"})
  BY DEF Stripped, Reached
<1>2. ASSUME b[i].kind \notin HeadingKinds
      PROVE  InPlanSection(b, i) <=> Reached(b, i, HeadingKinds)
  <2>1. b[i].kind # "plan"
    BY <1>2 DEF HeadingKinds
  <2>2. \A j \in 1..i : j = i \/ j \in 1..i - 1
    OBVIOUS
  <2>3. \A k : IsHeading(b[k]) <=> b[k].kind \in HeadingKinds
    BY DEF IsHeading, HeadingKinds
  <2>4. \A j \in 1..i - 1 : j \in 1..i
    OBVIOUS
  <2> QED
    BY <2>1, <2>2, <2>3, <2>4 DEF InPlanSection, Reached
<1> QED
  BY <1>1, <1>2

\* a line put into a body is reached as the line above it is, and changes nothing for others
LEMMA InsertedReached ==
    ASSUME NEW b \in Seq(Line), NEW m \in 0..Len(b), NEW l \in Line, NEW kinds,
           l.kind # "plan", l.kind \notin kinds
    PROVE  /\ \A i \in 1..Len(b) :
                 Reached(Inserted(b, m, l), Shifted(m, i), kinds) <=> Reached(b, i, kinds)
           /\ Reached(Inserted(b, m, l), m + 1, kinds) <=> m \in 1..Len(b) /\ Reached(b, m, kinds)
<1> DEFINE new == Inserted(b, m, l)
           n == Len(b)
           S(i) == Shifted(m, i)
<1>1. /\ new[m + 1] = l
      /\ \A i \in 1..n : S(i) \in 1..n + 1 /\ S(i) # m + 1 /\ new[S(i)] = b[i]
      /\ \A k \in 1..n + 1 : k # m + 1 => \E i \in 1..n : k = S(i)
  BY InsertedBody
<1>2. n \in Nat /\ m \in Nat /\ m <= n
  OBVIOUS
<1>3. /\ \A i, j \in 1..n : S(i) < S(j) <=> i < j
      /\ \A i \in 1..n : S(i) \in Nat /\ S(i) > 0 /\ (i <= m => S(i) = i) /\ (S(i) <= m + 1 => i <= m)
  BY <1>2 DEF Shifted
<1> HIDE DEF new, n, S
<1>4. ASSUME NEW i \in 1..n, Reached(b, i, kinds)
      PROVE  Reached(new, S(i), kinds)
  <2>1. PICK j \in 1..i : b[j].kind = "plan" /\ \A k \in j + 1..i : b[k].kind \notin kinds
    BY <1>4 DEF Reached
  <2>2. j \in 1..n /\ (j = i \/ j < i)
    BY <1>2
  <2>3. S(j) \in 1..S(i) /\ new[S(j)].kind = "plan"
    <3>1. S(j) = S(i) \/ S(j) < S(i)
      BY <1>3, <2>2
    <3>2. S(j) \in Nat /\ S(i) \in Nat /\ S(j) > 0
      BY <1>3, <2>2
    <3> QED
      BY <1>1, <2>1, <2>2, <3>1, <3>2
  <2>4. ASSUME NEW k \in S(j) + 1..S(i)
        PROVE  new[k].kind \notin kinds
    <3>1. k \in 1..n + 1 /\ S(j) < k /\ k <= S(i)
      BY <1>1, <1>2, <1>3, <2>2
    <3>2. CASE k = m + 1
      BY <1>1, <3>2
    <3>3. CASE k # m + 1
      <4>1. PICK x \in 1..n : k = S(x)
        BY <1>1, <3>1, <3>3
      <4>2. j < x /\ ~(i < x)
        <5>1. S(j) < S(x) /\ ~(S(i) < S(x))
          BY <1>3, <3>1, <4>1
        <5> QED
          BY <1>3, <2>2, <5>1
      <4>3. x \in j + 1..i
        BY <1>2, <4>2
      <4> QED
        BY <1>1, <2>1, <4>1, <4>3
    <3> QED
      BY <3>2, <3>3
  <2> QED
    BY <2>3, <2>4 DEF Reached
<1>5. ASSUME NEW i \in 1..n, Reached(new, S(i), kinds)
      PROVE  Reached(b, i, kinds)
  <2>1. PICK j \in 1..S(i) : new[j].kind = "plan" /\ \A k \in j + 1..S(i) : new[k].kind \notin kinds
    BY <1>5 DEF Reached
  <2>2. j \in 1..n + 1 /\ j # m + 1
    BY <1>1, <1>2, <2>1
  <2>3. PICK x \in 1..n : j = S(x)
    BY <1>1, <2>2
  <2>4. x \in 1..i /\ b[x].kind = "plan"
    <3>1. ~(S(i) < S(x))
      BY <1>3, <2>3
    <3>2. ~(i < x)
      BY <1>3, <3>1
    <3> QED
      BY <1>1, <1>2, <2>1, <2>3, <3>2
  <2>5. ASSUME NEW k \in x + 1..i
        PROVE  b[k].kind \notin kinds
    <3>1. k \in 1..n /\ x < k /\ (k = i \/ k < i)
      BY <1>2
    <3>2. S(x) < S(k) /\ (S(k) = S(i) \/ S(k) < S(i)) /\ S(x) \in Nat /\ S(k) \in Nat /\ S(i) \in Nat
      BY <1>3, <3>1
    <3>3. S(k) \in j + 1..S(i)
      BY <2>3, <3>2
    <3> QED
      BY <1>1, <2>1, <3>1, <3>3
  <2> QED
    BY <2>4, <2>5 DEF Reached
<1>6. \A x \in 1..m : x \in 1..n /\ new[x] = b[x]
  <2> TAKE x \in 1..m
  <2>1. x \in 1..n /\ x <= m
    BY <1>2
  <2> QED
    BY <1>1, <1>3, <2>1
<1>7. ASSUME Reached(new, m + 1, kinds)
      PROVE  m \in 1..n /\ Reached(b, m, kinds)
  <2>1. PICK j \in 1..m + 1 : new[j].kind = "plan" /\ \A k \in j + 1..m + 1 : new[k].kind \notin kinds
    BY <1>7 DEF Reached
  <2>2. j # m + 1
    BY <1>1, <2>1
  <2>3. j \in 1..m /\ m \in 1..n /\ \A k \in j + 1..m : k \in 1..m /\ k \in j + 1..m + 1
    BY <1>2, <2>2
  <2> QED
    BY <1>6, <2>1, <2>3 DEF Reached
<1>8. ASSUME m \in 1..n, Reached(b, m, kinds)
      PROVE  Reached(new, m + 1, kinds)
  <2>1. PICK j \in 1..m : b[j].kind = "plan" /\ \A k \in j + 1..m : b[k].kind \notin kinds
    BY <1>8 DEF Reached
  <2>2. j \in 1..m + 1 /\ \A k \in j + 1..m + 1 : k = m + 1 \/ (k \in j + 1..m /\ k \in 1..m)
    BY <1>2
  <2> QED
    BY <1>1, <1>6, <2>1, <2>2 DEF Reached
<1> QED
  BY <1>4, <1>5, <1>7, <1>8 DEF new, n, S

\* a line put into a body moves the items below it down by one
LEMMA InsertedItems ==
    ASSUME NEW b \in Seq(Line), NEW m \in 0..Len(b), NEW l \in Line, l.kind \in {"item", "other"}
    PROVE  /\ \A i \in 1..Len(b) :
                 /\ Shifted(m, i) \in ItemLines(Inserted(b, m, l)) <=> i \in ItemLines(b)
                 /\ Stripped(Inserted(b, m, l), Shifted(m, i)) <=> Stripped(b, i)
           /\ Stripped(Inserted(b, m, l), m + 1) <=> m \in 1..Len(b) /\ Stripped(b, m)
           /\ m + 1 \in ItemLines(Inserted(b, m, l)) => l.kind = "item"
           /\ l.kind = "item" /\ m \in ItemLines(b) => m + 1 \in ItemLines(Inserted(b, m, l))
           /\ \A k \in ItemLines(Inserted(b, m, l)) :
                 \/ k = m + 1 /\ Inserted(b, m, l)[k] = l /\ l.kind = "item"
                 \/ \E i \in ItemLines(b) : /\ i \in 1..Len(b) /\ k = Shifted(m, i)
                                           /\ Inserted(b, m, l)[k] = b[i]
<1> DEFINE new == Inserted(b, m, l)
           n == Len(b)
           S(i) == Shifted(m, i)
           h2 == {"h2"}
<1>1. /\ DOMAIN new = 1..n + 1 /\ new[m + 1] = l
      /\ \A i \in 1..n : S(i) \in 1..n + 1 /\ new[S(i)] = b[i]
      /\ \A k \in 1..n + 1 : k # m + 1 => \E i \in 1..n : k = S(i)
  BY InsertedBody
<1>2. n \in Nat /\ m \in Nat /\ m <= n /\ DOMAIN b = 1..n
  OBVIOUS
<1>3. l.kind # "plan" /\ l.kind \notin HeadingKinds /\ l.kind \notin h2
  BY DEF HeadingKinds
<1>4. /\ \A i \in 1..n : Reached(new, S(i), HeadingKinds) <=> Reached(b, i, HeadingKinds)
      /\ Reached(new, m + 1, HeadingKinds) <=> m \in 1..n /\ Reached(b, m, HeadingKinds)
  BY <1>3, InsertedReached
<1>5. /\ \A i \in 1..n : Reached(new, S(i), h2) <=> Reached(b, i, h2)
      /\ Reached(new, m + 1, h2) <=> m \in 1..n /\ Reached(b, m, h2)
  <2> HIDE DEF h2
  <2> QED
    BY <1>3, InsertedReached
<1>6. \A c : \A i \in Nat : /\ Stripped(c, i) <=> Reached(c, i, h2)
                            /\ c[i].kind = "item" => (InPlanSection(c, i) <=> Reached(c, i, HeadingKinds))
  <2> TAKE c
  <2> TAKE i \in Nat
  <2>1. c[i].kind = "item" => c[i].kind \notin HeadingKinds
    BY DEF HeadingKinds
  <2> QED
    BY <2>1, ReachedSections
<1> HIDE DEF new, n, S, h2
<1>7. \A i \in 1..n : i \in Nat /\ S(i) \in Nat
  BY <1>1, <1>2
<1>8. \A i \in 1..n : /\ S(i) \in ItemLines(new) <=> i \in ItemLines(b)
                      /\ Stripped(new, S(i)) <=> Stripped(b, i)
  BY <1>1, <1>2, <1>4, <1>5, <1>6, <1>7 DEF ItemLines
<1>9. m + 1 \in Nat /\ m + 1 \in 1..n + 1
  BY <1>2
<1>10. Stripped(new, m + 1) <=> m \in 1..n /\ Stripped(b, m)
  BY <1>2, <1>5, <1>6, <1>9
<1>11. m + 1 \in ItemLines(new) => l.kind = "item"
  BY <1>1 DEF ItemLines
<1>12. ASSUME l.kind = "item", m \in ItemLines(b)
       PROVE  m + 1 \in ItemLines(new)
  <2>1. b[m].kind = "item" /\ ~InPlanSection(b, m)
    BY <1>12 DEF ItemLines
  <2>2. ~InPlanSection(new, m + 1)
    BY <1>1, <1>2, <1>4, <1>6, <1>9, <1>12, <2>1
  <2> QED
    BY <1>1, <1>9, <1>12, <2>2 DEF ItemLines
<1>13. ASSUME NEW k \in ItemLines(new), k # m + 1
       PROVE  \E i \in ItemLines(b) : i \in 1..n /\ k = S(i) /\ new[k] = b[i]
  <2>1. k \in 1..n + 1
    BY <1>1 DEF ItemLines
  <2>2. PICK i \in 1..n : k = S(i)
    BY <1>1, <1>13, <2>1
  <2> QED
    BY <1>1, <1>8, <2>2
<1> QED
  BY <1>1, <1>8, <1>10, <1>11, <1>12, <1>13 DEF new, n, S

-----------------------------------------------------------------------------
(***************************************************************************)
(* Closing.  A closed issue is one the hooks are through with, and between *)
(* the second check and the close only people change the items.            *)
(***************************************************************************)
OnlyFreshLeft == \A i \in Unticked(issue.body) : issue.body[i].text \in fresh

AllDone == eng.done = DOMAIN case.plan

CloseInv ==
    /\ issue.closed => At("end") /\ OnlyFreshLeft /\ AllDone
    /\ eng.pc \in {"recheck", "close"} => AllDone
    /\ At("close") => OnlyFreshLeft

\* people leave no item unticked that was ticked but those they touch
LEMMA PeopleKeepTicks ==
    ASSUME TypeOK, People, OnlyFreshLeft
    PROVE  OnlyFreshLeft'
<1> DEFINE b == issue.body
           n == Len(b)
<1>1. b \in Seq(Line) /\ n \in Nat /\ DOMAIN b = 1..n
  BY StateTypes
<1>2. ItemLines(b) \subseteq 1..n
  BY <1>1 DEF ItemLines
<1>3. \A i \in ItemLines(b) : b[i].on \/ b[i].text \in fresh
  BY DEF OnlyFreshLeft, Unticked
<1>4. fresh \subseteq fresh'
  BY PeopleSteps
<1>8. \/ issue'.body = b
      \/ \E i \in ItemLines(b) : issue'.body = Ticked(b, {i}) /\ b[i].text \in fresh'
      \/ \E i \in ItemLines(b) : issue'.body = Marked(b, {i}, FALSE) /\ b[i].text \in fresh'
      \/ \E i \in ItemLines(b), text \in fresh' \cap Texts : issue'.body = Inserted(b, i, Item(text))
      \/ issue'.body = Inserted(b, 0, OtherLine("other"))
  BY PeopleSteps
<1> HIDE DEF b
\* enough: every item of the new body is one of the old, as ticked, or is touched
<1>5. ASSUME NEW c, issue'.body = c,
             \A k \in ItemLines(c) : \/ c[k].text \in fresh'
                                     \/ \E i \in ItemLines(b) : c[k].text = b[i].text /\ (b[i].on => c[k].on)
      PROVE  OnlyFreshLeft'
  <2>1. \A k \in Unticked(c) : c[k].text \in fresh'
    BY <1>3, <1>4, <1>5 DEF Unticked
  <2> QED
    BY <1>5, <2>1 DEF OnlyFreshLeft
<1>6. ASSUME NEW i \in ItemLines(b), NEW on \in BOOLEAN, b[i].text \in fresh',
             issue'.body = Marked(b, {i}, on)
      PROVE  OnlyFreshLeft'
  <2> DEFINE c == Marked(b, {i}, on)
  <2>1. /\ ItemLines(c) = ItemLines(b)
        /\ \A k \in 1..n : c[k].text = b[k].text /\ (k \notin {i} => c[k] = b[k])
    BY <1>1, MarkedItems, MarkedBody
  <2>2. issue'.body = c
    BY <1>6
  <2> HIDE DEF c, b, n
  <2>3. ASSUME NEW k \in ItemLines(c)
        PROVE  \/ c[k].text \in fresh'
               \/ \E j \in ItemLines(b) : c[k].text = b[j].text /\ (b[j].on => c[k].on)
    BY <1>2, <1>6, <2>1
  <2> QED
    BY <1>5, <2>2, <2>3
<1>7. ASSUME NEW m \in 0..n, NEW l \in Line, l.kind = "other" \/ (l.kind = "item" /\ l.text \in fresh'),
             issue'.body = Inserted(b, m, l)
      PROVE  OnlyFreshLeft'
  <2> DEFINE c == Inserted(b, m, l)
  <2>1. \A k \in ItemLines(c) : \/ k = m + 1 /\ c[k] = l /\ l.kind = "item"
                                \/ \E i \in ItemLines(b) : /\ i \in 1..n /\ k = Shifted(m, i)
                                                           /\ c[k] = b[i]
    BY <1>1, <1>7, InsertedItems
  <2>2. issue'.body = c
    BY <1>7
  <2> HIDE DEF c, b, n
  <2>3. \A k \in ItemLines(c) : \/ c[k].text \in fresh'
                                \/ \E j \in ItemLines(b) : c[k].text = b[j].text /\ (b[j].on => c[k].on)
    BY <1>7, <2>1
  <2> QED
    BY <1>5, <2>2, <2>3
<1>9. \A i \in ItemLines(b) : \A on : b[i].text \in fresh' /\ on \in BOOLEAN
                                        /\ issue'.body = Marked(b, {i}, on) => OnlyFreshLeft'
  BY <1>6
<1>10. CASE issue'.body = b
  BY <1>5, <1>10
<1>11. CASE \E i \in ItemLines(b) : issue'.body = Ticked(b, {i}) /\ b[i].text \in fresh'
  <2>1. PICK i \in ItemLines(b) : issue'.body = Marked(b, {i}, TRUE) /\ b[i].text \in fresh'
    BY <1>11 DEF Ticked
  <2>2. \A on : on = TRUE => OnlyFreshLeft'
    BY <1>9, <2>1
  <2> QED
    BY <2>2
<1>12. CASE \E i \in ItemLines(b) : issue'.body = Marked(b, {i}, FALSE) /\ b[i].text \in fresh'
  <2>1. \A on : on = FALSE => OnlyFreshLeft'
    BY <1>9, <1>12
  <2> QED
    BY <2>1
<1>13. CASE \E i \in ItemLines(b), text \in fresh' \cap Texts : issue'.body = Inserted(b, i, Item(text))
  <2>1. PICK i \in ItemLines(b), text \in fresh' \cap Texts : issue'.body = Inserted(b, i, Item(text))
    BY <1>13
  <2> DEFINE l == Item(text)
  <2>2. l \in Line /\ l.kind = "item" /\ l.text \in fresh'
    BY LineTypes
  <2>3. i \in 0..n
    BY <1>1, <1>2
  <2>4. issue'.body = Inserted(b, i, l)
    BY <2>1
  <2> HIDE DEF l, b, n
  <2> QED
    BY <1>7, <2>2, <2>3, <2>4
<1>14. CASE issue'.body = Inserted(b, 0, OtherLine("other"))
  <2> DEFINE l == OtherLine("other")
             m == 0
  <2>1. l \in Line /\ l.kind = "other"
    BY LineTypes
  <2>2. m \in 0..n /\ issue'.body = Inserted(b, m, l)
        /\ (l.kind = "other" \/ (l.kind = "item" /\ l.text \in fresh'))
    BY <1>1, <1>14, <2>1
  <2> HIDE DEF l, m, b, n
  <2> QED
    BY <1>7, <2>1, <2>2
<1> QED
  BY <1>8, <1>10, <1>11, <1>12, <1>13, <1>14

LEMMA CloseStep ==
    ASSUME TypeOK, CloseInv, [Next]_vars
    PROVE  CloseInv'
<1>1. issue \in Issue /\ eng \in Engine /\ issue.body \in Seq(Line) /\ eng.read \in Seq(Line)
  BY StateTypes
<1>2. CASE PlanFetch \/ (\E ok \in BOOLEAN : SubTaskResolved(ok)) \/ LoopEnds \/ LoadMapping \/ SyncLoad
  <2>1. issue' = issue /\ ~At("end")
    BY <1>2 DEF PlanFetch, SubTaskResolved, LoopEnds, LoadMapping, SyncLoad, ReadFails, At
  <2>2. eng'.pc \notin {"recheck", "close"}
    BY <1>1, <1>2 DEF PlanFetch, SubTaskResolved, LoopEnds, LoadMapping, SyncLoad, ReadFails, Goto,
      AfterSync, Engine
  <2> QED
    BY <2>1, <2>2 DEF CloseInv, At
<1>3. CASE PlanWrite \/ SyncEdit
  <2>1. ~At("end") /\ eng'.pc \notin {"recheck", "close"}
    BY <1>1, <1>3 DEF PlanWrite, SyncEdit, AfterSync, Engine, At
  <2>2. \E b \in Seq(Line) : Write([issue EXCEPT !.body = b])
    <3>1. CASE PlanWrite
      BY <1>1, <3>1, StateTypes, WithPlanBody DEF PlanWrite
    <3>2. CASE SyncEdit
      BY <1>1, <3>2, TickedBody DEF SyncEdit
    <3> QED
      BY <1>3, <3>1, <3>2
  <2>3. PICK b \in Seq(Line) : Write([issue EXCEPT !.body = b])
    BY <2>2
  <2> DEFINE new == [issue EXCEPT !.body = b]
  <2>4. new \in Issue /\ new.closed = issue.closed /\ Write(new)
    BY <1>1, <2>3, IssueFields
  <2> HIDE DEF new
  <2>5. issue'.closed = issue.closed
    BY <2>4, WriteTypes
  <2> QED
    BY <2>1, <2>5 DEF CloseInv, At
<1>4. CASE Assess \/ CloseRecheck
  <2>1. /\ issue' = issue /\ ~At("end") /\ eng'.done = eng.done /\ case' = case
        /\ eng'.pc \in {"recheck", "close", "end"}
        /\ eng'.pc = "recheck" => AllDone
        /\ eng'.pc = "close" => AllDone /\ Unticked(issue.body) = {}
    BY <1>1, <1>4 DEF Assess, CloseRecheck, ReadFails, Goto, At, AllDone, CanAutoClose, CloseInv,
      Engine
  <2>2. eng'.pc = "close" => OnlyFreshLeft'
    BY <2>1 DEF OnlyFreshLeft
  <2> QED
    BY <2>1, <2>2 DEF CloseInv, At, AllDone
<1>5. CASE Close
  <2> DEFINE new == [issue EXCEPT !.closed = TRUE]
  <2>1. new \in Issue /\ new.body = issue.body
    BY <1>1, IssueFields
  <2>2. Write(new) /\ case' = case /\ fresh' = fresh
    BY <1>5 DEF Close
  <2> HIDE DEF new
  <2>3. issue' = issue \/ issue' = new
    BY <2>1, <2>2, WriteTypes
  <2>4. AllDone /\ OnlyFreshLeft /\ issue'.body = issue.body
    BY <1>5, <2>1, <2>3 DEF CloseInv, Close, At
  <2>5. eng'.pc = "end" /\ eng'.done = eng.done
    BY <1>1, <1>5 DEF Close, Goto, Engine
  <2>6. OnlyFreshLeft'
    BY <2>2, <2>4 DEF OnlyFreshLeft
  <2> QED
    BY <2>2, <2>4, <2>5, <2>6 DEF CloseInv, At, AllDone
<1>6. CASE People
  <2>1. eng' = eng /\ case' = case /\ issue'.closed = issue.closed
    BY <1>6, PeopleSteps
  <2>2. OnlyFreshLeft => OnlyFreshLeft'
    BY <1>6, PeopleKeepTicks
  <2> QED
    BY <2>1, <2>2 DEF CloseInv, At, AllDone
<1>7. CASE Restart
  <2>1. issue' = issue /\ ~At("end") /\ eng'.pc = "fetch"
    BY <1>1, <1>7 DEF Restart, Engine
  <2> QED
    BY <2>1 DEF CloseInv, At
<1>8. CASE Rerun
  <2>1. issue' = issue /\ ~issue.closed /\ eng'.pc = "fetch"
    BY <1>1, <1>8, StateTypes, PlannedTypes DEF Rerun
  <2> QED
    BY <2>1 DEF CloseInv, At
<1>9. CASE UNCHANGED vars
  BY <1>9 DEF vars, CloseInv, At, AllDone, OnlyFreshLeft
<1> QED
  BY <1>2, <1>3, <1>4, <1>5, <1>6, <1>7, <1>8, <1>9 DEF Next, Hook

\* An issue is closed only with every item ticked, but for those people unticked or added
\* after CloseIssue looked, and every sub-task of the closing task done, and stays so,
\* whatever calls fail and whatever people and later tasks do to it (AssessCloseReadiness,
\* CloseIssue).
THEOREM ClosedIsDone == Spec => []ClosedMeansDone
<1>1. Init => CloseInv
  <2> SUFFICES ASSUME Init PROVE CloseInv
    OBVIOUS
  <2>1. issue.closed = FALSE /\ eng.pc = "fetch"
    BY DEF Init, Planned
  <2> QED
    BY <2>1 DEF CloseInv, At
<1>2. CloseInv => ClosedMeansDone
  BY DEF CloseInv, ClosedMeansDone, OnlyFreshLeft, AllDone
<1> QED
  BY <1>1, <1>2, CloseStep, IssueTypeCorrect, PTL DEF Spec

-----------------------------------------------------------------------------
(***************************************************************************)
(* The checklist.  An edit that keeps the items keeps their order: it maps *)
(* the item lines of the body one to one, upwards, on those of the other.  *)
(***************************************************************************)

\* a map of S onto T that keeps the order
KeepsOrder(f, S, T) ==
    /\ f \in [S -> T]
    /\ \A i, j \in S : i < j => f[i] < f[j]
    /\ \A t \in T : \E i \in S : f[i] = t

\* it takes the k-th of S to the k-th of T
LEMMA OrderedMap ==
    ASSUME NEW S, S \subseteq Nat, IsFiniteSet(S), NEW T, T \subseteq Nat, IsFiniteSet(T),
           NEW f, KeepsOrder(f, S, T)
    PROVE  /\ Cardinality(S) = Cardinality(T)
           /\ \A k \in 1..Cardinality(S) : f[NthLine(S, k)] = NthLine(T, k)
<1>0. /\ f \in [S -> T] /\ \A i, j \in S : i < j => f[i] < f[j]
      /\ \A t \in T : \E i \in S : f[i] = t
  BY DEF KeepsOrder
<1>1. \A i, j \in S : (i <= j <=> f[i] <= f[j]) /\ (f[i] = f[j] => i = j)
  <2> TAKE i, j \in S
  <2>1. i \in Nat /\ j \in Nat /\ f[i] \in Nat /\ f[j] \in Nat
    BY <1>0
  <2>2. (i < j => f[i] < f[j]) /\ (j < i => f[j] < f[i]) /\ (i = j => f[i] = f[j])
    BY <1>0
  <2> QED
    BY <2>1, <2>2
<1>2. f \in Bijection(S, T)
  BY <1>0, <1>1 DEF Bijection, Injection, Surjection, IsInjective
<1>3. Cardinality(S) = Cardinality(T)
  <2>1. ExistsBijection(S, T)
    BY <1>2 DEF ExistsBijection
  <2> QED
    BY <2>1, FS_Bijection
<1>4. ASSUME NEW i \in S
      PROVE  Rank(T, f[i]) = Rank(S, i)
  <2> DEFINE A == {j \in S : j <= i}
             B == {t \in T : t <= f[i]}
             g == [j \in A |-> f[j]]
  <2>1. g \in [A -> B]
    BY <1>0, <1>1
  <2>2. \A j, k \in A : g[j] = g[k] => j = k
    BY <1>1
  <2>3. \A t \in B : \E j \in A : g[j] = t
    <3> TAKE t \in B
    <3>1. PICK j \in S : f[j] = t
      BY <1>0
    <3>2. j \in A
      BY <1>1, <3>1
    <3> QED
      BY <3>1, <3>2
  <2>4. IsFiniteSet(A)
    <3>1. A \in SUBSET S
      OBVIOUS
    <3> HIDE DEF A
    <3> QED
      BY <3>1, FS_Subset
  <2>5. Rank(T, f[i]) = Cardinality(B) /\ Rank(S, i) = Cardinality(A)
    BY DEF Rank
  <2> HIDE DEF A, B, g
  <2>6. ExistsBijection(A, B)
    BY <2>1, <2>2, <2>3 DEF ExistsBijection, Bijection, Injection, Surjection, IsInjective
  <2> QED
    BY <2>4, <2>5, <2>6, FS_Bijection
<1>5. ASSUME NEW k \in 1..Cardinality(S)
      PROVE  f[NthLine(S, k)] = NthLine(T, k)
  <2> DEFINE i == NthLine(S, k)
  <2>1. i \in S /\ Rank(S, i) = k
    BY NthLineExists
  <2> HIDE DEF i
  <2>2. f[i] \in T /\ Rank(T, f[i]) = k
    BY <1>0, <1>4, <2>1
  <2>3. \A t \in T : NthLine(T, Rank(T, t)) = t
    BY NthLineOrder
  <2>4. NthLine(T, Rank(T, f[i])) = f[i]
    BY <2>2, <2>3
  <2> QED
    BY <2>2, <2>4 DEF i
<1> QED
  BY <1>3, <1>5

LEMMA ItemLinesFinite ==
    ASSUME NEW b \in Seq(Line)
    PROVE  /\ ItemLines(b) \subseteq Nat /\ IsFiniteSet(ItemLines(b))
           /\ ItemLines(b) \subseteq 1..Len(b) /\ Cardinality(ItemLines(b)) \in Nat
<1>1. ItemLines(b) \in SUBSET DOMAIN b /\ DOMAIN b = 1..Len(b)
  BY DEF ItemLines
<1> QED
  BY <1>1, KeptBody

\* the items of one body that people have not touched are those of the other, in their order
Maps(f, old, new, touched) ==
    /\ KeepsOrder(f, Settled(old, touched), Settled(new, touched))
    /\ \A i \in Settled(old, touched) : SameItem(new[f[i]], old[i])

Alike(old, new, touched) == \E f : Maps(f, old, new, touched)

LEMMA AlikeKeeps ==
    ASSUME NEW b \in Seq(Line), NEW c \in Seq(Line), NEW touched, Alike(b, c, touched)
    PROVE  KeepsItems(c, b, touched)
<1> DEFINE S == Settled(b, touched)
           T == Settled(c, touched)
<1>1. S \subseteq Nat /\ IsFiniteSet(S) /\ T \subseteq Nat /\ IsFiniteSet(T)
  <2>1. /\ S \in SUBSET ItemLines(b) /\ T \in SUBSET ItemLines(c)
    BY DEF Settled
  <2>2. /\ ItemLines(b) \subseteq Nat /\ IsFiniteSet(ItemLines(b))
        /\ ItemLines(c) \subseteq Nat /\ IsFiniteSet(ItemLines(c))
    BY ItemLinesFinite
  <2> HIDE DEF S, T
  <2> QED
    BY <2>1, <2>2, FS_Subset
<1>2. PICK f : KeepsOrder(f, S, T) /\ \A i \in S : SameItem(c[f[i]], b[i])
  BY DEF Alike, Maps
<1>3. KeepsItems(c, b, touched) <=>
        /\ Cardinality(T) = Cardinality(S)
        /\ \A k \in 1..Cardinality(S) : SameItem(c[NthLine(T, k)], b[NthLine(S, k)])
  BY DEF KeepsItems
<1> HIDE DEF S, T
<1>4. /\ Cardinality(S) = Cardinality(T)
      /\ \A k \in 1..Cardinality(S) : f[NthLine(S, k)] = NthLine(T, k)
  BY <1>1, <1>2, OrderedMap
<1>5. \A k \in 1..Cardinality(S) : NthLine(S, k) \in S
  BY <1>1, NthLineExists
<1>6. \A k \in 1..Cardinality(S) : SameItem(c[NthLine(T, k)], b[NthLine(S, k)])
  BY <1>2, <1>4, <1>5
<1> QED
  BY <1>3, <1>4, <1>6

LEMMA AlikeSelf ==
    ASSUME NEW b, NEW touched
    PROVE  Alike(b, b, touched)
<1> DEFINE S == Settled(b, touched)
           f == [i \in S |-> i]
<1>1. KeepsOrder(f, S, S) /\ \A i \in S : f[i] = i
  <2> HIDE DEF S
  <2> QED
    BY DEF KeepsOrder
<1>2. \A i \in S : SameItem(b[f[i]], b[i])
  BY <1>1 DEF SameItem
<1> HIDE DEF f
<1> QED
  BY <1>1, <1>2 DEF Alike, Maps

LEMMA AlikeTrans ==
    ASSUME NEW a, NEW b, NEW c, NEW touched, Alike(a, b, touched), Alike(b, c, touched)
    PROVE  Alike(a, c, touched)
<1> DEFINE A == Settled(a, touched)
           B == Settled(b, touched)
           C == Settled(c, touched)
<1>1. PICK f : KeepsOrder(f, A, B) /\ \A i \in A : SameItem(b[f[i]], a[i])
  BY DEF Alike, Maps
<1>2. PICK g : KeepsOrder(g, B, C) /\ \A i \in B : SameItem(c[g[i]], b[i])
  BY DEF Alike, Maps
<1> DEFINE h == [i \in A |-> g[f[i]]]
<1> HIDE DEF A, B, C
<1>3. /\ f \in [A -> B] /\ \A i, j \in A : i < j => f[i] < f[j]
      /\ \A t \in B : \E i \in A : f[i] = t
      /\ g \in [B -> C] /\ \A i, j \in B : i < j => g[i] < g[j]
      /\ \A t \in C : \E i \in B : g[i] = t
  BY <1>1, <1>2 DEF KeepsOrder
<1>4. h \in [A -> C] /\ \A i \in A : h[i] = g[f[i]] /\ f[i] \in B
  BY <1>3
<1> HIDE DEF h
<1>5. KeepsOrder(h, A, C)
  BY <1>3, <1>4 DEF KeepsOrder
<1>6. \A i \in A : SameItem(c[h[i]], a[i])
  BY <1>1, <1>2, <1>4 DEF SameItem
<1> QED
  BY <1>5, <1>6 DEF Alike, Maps, A, C

LEMMA AlikeMore ==
    ASSUME NEW b, NEW c, NEW touched, NEW more, touched \subseteq more, Alike(b, c, touched)
    PROVE  Alike(b, c, more)
<1> DEFINE S == Settled(b, touched)
           T == Settled(c, touched)
           U == Settled(b, more)
           V == Settled(c, more)
<1>1. PICK f : KeepsOrder(f, S, T) /\ \A i \in S : SameItem(c[f[i]], b[i])
  BY DEF Alike, Maps
<1>2. /\ U = {i \in S : b[i].text \notin more} /\ V = {i \in T : c[i].text \notin more}
  BY DEF Settled
<1> DEFINE g == [i \in U |-> f[i]]
<1> HIDE DEF S, T, U, V
<1>3. /\ f \in [S -> T] /\ \A i, j \in S : i < j => f[i] < f[j]
      /\ \A t \in T : \E i \in S : f[i] = t
      /\ \A i \in S : c[f[i]].text = b[i].text
  BY <1>1 DEF KeepsOrder, SameItem
<1>4. g \in [U -> V] /\ \A i \in U : g[i] = f[i] /\ i \in S
  BY <1>2, <1>3
<1> HIDE DEF g
<1>5. KeepsOrder(g, U, V)
  BY <1>2, <1>3, <1>4 DEF KeepsOrder
<1>6. \A i \in U : SameItem(c[g[i]], b[i])
  BY <1>1, <1>4
<1> QED
  BY <1>5, <1>6 DEF Alike, Maps, U, V

\* marking items people touched, or ticking any, keeps the others
LEMMA MarkedAlike ==
    ASSUME NEW b \in Seq(Line), NEW lines, NEW on \in BOOLEAN, NEW touched
    PROVE  /\ on = TRUE => Alike(b, Marked(b, lines, on), touched)
           /\ (\A i \in lines : b[i].text \in touched)
                => /\ Alike(b, Marked(b, lines, on), touched)
                   /\ Alike(Marked(b, lines, on), b, touched)
<1> DEFINE c == Marked(b, lines, on)
           S == Settled(b, touched)
           f == [i \in S |-> i]
<1>1. /\ ItemLines(c) = ItemLines(b)
      /\ \A i \in DOMAIN b : /\ c[i].text = b[i].text /\ c[i].glued = b[i].glued
                             /\ i \in lines => c[i].on = on
                             /\ i \notin lines => c[i] = b[i]
  BY MarkedItems, MarkedBody
<1>2. \A i \in ItemLines(b) : i \in DOMAIN b
  BY DEF ItemLines
<1> HIDE DEF c
<1>3. Settled(c, touched) = S /\ S \subseteq ItemLines(b) /\ \A i \in S : b[i].text \notin touched
  BY <1>1, <1>2 DEF Settled
<1> HIDE DEF S
<1>4. KeepsOrder(f, S, S) /\ \A i \in S : f[i] = i
  BY DEF KeepsOrder
<1> HIDE DEF f
<1>5. ASSUME on = TRUE
      PROVE  Alike(b, c, touched)
  <2>1. \A i \in S : SameItem(c[i], b[i])
    BY <1>1, <1>2, <1>3, <1>5 DEF SameItem
  <2>2. \A i \in S : SameItem(c[f[i]], b[i])
    BY <1>4, <2>1
  <2> QED
    BY <1>3, <1>4, <2>2 DEF Alike, Maps, S
<1>6. ASSUME \A i \in lines : b[i].text \in touched
      PROVE  Alike(b, c, touched) /\ Alike(c, b, touched)
  <2>1. \A i \in S : c[i] = b[i]
    BY <1>1, <1>2, <1>3, <1>6
  <2>2. \A i \in S : SameItem(c[f[i]], b[i]) /\ SameItem(b[f[i]], c[i])
    BY <1>4, <2>1 DEF SameItem
  <2> QED
    BY <1>3, <1>4, <2>2 DEF Alike, Maps, S
<1> QED
  BY <1>5, <1>6 DEF c

\* so does a line that is no item, or one people touched
LEMMA InsertedAlike ==
    ASSUME NEW b \in Seq(Line), NEW m \in 0..Len(b), NEW l \in Line, NEW touched,
           l.kind = "other" \/ (l.kind = "item" /\ l.text \in touched)
    PROVE  /\ Alike(b, Inserted(b, m, l), touched)
           /\ Alike(Inserted(b, m, l), b, touched)
<1> DEFINE c == Inserted(b, m, l)
           n == Len(b)
           S == Settled(b, touched)
           T == Settled(c, touched)
           f == [i \in S |-> Shifted(m, i)]
           g == [k \in T |-> IF k <= m THEN k ELSE k - 1]
<1>1. /\ \A i \in ItemLines(b) : i \in 1..n => Shifted(m, i) \in ItemLines(c)
      /\ \A k \in ItemLines(c) : \/ k = m + 1 /\ c[k] = l /\ l.kind = "item"
                                 \/ \E i \in ItemLines(b) : /\ i \in 1..n /\ k = Shifted(m, i)
                                                            /\ c[k] = b[i]
      /\ \A i \in 1..n : c[Shifted(m, i)] = b[i]
  <2>1. l.kind \in {"item", "other"}
    OBVIOUS
  <2>2. /\ \A i \in 1..n : Shifted(m, i) \in ItemLines(c) <=> i \in ItemLines(b)
        /\ \A k \in ItemLines(c) : \/ k = m + 1 /\ c[k] = l /\ l.kind = "item"
                                   \/ \E i \in ItemLines(b) : /\ i \in 1..n /\ k = Shifted(m, i)
                                                              /\ c[k] = b[i]
    BY <2>1, InsertedItems
  <2>3. \A i \in 1..n : c[Shifted(m, i)] = b[i]
    BY InsertedBody
  <2> HIDE DEF c, n
  <2> QED
    BY <2>2, <2>3
<1>2. n \in Nat /\ m \in Nat /\ ItemLines(b) \subseteq 1..n
  BY ItemLinesFinite
<1> HIDE DEF c, n
<1>3. \A i \in S : i \in 1..n /\ i \in Nat /\ Shifted(m, i) \in T /\ c[Shifted(m, i)] = b[i]
  BY <1>1, <1>2 DEF Settled
<1>4. \A k \in T : \E i \in S : k = Shifted(m, i)
  BY <1>1 DEF Settled
<1> HIDE DEF S, T
<1>5. /\ \A i, j \in S : Shifted(m, i) < Shifted(m, j) <=> i < j
      /\ \A i \in S : (IF Shifted(m, i) <= m THEN Shifted(m, i) ELSE Shifted(m, i) - 1) = i
  BY <1>2, <1>3 DEF Shifted
<1>6. f \in [S -> T] /\ \A i \in S : f[i] = Shifted(m, i)
  BY <1>3
<1>7. g \in [T -> S] /\ \A i \in S : g[Shifted(m, i)] = i
  <2>1. \A i \in S : g[Shifted(m, i)] = i
    BY <1>3, <1>5
  <2>2. \A k \in T : g[k] \in S
    BY <1>4, <2>1
  <2>3. g = [k \in T |-> g[k]]
    OBVIOUS
  <2> HIDE DEF g
  <2> QED
    BY <2>1, <2>2, <2>3
<1> HIDE DEF f, g
<1>8. KeepsOrder(f, S, T)
  BY <1>4, <1>5, <1>6 DEF KeepsOrder
<1>9. KeepsOrder(g, T, S)
  <2>1. \A i, j \in T : i < j => g[i] < g[j]
    <3> TAKE i, j \in T
    <3>1. PICK x \in S : i = Shifted(m, x)
      BY <1>4
    <3>2. PICK y \in S : j = Shifted(m, y)
      BY <1>4
    <3> QED
      BY <1>5, <1>7, <3>1, <3>2
  <2>2. \A t \in S : \E k \in T : g[k] = t
    BY <1>3, <1>7
  <2> QED
    BY <1>7, <2>1, <2>2 DEF KeepsOrder
<1>10. \A i \in S : SameItem(c[f[i]], b[i])
  BY <1>3, <1>6 DEF SameItem
<1>11. \A k \in T : SameItem(b[g[k]], c[k])
  BY <1>3, <1>4, <1>7 DEF SameItem
<1>12. Alike(b, c, touched)
  BY <1>8, <1>10 DEF Alike, Maps, S, T
<1>13. Alike(c, b, touched)
  BY <1>9, <1>11 DEF Alike, Maps, S, T
<1> QED
  BY <1>12, <1>13 DEF c

\* a plan written into a body: what stays of the items, and no item under a plan heading
LEMMA PlanItems ==
    ASSUME case \in Issues, NEW b \in Seq(Line)
    PROVE  LET S == Survivors(b)
               new == WithPlan(b)
           IN  /\ \A k \in ItemLines(new) : /\ k \in 1..Cardinality(S)
                                            /\ NthLine(S, k) \in ItemLines(b) \cap S
                                            /\ new[k].text = b[NthLine(S, k)].text
                                            /\ new[k].on = b[NthLine(S, k)].on
                                            /\ ~TakesHeading(b, NthLine(S, k))
                                                 => new[k] = b[NthLine(S, k)]
               /\ \A i \in ItemLines(b) \cap S : Rank(S, i) \in ItemLines(new)
               /\ Anchored(new) /\ NothingLost(new)
               /\ \A k \in DOMAIN new : new[k].kind = "item" => k \in ItemLines(new)
<1> DEFINE S == Survivors(b)
           n == Cardinality(S)
           new == WithPlan(b)
           c == WithHeadings(b)
<1>0. /\ n \in Nat /\ new \in Seq(Line) /\ Len(new) = n + 1 + Len(case.plan)
      /\ \A k \in 1..n : NthLine(S, k) \in S /\ new[k] = c[NthLine(S, k)]
      /\ new[n + 1].kind = "plan"
      /\ \A k \in 1..Len(new) : k > n + 1 => new[k].kind = "other"
  BY WithPlanBody
<1>h. /\ \A i \in DOMAIN b : /\ c[i].kind = b[i].kind /\ c[i].text = b[i].text
                             /\ c[i].on = b[i].on
                             /\ ~TakesHeading(b, i) => c[i] = b[i]
      /\ S \in SUBSET DOMAIN b
  BY HeadingsBody DEF Survivors
<1>1. /\ n \in Nat /\ new \in Seq(Line) /\ Len(new) = n + 1 + Len(case.plan)
      /\ \A k \in 1..n : /\ NthLine(S, k) \in S /\ NthLine(S, k) \in DOMAIN b
                         /\ new[k].kind = b[NthLine(S, k)].kind
                         /\ new[k].text = b[NthLine(S, k)].text
                         /\ new[k].on = b[NthLine(S, k)].on
                         /\ ~TakesHeading(b, NthLine(S, k)) => new[k] = b[NthLine(S, k)]
      /\ new[n + 1].kind = "plan"
      /\ \A k \in 1..Len(new) : k > n + 1 => new[k].kind = "other"
  <2> HIDE DEF S, n, new, c
  <2> QED
    BY <1>0, <1>h
<1> HIDE DEF c
<1>2. /\ DOMAIN b = 1..Len(b) /\ Len(b) \in Nat /\ DOMAIN new = 1..Len(new)
      /\ Len(new) \in Nat
      /\ Len(case.plan) \in Nat /\ 1..n \subseteq 1..Len(new)
  <2>1. Len(case.plan) \in Nat
    BY CaseTypes
  <2> QED
    BY <1>1, <2>1
<1>3. S \subseteq DOMAIN b /\ S \subseteq Nat /\ IsFiniteSet(S) /\ \A i \in S : ~Stripped(b, i)
  <2>1. S \in SUBSET DOMAIN b /\ \A i \in S : ~Stripped(b, i)
    BY DEF Survivors
  <2> HIDE DEF S
  <2> QED
    BY <2>1, KeptBody
<1> HIDE DEF S, n, new
<1>4. \A i \in S : b[i].kind # "plan"
  <2> SUFFICES ASSUME NEW i \in S, b[i].kind = "plan" PROVE FALSE
    OBVIOUS
  <2>1. i \in 1..i /\ \A k \in i + 1..i : b[k].kind # "h2"
    BY <1>2, <1>3
  <2> QED
    BY <1>3, <2>1 DEF Stripped
<1>5. \A k \in 1..n : new[k].kind # "plan"
  BY <1>1, <1>4
<1>6. \A k \in 1..n : ~InPlanSection(new, k) /\ ~Stripped(new, k)
  <2> TAKE k \in 1..n
  <2>1. 1..k \subseteq 1..n /\ 1..k - 1 \subseteq 1..n
    BY <1>1
  <2> QED
    BY <1>5, <2>1 DEF InPlanSection, Stripped
<1>7. \A i \in S : ~InPlanSection(b, i)
  <2> SUFFICES ASSUME NEW i \in S, InPlanSection(b, i) PROVE FALSE
    OBVIOUS
  <2>1. PICK j \in 1..i - 1 : b[j].kind = "plan" /\ \A k \in j + 1..i : ~IsHeading(b[k])
    BY DEF InPlanSection
  <2>2. i \in Nat /\ j \in 1..i /\ \A k \in j + 1..i : b[k].kind # "h2"
    BY <1>3, <2>1 DEF IsHeading
  <2>3. Stripped(b, i)
    BY <2>1, <2>2 DEF Stripped
  <2> QED
    BY <1>3, <2>3
<1>8. \A k \in DOMAIN new : new[k].kind = "item" => k \in 1..n
  <2> SUFFICES ASSUME NEW k \in 1..Len(new), new[k].kind = "item" PROVE k \in 1..n
    BY <1>2
  <2>1. ~(k > n + 1)
    <3>1. new[k].kind # "other"
      OBVIOUS
    <3> QED
      BY <1>1, <3>1
  <2>2. k # n + 1
    <3>1. new[k].kind # "plan"
      OBVIOUS
    <3> QED
      BY <1>1, <3>1
  <2> QED
    BY <1>1, <2>1, <2>2
<1>9. ItemLines(new) = {k \in 1..n : b[NthLine(S, k)].kind = "item"}
  <2>1. \A k \in 1..n : k \in DOMAIN new
    BY <1>2
  <2> QED
    BY <1>1, <1>6, <1>8, <2>1 DEF ItemLines
<1>10. \A k \in ItemLines(new) : /\ k \in 1..n /\ NthLine(S, k) \in ItemLines(b) \cap S
                                 /\ new[k].text = b[NthLine(S, k)].text
                                 /\ new[k].on = b[NthLine(S, k)].on
                                 /\ ~TakesHeading(b, NthLine(S, k)) => new[k] = b[NthLine(S, k)]
  <2> TAKE k \in ItemLines(new)
  <2>1. k \in 1..n /\ b[NthLine(S, k)].kind = "item"
    BY <1>9
  <2>2. NthLine(S, k) \in S
    BY <1>1, <2>1
  <2>3. NthLine(S, k) \in ItemLines(b)
    BY <1>3, <1>7, <2>1, <2>2 DEF ItemLines
  <2> QED
    BY <1>1, <2>1, <2>2, <2>3
<1>11. ASSUME NEW i \in ItemLines(b) \cap S
       PROVE  Rank(S, i) \in ItemLines(new)
  <2>1. Rank(S, i) \in 1..n /\ NthLine(S, Rank(S, i)) = i
    <3>1. \A j \in S : Rank(S, j) \in 1..Cardinality(S)
      BY <1>3, RanksOrder
    <3>2. \A j \in S : NthLine(S, Rank(S, j)) = j
      BY <1>3, NthLineOrder
    <3> QED
      BY <3>1, <3>2 DEF n
  <2>2. b[i].kind = "item"
    BY DEF ItemLines
  <2> QED
    BY <1>9, <2>1, <2>2
<1>12. Anchored(new)
  <2> SUFFICES ASSUME NEW i \in ItemLines(new), NEW j \in 1..i PROVE ~Stripped(new, j)
    BY DEF Anchored
  <2>1. i \in 1..n
    BY <1>9
  <2>2. j \in 1..n
    BY <1>1, <2>1
  <2> QED
    BY <1>6, <2>2
<1>13. \A k \in DOMAIN new : new[k].kind = "item" => k \in ItemLines(new)
  BY <1>6, <1>8 DEF ItemLines
<1>14. \A k \in 1..Len(new) : k >= n + 1 => Stripped(new, k)
  <2> SUFFICES ASSUME NEW k \in 1..Len(new), k >= n + 1 PROVE Stripped(new, k)
    OBVIOUS
  <2>0. n \in Nat /\ Len(new) \in Nat
    BY <1>1, <1>2
  <2>1. n + 1 \in 1..k
    BY <2>0
  <2>2. \A x \in (n + 1) + 1..k : x \in 1..Len(new) /\ x > n + 1
    BY <2>0
  <2>3. \A x \in (n + 1) + 1..k : new[x].kind # "h2"
    <3> TAKE x \in (n + 1) + 1..k
    <3>1. new[x].kind = "other"
      BY <1>1, <2>2
    <3> QED
      BY <3>1
  <2> QED
    BY <1>1, <2>1, <2>3 DEF Stripped
<1>15. NothingLost(new)
  <2> SUFFICES ASSUME NEW k \in ItemLines(new) PROVE ~Stripped(new, k) /\ ~TakesHeading(new, k)
    BY DEF NothingLost
  <2>1. k \in 1..n
    BY <1>10
  <2>2. ASSUME TakesHeading(new, k)
        PROVE  FALSE
    <3>1. PICK j \in k + 1..Len(new) : ~Stripped(new, j)
      BY <2>2 DEF TakesHeading
    <3>2. Stripped(new, k + 1)
      BY <2>2 DEF TakesHeading
    <3>3. ~(k + 1 \in 1..n)
      BY <1>6, <3>2
    <3>4. j \in 1..Len(new) /\ j >= n + 1
      <4>1. n \in Nat /\ Len(new) \in Nat
        BY <1>1, <1>2
      <4> QED
        BY <2>1, <3>3, <4>1
    <3> QED
      BY <1>14, <3>1, <3>4
  <2> QED
    BY <1>6, <2>1, <2>2
<1> QED
  BY <1>10, <1>11, <1>12, <1>13, <1>15 DEF S, n, new

\* what stays is as good as the body it was taken from, when no item is behind a plan or
\* takes a heading
LEMMA PlanAlike ==
    ASSUME case \in Issues, NEW b \in Seq(Line), NothingLost(b), NEW touched
    PROVE  Alike(b, WithPlan(b), touched)
<1> DEFINE S == Survivors(b)
           new == WithPlan(b)
           U == Settled(b, touched)
           V == Settled(new, touched)
           f == [i \in U |-> Rank(S, i)]
<1>1. /\ \A k \in ItemLines(new) : /\ k \in 1..Cardinality(S)
                                   /\ NthLine(S, k) \in ItemLines(b) \cap S
                                   /\ new[k].text = b[NthLine(S, k)].text
                                   /\ ~TakesHeading(b, NthLine(S, k)) => new[k] = b[NthLine(S, k)]
      /\ \A i \in ItemLines(b) \cap S : Rank(S, i) \in ItemLines(new)
  BY PlanItems
<1>2. ItemLines(b) \subseteq S
  <2> SUFFICES ASSUME NEW i \in ItemLines(b) PROVE i \in S
    OBVIOUS
  <2>1. i \in Nat /\ i \in DOMAIN b /\ b[i].kind = "item" /\ ~Stripped(b, i)
    BY ItemLinesFinite DEF ItemLines, NothingLost
  <2>2. ~Swallowed(b, i)
    BY <2>1, SwallowedHeading
  <2> QED
    BY <2>1, <2>2 DEF Survivors
<1>3. S \subseteq Nat /\ IsFiniteSet(S)
  <2>1. S \in SUBSET DOMAIN b
    BY DEF Survivors
  <2> HIDE DEF S
  <2> QED
    BY <2>1, KeptBody
<1>4. \A i \in ItemLines(b) : ~TakesHeading(b, i)
  BY DEF NothingLost
<1>5. /\ \A i, k \in S : i < k => Rank(S, i) < Rank(S, k)
      /\ \A i \in S : NthLine(S, Rank(S, i)) = i
      /\ \A k \in 1..Cardinality(S) : Rank(S, NthLine(S, k)) = k
  BY <1>3, RanksOrder, NthLineOrder, NthLineExists
<1>6. \A i \in U : i \in ItemLines(b) /\ b[i].text \notin touched
  BY DEF Settled
<1>7. V = {k \in ItemLines(new) : new[k].text \notin touched}
  BY DEF Settled
<1>8. U = {i \in ItemLines(b) : b[i].text \notin touched}
  BY DEF Settled
<1> HIDE DEF S, new, U, V
<1>9. \A i \in U : Rank(S, i) \in V /\ new[Rank(S, i)] = b[i]
  <2> TAKE i \in U
  <2>1. i \in S /\ Rank(S, i) \in ItemLines(new) /\ NthLine(S, Rank(S, i)) = i
    BY <1>1, <1>2, <1>5, <1>6
  <2>2. new[Rank(S, i)] = b[i]
    BY <1>1, <1>4, <1>6, <2>1
  <2> QED
    BY <1>6, <1>7, <2>1, <2>2
<1>10. \A k \in V : NthLine(S, k) \in U /\ Rank(S, NthLine(S, k)) = k
  BY <1>1, <1>5, <1>7, <1>8
<1>11. f \in [U -> V] /\ \A i \in U : f[i] = Rank(S, i)
  BY <1>9
<1> HIDE DEF f
<1>12. KeepsOrder(f, U, V)
  <2>1. \A i, j \in U : i < j => f[i] < f[j]
    BY <1>2, <1>5, <1>6, <1>11
  <2>2. \A t \in V : \E i \in U : f[i] = t
    BY <1>10, <1>11
  <2> QED
    BY <1>11, <2>1, <2>2 DEF KeepsOrder
<1>13. \A i \in U : SameItem(new[f[i]], b[i])
  BY <1>9, <1>11 DEF SameItem
<1> QED
  BY <1>12, <1>13 DEF Alike, Maps, U, V, new

\* marking leaves what the plan sections reach, and the headings that follow them, as they are
LEMMA MarkedSections ==
    ASSUME NEW b \in Seq(Line), NEW lines, NEW on \in BOOLEAN
    PROVE  /\ NothingLost(b) => NothingLost(Marked(b, lines, on))
           /\ Anchored(b) => Anchored(Marked(b, lines, on))
<1> DEFINE new == Marked(b, lines, on)
<1>1. /\ DOMAIN b = 1..Len(b) /\ Len(b) \in Nat /\ Len(new) = Len(b)
      /\ \A i \in DOMAIN b : new[i].kind = b[i].kind
      /\ ItemLines(new) = ItemLines(b)
  BY MarkedBody, MarkedItems
<1> HIDE DEF new
<1>2. ItemLines(b) \subseteq 1..Len(b)
  BY ItemLinesFinite
<1>3. \A i \in 1..Len(b) : Stripped(new, i) <=> Stripped(b, i)
  <2> TAKE i \in 1..Len(b)
  <2>1. \A j \in 1..i : j \in DOMAIN b /\ \A k \in j + 1..i : k \in DOMAIN b
    BY <1>1
  <2>2. \A j \in 1..i : /\ new[j].kind = b[j].kind
                        /\ (\A k \in j + 1..i : new[k].kind # "h2")
                             <=> (\A k \in j + 1..i : b[k].kind # "h2")
    BY <1>1, <2>1
  <2> QED
    BY <2>2 DEF Stripped
<1>4. ASSUME NEW i \in 1..Len(b), TakesHeading(new, i)
      PROVE  TakesHeading(b, i)
  <2>1. /\ i < Len(b) /\ ~Stripped(new, i) /\ Stripped(new, i + 1)
        /\ \E j \in i + 1..Len(b) : ~Stripped(new, j)
    BY <1>1, <1>4 DEF TakesHeading
  <2>2. i + 1 \in 1..Len(b) /\ \A j \in i + 1..Len(b) : j \in 1..Len(b)
    BY <1>1, <2>1
  <2> QED
    BY <1>3, <2>1, <2>2 DEF TakesHeading
<1>5. NothingLost(b) => NothingLost(new)
  BY <1>1, <1>2, <1>3, <1>4 DEF NothingLost
<1>6. Anchored(b) => Anchored(new)
  <2>1. \A i \in ItemLines(b) : \A j \in 1..i : j \in 1..Len(b)
    BY <1>1, <1>2
  <2> QED
    BY <1>1, <1>3, <2>1 DEF Anchored
<1> QED
  BY <1>5, <1>6 DEF new

\* so does ticking
LEMMA TickedSections ==
    ASSUME NEW b \in Seq(Line), NEW lines
    PROVE  /\ NothingLost(b) => NothingLost(Ticked(b, lines))
           /\ Anchored(b) => Anchored(Ticked(b, lines))
<1> DEFINE on == TRUE
           new == Marked(b, lines, on)
<1>1. on \in BOOLEAN /\ new = Ticked(b, lines)
  BY DEF Ticked
<1> HIDE DEF on
<1>2. /\ NothingLost(b) => NothingLost(new)
      /\ Anchored(b) => Anchored(new)
  BY <1>1, MarkedSections
<1> HIDE DEF new
<1> QED
  BY <1>1, <1>2

LEMMA TickedAlike ==
    ASSUME NEW b \in Seq(Line), NEW lines, NEW touched
    PROVE  /\ Alike(b, Ticked(b, lines), touched)
           /\ (\A i \in lines : b[i].text \in touched) => Alike(Ticked(b, lines), b, touched)
<1> DEFINE on == TRUE
           new == Marked(b, lines, on)
<1>1. on \in BOOLEAN /\ on = TRUE /\ new = Ticked(b, lines)
  BY DEF Ticked
<1> HIDE DEF on
<1>2. /\ Alike(b, new, touched)
      /\ (\A i \in lines : b[i].text \in touched) => Alike(new, b, touched)
  BY <1>1, MarkedAlike
<1> HIDE DEF new
<1> QED
  BY <1>1, <1>2

\* a line put into a body brings no heading to the end of another
LEMMA InsertedHeadings ==
    ASSUME NEW b \in Seq(Line), NEW m \in 0..Len(b), NEW l \in Line, l.kind \in {"item", "other"}
    PROVE  /\ \A i \in 1..Len(b) : TakesHeading(Inserted(b, m, l), Shifted(m, i)) => TakesHeading(b, i)
           /\ m \in 1..Len(b) /\ TakesHeading(Inserted(b, m, l), m + 1) => TakesHeading(b, m)
<1> DEFINE c == Inserted(b, m, l)
           n == Len(b)
<1>1. /\ Len(c) = n + 1
      /\ \A i \in 1..n : Stripped(c, Shifted(m, i)) <=> Stripped(b, i)
      /\ Stripped(c, m + 1) <=> m \in 1..n /\ Stripped(b, m)
  <2>1. Len(c) = n + 1
    BY InsertedBody
  <2>2. /\ \A i \in 1..n : Stripped(c, Shifted(m, i)) <=> Stripped(b, i)
        /\ Stripped(c, m + 1) <=> m \in 1..n /\ Stripped(b, m)
    BY InsertedItems
  <2> HIDE DEF c, n
  <2> QED
    BY <2>1, <2>2
<1>2. n \in Nat /\ m \in Nat /\ m <= n
  OBVIOUS
<1> HIDE DEF c, n
<1>3. /\ \A j \in 1..m : Stripped(c, j) <=> Stripped(b, j)
      /\ \A j \in m + 2..n + 1 : Stripped(c, j) <=> Stripped(b, j - 1)
  <2>1. \A j \in 1..m : j \in 1..n /\ Shifted(m, j) = j
    BY <1>2 DEF Shifted
  <2>2. \A j \in m + 2..n + 1 : j - 1 \in 1..n /\ Shifted(m, j - 1) = j
    BY <1>2 DEF Shifted
  <2> QED
    BY <1>1, <2>1, <2>2
<1>4. ASSUME NEW i \in 1..n, TakesHeading(c, Shifted(m, i))
      PROVE  TakesHeading(b, i)
  <2> DEFINE x == Shifted(m, i)
  <2>1. x < n + 1 /\ ~Stripped(c, x) /\ Stripped(c, x + 1)
    BY <1>1, <1>4 DEF TakesHeading
  <2>2. PICK j \in x + 1..n + 1 : ~Stripped(c, j)
    BY <1>1, <1>4 DEF TakesHeading
  <2>3. ~Stripped(b, i)
    BY <1>1, <2>1
  <2>4. (i <= m /\ x = i) \/ (i > m /\ x = i + 1)
    BY <1>2 DEF Shifted
  <2> HIDE DEF x
  <2>5. i # m
    <3> SUFFICES ASSUME i = m PROVE FALSE
      OBVIOUS
    <3>1. x = m
      BY <1>2, <2>4
    <3> QED
      BY <1>1, <2>1, <2>3, <3>1
  <2>6. i < n /\ Stripped(b, i + 1)
    <3>1. CASE i < m
      <4>1. i + 1 \in 1..m /\ x = i
        BY <1>2, <2>4, <3>1
      <4> QED
        BY <1>2, <1>3, <2>1, <3>1, <4>1
    <3>2. CASE i > m
      <4>1. x = i + 1 /\ i < n
        BY <1>2, <2>1, <2>4, <3>2
      <4>2. i + 2 \in m + 2..n + 1 /\ x + 1 = i + 2 /\ (i + 2) - 1 = i + 1
        BY <1>2, <3>2, <4>1
      <4> QED
        BY <1>3, <2>1, <4>1, <4>2
    <3> QED
      BY <1>2, <2>5, <3>1, <3>2
  <2>7. \E y \in i + 1..n : ~Stripped(b, y)
    <3>1. CASE j <= m
      <4>1. j \in 1..m /\ j \in i + 1..n
        BY <1>2, <2>2, <2>4, <3>1
      <4> QED
        BY <1>3, <2>2, <4>1
    <3>2. CASE j = m + 1
      <4>1. m \in 1..n /\ m \in i + 1..n
        BY <1>2, <2>2, <2>4, <2>5, <3>2
      <4>2. ~Stripped(b, m)
        BY <1>1, <2>2, <3>2, <4>1
      <4> QED
        BY <4>1, <4>2
    <3>3. CASE j > m + 1
      <4> DEFINE y == j - 1
      <4>1. j \in m + 2..n + 1 /\ y \in i + 1..n
        BY <1>2, <2>2, <2>4, <3>3
      <4>2. ~Stripped(b, y)
        BY <1>3, <2>2, <4>1
      <4> QED
        BY <4>1, <4>2
    <3> QED
      BY <1>2, <2>2, <3>1, <3>2, <3>3
  <2> QED
    BY <2>3, <2>6, <2>7 DEF TakesHeading, n
<1>5. ASSUME m \in 1..n, TakesHeading(c, m + 1)
      PROVE  TakesHeading(b, m)
  <2>1. m + 1 < n + 1 /\ ~Stripped(c, m + 1) /\ Stripped(c, (m + 1) + 1)
    BY <1>1, <1>5 DEF TakesHeading
  <2>2. PICK j \in (m + 1) + 1..n + 1 : ~Stripped(c, j)
    BY <1>1, <1>5 DEF TakesHeading
  <2>3. ~Stripped(b, m)
    BY <1>1, <1>5, <2>1
  <2>4. (m + 1) + 1 \in m + 2..n + 1 /\ ((m + 1) + 1) - 1 = m + 1
    BY <1>2, <2>1
  <2>5. Stripped(b, m + 1)
    BY <1>3, <2>1, <2>4
  <2> DEFINE y == j - 1
  <2>6. j \in m + 2..n + 1 /\ y \in m + 1..n
    BY <1>2, <2>2
  <2>7. ~Stripped(b, y)
    BY <1>3, <2>2, <2>6
  <2>8. m < n
    BY <1>2, <2>1
  <2> QED
    BY <2>3, <2>5, <2>6, <2>7, <2>8 DEF TakesHeading, n
<1> QED
  BY <1>4, <1>5 DEF c, n

\* a line that is no item, or an item below another, takes nothing from those there are
LEMMA InsertedSections ==
    ASSUME NEW b \in Seq(Line), NEW m \in 0..Len(b), NEW l \in Line,
           l.kind = "other" \/ (l.kind = "item" /\ m \in ItemLines(b))
    PROVE  /\ NothingLost(b) => NothingLost(Inserted(b, m, l))
           /\ /\ Anchored(b) /\ l.kind = "item" /\ \A j \in ItemLines(b) : j <= m
              => Anchored(Inserted(b, m, l))
<1> DEFINE c == Inserted(b, m, l)
           n == Len(b)
<1>0. l.kind \in {"item", "other"}
  OBVIOUS
<1>1. /\ \A i \in 1..n : Stripped(c, Shifted(m, i)) <=> Stripped(b, i)
      /\ Stripped(c, m + 1) <=> m \in 1..n /\ Stripped(b, m)
      /\ \A k \in ItemLines(c) : \/ k = m + 1 /\ c[k] = l /\ l.kind = "item"
                                 \/ \E i \in ItemLines(b) : /\ i \in 1..n /\ k = Shifted(m, i)
                                                            /\ c[k] = b[i]
  BY <1>0, InsertedItems
<1>2. /\ \A i \in 1..n : TakesHeading(c, Shifted(m, i)) => TakesHeading(b, i)
      /\ m \in 1..n /\ TakesHeading(c, m + 1) => TakesHeading(b, m)
  BY <1>0, InsertedHeadings
<1>3. n \in Nat /\ m \in Nat /\ m <= n /\ ItemLines(b) \subseteq 1..n
  BY ItemLinesFinite
<1> HIDE DEF c, n
<1>4. ASSUME NothingLost(b), NEW k \in ItemLines(c)
      PROVE  ~Stripped(c, k) /\ ~TakesHeading(c, k)
  <2>1. CASE k = m + 1 /\ l.kind = "item"
    <3>1. m \in ItemLines(b)
      BY <2>1
    <3>2. m \in 1..n /\ ~Stripped(b, m) /\ ~TakesHeading(b, m)
      BY <1>3, <1>4, <3>1 DEF NothingLost
    <3> QED
      BY <1>1, <1>2, <2>1, <3>2
  <2>2. CASE \E i \in ItemLines(b) : i \in 1..n /\ k = Shifted(m, i)
    <3>1. PICK i \in ItemLines(b) : i \in 1..n /\ k = Shifted(m, i)
      BY <2>2
    <3>2. ~Stripped(b, i) /\ ~TakesHeading(b, i)
      BY <1>4, <3>1 DEF NothingLost
    <3> QED
      BY <1>1, <1>2, <3>1, <3>2
  <2> QED
    BY <1>1, <2>1, <2>2
<1>5. ASSUME Anchored(b), l.kind = "item", \A j \in ItemLines(b) : j <= m,
             NEW k \in ItemLines(c), NEW j \in 1..k
      PROVE  ~Stripped(c, j)
  <2>1. m \in ItemLines(b) /\ m \in 1..n
    <3>1. l.kind # "other"
      BY <1>5
    <3> QED
      BY <1>3, <3>1
  <2>2. k <= m + 1 /\ k \in Nat
    <3>1. CASE k = m + 1
      BY <1>3, <3>1
    <3>2. CASE \E i \in ItemLines(b) : i \in 1..n /\ k = Shifted(m, i)
      <4>1. PICK i \in ItemLines(b) : i \in 1..n /\ k = Shifted(m, i)
        BY <3>2
      <4>2. i <= m
        BY <1>5
      <4> QED
        BY <1>3, <4>1, <4>2 DEF Shifted
    <3> QED
      BY <1>1, <3>1, <3>2
  <2>3. \A x \in 1..m : ~Stripped(b, x)
    BY <1>5, <2>1 DEF Anchored
  <2>4. CASE j <= m
    <3>1. j \in 1..m /\ j \in 1..n /\ Shifted(m, j) = j
      BY <1>3, <2>2, <2>4 DEF Shifted
    <3> QED
      BY <1>1, <2>3, <3>1
  <2>5. CASE j = m + 1
    <3>1. m \in 1..m
      BY <2>1
    <3> QED
      BY <1>1, <2>3, <2>5, <3>1
  <2> QED
    BY <1>3, <2>2, <2>4, <2>5
<1> QED
  BY <1>4, <1>5 DEF NothingLost, Anchored, c

\* what the engine has in hand
Reading == eng.pc \in {"write", "edit"}

ChecklistInv ==
    /\ NothingLost(issue.body)
    /\ Reading => NothingLost(eng.read) /\ Alike(issue.body, eng.read, fresh)

\* what a step does to the body and to the copy in hand
BodyIs(b) == issue'.body = b

ReadKept == Reading' => Reading /\ eng'.read = eng.read /\ fresh \subseteq fresh'

ReadFresh == Reading' => eng'.read = issue.body

PeopleEdit ==
    \/ \E i \in ItemLines(issue.body) :
          /\ issue'.body = Ticked(issue.body, {i})
          /\ issue.body[i].text \in credit' /\ issue.body[i].text \in fresh'
    \/ \E i \in ItemLines(issue.body) :
          issue'.body = Marked(issue.body, {i}, FALSE) /\ issue.body[i].text \in fresh'
    \/ \E i \in ItemLines(issue.body), text \in fresh' \cap Texts :
          /\ issue'.body = Inserted(issue.body, i, Item(text))
          /\ \A j \in ItemLines(issue.body) : j <= i
    \/ case.edited /\ issue'.body = Inserted(issue.body, 0, OtherLine("other"))

\* Either the engine writes what it made of the copy in hand, which it then drops, or a
\* person edits the issue under it, or the body stays and the copy is as fresh.
LEMMA BodySteps ==
    ASSUME TypeOK, [Next]_vars
    PROVE  \/ /\ BodyIs(issue.body) \/ BodyIs(WithPlan(eng.read))
              /\ At("write") /\ ~Reading' /\ fresh' = fresh
           \/ /\ BodyIs(issue.body) \/ BodyIs(Ticked(eng.read, PreviewLines(eng.read)))
              /\ At("edit") /\ ~Reading' /\ fresh' = fresh
           \/ BodyIs(issue.body) /\ (ReadKept \/ ReadFresh)
           \/ ReadKept /\ PeopleEdit /\ events' > 0
<1>1. issue \in Issue /\ eng \in Engine /\ issue.body \in Seq(Line) /\ eng.read \in Seq(Line)
      /\ case \in Issues
  BY StateTypes
<1>2. CASE PlanFetch \/ SyncLoad
  <2>1. issue' = issue /\ ReadFresh
    BY <1>1, <1>2 DEF PlanFetch, SyncLoad, ReadFails, Goto, AfterSync, ReadFresh, Reading, Engine
  <2> QED
    BY <2>1 DEF BodyIs
<1>3. CASE (\E ok \in BOOLEAN : SubTaskResolved(ok)) \/ LoopEnds \/ LoadMapping \/ Assess \/ CloseRecheck
  <2>1. issue' = issue
    BY <1>3 DEF SubTaskResolved, LoopEnds, LoadMapping, Assess, CloseRecheck, ReadFails
  <2>2. ~Reading'
    <3>1. CASE (\E ok \in BOOLEAN : SubTaskResolved(ok)) \/ LoopEnds \/ LoadMapping
      BY <1>1, <3>1 DEF SubTaskResolved, LoopEnds, LoadMapping, Reading, Engine
    <3>2. CASE Assess \/ CloseRecheck
      BY <1>1, <3>2 DEF Assess, CloseRecheck, ReadFails, Goto, Reading, Engine
    <3> QED
      BY <1>3, <3>1, <3>2
  <2> QED
    BY <2>1, <2>2 DEF BodyIs, ReadKept
<1>4. CASE PlanWrite
  <2> DEFINE b == WithPlan(eng.read)
             new == [issue EXCEPT !.body = b]
  <2>1. b \in Seq(Line)
    BY <1>1, WithPlanBody
  <2>2. Write(new) /\ At("write") /\ ~Reading' /\ fresh' = fresh
    BY <1>1, <1>4 DEF PlanWrite, Reading, Engine
  <2> HIDE DEF b
  <2>3. new \in Issue /\ new.body = b
    BY <1>1, <2>1 DEF Issue
  <2> HIDE DEF new
  <2>4. issue' = issue \/ issue' = new
    BY <2>2, <2>3, WriteTypes
  <2>5. BodyIs(issue.body) \/ BodyIs(b)
    BY <2>3, <2>4 DEF BodyIs
  <2> QED
    BY <2>2, <2>5 DEF b
<1>5. CASE SyncEdit
  <2> DEFINE b == Ticked(eng.read, PreviewLines(eng.read))
             new == [issue EXCEPT !.body = b]
  <2>1. b \in Seq(Line)
    BY <1>1, TickedBody
  <2>2. Write(new) /\ At("edit") /\ ~Reading' /\ fresh' = fresh
    BY <1>1, <1>5 DEF SyncEdit, AfterSync, Reading, Engine
  <2> HIDE DEF b
  <2>3. new \in Issue /\ new.body = b
    BY <1>1, <2>1 DEF Issue
  <2> HIDE DEF new
  <2>4. issue' = issue \/ issue' = new
    BY <2>2, <2>3, WriteTypes
  <2>5. BodyIs(issue.body) \/ BodyIs(b)
    BY <2>3, <2>4 DEF BodyIs
  <2> QED
    BY <2>2, <2>5 DEF b
<1>6. CASE Close
  <2> DEFINE new == [issue EXCEPT !.closed = TRUE]
  <2>1. new \in Issue /\ new.body = issue.body /\ Write(new) /\ ~Reading'
    BY <1>1, <1>6, IssueFields DEF Close, Goto, Reading, Engine
  <2> HIDE DEF new
  <2>2. issue'.body = issue.body
    BY <2>1, WriteTypes
  <2> QED
    BY <2>1, <2>2 DEF BodyIs, ReadKept
<1>7. CASE People
  <2>1. eng' = eng /\ fresh \subseteq fresh' /\ events' > 0 /\ (issue'.body = issue.body \/ PeopleEdit)
    BY <1>7, PeopleSteps DEF PeopleEdit
  <2>2. ReadKept
    BY <2>1 DEF ReadKept, Reading
  <2> QED
    BY <2>1, <2>2 DEF BodyIs
<1>8. CASE Restart \/ Rerun
  <2>1. issue' = issue /\ ~Reading'
    BY <1>1, <1>8, PlannedTypes DEF Restart, Rerun, Reading, Engine
  <2> QED
    BY <2>1 DEF BodyIs, ReadKept
<1>9. CASE UNCHANGED vars
  BY <1>9 DEF vars, BodyIs, ReadKept, Reading
<1> QED
  BY <1>2, <1>3, <1>4, <1>5, <1>6, <1>7, <1>8, <1>9 DEF Next, Hook

LEMMA ChecklistStep ==
    ASSUME TypeOK, ChecklistInv, [Next]_vars
    PROVE  KeepsItems(issue'.body, issue.body, fresh') /\ ChecklistInv'
<1>1. issue.body \in Seq(Line) /\ eng.read \in Seq(Line) /\ case \in Issues
  BY StateTypes
<1>2. NothingLost(issue.body)
  BY DEF ChecklistInv
<1>3. Reading => NothingLost(eng.read) /\ Alike(issue.body, eng.read, fresh)
  BY DEF ChecklistInv
\* enough: the new body keeps the items, and so does the copy in hand
<1>4. ASSUME NEW b \in Seq(Line), BodyIs(b), NothingLost(b), Alike(issue.body, b, fresh'),
             Reading' => NothingLost(eng'.read) /\ Alike(b, eng'.read, fresh')
      PROVE  KeepsItems(issue'.body, issue.body, fresh') /\ ChecklistInv'
  <2>1. KeepsItems(b, issue.body, fresh')
    BY <1>1, <1>4, AlikeKeeps
  <2>2. ChecklistInv'
    BY <1>4 DEF ChecklistInv, BodyIs
  <2> QED
    BY <1>4, <2>1, <2>2 DEF BodyIs
<1>5. CASE BodyIs(issue.body) /\ ~Reading'
  BY <1>1, <1>2, <1>4, <1>5, AlikeSelf
<1>6. CASE /\ BodyIs(issue.body) \/ BodyIs(WithPlan(eng.read))
           /\ At("write") /\ ~Reading' /\ fresh' = fresh
  <2> DEFINE b == WithPlan(eng.read)
  <2>1. NothingLost(eng.read) /\ Alike(issue.body, eng.read, fresh')
    BY <1>3, <1>6 DEF At, Reading
  <2>2. b \in Seq(Line) /\ NothingLost(b)
    BY <1>1, WithPlanBody, PlanItems
  <2>3. Alike(eng.read, b, fresh')
    BY <1>1, <2>1, PlanAlike
  <2> HIDE DEF b
  <2>4. Alike(issue.body, b, fresh')
    BY <2>1, <2>3, AlikeTrans
  <2> QED
    BY <1>4, <1>5, <1>6, <2>2, <2>4 DEF b
<1>7. CASE /\ BodyIs(issue.body) \/ BodyIs(Ticked(eng.read, PreviewLines(eng.read)))
           /\ At("edit") /\ ~Reading' /\ fresh' = fresh
  <2> DEFINE lines == PreviewLines(eng.read)
             b == Ticked(eng.read, lines)
  <2>1. NothingLost(eng.read) /\ Alike(issue.body, eng.read, fresh')
    BY <1>3, <1>7 DEF At, Reading
  <2> HIDE DEF lines
  <2>2. b \in Seq(Line) /\ NothingLost(b) /\ Alike(eng.read, b, fresh')
    BY <1>1, <2>1, TickedBody, TickedSections, TickedAlike
  <2> HIDE DEF b
  <2>3. Alike(issue.body, b, fresh')
    BY <2>1, <2>2, AlikeTrans
  <2> QED
    BY <1>4, <1>5, <1>7, <2>2, <2>3 DEF b, lines
<1>8. CASE BodyIs(issue.body) /\ (ReadKept \/ ReadFresh)
  <2>1. Reading' => NothingLost(eng'.read) /\ Alike(issue.body, eng'.read, fresh')
    <3> SUFFICES ASSUME Reading' PROVE NothingLost(eng'.read) /\ Alike(issue.body, eng'.read, fresh')
      OBVIOUS
    <3>1. CASE ReadFresh
      BY <1>2, <3>1, AlikeSelf DEF ReadFresh
    <3>2. CASE ReadKept
      BY <1>1, <1>3, <3>2, AlikeMore DEF ReadKept
    <3> QED
      BY <1>8, <3>1, <3>2
  <2> QED
    BY <1>1, <1>2, <1>4, <1>8, <2>1, AlikeSelf
\* what people do is undone, item by item they did not touch, by going back
<1>9. ASSUME ReadKept, NEW b \in Seq(Line), BodyIs(b), NothingLost(b),
             Alike(issue.body, b, fresh'), Alike(b, issue.body, fresh')
      PROVE  KeepsItems(issue'.body, issue.body, fresh') /\ ChecklistInv'
  <2>1. ASSUME Reading'
        PROVE  NothingLost(eng'.read) /\ Alike(b, eng'.read, fresh')
    <3>1. /\ NothingLost(eng.read) /\ Alike(issue.body, eng.read, fresh) /\ eng'.read = eng.read
          /\ fresh \subseteq fresh'
      BY <1>3, <1>9, <2>1 DEF ReadKept
    <3>2. Alike(issue.body, eng.read, fresh')
      BY <3>1, AlikeMore
    <3>3. Alike(b, eng.read, fresh')
      BY <1>9, <3>2, AlikeTrans
    <3> QED
      BY <3>1, <3>3
  <2> QED
    BY <1>4, <1>9, <2>1
<1>10. CASE ReadKept /\ PeopleEdit
  <2>1. ASSUME NEW i \in ItemLines(issue.body), issue'.body = Ticked(issue.body, {i}),
               issue.body[i].text \in fresh'
        PROVE  KeepsItems(issue'.body, issue.body, fresh') /\ ChecklistInv'
    <3> DEFINE lines == {i}
               b == Ticked(issue.body, lines)
    <3>1. \A k \in lines : issue.body[k].text \in fresh'
      BY <2>1
    <3> HIDE DEF lines
    <3>2. /\ b \in Seq(Line) /\ NothingLost(b)
          /\ Alike(issue.body, b, fresh') /\ Alike(b, issue.body, fresh')
      BY <1>1, <1>2, <3>1, TickedBody, TickedSections, TickedAlike
    <3> HIDE DEF b
    <3>3. BodyIs(b)
      BY <2>1 DEF BodyIs, b, lines
    <3> QED
      BY <1>9, <1>10, <3>2, <3>3
  <2>2. ASSUME NEW i \in ItemLines(issue.body), issue'.body = Marked(issue.body, {i}, FALSE),
               issue.body[i].text \in fresh'
        PROVE  KeepsItems(issue'.body, issue.body, fresh') /\ ChecklistInv'
    <3> DEFINE lines == {i}
               on == FALSE
               b == Marked(issue.body, lines, on)
    <3>1. on \in BOOLEAN /\ \A k \in lines : issue.body[k].text \in fresh'
      BY <2>2
    <3>2. BodyIs(b)
      BY <2>2 DEF BodyIs
    <3> HIDE DEF lines, on
    <3>3. /\ b \in Seq(Line) /\ NothingLost(b)
          /\ Alike(issue.body, b, fresh') /\ Alike(b, issue.body, fresh')
      BY <1>1, <1>2, <3>1, MarkedBody, MarkedSections, MarkedAlike
    <3> HIDE DEF b
    <3> QED
      BY <1>9, <1>10, <3>2, <3>3
  <2>3. ASSUME NEW m \in 0..Len(issue.body), NEW l \in Line,
               \/ l.kind = "other"
               \/ l.kind = "item" /\ l.text \in fresh' /\ m \in ItemLines(issue.body),
               issue'.body = Inserted(issue.body, m, l)
        PROVE  KeepsItems(issue'.body, issue.body, fresh') /\ ChecklistInv'
    <3> DEFINE b == Inserted(issue.body, m, l)
    <3>1. b \in Seq(Line) /\ NothingLost(b)
      BY <1>1, <1>2, <2>3, InsertedBody, InsertedSections
    <3>2. Alike(issue.body, b, fresh') /\ Alike(b, issue.body, fresh')
      BY <1>1, <2>3, InsertedAlike
    <3>3. BodyIs(b)
      BY <2>3 DEF BodyIs
    <3> HIDE DEF b
    <3> QED
      BY <1>9, <1>10, <3>1, <3>2, <3>3
  <2>4. CASE \E i \in ItemLines(issue.body), text \in fresh' \cap Texts :
                issue'.body = Inserted(issue.body, i, Item(text))
    <3>1. PICK i \in ItemLines(issue.body), text \in fresh' \cap Texts :
             issue'.body = Inserted(issue.body, i, Item(text))
      BY <2>4
    <3> DEFINE l == Item(text)
    <3>2. l \in Line /\ l.kind = "item" /\ l.text \in fresh'
      BY LineTypes
    <3>3. issue'.body = Inserted(issue.body, i, l)
      BY <3>1
    <3>4. i \in 0..Len(issue.body)
      <4>1. i \in 1..Len(issue.body) /\ Len(issue.body) \in Nat
        BY <1>1, ItemLinesFinite
      <4> QED
        BY <4>1
    <3> HIDE DEF l
    <3> QED
      BY <2>3, <3>2, <3>3, <3>4
  <2>5. CASE issue'.body = Inserted(issue.body, 0, OtherLine("other"))
    <3> DEFINE l == OtherLine("other")
               m == 0
    <3>1. l \in Line /\ l.kind = "other"
      BY LineTypes
    <3>2. m \in 0..Len(issue.body)
      <4>1. Len(issue.body) \in Nat
        BY <1>1
      <4> QED
        BY <4>1
    <3>3. issue'.body = Inserted(issue.body, m, l)
      BY <2>5
    <3> HIDE DEF l, m
    <3> QED
      BY <2>3, <3>1, <3>2, <3>3
  <2> QED
    BY <1>10, <2>1, <2>2, <2>4, <2>5 DEF PeopleEdit
<1> QED
  BY <1>6, <1>7, <1>8, <1>10, BodySteps

\* Where no item stands behind a plan section and under a deeper heading, or right above
\* such a section and a heading, no write of the engine loses, adds, reorders, rewrites or
\* unticks a checklist item, although each puts a body back that was read before people
\* edited it: only what they did after that read is lost (WritePlanToIssue,
\* UpdateIssueBody).
THEOREM ChecklistIsKept ==
    ASSUME ItemsOutlivePlans
    PROVE  Spec => ChecklistKept
<1>1. Init => ChecklistInv
  BY DEF Init, Planned, ChecklistInv, Reading, ItemsOutlivePlans
<1>2. TypeOK /\ ChecklistInv /\ [Next]_vars
        => ChecklistInv' /\ [KeepsItems(issue'.body, issue.body, fresh')]_vars
  BY ChecklistStep
<1> QED
  BY <1>1, <1>2, IssueTypeCorrect, PTL DEF Spec, ChecklistKept

-----------------------------------------------------------------------------
(***************************************************************************)
(* Which items get ticked.  The line numbers a plan declares are those the *)
(* planner would declare today: this is what makes them name the items     *)
(* they were declared for.                                                 *)
(***************************************************************************)
Declares == \E t \in DOMAIN case.plan : case.plan[t].declared

\* the declared lines name, in this body, items they were declared for
Names(ids, b) == \A t \in DOMAIN case.plan : ids[t] \subseteq PlannedIds(b)[t]

LinesInv ==
    /\ Names(eng.ids, issue.body) /\ (events = 0 => eng.ids = PlannedIds(issue.body))
    /\ Reading => /\ Names(eng.ids, eng.read) /\ (events = 0 => eng.ids = PlannedIds(eng.read))
                  /\ TickedTexts(eng.read) \subseteq credit
    /\ Declares => ~case.edited /\ Anchored(issue.body) /\ (Reading => Anchored(eng.read))
    /\ \A t \in eng.done : case.plan[t].covers \subseteq credit
    /\ TicksCovered

\* what the engine ticks in a body whose lines are as declared
LEMMA PreviewTexts ==
    ASSUME eng.done \subseteq DOMAIN case.plan, NEW b, Names(eng.ids, b),
           \A t \in eng.done : case.plan[t].covers \subseteq credit
    PROVE  \A i \in PreviewLines(b) : b[i].text \in credit
<1> TAKE i \in PreviewLines(b)
<1>1. CASE Declared(eng.done) # {}
  <2>1. PICK t \in eng.done : i \in eng.ids[t]
    BY <1>1 DEF PreviewLines, Declared
  <2>2. t \in DOMAIN case.plan /\ eng.ids[t] \subseteq PlannedIds(b)[t]
    BY DEF Names
  <2>3. i \in LinesOf(b, case.plan[t].covers)
    BY <2>1, <2>2 DEF PlannedIds
  <2> QED
    BY <2>1, <2>3 DEF LinesOf
<1>2. CASE Declared(eng.done) = {}
  BY <1>2 DEF PreviewLines, LinesOf
<1> QED
  BY <1>1, <1>2

\* an item more is no line less
LEMMA PlannedMore ==
    ASSUME NEW b, NEW c,
           Declares => \A i \in ItemLines(b) : i \in ItemLines(c) /\ c[i].text = b[i].text
    PROVE  \A t \in DOMAIN case.plan : PlannedIds(b)[t] \subseteq PlannedIds(c)[t]
<1> TAKE t \in DOMAIN case.plan
<1>1. CASE case.plan[t].declared
  <2>1. Declares
    BY <1>1 DEF Declares
  <2>2. \A texts : LinesOf(b, texts) \subseteq LinesOf(c, texts)
    BY <2>1 DEF LinesOf
  <2> QED
    BY <1>1, <2>2 DEF PlannedIds
<1>2. CASE ~case.plan[t].declared
  BY <1>2 DEF PlannedIds
<1> QED
  BY <1>1, <1>2

\* where no plan declares lines, none are ever declared; otherwise what counts is where the
\* items stand and what they say
LEMMA PlannedAlike ==
    ASSUME NEW b, NEW c,
           Declares => /\ ItemLines(c) = ItemLines(b)
                       /\ \A i \in ItemLines(b) : c[i].text = b[i].text
    PROVE  PlannedIds(c) = PlannedIds(b)
<1>1. CASE Declares
  <2>1. \A texts : LinesOf(c, texts) = LinesOf(b, texts)
    BY <1>1 DEF LinesOf
  <2> QED
    BY <2>1 DEF PlannedIds
<1>2. CASE ~Declares
  BY <1>2 DEF PlannedIds, Declares
<1> QED
  BY <1>1, <1>2

\* a plan section written below the items moves none of them
LEMMA PlanKeepsLines ==
    ASSUME case \in Issues, NEW b \in Seq(Line), Anchored(b)
    PROVE  /\ ItemLines(WithPlan(b)) = ItemLines(b)
           /\ \A i \in ItemLines(b) : WithPlan(b)[i].text = b[i].text
           /\ Anchored(WithPlan(b))
<1> DEFINE S == Survivors(b)
           new == WithPlan(b)
<1>1. /\ \A k \in ItemLines(new) : /\ k \in 1..Cardinality(S)
                                   /\ NthLine(S, k) \in ItemLines(b) \cap S
                                   /\ new[k].text = b[NthLine(S, k)].text
      /\ \A i \in ItemLines(b) \cap S : Rank(S, i) \in ItemLines(new)
      /\ Anchored(new)
  BY PlanItems
<1>2. S \subseteq Nat /\ IsFiniteSet(S) /\ S \subseteq DOMAIN b
  <2>1. S \in SUBSET DOMAIN b
    BY DEF Survivors
  <2> HIDE DEF S
  <2> QED
    BY <2>1, KeptBody
<1>3. \A i \in ItemLines(b) : i \in S /\ i \in 1..Len(b) /\ 1..i \subseteq S
  <2> TAKE i \in ItemLines(b)
  <2>1. i \in 1..Len(b) /\ 1..i \subseteq DOMAIN b /\ i \in 1..i
    BY ItemLinesFinite
  <2>2. \A j \in 1..i : ~Stripped(b, j)
    BY DEF Anchored
  <2>3. \A j \in 1..i : ~Swallowed(b, j)
    <3> TAKE j \in 1..i
    <3>1. j > 1 => j - 1 \in 1..i
      BY <2>1
    <3> QED
      BY <2>2, <3>1 DEF Swallowed
  <2> QED
    BY <2>1, <2>2, <2>3 DEF Survivors
<1> HIDE DEF S, new
<1>4. ASSUME NEW i \in ItemLines(b)
      PROVE  Rank(S, i) = i
  <2>1. i \in Nat /\ i > 0 /\ 1..i \subseteq S /\ \A j \in S : j \in Nat
    BY <1>2, <1>3
  <2>2. \A j \in S : j # 0
    BY <1>2
  <2>3. {j \in S : j <= i} = 1..i
    BY <2>1, <2>2
  <2>4. Cardinality(1..i) = i
    <3>1. Cardinality(1..i) = IF 1 > i THEN 0 ELSE i - 1 + 1
      BY <2>1, FS_Interval
    <3> QED
      BY <2>1, <3>1
  <2> QED
    BY <2>3, <2>4 DEF Rank
<1>5. \A i \in S : NthLine(S, Rank(S, i)) = i
  BY <1>2, NthLineOrder
<1>6. \A i \in ItemLines(b) : i \in ItemLines(new) /\ NthLine(S, i) = i
  <2> TAKE i \in ItemLines(b)
  <2>1. i \in S /\ Rank(S, i) = i
    BY <1>3, <1>4
  <2>2. Rank(S, i) \in ItemLines(new) /\ NthLine(S, Rank(S, i)) = i
    BY <1>1, <1>5, <2>1
  <2> QED
    BY <2>1, <2>2
<1>7. \A i \in ItemLines(b) : new[i].text = b[i].text
  BY <1>1, <1>6
<1>8. ASSUME NEW k \in ItemLines(new)
      PROVE  k \in ItemLines(b)
  <2> DEFINE i == NthLine(S, k)
  <2>1. k \in 1..Cardinality(S) /\ i \in ItemLines(b)
    BY <1>1
  <2>2. Rank(S, i) = k
    BY <1>2, <2>1, NthLineExists
  <2> HIDE DEF i
  <2> QED
    BY <1>4, <2>1, <2>2
<1> QED
  BY <1>1, <1>6, <1>7, <1>8 DEF new

\* the edits tick nothing but what they are told to
LEMMA EditedTexts ==
    ASSUME NEW b \in Seq(Line)
    PROVE  /\ case \in Issues => TickedTexts(WithPlan(b)) \subseteq TickedTexts(b)
           /\ \A m \in 0..Len(b), l \in Line :
                 (l.kind = "other" \/ l.on = FALSE)
                    => TickedTexts(Inserted(b, m, l)) \subseteq TickedTexts(b)
           /\ \A lines, on : on = FALSE => TickedTexts(Marked(b, lines, on)) \subseteq TickedTexts(b)
<1>1. ASSUME case \in Issues
      PROVE  TickedTexts(WithPlan(b)) \subseteq TickedTexts(b)
  <2> DEFINE new == WithPlan(b)
             S == Survivors(b)
  <2>1. /\ \A k \in ItemLines(new) : /\ NthLine(S, k) \in ItemLines(b)
                                     /\ new[k].text = b[NthLine(S, k)].text
                                     /\ new[k].on = b[NthLine(S, k)].on
        /\ \A k \in DOMAIN new : new[k].kind = "item" => k \in ItemLines(new)
    BY <1>1, PlanItems
  <2> HIDE DEF new, S
  <2> SUFFICES ASSUME NEW k \in DOMAIN new, new[k].kind = "item", new[k].on
               PROVE  new[k].text \in TickedTexts(b)
    BY DEF TickedTexts, new
  <2> DEFINE i == NthLine(S, k)
  <2>2. i \in ItemLines(b) /\ new[k].text = b[i].text /\ b[i].on
    BY <2>1
  <2> HIDE DEF i
  <2>3. i \in DOMAIN b /\ b[i].kind = "item"
    BY <2>2 DEF ItemLines
  <2> QED
    BY <2>2, <2>3 DEF TickedTexts
<1>2. ASSUME NEW m \in 0..Len(b), NEW l \in Line, l.kind = "other" \/ l.on = FALSE
      PROVE  TickedTexts(Inserted(b, m, l)) \subseteq TickedTexts(b)
  <2> DEFINE new == Inserted(b, m, l)
             n == Len(b)
  <2>1. /\ DOMAIN new = 1..n + 1 /\ new[m + 1] = l
        /\ \A i \in 1..n : new[Shifted(m, i)] = b[i]
        /\ \A k \in 1..n + 1 : k # m + 1 => \E i \in 1..n : k = Shifted(m, i)
    BY InsertedBody
  <2>2. DOMAIN b = 1..n
    OBVIOUS
  <2> HIDE DEF new, n
  <2> SUFFICES ASSUME NEW k \in DOMAIN new, new[k].kind = "item", new[k].on
               PROVE  new[k].text \in TickedTexts(b)
    BY DEF TickedTexts, new
  <2>3. k # m + 1
    <3> SUFFICES ASSUME k = m + 1 PROVE FALSE
      OBVIOUS
    <3>1. l.kind = "item" /\ l.on
      BY <2>1
    <3>2. CASE l.kind = "other"
      <4>1. l.kind # "item"
        BY <3>2
      <4> QED
        BY <3>1, <4>1
    <3> QED
      BY <1>2, <3>1, <3>2
  <2>4. PICK i \in 1..n : k = Shifted(m, i)
    BY <2>1, <2>3
  <2>5. new[k] = b[i] /\ i \in DOMAIN b
    BY <2>1, <2>2, <2>4
  <2> QED
    BY <2>5 DEF TickedTexts
<1>3. ASSUME NEW lines, NEW on, on = FALSE
      PROVE  TickedTexts(Marked(b, lines, on)) \subseteq TickedTexts(b)
  <2> DEFINE new == Marked(b, lines, on)
  <2>1. on \in BOOLEAN
    BY <1>3
  <2>2. /\ DOMAIN new = DOMAIN b
        /\ \A i \in DOMAIN b : /\ new[i].kind = b[i].kind /\ new[i].text = b[i].text
                               /\ i \in lines => new[i].on = on
                               /\ i \notin lines => new[i] = b[i]
    BY <2>1, MarkedBody
  <2> HIDE DEF new
  <2> SUFFICES ASSUME NEW k \in DOMAIN new, new[k].kind = "item", new[k].on
               PROVE  new[k].text \in TickedTexts(b)
    BY DEF TickedTexts, new
  <2>3. k \notin lines
    BY <1>3, <2>2
  <2>4. k \in DOMAIN b /\ new[k] = b[k]
    BY <2>2, <2>3
  <2> QED
    BY <2>4 DEF TickedTexts
<1> QED
  BY <1>1, <1>2, <1>3

\* ticking ticks the lines it is told to
LEMMA TickedOnes ==
    ASSUME NEW b \in Seq(Line), NEW lines
    PROVE  \A text \in TickedTexts(Ticked(b, lines)) :
              text \in TickedTexts(b) \/ \E i \in lines : text = b[i].text
<1> TAKE text \in TickedTexts(Ticked(b, lines))
<1> DEFINE new == Ticked(b, lines)
<1>1. /\ DOMAIN new = DOMAIN b
      /\ \A i \in DOMAIN b : /\ new[i].kind = b[i].kind /\ new[i].text = b[i].text
                             /\ new[i].on => b[i].on \/ i \in lines
  BY TickedBody
<1>2. PICK i \in DOMAIN new : text = new[i].text /\ new[i].kind = "item" /\ new[i].on
  BY DEF TickedTexts
<1> HIDE DEF new
<1>3. i \in DOMAIN b /\ text = b[i].text /\ b[i].kind = "item" /\ (b[i].on \/ i \in lines)
  BY <1>1, <1>2
<1> QED
  BY <1>3 DEF TickedTexts

\* what a step does to the ledger
LEMMA LedgerSteps ==
    ASSUME TypeOK, [Next]_vars
    PROVE  /\ case' = case /\ credit \subseteq credit'
           /\ events' = 0 => events = 0
           /\ \/ eng'.ids = eng.ids
              \/ /\ eng'.ids = PlannedIds(issue.body) /\ BodyIs(issue.body)
                 /\ ~Reading' /\ events' > 0
           /\ \A t \in eng'.done : t \in eng.done \/ case.plan[t].covers \subseteq credit'
<1>1. eng \in Engine /\ case \in Issues /\ issue.body \in Seq(Line)
  BY StateTypes
<1>2. case' = case /\ credit \subseteq credit' /\ (events' = 0 => events = 0)
  <2>1. CASE People
    BY <2>1, PeopleSteps
  <2>2. \A e : Event(e) => events' > 0
    BY EventTypes
  <2>3. CASE Hook
    <3>1. case' = case /\ credit \subseteq credit'
      BY <2>3 DEF Hook, PlanFetch, PlanWrite, SubTaskResolved, LoopEnds, LoadMapping, SyncLoad,
        SyncEdit, Assess, CloseRecheck, Close
    <3>2. events' = events \/ events' > 0
      BY <2>2, <2>3 DEF Hook, PlanFetch, PlanWrite, SubTaskResolved, LoopEnds, LoadMapping, SyncLoad,
        SyncEdit, Assess, CloseRecheck, Close, ReadFails, Write
    <3> QED
      BY <3>1, <3>2
  <2>4. CASE Restart \/ Rerun \/ UNCHANGED vars
    BY <2>2, <2>4 DEF Restart, Rerun, vars
  <2> QED
    BY <2>1, <2>3, <2>4 DEF Next
<1> DEFINE Same == eng'.ids = eng.ids /\ eng'.done = eng.done
<1>3. CASE PlanFetch \/ PlanWrite \/ LoopEnds
  <2>1. Same
    BY <1>1, <1>3 DEF PlanFetch, PlanWrite, LoopEnds, ReadFails, Goto, Engine
  <2> QED
    BY <1>2, <2>1
<1>4. CASE LoadMapping \/ SyncLoad \/ SyncEdit
  <2>1. Same
    BY <1>1, <1>4 DEF LoadMapping, SyncLoad, SyncEdit, ReadFails, Goto, Engine
  <2> QED
    BY <1>2, <2>1
<1>5. CASE Assess \/ CloseRecheck \/ Close
  <2>1. Same
    BY <1>1, <1>5 DEF Assess, CloseRecheck, Close, ReadFails, Goto, Engine
  <2> QED
    BY <1>2, <2>1
<1>6. CASE \E ok \in BOOLEAN : SubTaskResolved(ok)
  <2>1. PICK ok \in BOOLEAN : SubTaskResolved(ok)
    BY <1>6
  <2>2. eng'.ids = eng.ids
    BY <1>1, <2>1 DEF SubTaskResolved, Engine
  <2>3. \/ ok = FALSE /\ eng'.done = eng.done
        \/ /\ ok = TRUE /\ eng'.done = eng.done \cup {eng.next}
           /\ credit' = credit \cup case.plan[eng.next].covers
    BY <1>1, <2>1 DEF SubTaskResolved, Engine
  <2> QED
    BY <1>2, <2>2, <2>3
<1>7. CASE People \/ UNCHANGED vars
  <2>1. eng' = eng
    BY <1>7, PeopleSteps DEF vars
  <2> QED
    BY <1>2, <2>1
<1>8. CASE Restart
  <2>1. Same
    BY <1>1, <1>8 DEF Restart, Engine
  <2> QED
    BY <1>2, <2>1
<1>9. CASE Rerun
  <2>1. /\ eng'.ids = PlannedIds(issue.body) /\ eng'.done = {} /\ ~Reading'
        /\ BodyIs(issue.body) /\ events' > 0
    BY <1>1, <1>9, PlannedTypes, EventTypes DEF Rerun, Reading, BodyIs
  <2> QED
    BY <1>2, <2>1
<1> QED
  BY <1>3, <1>4, <1>5, <1>6, <1>7, <1>8, <1>9 DEF Next, Hook

LEMMA LinesStep ==
    ASSUME TypeOK, LinesInv, [Next]_vars
    PROVE  LinesInv'
<1>1. /\ issue.body \in Seq(Line) /\ eng.read \in Seq(Line) /\ case \in Issues
      /\ eng.done \subseteq DOMAIN case.plan
  BY StateTypes
<1>2. /\ case' = case /\ credit \subseteq credit' /\ (events' = 0 => events = 0)
      /\ \/ eng'.ids = eng.ids
         \/ /\ eng'.ids = PlannedIds(issue.body) /\ BodyIs(issue.body)
            /\ ~Reading' /\ events' > 0
      /\ \A t \in eng'.done : case'.plan[t].covers \subseteq credit'
  <2>1. /\ case' = case /\ credit \subseteq credit' /\ (events' = 0 => events = 0)
        /\ \/ eng'.ids = eng.ids
           \/ /\ eng'.ids = PlannedIds(issue.body) /\ BodyIs(issue.body)
              /\ ~Reading' /\ events' > 0
        /\ \A t \in eng'.done : t \in eng.done \/ case.plan[t].covers \subseteq credit'
    BY LedgerSteps
  <2> QED
    BY <2>1 DEF LinesInv
\* a body is as good as another when the planner would declare these lines in it
<1> DEFINE Good(b) == /\ Names(eng'.ids, b) /\ (events' = 0 => eng'.ids = PlannedIds(b))
                      /\ TickedTexts(b) \subseteq credit' /\ (Declares => Anchored(b))
<1>3. /\ Good(issue.body) /\ (Declares => ~case.edited)
      /\ Reading /\ eng'.ids = eng.ids => Good(eng.read)
  <2>1. CASE eng'.ids = eng.ids
    BY <1>2, <2>1 DEF LinesInv, TicksCovered
  <2>2. CASE eng'.ids = PlannedIds(issue.body)
    BY <1>2, <2>2 DEF LinesInv, TicksCovered, Names
  <2> QED
    BY <1>2, <2>1, <2>2
\* enough: the new body is good, and so is the copy in hand
<1>4. ASSUME NEW b, BodyIs(b), Good(b), Reading' => Good(eng'.read)
      PROVE  LinesInv'
  <2>1. Declares' = Declares
    BY <1>2 DEF Declares
  <2>2. PlannedIds(issue.body)' = PlannedIds(b) /\ Names(eng.ids, issue.body)' = Names(eng'.ids, b)
    BY <1>2, <1>4 DEF BodyIs, PlannedIds, Names
  <2>3. /\ PlannedIds(eng.read)' = PlannedIds(eng'.read)
        /\ Names(eng.ids, eng.read)' = Names(eng'.ids, eng'.read)
    BY <1>2 DEF PlannedIds, Names
  <2> QED
    BY <1>2, <1>3, <1>4, <2>1, <2>2, <2>3 DEF BodyIs, LinesInv, TicksCovered
\* a body made of a good one, with its items where they are
<1>5. ASSUME NEW b, NEW c, Good(b), TickedTexts(c) \subseteq credit',
             Declares => /\ Anchored(c) /\ ItemLines(c) = ItemLines(b)
                         /\ \A i \in ItemLines(b) : c[i].text = b[i].text
      PROVE  Good(c)
  <2>1. PlannedIds(c) = PlannedIds(b)
    BY <1>5, PlannedAlike
  <2> QED
    BY <1>5, <2>1 DEF Names
\* or with one item more below them, put there by people
<1>6. ASSUME NEW b, NEW c, Good(b), TickedTexts(c) \subseteq credit', events' > 0,
             Declares => /\ Anchored(c)
                         /\ \A i \in ItemLines(b) : i \in ItemLines(c) /\ c[i].text = b[i].text
      PROVE  Good(c)
  <2>1. \A t \in DOMAIN case.plan : PlannedIds(b)[t] \subseteq PlannedIds(c)[t]
    BY <1>6, PlannedMore
  <2> QED
    BY <1>6, <2>1 DEF Names
<1>7. CASE BodyIs(issue.body) /\ (~Reading' \/ ReadKept \/ ReadFresh)
  <2>1. Reading' => Good(eng'.read)
    BY <1>2, <1>3, <1>7 DEF ReadKept, ReadFresh
  <2> HIDE DEF Good
  <2> QED
    BY <1>3, <1>4, <1>7, <2>1
<1>8. CASE eng'.ids # eng.ids
  BY <1>2, <1>7, <1>8
<1>9. CASE /\ BodyIs(issue.body) \/ BodyIs(WithPlan(eng.read))
           /\ At("write") /\ ~Reading' /\ eng'.ids = eng.ids
  <2> DEFINE b == WithPlan(eng.read)
  <2>1. Good(eng.read)
    BY <1>3, <1>9 DEF At, Reading
  <2>2. Declares => /\ ItemLines(b) = ItemLines(eng.read) /\ Anchored(b)
                    /\ \A i \in ItemLines(eng.read) : b[i].text = eng.read[i].text
    BY <1>1, <2>1, PlanKeepsLines
  <2>3. TickedTexts(b) \subseteq credit'
    BY <1>1, <2>1, EditedTexts
  <2> HIDE DEF b, Good
  <2>4. Good(b)
    BY <1>5, <2>1, <2>2, <2>3
  <2> QED
    BY <1>4, <1>7, <1>9, <2>4 DEF b
<1>10. CASE /\ BodyIs(issue.body) \/ BodyIs(Ticked(eng.read, PreviewLines(eng.read)))
            /\ At("edit") /\ ~Reading' /\ eng'.ids = eng.ids
  <2> DEFINE lines == PreviewLines(eng.read)
             b == Ticked(eng.read, lines)
  <2>1. Good(eng.read)
    BY <1>3, <1>10 DEF At, Reading
  <2>2. \A i \in lines : eng.read[i].text \in credit'
    <3>1. \A i \in PreviewLines(eng.read) : eng.read[i].text \in credit
      BY <1>1, <1>10, <2>1, PreviewTexts DEF LinesInv
    <3> QED
      BY <1>2, <3>1
  <2> HIDE DEF lines
  <2>3. /\ ItemLines(b) = ItemLines(eng.read) /\ (Declares => Anchored(b))
        /\ \A i \in ItemLines(eng.read) : b[i].text = eng.read[i].text
    BY <1>1, <2>1, TickedItems, TickedBody, TickedSections, ItemLinesFinite
  <2>4. \A text \in TickedTexts(b) :
           text \in TickedTexts(eng.read) \/ \E i \in lines : text = eng.read[i].text
    BY <1>1, TickedOnes
  <2>5. TickedTexts(b) \subseteq credit'
    BY <2>1, <2>2, <2>4
  <2> HIDE DEF b, Good
  <2>6. Good(b)
    BY <1>5, <2>1, <2>3, <2>5
  <2> QED
    BY <1>4, <1>7, <1>10, <2>6 DEF b, lines
<1>11. CASE ReadKept /\ PeopleEdit /\ events' > 0 /\ eng'.ids = eng.ids
  <2>1. Reading' => Good(eng'.read)
    BY <1>3, <1>11 DEF ReadKept
  <2>2. ASSUME NEW i \in ItemLines(issue.body), issue'.body = Ticked(issue.body, {i}),
               issue.body[i].text \in credit'
        PROVE  LinesInv'
    <3> DEFINE lines == {i}
               b == Ticked(issue.body, lines)
    <3>1. /\ ItemLines(b) = ItemLines(issue.body) /\ (Declares => Anchored(b))
          /\ \A k \in ItemLines(issue.body) : b[k].text = issue.body[k].text
      BY <1>1, <1>3, TickedItems, TickedBody, TickedSections, ItemLinesFinite
    <3>2. \A text \in TickedTexts(b) :
             text \in TickedTexts(issue.body) \/ \E k \in lines : text = issue.body[k].text
      BY <1>1, TickedOnes
    <3>3. BodyIs(b)
      BY <2>2 DEF BodyIs
    <3> HIDE DEF b
    <3>4. TickedTexts(b) \subseteq credit'
      BY <1>3, <2>2, <3>2
    <3> HIDE DEF Good
    <3>5. Good(b)
      BY <1>3, <1>5, <3>1, <3>4
    <3> QED
      BY <1>4, <2>1, <3>3, <3>5
  <2>3. ASSUME NEW i \in ItemLines(issue.body), issue'.body = Marked(issue.body, {i}, FALSE)
        PROVE  LinesInv'
    <3> DEFINE lines == {i}
               on == FALSE
               b == Marked(issue.body, lines, on)
    <3>1. on \in BOOLEAN /\ on = FALSE
      OBVIOUS
    <3>2. BodyIs(b)
      BY <2>3 DEF BodyIs
    <3> HIDE DEF lines, on
    <3>3. /\ ItemLines(b) = ItemLines(issue.body) /\ (Declares => Anchored(b))
          /\ \A k \in ItemLines(issue.body) : b[k].text = issue.body[k].text
      BY <1>1, <1>3, <3>1, MarkedItems, MarkedBody, MarkedSections, ItemLinesFinite
    <3>4. TickedTexts(b) \subseteq credit'
      BY <1>1, <1>3, <3>1, EditedTexts
    <3> HIDE DEF b, Good
    <3>5. Good(b)
      BY <1>3, <1>5, <3>3, <3>4
    <3> QED
      BY <1>4, <2>1, <3>2, <3>5
  <2>4. ASSUME NEW i \in ItemLines(issue.body), NEW text \in Texts,
               issue'.body = Inserted(issue.body, i, Item(text)),
               \A j \in ItemLines(issue.body) : j <= i
        PROVE  LinesInv'
    <3> DEFINE l == Item(text)
               b == Inserted(issue.body, i, l)
    <3>1. l \in Line /\ l.kind = "item" /\ l.on = FALSE
      BY LineTypes
    <3>2. BodyIs(b)
      BY <2>4 DEF BodyIs
    <3>3. i \in 0..Len(issue.body) /\ ItemLines(issue.body) \subseteq 1..Len(issue.body)
          /\ i \in Nat
      <4>1. i \in 1..Len(issue.body) /\ Len(issue.body) \in Nat
            /\ ItemLines(issue.body) \subseteq 1..Len(issue.body)
        BY <1>1, ItemLinesFinite
      <4> QED
        BY <4>1
    <3> HIDE DEF l
    <3>4. TickedTexts(b) \subseteq credit'
      BY <1>1, <1>3, <3>1, <3>3, EditedTexts
    <3>5. \A k \in ItemLines(issue.body) : Shifted(i, k) \in ItemLines(b)
                                          /\ b[Shifted(i, k)] = issue.body[k]
      <4>1. \A k \in 1..Len(issue.body) : Shifted(i, k) \in ItemLines(b) <=> k \in ItemLines(issue.body)
        <5>1. l.kind \in {"item", "other"}
          BY <3>1
        <5> QED
          BY <1>1, <3>1, <3>3, <5>1, InsertedItems
      <4>2. \A k \in 1..Len(issue.body) : b[Shifted(i, k)] = issue.body[k]
        BY <1>1, <3>1, <3>3, InsertedBody
      <4> HIDE DEF b
      <4> QED
        BY <3>3, <4>1, <4>2
    <3>6. Declares => Anchored(b)
      <4>1. Declares => Anchored(issue.body)
        BY <1>3
      <4> QED
        BY <1>1, <2>4, <3>1, <3>3, <4>1, InsertedSections
    <3> HIDE DEF b
    <3>7. \A k \in ItemLines(issue.body) : k \in ItemLines(b) /\ b[k].text = issue.body[k].text
      <4>1. \A k \in ItemLines(issue.body) : Shifted(i, k) = k
        BY <2>4 DEF Shifted
      <4> QED
        BY <3>5, <4>1
    <3> HIDE DEF Good
    <3>8. Good(b)
      BY <1>3, <1>6, <1>11, <3>4, <3>6, <3>7
    <3> QED
      BY <1>4, <2>1, <3>2, <3>8
  <2>5. CASE case.edited /\ issue'.body = Inserted(issue.body, 0, OtherLine("other"))
    <3> DEFINE l == OtherLine("other")
               m == 0
               b == Inserted(issue.body, m, l)
    <3>1. l \in Line /\ l.kind = "other"
      BY LineTypes
    <3>2. BodyIs(b)
      BY <2>5 DEF BodyIs
    <3>3. m \in 0..Len(issue.body)
      <4>1. Len(issue.body) \in Nat
        BY <1>1
      <4> QED
        BY <4>1
    <3> HIDE DEF l, m
    <3>4. TickedTexts(b) \subseteq credit'
      BY <1>1, <1>3, <3>1, <3>3, EditedTexts
    <3>5. ~Declares
      BY <1>3, <2>5
    <3> HIDE DEF b, Good
    <3>6. Good(b)
      BY <1>3, <1>6, <1>11, <3>4, <3>5
    <3> QED
      BY <1>4, <2>1, <3>2, <3>6
  <2> QED
    BY <1>11, <2>2, <2>3, <2>4, <2>5 DEF PeopleEdit
<1> QED
  BY <1>7, <1>8, <1>9, <1>10, <1>11, BodySteps

LEMMA LinesInit ==
    ASSUME DeclaredLinesStand, Init
    PROVE  LinesInv
<1>1. /\ case \in Issues /\ issue.body = case.body /\ credit = TickedTexts(case.body)
      /\ eng = Planned(case.body)
  BY DEF Init
<1>2. eng.ids = PlannedIds(case.body) /\ eng.done = {} /\ ~Reading
  BY <1>1, CaseTypes, PlannedTypes DEF Reading
<1>3. Declares => ~case.edited /\ Anchored(case.body)
  BY <1>1 DEF Declares, DeclaredLinesStand
<1> QED
  BY <1>1, <1>2, <1>3 DEF LinesInv, Names, TicksCovered

\* Where declared lines stay where they are, every ticked item is one that was ticked when
\* the task began, that a person ticked, or that the ids or the description of a done
\* sub-task match: through items people add, failing calls that were applied, restarts,
\* reruns, and whole bodies written back (applyDeclaredChecklistTicks,
\* BuildChecklistSyncPreview).
THEOREM TicksAreCovered ==
    ASSUME DeclaredLinesStand
    PROVE  Spec => []TicksCovered
<1>1. Init => LinesInv
  BY LinesInit
<1>2. TypeOK /\ LinesInv /\ [Next]_vars => LinesInv'
  BY LinesStep
<1>3. LinesInv => TicksCovered
  BY DEF LinesInv
<1> QED
  BY <1>1, <1>2, <1>3, IssueTypeCorrect, PTL DEF Spec

-----------------------------------------------------------------------------
(***************************************************************************)
(* The final sync.  While nothing has gone wrong, what SyncChecklist       *)
(* writes is made of the body as it is, and leaves nothing to tick.        *)
(***************************************************************************)
Synced(b) == \A t \in eng.done : LinesOf(b, case.plan[t].covers) \cap Unticked(b) = {}

SyncInv ==
    events = 0 => /\ ~issue.blocked
                  /\ At("edit") => eng.read = issue.body
                  /\ At("assess") /\ ~eng.human => Synced(issue.body)

LEMMA PreviewIsEnough ==
    ASSUME AllOrNoneDeclare, case \in Issues, eng.done \subseteq DOMAIN case.plan,
           NEW b, eng.ids = PlannedIds(b), NEW t \in eng.done
    PROVE  LinesOf(b, case.plan[t].covers) \cap Unticked(b) \subseteq PreviewLines(b)
<1> SUFFICES ASSUME NEW i \in LinesOf(b, case.plan[t].covers), i \in Unticked(b)
             PROVE  i \in PreviewLines(b)
  OBVIOUS
<1>1. CASE Declared(eng.done) # {}
  <2>1. PICK s \in eng.done : eng.ids[s] # {}
    BY <1>1 DEF Declared
  <2>2. case.plan[s].declared /\ case.plan[t].declared = case.plan[s].declared
    BY <2>1 DEF PlannedIds, AllOrNoneDeclare
  <2>3. i \in eng.ids[t]
    BY <2>2 DEF PlannedIds
  <2> QED
    BY <1>1, <2>3 DEF PreviewLines, Declared
<1>2. CASE Declared(eng.done) = {}
  BY <1>2 DEF PreviewLines, LinesOf
<1> QED
  BY <1>1, <1>2

LEMMA SyncStep ==
    ASSUME AllOrNoneDeclare, TypeOK, CloseInv, LinesInv, SyncInv, [Next]_vars
    PROVE  SyncInv'
<1>1. /\ issue \in Issue /\ eng \in Engine /\ issue.body \in Seq(Line) /\ eng.read \in Seq(Line)
      /\ case \in Issues /\ eng.done \subseteq DOMAIN case.plan /\ events \in 0..MaxEvents
  BY StateTypes
<1> SUFFICES ASSUME events' = 0 PROVE SyncInv'
  BY DEF SyncInv
<1>2. \A e : ~Event(e)
  <2> TAKE e
  <2>1. Event(e) => events' > 0
    BY EventTypes
  <2> QED
    BY <2>1
<1>3. events = 0 /\ events' = events
  <2>1. [Next]_vars => events' = events
    BY <1>2 DEF Next, Hook, People, vars, PlanFetch, PlanWrite, SubTaskResolved, LoopEnds,
      LoadMapping, SyncLoad, SyncEdit, Assess, CloseRecheck, Close, HumanTicks, HumanUnticks,
      HumanAdds, HumanBlocks, HumanInserts, Restart, Rerun, ReadFails, Write
  <2> QED
    BY <2>1
<1>4. /\ ~issue.blocked /\ (At("edit") => eng.read = issue.body)
      /\ At("assess") /\ ~eng.human => Synced(issue.body)
  BY <1>3 DEF SyncInv
<1>5. issue'.blocked = issue.blocked
  <2>1. ASSUME NEW b \in Seq(Line), Write([issue EXCEPT !.body = b])
        PROVE  issue'.blocked = issue.blocked
    BY <1>1, <1>2, <2>1 DEF Write, Issue
  <2>2. CASE PlanWrite
    BY <1>1, <2>1, <2>2, WithPlanBody DEF PlanWrite
  <2>3. CASE SyncEdit
    BY <1>1, <2>1, <2>3, TickedBody DEF SyncEdit
  <2>4. CASE Close
    BY <1>1, <1>2, <2>4 DEF Close, Write, Issue
  <2>5. CASE ~PlanWrite /\ ~SyncEdit /\ ~Close
    <3>1. issue' = issue
      BY <1>2, <2>5 DEF Next, Hook, People, vars, PlanFetch, SubTaskResolved, LoopEnds,
        LoadMapping, SyncLoad, Assess, CloseRecheck, HumanTicks, HumanUnticks, HumanAdds,
        HumanBlocks, HumanInserts, Restart, Rerun, ReadFails
    <3> QED
      BY <3>1
  <2> QED
    BY <2>2, <2>3, <2>4, <2>5
\* the hooks come to the edit, or to the assessment, by a sync only
<1>6. CASE SyncLoad
  <2>1. /\ eng' = IF SyncCanWrite THEN [eng EXCEPT !.pc = "edit", !.read = issue.body]
                                  ELSE [eng EXCEPT !.pc = AfterSync]
        /\ issue' = issue /\ case' = case /\ At("load")
    BY <1>2, <1>6 DEF SyncLoad, ReadFails
  <2>2. CASE SyncCanWrite
    <3>1. eng'.pc = "edit" /\ eng'.read = issue'.body
      BY <1>1, <2>1, <2>2 DEF Engine
    <3> QED
      BY <1>4, <1>5, <3>1 DEF SyncInv, At
  <2>3. CASE ~SyncCanWrite
    <3>1. eng'.pc # "edit" /\ eng'.human = eng.human /\ eng'.done = eng.done
      BY <1>1, <2>1, <2>3 DEF Engine, AfterSync
    <3>2. ASSUME ~eng.human
          PROVE  Synced(issue.body)
      <4>1. ~issue.closed
        BY <2>1 DEF CloseInv, At
      <4>2. eng.done = {} \/ PreviewLines(issue.body) = {}
        BY <1>4, <2>3, <3>2, <4>1 DEF SyncCanWrite
      <4>3. \A t \in eng.done :
               LinesOf(issue.body, case.plan[t].covers) \cap Unticked(issue.body)
                  \subseteq PreviewLines(issue.body)
        BY <1>1, <1>3, PreviewIsEnough DEF LinesInv
      <4> QED
        BY <4>2, <4>3 DEF Synced
    <3> QED
      BY <1>4, <1>5, <2>1, <3>1, <3>2 DEF SyncInv, At, Synced
  <2> QED
    BY <2>2, <2>3
<1>7. CASE SyncEdit
  <2> DEFINE b == issue.body
             lines == PreviewLines(b)
             new == Ticked(b, lines)
  <2>1. eng.read = b
    BY <1>4, <1>7 DEF SyncEdit
  <2>2. issue'.body = new
    <3>1. issue' = [issue EXCEPT !.body = new]
      BY <1>2, <1>7, <2>1 DEF SyncEdit, Write
    <3> QED
      BY <1>1, <3>1 DEF Issue
  <2>3. eng'.pc # "edit" /\ eng'.done = eng.done /\ case' = case
    BY <1>1, <1>7 DEF SyncEdit, AfterSync, Engine
  <2>4. \A t \in eng.done : LinesOf(b, case.plan[t].covers) \cap Unticked(b) \subseteq lines
    BY <1>1, <1>3, PreviewIsEnough DEF LinesInv
  <2>5. /\ ItemLines(new) = ItemLines(b)
        /\ \A i \in Unticked(new) : i \in Unticked(b) /\ i \notin lines
        /\ \A i \in ItemLines(b) : new[i].text = b[i].text
    BY <1>1, TickedItems, TickedBody, ItemLinesFinite
  <2> HIDE DEF new, lines
  <2>6. Synced(new)
    BY <2>4, <2>5 DEF Synced, LinesOf
  <2> QED
    BY <1>4, <1>5, <2>2, <2>3, <2>6 DEF SyncInv, At, Synced
<1>8. CASE ~SyncLoad /\ ~SyncEdit
  <2>1. \/ UNCHANGED vars
        \/ eng'.pc \notin {"edit", "assess"}
    <3>1. CASE PlanFetch \/ PlanWrite \/ LoopEnds \/ LoadMapping
      BY <1>1, <1>2, <3>1 DEF PlanFetch, PlanWrite, LoopEnds, LoadMapping, ReadFails, Engine
    <3>2. CASE \E ok \in BOOLEAN : SubTaskResolved(ok)
      BY <1>1, <3>2 DEF SubTaskResolved, Engine
    <3>3. CASE Assess \/ CloseRecheck \/ Close
      BY <1>1, <1>2, <3>3 DEF Assess, CloseRecheck, Close, ReadFails, Goto, Engine
    <3> QED
      BY <1>2, <1>8, <3>1, <3>2, <3>3 DEF Next, Hook, People, HumanTicks, HumanUnticks,
        HumanAdds, HumanBlocks, HumanInserts, Restart, Rerun
  <2> QED
    BY <1>4, <1>5, <2>1 DEF SyncInv, At, Synced, vars
<1> QED
  BY <1>6, <1>7, <1>8

\* Where the planner declares lines for every sub-task or for none, and declared lines stay
\* where they are, a task in which nothing went wrong and nobody interfered leaves no item
\* unticked that the ids or the description of a done sub-task match, unless the mapping, which
\* scores the texts in its own way, asks for a human (SyncChecklist, ChecklistSyncGuard).
THEOREM DoneWorkIsTicked ==
    ASSUME DeclaredLinesStand, AllOrNoneDeclare
    PROVE  Spec => []DoneWorkTicked
<1>1. Init => CloseInv /\ LinesInv /\ SyncInv
  <2> SUFFICES ASSUME Init PROVE CloseInv /\ LinesInv /\ SyncInv
    OBVIOUS
  <2>1. issue.closed = FALSE /\ issue.blocked = FALSE /\ eng.pc = "fetch"
    BY DEF Init, Planned
  <2> QED
    BY <2>1, LinesInit DEF CloseInv, SyncInv, At
<1>2. TypeOK /\ CloseInv /\ LinesInv /\ SyncInv /\ [Next]_vars => CloseInv' /\ LinesInv' /\ SyncInv'
  BY CloseStep, LinesStep, SyncStep
<1>3. SyncInv => DoneWorkTicked
  BY DEF SyncInv, DoneWorkTicked, Synced
<1> QED
  BY <1>1, <1>2, <1>3, IssueTypeCorrect, PTL DEF Spec

=============================================================================
