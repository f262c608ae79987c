------------------------- MODULE WalkingAgentProofs -------------------------
(***************************************************************************)
(* Proofs about WalkingAgent, for any models, context limit, transcript    *)
(* growth and number of calls, under the two conditions that the graph     *)
(* bridge does not establish itself: a failure does not pause the task     *)
(* (outputForApprovalPause leaves state.Walking as it was), and a blocking *)
(* strict review says why (decideWalking takes a silent one for a fresh    *)
(* sub-task).  The bound on the session also needs a largest call.         *)
(***************************************************************************)
EXTENDS WalkingAgent, TLAPS

USE WalkingAssumption DEF NoModel

AsConfigured == FailurePause = FALSE /\ Feedbacks \subseteq {"text"}

\* the entry points that begin with an empty walking state and keep the process
Fresh == driver \in {"run", "graph"}

\* what a retry may carry, and that no name of a model is the missing one
RetryInv == retry.feedback \in {"none", "text"}

\* the engine's fields and state.Walking agree, and neither names a model that the runner
\* does not report
LadderInv ==
    Fresh => /\ legacy = graph
             /\ metrics = "none" => legacy.prev = NoModel

\* a remembered model is the model of a session that may be walked on
SessionInv ==
    Fresh /\ graph.prev # NoModel =>
        session.model = graph.prev /\ session.primed /\ session.sound

WalkInv == TypeOK /\ RetryInv /\ LadderInv /\ SessionInv /\ SlimPromptSafe

-----------------------------------------------------------------------------
(* The ladders *)

\* With text for every block, the two ladders are one.
LEMMA LaddersAgree ==
    ASSUME legacy = graph, NEW m \in Models, NEW fb \in {"none", "text"}
    PROVE  LegacyWalks(m, fb) = GraphWalks(m, fb)
  BY DEF LegacyWalks, GraphWalks

LEMMA WalksOnLadder ==
    ASSUME Fresh, legacy = graph, NEW m \in Models, NEW fb \in {"none", "text"}
    PROVE  Walks(m, fb) = GraphWalks(m, fb)
  BY LaddersAgree DEF Walks, Fresh

\* The legacy update, which drops the fields at a boundary before the call, leaves what
\* nextWalkingState leaves.
LEMMA UpdatesAgree ==
    ASSUME FailurePause = FALSE, legacy = graph, metrics = "none" => legacy.prev = NoModel,
           NEW m \in Models, NEW fb \in {"none", "text"}, NEW size, NEW c, NEW ok \in BOOLEAN,
           legacy \in Walk
    PROVE  LegacyAfter(LegacyBefore(m, fb), m, GraphWalks(m, fb), size, c, ok)
             = GraphAfter(m, GraphWalks(m, fb), size, c, ok)
<1> DEFINE walks == GraphWalks(m, fb)
           before == LegacyBefore(m, fb)
<1>1. CASE ~ok
  BY <1>1 DEF LegacyAfter, GraphAfter
<1>2. CASE ok /\ metrics = "none"
  <2>1. ~walks /\ before = NoWalk
    BY <1>2 DEF GraphWalks, LegacyBefore
  <2>2. GraphAfter(m, walks, size, c, ok) = NoWalk
    BY <1>2, <2>1 DEF GraphAfter, Watermark, NoWalk
  <2> QED
    BY <1>2, <2>1, <2>2 DEF LegacyAfter
<1>3. CASE ok /\ metrics # "none"
  <2>1. LegacyAfter(before, m, walks, size, c, ok)
          = [prev |-> m, seen |-> Watermark(before, walks, size, c)]
    BY <1>3 DEF LegacyAfter
  <2>2. GraphAfter(m, walks, size, c, ok)
          = [prev |-> m, seen |-> Watermark(graph, walks, size, c)]
    BY <1>3 DEF GraphAfter
  <2>3. Watermark(before, walks, size, c) = Watermark(graph, walks, size, c)
    <3>1. CASE walks
      <4>1. before = legacy
        BY <3>1 DEF GraphWalks, LegacyBefore, Walk
      <4> QED
        BY <4>1
    <3>2. CASE ~walks
      BY <3>2 DEF Watermark
    <3> QED
      BY <3>1, <3>2
  <2> QED
    BY <2>1, <2>2, <2>3
<1> QED
  BY <1>1, <1>2, <1>3

-----------------------------------------------------------------------------
(* Watermarks *)

LEMMA MaxOfTwo ==
    ASSUME NEW a \in Nat, NEW b \in Nat
    PROVE  /\ Max({a, b}) \in {a, b}
           /\ \A n \in Nat : a <= n /\ b <= n => Max({a, b}) <= n
           /\ \A n \in Nat : Max({a, b}) <= n => a <= n /\ b <= n
<1>1. \E x \in {a, b} : \A y \in {a, b} : x >= y
  OBVIOUS
<1>2. Max({a, b}) \in {a, b} /\ \A y \in {a, b} : Max({a, b}) >= y
  BY <1>1 DEF Max
<1> QED
  BY <1>2

\* only a walking call depends on the watermark before it
LEMMA WatermarkBounded ==
    ASSUME NEW w \in Walk, NEW walks \in BOOLEAN, NEW old \in Nat, NEW c \in Nat
    PROVE  /\ Watermark(w, walks, old + c, c) \in Nat
           /\ (walks => w.seen <= old) => Watermark(w, walks, old + c, c) <= old + c
<1> DEFINE new == Transcript(w, old + c, c)
<1>1. w.seen \in Nat /\ old + c \in Nat /\ new \in Nat /\ (w.seen <= old => new <= old + c)
  BY DEF Walk, Transcript
<1>2. CASE walks
  <2>1. Max({w.seen, new}) \in Nat /\ (w.seen <= old => Max({w.seen, new}) <= old + c)
    <3>1. w.seen <= old => w.seen <= old + c
      BY <1>1
    <3> HIDE DEF new
    <3> QED
      BY <1>1, <3>1, MaxOfTwo
  <2> QED
    BY <1>2, <2>1 DEF Watermark
<1>3. CASE ~walks
  BY <1>3 DEF Watermark
<1> QED
  BY <1>2, <1>3

LEMMA GraphAfterTyped ==
    ASSUME graph \in Walk, NEW m \in Models, NEW walks \in BOOLEAN, NEW ok \in BOOLEAN,
           NEW old \in Nat, NEW c \in Nat
    PROVE  /\ GraphAfter(m, walks, old + c, c, ok) \in Walk
           /\ FailurePause = FALSE /\ (walks => graph.seen <= old) =>
                 GraphAfter(m, walks, old + c, c, ok).seen <= old + c
<1> DEFINE mark == Watermark(graph, walks, old + c, c)
<1>1. mark \in Nat /\ ((walks => graph.seen <= old) => mark <= old + c)
  BY WatermarkBounded
<1>2. CASE ok
  <2>1. GraphAfter(m, walks, old + c, c, ok)
          = [prev |-> IF metrics = "none" THEN graph.prev ELSE m, seen |-> mark]
    BY <1>2 DEF GraphAfter
  <2> HIDE DEF mark
  <2> QED
    BY <1>1, <2>1 DEF Walk
<1>3. CASE ~ok
  BY <1>3 DEF GraphAfter, NoWalk, Walk
<1> QED
  BY <1>2, <1>3

LEMMA LegacyAfterTyped ==
    ASSUME legacy \in Walk, NEW m \in Models, NEW fb, NEW walks \in BOOLEAN, NEW ok \in BOOLEAN,
           NEW old \in Nat, NEW c \in Nat
    PROVE  LegacyAfter(LegacyBefore(m, fb), m, walks, old + c, c, ok) \in Walk
<1> DEFINE before == LegacyBefore(m, fb)
           mark == Watermark(before, walks, old + c, c)
<1>1. before \in Walk
  BY DEF LegacyBefore, NoWalk, Walk
<1>2. mark \in Nat
  <2> HIDE DEF before
  <2> QED
    BY <1>1, WatermarkBounded
<1> HIDE DEF mark
<1>3. [prev |-> m, seen |-> mark] \in Walk /\ NoWalk \in Walk
  BY <1>2 DEF Walk, NoWalk
<1>4. LegacyAfter(before, m, walks, old + c, c, ok)
        = IF ~ok THEN NoWalk ELSE IF metrics = "none" THEN before ELSE [prev |-> m, seen |-> mark]
  BY DEF LegacyAfter, mark
<1> QED
  BY <1>1, <1>3, <1>4

LEMMA WatermarkHeld ==
    ASSUME TypeOK, driver \in {"run", "graph"}
    PROVE  legacy.seen <= session.size /\ graph.seen <= session.size
<1>1. legacy.seen \in Nat /\ graph.seen \in Nat /\ session.size \in Nat
  BY DEF TypeOK, Walk, Session
<1>2. Max({legacy.seen, graph.seen}) <= session.size
  BY DEF TypeOK
<1> QED
  BY <1>1, <1>2, MaxOfTwo

-----------------------------------------------------------------------------
(* The invariant *)

LEMMA InitWalks == Init => WalkInv
<1> SUFFICES ASSUME Init
             PROVE  WalkInv
  OBVIOUS
<1>1. TypeOK
  BY MaxOfTwo DEF Init, TypeOK, NoWalk, Walk, NoRetry, FreshSession, Session
<1> QED
  BY <1>1 DEF Init, WalkInv, RetryInv, LadderInv, SessionInv, SlimPromptSafe, Fresh, NoWalk, NoRetry

\* A call keeps the ladders alike and the session fit for the next one.
LEMMA CallWalks ==
    ASSUME AsConfigured, WalkInv,
           NEW m \in Models, NEW c \in CallTokens, NEW ok \in BOOLEAN,
           NEW fb \in Feedbacks \cup {"none"}, Call(m, c, ok, fb)
    PROVE  WalkInv'
<1> DEFINE walks == Walks(m, retry.feedback)
           found == Found(m, walks)
           size  == found.size + c
<1> USE DEF AsConfigured
<1>1. /\ driver' = driver /\ metrics' = metrics
      /\ driver # "resume" => session.on
      /\ session' = [found EXCEPT !.primed = @ \/ ~walks, !.sound = @ /\ ok, !.size = size]
      /\ legacy' = LegacyAfter(LegacyBefore(m, retry.feedback), m, walks, size, c, ok)
      /\ graph' = GraphAfter(m, walks, size, c, ok)
      /\ last' = [by |-> driver, slim |-> walks, primed |-> found.primed, sound |-> found.sound]
      /\ retry' = IF ok /\ fb # "none" THEN [model |-> m, feedback |-> fb] ELSE NoRetry
  BY DEF Call
<1>2. RetryInv'
  BY <1>1 DEF RetryInv, NoRetry
<1>3. LadderInv'
  <2> SUFFICES ASSUME Fresh
               PROVE  legacy' = graph' /\ (metrics = "none" => legacy'.prev = NoModel)
    BY <1>1 DEF LadderInv, Fresh
  <2>1. walks = GraphWalks(m, retry.feedback)
    BY WalksOnLadder DEF WalkInv, RetryInv, LadderInv
  <2>2. legacy' = graph'
    <3>1. legacy = graph /\ (metrics = "none" => legacy.prev = NoModel) /\ legacy \in Walk
          /\ retry.feedback \in {"none", "text"} /\ FailurePause = FALSE
      BY DEF WalkInv, RetryInv, LadderInv, TypeOK
    <3>2. LegacyAfter(LegacyBefore(m, retry.feedback), m, GraphWalks(m, retry.feedback), size, c, ok)
            = GraphAfter(m, GraphWalks(m, retry.feedback), size, c, ok)
      <4> HIDE DEF size, walks
      <4> QED
        BY <3>1, UpdatesAgree, Zenon
    <3> QED
      BY <1>1, <2>1, <3>2, Zenon
  <2>3. metrics = "none" => graph'.prev = NoModel
    <3>1. metrics = "none" => graph.prev = NoModel
      BY DEF WalkInv, LadderInv
    <3>2. ASSUME metrics = "none"
          PROVE  GraphAfter(m, walks, size, c, ok).prev = NoModel
      BY <3>1, <3>2 DEF GraphAfter, NoWalk
    <3> QED
      BY <1>1, <3>2
  <2> QED
    BY <2>2, <2>3
<1>4. Fresh /\ walks => found = session /\ session.primed /\ session.sound
  <2> SUFFICES ASSUME Fresh, walks
               PROVE  found = session /\ session.primed /\ session.sound
    OBVIOUS
  <2>1. GraphWalks(m, retry.feedback)
    BY WalksOnLadder DEF WalkInv, RetryInv, LadderInv
  <2>2. graph.prev = m /\ graph.prev # NoModel
    BY <2>1 DEF GraphWalks
  <2>3. session.model = m /\ session.primed /\ session.sound
    BY <2>2 DEF WalkInv, SessionInv
  <2>4. session.on
    BY <1>1 DEF Fresh
  <2> QED
    BY <2>3, <2>4 DEF Found
<1>5. SlimPromptSafe'
  <2> SUFFICES ASSUME walks, driver \notin {"resume", "restarted"}
               PROVE  found.primed /\ found.sound
    BY <1>1 DEF SlimPromptSafe
  <2>1. Fresh
    BY DEF WalkInv, TypeOK, Fresh, Call
  <2> QED
    BY <1>4, <2>1
<1>6. SessionInv'
  <2> SUFFICES ASSUME Fresh, graph'.prev # NoModel
               PROVE  session'.model = graph'.prev /\ session'.primed /\ session'.sound
    BY <1>1 DEF SessionInv, Fresh
  <2>1. ok /\ metrics # "none" /\ graph'.prev = m
    <3>1. metrics = "none" => graph.prev = NoModel
      BY DEF WalkInv, LadderInv
    <3> QED
      BY <1>1, <3>1 DEF GraphAfter, NoWalk
  <2>2. found \in Session
    BY DEF Found, FreshSession, Session, WalkInv, TypeOK
  <2>3. /\ session'.model = found.model
        /\ session'.primed = (found.primed \/ ~walks)
        /\ session'.sound = (found.sound /\ ok)
    BY <1>1, <2>2 DEF Session
  <2>4. found.model = m /\ (~walks => found.sound)
    BY DEF Found, FreshSession
  <2> QED
    BY <1>4, <2>1, <2>3, <2>4
<1>7. TypeOK'
  <2>1. found \in Session /\ found.size \in Nat /\ c \in Nat
    BY DEF Found, FreshSession, Session, WalkInv, TypeOK
  <2>2. walks \in BOOLEAN
    BY DEF Walks, GraphWalks, LegacyWalks
  <2>3. session' \in Session /\ session'.size = found.size + c
    <3> HIDE DEF walks, found
    <3>1. session' = [on |-> found.on, model |-> found.model, primed |-> found.primed \/ ~walks,
                      sound |-> found.sound /\ ok, size |-> found.size + c]
      BY <1>1, <2>1 DEF Session
    <3>2. found.on \in BOOLEAN /\ found.model \in Models \cup {NoModel} /\ found.size + c \in Nat
      BY <2>1 DEF Session
    <3> QED
      BY <3>1, <3>2 DEF Session
  <2>4. legacy' \in Walk /\ graph' \in Walk
    <3> HIDE DEF walks, found
    <3> QED
      BY <1>1, <2>1, <2>2, GraphAfterTyped, LegacyAfterTyped DEF WalkInv, TypeOK
  <2>5. Fresh => legacy'.seen <= session'.size /\ graph'.seen <= session'.size
    <3> SUFFICES ASSUME Fresh
                 PROVE  graph'.seen <= session'.size
      BY <1>1, <1>3 DEF LadderInv, Fresh
    <3>1. walks => graph.seen <= found.size
      <4>1. graph.seen <= session.size
        BY WatermarkHeld DEF WalkInv, Fresh
      <4> QED
        BY <1>4, <4>1
    <3>2. graph \in Walk /\ FailurePause = FALSE
      BY DEF WalkInv, TypeOK
    <3> HIDE DEF walks, found
    <3>3. GraphAfter(m, walks, found.size + c, c, ok).seen <= found.size + c
      BY <2>1, <2>2, <3>1, <3>2, GraphAfterTyped
    <3> QED
      BY <1>1, <2>3, <3>3
  <2>6. retry' \in [model : Models \cup {NoModel}, feedback : Feedbacks \cup {"none"}]
    BY <1>1 DEF NoRetry
  <2>7. last' \in [by : Drivers \cup {"idle", "restarted"}, slim : BOOLEAN, primed : BOOLEAN,
                   sound : BOOLEAN]
    BY <1>1, <2>1, <2>2 DEF Session, WalkInv, TypeOK
  <2>8. calls' \in 0..MaxCalls
    BY DEF Call, WalkInv, TypeOK
  <2>9. driver' \in {"run", "graph"} => Max({legacy'.seen, graph'.seen}) <= session'.size
    <3>1. legacy'.seen \in Nat /\ graph'.seen \in Nat /\ session'.size \in Nat
      BY <2>3, <2>4 DEF Walk, Session
    <3> QED
      BY <1>1, <2>5, <3>1, MaxOfTwo DEF Fresh
  <2> QED
    BY <1>1, <2>3, <2>4, <2>6, <2>7, <2>8, <2>9 DEF TypeOK, WalkInv
<1> QED
  BY <1>2, <1>3, <1>5, <1>6, <1>7 DEF WalkInv

\* What the entry points and the ends do to the invariant.
LEMMA NextWalks ==
    ASSUME AsConfigured, WalkInv, [Next]_vars
    PROVE  WalkInv'
<1> USE DEF WalkInv, RetryInv, LadderInv, SessionInv, SlimPromptSafe, Fresh
<1>1. ASSUME NEW d \in Drivers, Begin(d)
      PROVE  WalkInv'
  <2>1. session.size \in Nat /\ session' \in Session /\ session'.size = session.size
    BY <1>1 DEF Begin, TypeOK, Session
  <2>2. Max({NoWalk.seen, NoWalk.seen}) <= session.size
    BY <2>1, MaxOfTwo DEF NoWalk
  <2>3. TypeOK'
    BY <1>1, <2>1, <2>2 DEF Begin, TypeOK, NoWalk, Walk, NoRetry
  <2> QED
    BY <1>1, <2>3 DEF Begin, NoWalk, NoRetry
<1>0. session \in Session /\ graph \in Walk /\ legacy \in Walk
  BY DEF TypeOK
<1>2. ASSUME NEW d \in Drivers, BeginResume(d)
      PROVE  WalkInv'
  <2>1. driver' = "resume" /\ retry' = NoRetry /\ d = "resume"
        /\ UNCHANGED <<legacy, graph, metrics, session, last, calls>>
    BY <1>2 DEF BeginResume
  <2>2. TypeOK'
    BY <2>1 DEF TypeOK, NoRetry
  <2> QED
    BY <2>1, <2>2 DEF NoRetry
<1>3. CASE End
  <2>1. session' \in Session /\ session'.size = session.size /\ session'.model = session.model
        /\ session'.primed = session.primed /\ session'.sound = session.sound
    BY <1>3, <1>0 DEF End, Session
  <2>2. driver' = "idle" /\ retry' = NoRetry /\ UNCHANGED <<legacy, graph, metrics, last, calls>>
    BY <1>3 DEF End
  <2>3. TypeOK'
    BY <2>1, <2>2 DEF TypeOK, NoRetry
  <2> QED
    BY <2>1, <2>2, <2>3 DEF NoRetry
<1>4. CASE Halt
  <2>1. session' \in Session /\ session'.size = session.size /\ session'.model = session.model
        /\ session'.primed = session.primed /\ session'.sound = session.sound
    BY <1>4, <1>0 DEF Halt, Session
  <2>2. UNCHANGED <<driver, legacy, graph, metrics, retry, last, calls>>
    BY <1>4 DEF Halt
  <2>3. TypeOK'
    BY <2>1, <2>2 DEF TypeOK, NoRetry
  <2> QED
    BY <2>1, <2>2, <2>3 DEF NoRetry
<1>5. CASE Relaunch
  <2>1. session' \in Session /\ session'.size = session.size /\ session'.model = session.model
        /\ session'.primed = session.primed /\ session'.sound = session.sound
    BY <1>5, <1>0 DEF Relaunch, Session
  <2>2. UNCHANGED <<driver, legacy, graph, metrics, retry, last, calls>>
    BY <1>5 DEF Relaunch
  <2>3. TypeOK'
    BY <2>1, <2>2 DEF TypeOK, NoRetry
  <2> QED
    BY <2>1, <2>2, <2>3 DEF NoRetry
<1>6. CASE Restart
  <2>1. driver' = "restarted" /\ legacy' = NoWalk /\ session' = FreshSession
        /\ UNCHANGED <<graph, metrics, retry, last, calls>>
    BY <1>6 DEF Restart
  <2>2. NoWalk \in Walk /\ FreshSession \in Session
    BY DEF NoWalk, Walk, FreshSession, Session
  <2>3. TypeOK'
    BY <2>1, <2>2 DEF TypeOK
  <2> QED
    BY <2>1, <2>3
<1>7. CASE UNCHANGED vars
  BY <1>7 DEF vars, TypeOK
<1> QED
  BY <1>1, <1>2, <1>3, <1>4, <1>5, <1>6, <1>7, CallWalks DEF Next

\* The ladders stay alike, and a model they remember has a session fit to walk on.
THEOREM WalkInvariant == ASSUME AsConfigured PROVE Spec => []WalkInv
  BY InitWalks, NextWalks, PTL DEF Spec

\* Engine fields, snapshot and session keep their types, and no watermark counts more than
\* the session holds, whatever calls the task makes.
THEOREM WalkingTypeCorrect == ASSUME AsConfigured PROVE Spec => []TypeOK
  BY WalkInvariant, PTL DEF WalkInv

\* No slim prompt reaches a session that has no full prompt of the task, or whose last call
\* failed: executeSubTask and decideWalking walk only on a model whose session is fit for it.
THEOREM SlimPromptsAreSafe == ASSUME AsConfigured PROVE Spec => []SlimPromptSafe
  BY WalkInvariant, PTL DEF WalkInv

\* decideWalking decides as the ladder of executeSubTask does, after any calls driven by
\* either.
THEOREM GraphMirrorsLegacy == ASSUME AsConfigured PROVE Spec => []MirrorsLegacy
<1>1. ASSUME AsConfigured, WalkInv
      PROVE  MirrorsLegacy
  BY <1>1, LaddersAgree DEF WalkInv, RetryInv, LadderInv, Fresh, MirrorsLegacy
<1> QED
  BY <1>1, WalkInvariant, PTL

-----------------------------------------------------------------------------
(***************************************************************************)
(* The size of the session.  While a model is remembered, the watermark    *)
(* trails the session by one call at most, since a cold call sets it to    *)
(* zero on a session that holds that call only.                            *)
(***************************************************************************)
BoundedCalls == \E top \in CallTokens : \A c \in CallTokens : c <= top

MaxCall == Max(CallTokens)

\* how large a session may be whose watermark is seen
Slack(seen) == IF metrics = "cache" THEN Max({seen, MaxCall}) ELSE seen + MaxCall

Limit == IF metrics = "cache" THEN Max({MaxContextTokens - 1, MaxCall}) + MaxCall
         ELSE MaxContextTokens - 1 + 2 * MaxCall

SizeInv ==
    /\ session.size <= Limit
    /\ driver \notin {"idle", "resume"} /\ graph.prev # NoModel
          => session.size <= Slack(graph.seen)
    /\ driver \in {"idle", "resume"} => ~session.on

LEMMA LargestCall ==
    ASSUME BoundedCalls
    PROVE  MaxCall \in Nat \ {0} /\ \A c \in CallTokens : c <= MaxCall
<1>1. \E x \in CallTokens : \A y \in CallTokens : x >= y
  BY DEF BoundedCalls
<1>2. MaxCall \in CallTokens /\ \A y \in CallTokens : MaxCall >= y
  BY <1>1 DEF MaxCall, Max
<1> QED
  BY <1>2

\* a cold call fits, and so does a walking one below the context limit
LEMMA SlackFits ==
    ASSUME BoundedCalls, NEW c \in CallTokens
    PROVE  /\ Limit \in Nat /\ c <= Limit /\ Slack(0) \in Nat /\ c <= Slack(0)
           /\ \A seen \in Nat, size \in Nat :
                 seen < MaxContextTokens /\ size <= Slack(seen) => size + c <= Limit
<1> DEFINE L == MaxCall
<1>1. L \in Nat /\ c \in Nat /\ c <= L /\ MaxContextTokens - 1 \in Nat
  BY LargestCall
<1> HIDE DEF L
<1>2. CASE metrics = "cache"
  <2> DEFINE top == Max({MaxContextTokens - 1, L})
  <2>1. Limit = top + L /\ \A seen : Slack(seen) = Max({seen, L})
    BY <1>2 DEF Limit, Slack, L
  <2>2. top \in Nat /\ MaxContextTokens - 1 <= top /\ L <= top
    BY <1>1, MaxOfTwo
  <2>3. Max({0, L}) \in Nat /\ L <= Max({0, L})
    BY <1>1, MaxOfTwo
  <2> HIDE DEF top
  <2>4. ASSUME NEW seen \in Nat, seen < MaxContextTokens
        PROVE  Max({seen, L}) <= top
    <3>1. seen <= top
      BY <2>2, <2>4
    <3> QED
      BY <1>1, <2>2, <3>1, MaxOfTwo
  <2>5. \A seen \in Nat : Max({seen, L}) \in Nat
    BY <1>1, MaxOfTwo
  <2>6. Limit \in Nat /\ c <= Limit /\ Slack(0) \in Nat /\ c <= Slack(0)
    BY <1>1, <2>1, <2>2, <2>3
  <2>7. ASSUME NEW seen \in Nat, NEW size \in Nat, seen < MaxContextTokens, size <= Slack(seen)
        PROVE  size + c <= Limit
    <3>1. size <= Max({seen, L})
      BY <2>1, <2>7
    <3>2. Max({seen, L}) \in Nat /\ Max({seen, L}) <= top
      BY <2>4, <2>5, <2>7
    <3>3. size <= top
      BY <2>2, <2>7, <3>1, <3>2
    <3> QED
      BY <1>1, <2>1, <2>2, <2>7, <3>3
  <2> QED
    BY <2>6, <2>7
<1>3. CASE metrics # "cache"
  <2>1. Limit = MaxContextTokens - 1 + 2 * L /\ \A seen : Slack(seen) = seen + L
    BY <1>3 DEF Limit, Slack, L
  <2> QED
    BY <1>1, <2>1
<1> QED
  BY <1>2, <1>3

\* what a walking call adds to the watermark keeps it within one call of the session
LEMMA WatermarkTrails ==
    ASSUME BoundedCalls, NEW w \in Walk, NEW old \in Nat, NEW c \in CallTokens,
           old <= Slack(w.seen)
    PROVE  old + c <= Slack(Watermark(w, TRUE, old + c, c))
<1> DEFINE L == MaxCall
           seen == w.seen
           mark == Watermark(w, TRUE, old + c, c)
<1>1. L \in Nat /\ c \in Nat /\ seen \in Nat /\ old + c \in Nat
  BY LargestCall DEF Walk
<1>2. mark = Max({seen, IF metrics = "cache" THEN old + c ELSE seen + c})
  BY DEF Watermark, Transcript
<1>3. old <= IF metrics = "cache" THEN Max({seen, L}) ELSE seen + L
  BY DEF Slack
<1> HIDE DEF L, seen, mark
<1>4. CASE metrics = "cache"
  <2>1. mark = Max({seen, old + c})
    BY <1>2, <1>4
  <2>2. mark \in Nat /\ old + c <= mark
    BY <1>1, <2>1, MaxOfTwo
  <2>3. Max({mark, L}) \in Nat /\ mark <= Max({mark, L})
    BY <1>1, <2>2, MaxOfTwo
  <2>4. old + c <= Max({mark, L})
    BY <1>1, <2>2, <2>3
  <2>5. Slack(mark) = Max({mark, L})
    BY <1>4 DEF Slack, L
  <2> QED
    BY <2>4, <2>5 DEF mark
<1>5. CASE metrics # "cache"
  <2>1. seen + c \in Nat /\ mark = Max({seen, seen + c})
    BY <1>1, <1>2, <1>5
  <2>2. mark \in Nat /\ seen + c <= mark
    BY <1>1, <2>1, MaxOfTwo
  <2>3. Slack(mark) = mark + L
    BY <1>5 DEF Slack, L
  <2>4. old + c <= mark + L
    BY <1>1, <1>3, <1>5, <2>2
  <2> QED
    BY <2>3, <2>4 DEF mark
<1> QED
  BY <1>4, <1>5

LEMMA CallSize ==
    ASSUME AsConfigured, BoundedCalls, WalkInv, SizeInv,
           NEW m \in Models, NEW c \in CallTokens, NEW ok \in BOOLEAN,
           NEW fb \in Feedbacks \cup {"none"}, Call(m, c, ok, fb)
    PROVE  SizeInv'
<1> DEFINE walks == Walks(m, retry.feedback)
           found == Found(m, walks)
           old == found.size
           mark == Watermark(graph, walks, old + c, c)
<1>1. /\ driver' = driver /\ metrics' = metrics /\ driver # "idle"
      /\ session' = [found EXCEPT !.primed = @ \/ ~walks, !.sound = @ /\ ok, !.size = old + c]
      /\ graph' = GraphAfter(m, walks, old + c, c, ok)
  BY DEF Call
<1>2. found \in Session /\ old \in Nat /\ c \in Nat /\ found.on = session.on
  BY DEF Found, FreshSession, Session, WalkInv, TypeOK
<1>3. session'.size = old + c /\ session'.on = session.on
  <2> HIDE DEF walks
  <2>1. session' = [on |-> found.on, model |-> found.model, primed |-> found.primed \/ ~walks,
                    sound |-> found.sound /\ ok, size |-> old + c]
    BY <1>1, <1>2 DEF Session
  <2> QED
    BY <1>2, <2>1
<1>4. (found = session /\ walks /\ session.on) \/ old = 0
  BY DEF Found, FreshSession
<1>5. walks \in BOOLEAN /\ graph \in Walk /\ graph.seen \in Nat
  BY DEF Walks, GraphWalks, LegacyWalks, WalkInv, TypeOK, Walk
<1>6. walks /\ driver \notin {"idle", "resume"}
        => graph.prev = m /\ graph.prev # NoModel /\ graph.seen < MaxContextTokens
  <2> SUFFICES ASSUME walks, driver \notin {"idle", "resume"}
               PROVE  GraphWalks(m, retry.feedback)
    BY DEF GraphWalks
  <2>1. CASE driver = "restarted"
    BY <2>1 DEF Walks
  <2>2. CASE driver # "restarted"
    <3>1. Fresh
      BY <2>2 DEF Fresh, WalkInv, TypeOK
    <3> QED
      BY <3>1, WalksOnLadder DEF WalkInv, RetryInv, LadderInv
  <2> QED
    BY <2>1, <2>2
<1>7. found = session /\ walks /\ session.on
        => old <= Slack(graph.seen) /\ graph.seen < MaxContextTokens
  BY <1>6 DEF SizeInv
<1>8. GraphAfter(m, walks, old + c, c, ok)
        = IF ~ok THEN NoWalk
          ELSE [prev |-> IF metrics = "none" THEN graph.prev ELSE m, seen |-> mark]
  BY DEF GraphAfter, AsConfigured
<1>9. mark = IF walks THEN Watermark(graph, TRUE, old + c, c) ELSE 0
  BY DEF Watermark
<1>10. Limit' = Limit /\ \A seen : Slack(seen)' = Slack(seen)
  BY <1>1 DEF Limit, Slack
<1> HIDE DEF walks, found, old, mark
<1>11. old + c <= Limit
  BY <1>2, <1>4, <1>5, <1>7, SlackFits
<1>12. (walks => old <= Slack(graph.seen)) => old + c <= Slack(mark)
  <2>1. CASE walks
    BY <1>2, <1>5, <1>9, <2>1, WatermarkTrails
  <2>2. CASE ~walks
    <3>1. old = 0 /\ mark = 0
      BY <1>4, <1>9, <2>2
    <3> QED
      BY <1>2, <3>1, SlackFits
  <2> QED
    BY <2>1, <2>2
<1>13. old = 0 => old <= Slack(graph.seen)
  <2>1. MaxCall \in Nat
    BY LargestCall
  <2>2. Max({graph.seen, MaxCall}) \in Nat
    BY <1>5, <2>1, MaxOfTwo
  <2> QED
    BY <1>5, <2>1, <2>2 DEF Slack
<1>14. old + c <= Slack(mark)
  BY <1>4, <1>7, <1>12, <1>13
<1>15. graph'.prev # NoModel => graph'.seen = mark
  BY <1>1, <1>8 DEF NoWalk
<1> QED
  BY <1>1, <1>3, <1>10, <1>11, <1>14, <1>15 DEF SizeInv

LEMMA SizeStep ==
    ASSUME AsConfigured, BoundedCalls, WalkInv, SizeInv, [Next]_vars
    PROVE  SizeInv'
<1>1. session \in Session
  BY DEF WalkInv, TypeOK
<1>2. metrics' = metrics => Limit' = Limit /\ \A seen : Slack(seen)' = Slack(seen)
  BY DEF Limit, Slack
<1>3. ASSUME NEW d \in Drivers, Begin(d)
      PROVE  SizeInv'
  <2>1. session'.size = session.size /\ graph' = NoWalk /\ metrics' = metrics
        /\ driver' \in {"run", "graph"}
    BY <1>1, <1>3 DEF Begin, Session
  <2> QED
    BY <1>2, <2>1 DEF SizeInv, NoWalk
<1>4. ASSUME NEW d \in Drivers, BeginResume(d)
      PROVE  SizeInv'
  BY <1>2, <1>4 DEF BeginResume, SizeInv
<1>5. CASE End
  <2>1. session'.size = session.size /\ ~session'.on /\ metrics' = metrics /\ driver' = "idle"
    BY <1>1, <1>5 DEF End, Session
  <2> QED
    BY <1>2, <2>1 DEF SizeInv
<1>6. CASE Halt \/ Relaunch
  <2>1. session'.size = session.size /\ metrics' = metrics /\ driver' = driver /\ graph' = graph
        /\ driver \in {"graph", "restarted"}
    BY <1>1, <1>6 DEF Halt, Relaunch, Session
  <2> QED
    BY <1>2, <2>1 DEF SizeInv
<1>7. CASE Restart
  <2>1. session'.size = 0 /\ metrics' = metrics /\ driver' = "restarted" /\ graph' = graph
    BY <1>7 DEF Restart, FreshSession
  <2>2. graph.seen \in Nat /\ MaxCall \in Nat
    BY LargestCall DEF WalkInv, TypeOK, Walk
  <2>3. Max({graph.seen, MaxCall}) \in Nat
    BY <2>2, MaxOfTwo
  <2>4. 0 <= Slack(graph.seen)
    BY <2>2, <2>3 DEF Slack
  <2>5. Limit \in Nat
    BY SlackFits
  <2> QED
    BY <1>2, <2>1, <2>4, <2>5 DEF SizeInv
<1>8. CASE UNCHANGED vars
  BY <1>2, <1>8 DEF vars, SizeInv
<1> QED
  BY <1>3, <1>4, <1>5, <1>6, <1>7, <1>8, CallSize DEF Next

\* The session of a task never outgrows the context limit by more than two calls, or one
\* when the runner reports cache tokens, although a cold call sets the watermark to zero.
THEOREM SessionIsBounded ==
    ASSUME AsConfigured, BoundedCalls
    PROVE  Spec => []ContextBounded
<1>1. Init => SizeInv
  <2> SUFFICES ASSUME Init PROVE SizeInv
    OBVIOUS
  <2>1. Limit \in Nat
    BY SlackFits
  <2> QED
    BY <2>1 DEF Init, SizeInv, FreshSession
<1>2. WalkInv /\ SizeInv /\ [Next]_vars => SizeInv'
  BY SizeStep
<1>3. SizeInv => ContextBounded
  BY DEF SizeInv, ContextBounded, Limit, MaxCall
<1> QED
  BY <1>1, <1>2, <1>3, WalkInvariant, PTL DEF Spec

=============================================================================
