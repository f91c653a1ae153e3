---------------------------- MODULE PipelineProofs ----------------------------
(***************************************************************************)
(* Theorems about Pipeline, for every value of its constants: any retry    *)
(* limits, any profile, any number of sessions, either reading of invoke.  *)
(***************************************************************************)
EXTENDS Pipeline, WellFoundedInduction, TLAPS

(***************************************************************************)
(* Artifacts: membership in Docs is a statement about each artifact.       *)
(***************************************************************************)
LEMMA DocsIntro ==
    ASSUME NEW d, d = [a \in Artifacts |-> d[a]],
           \A a \in Artifacts : d[a] \in Contents(a)
    PROVE  d \in Docs
BY DEF Docs

LEMMA DocsElim ==
    ASSUME NEW d \in Docs
    PROVE  /\ d = [a \in Artifacts |-> d[a]]
           /\ \A a \in Artifacts : d[a] \in Contents(a)
BY DEF Docs

LEMMA NoDocIsDoc == NoDoc \in Docs
<1>1. \A a \in Artifacts : NoDoc[a] \in Contents(a)
  BY DEF NoDoc, Contents
<1>2. NoDoc = [a \in Artifacts |-> NoDoc[a]]
  BY DEF NoDoc
<1> QED BY <1>1, <1>2, DocsIntro

LEMMA WrittenDocIsDoc ==
    ASSUME NEW d \in Docs, NEW a \in Artifacts, NEW v \in Verdicts(a)
    PROVE  [d EXCEPT ![a] = v] \in Docs
<1> DEFINE e == [d EXCEPT ![a] = v]
<1>1. e = [b \in Artifacts |-> e[b]]
  BY DocsElim
<1>2. \A b \in Artifacts : e[b] \in Contents(b)
  BY DocsElim DEF Contents
<1> HIDE DEF e
<1>3. e \in Docs
  BY <1>1, <1>2, DocsIntro
<1> QED BY <1>3 DEF e

LEMMA ClearedDocIsDoc ==
    ASSUME NEW d \in Docs, NEW gone
    PROVE  [a \in Artifacts |-> IF a \in gone THEN NoArtifact ELSE d[a]] \in Docs
<1> DEFINE e == [a \in Artifacts |-> IF a \in gone THEN NoArtifact ELSE d[a]]
<1>1. e = [b \in Artifacts |-> e[b]]
  OBVIOUS
<1>2. \A b \in Artifacts : e[b] \in Contents(b)
  BY DocsElim DEF Contents
<1> HIDE DEF e
<1>3. e \in Docs
  BY <1>1, <1>2, DocsIntro
<1> QED BY <1>3 DEF e

LEMMA HydratedDocIsDoc ==
    ASSUME NEW d \in Docs, NEW m
    PROVE  Hydrate(d, m) \in Docs
BY ClearedDocIsDoc DEF Hydrate

(***************************************************************************)
(* Routing decisions.                                                      *)
(***************************************************************************)
Decisions == [next : Nodes, loop : Loops \cup {"none"},
              clear : SUBSET Artifacts, stale : SUBSET Artifacts]

Counts == [Loops -> Nat]

\* A decision that spends a loop found its counter below the limit.
WithinLimits(decision, c) ==
    decision.loop \in Loops => c[decision.loop] < Limits[decision.loop]

LEMMA AdvanceType ==
    ASSUME NEW n \in Nodes
    PROVE  Advance(n) \in Decisions /\ \A c : WithinLimits(Advance(n), c)
BY DEF Advance, Decisions, WithinLimits, Loops

LEMMA LimitRouteType == LimitRoute \in {"fail", "escalation_hitl"}
BY OnLimitAssumption DEF LimitRoute

LEMMA RetryType ==
    ASSUME NEW c \in Counts, NEW l \in Loops, NEW n \in Nodes,
           NEW gone \in SUBSET Artifacts
    PROVE  LET d == RetryUnlessAtLimit(c, l, n, gone)
           IN  d \in Decisions /\ WithinLimits(d, c)
<1>1. CASE c[l] >= Limits[l]
  <2>1. LimitRoute \in Nodes
    BY LimitRouteType DEF Nodes
  <2> QED BY <1>1, <2>1, AdvanceType DEF RetryUnlessAtLimit
<1>2. CASE ~ (c[l] >= Limits[l])
  <2>1. c[l] < Limits[l]
    BY <1>2, LimitsAssumption DEF Counts
  <2> QED BY <1>2, <2>1 DEF RetryUnlessAtLimit, Retry, Decisions, WithinLimits
<1> QED BY <1>1, <1>2

\* A gate's retry, whatever is superseded.
LEMMA GateDecisionsType ==
    ASSUME NEW d \in Docs, NEW c \in Counts
    PROVE  /\ DecideAfterPrdValidate(d, c) \in Decisions
           /\ WithinLimits(DecideAfterPrdValidate(d, c), c)
           /\ DecideAfterDesignValidate(d, c) \in Decisions
           /\ WithinLimits(DecideAfterDesignValidate(d, c), c)
           /\ DecideAfterTest(d, c) \in Decisions
           /\ WithinLimits(DecideAfterTest(d, c), c)
<1>1. /\ PrdEscalationStale \in SUBSET Artifacts
      /\ DesignEscalationStale \in SUBSET Artifacts
      /\ {} \in SUBSET Artifacts
  BY DEF PrdEscalationStale, DesignEscalationStale, Artifacts
<1>2. /\ {"pm", "architect", "developer", "prd_hitl", "design_hitl", "reviewer"}
           \subseteq Nodes
      /\ {"prd", "design", "impl"} \subseteq Loops
  BY DEF Nodes, Loops
<1>3. /\ DecideAfterPrdValidate(d, c) \in Decisions
      /\ WithinLimits(DecideAfterPrdValidate(d, c), c)
  BY <1>1, <1>2, AdvanceType, RetryType DEF DecideAfterPrdValidate
<1>4. /\ DecideAfterDesignValidate(d, c) \in Decisions
      /\ WithinLimits(DecideAfterDesignValidate(d, c), c)
  BY <1>1, <1>2, AdvanceType, RetryType DEF DecideAfterDesignValidate
<1>5. /\ DecideAfterTest(d, c) \in Decisions
      /\ WithinLimits(DecideAfterTest(d, c), c)
  BY <1>1, <1>2, AdvanceType, RetryType DEF DecideAfterTest
<1> QED BY <1>3, <1>4, <1>5

LEMMA ReviewDecisionType ==
    ASSUME NEW d \in Docs, NEW c \in Counts, d["review"] # NoArtifact
    PROVE  /\ DecideAfterReview(d, c) \in Decisions
           /\ WithinLimits(DecideAfterReview(d, c), c)
<1>1. d["review"] \in ReviewVerdicts
  <2>1. "review" \in Artifacts
    BY DEF Artifacts
  <2>2. d["review"] \in Verdicts("review")
    BY <2>1, DocsElim DEF Contents
  <2> QED BY <2>2 DEF Verdicts
<1>2. /\ PrdEscalationStale \in SUBSET Artifacts
      /\ DesignEscalationStale \in SUBSET Artifacts
      /\ {} \in SUBSET Artifacts
  BY DEF PrdEscalationStale, DesignEscalationStale, Artifacts
<1>3. /\ {"pm", "architect", "developer", "deploy_hitl"} \subseteq Nodes
      /\ {"prd", "design", "impl"} \subseteq Loops
  BY DEF Nodes, Loops
<1>4. CASE d["review"] = "deploy"
  BY <1>3, <1>4, AdvanceType DEF DecideAfterReview
<1>5. CASE d["review"] \in {"rejected", "developer"}
  BY <1>2, <1>3, <1>5, RetryType DEF DecideAfterReview
<1>6. CASE d["review"] = "architect"
  BY <1>2, <1>3, <1>6, RetryType DEF DecideAfterReview
<1>7. CASE d["review"] = "pm"
  BY <1>2, <1>3, <1>7, RetryType DEF DecideAfterReview
<1> QED BY <1>1, <1>4, <1>5, <1>6, <1>7 DEF ReviewVerdicts

(***************************************************************************)
(* The inferred reentry node: the first rule that applies names a node.    *)
(***************************************************************************)
LEMMA MinBelongs ==
    ASSUME NEW S \in SUBSET Nat, S # {}
    PROVE  Min(S) \in S /\ \A y \in S : Min(S) =< y
<1> DEFINE Smaller == {ss \in Nat \X Nat : ss[1] < ss[2]}
<1>1. IsWellFoundedOn(Smaller, Nat)
  BY NatLessThanWellFounded DEF OpToRel
<1>2. \E x \in S : \A y \in S : ~ (<<y, x>> \in Smaller)
  <2> HIDE DEF Smaller
  <2> QED BY <1>1, WFMin
<1>3. PICK x \in S : \A y \in S : ~ (<<y, x>> \in Smaller)
  BY <1>2
<1>4. ASSUME NEW y \in S PROVE x =< y
  <2>1. <<y, x>> \in Nat \X Nat /\ <<y, x>> \notin Smaller
    BY <1>3, <1>4
  <2>2. ~ (y < x)
    BY <2>1
  <2> QED BY <2>2
<1>5. \E z \in S : \A y \in S : z =< y
  BY <1>4
<1> QED BY <1>5 DEF Min

LEMMA InferReentryNodeType ==
    ASSUME NEW d, NEW m
    PROVE  InferReentryNode(d, m) \in Nodes \cup {"error"}
<1> DEFINE rules   == ReentryRules(d, m)
           applies == {i \in DOMAIN rules : rules[i].when}
<1>1. DOMAIN rules = 1..9
  BY DEF ReentryRules
<1>2. \A i \in 1..9 : rules[i].node \in Nodes
  BY DEF ReentryRules, Nodes
<1>3. applies # {} => Min(applies) \in 1..9
  BY <1>1, MinBelongs
<1> HIDE DEF rules
<1>4. CASE m.status = "completed" \/ applies = {}
  BY <1>4 DEF InferReentryNode, rules
<1>5. CASE ~ (m.status = "completed" \/ applies = {})
  <2>1. InferReentryNode(d, m) = rules[Min(applies)].node
    BY <1>5 DEF InferReentryNode, rules
  <2> QED BY <1>2, <1>3, <1>5, <2>1
<1> QED BY <1>4, <1>5

(***************************************************************************)
(* The measure: what a decision adds in distance it pays with a retry.     *)
(***************************************************************************)
Price(loop) == CASE loop = "prd" -> 13 [] loop = "design" -> 9
                 [] loop = "impl" -> 5 [] loop = "none" -> 0

Downhill(node, decision) ==
    Distance(decision.next) < Distance(node) + Price(decision.loop)

LEMMA DistanceType ==
    \A node \in SessionNodes : Distance(node) \in 1..19
BY DEF SessionNodes, Nodes, Distance

LEMMA PrdDownhill ==
    ASSUME NEW d, NEW c
    PROVE  Downhill("route_after_prd_validate", DecideAfterPrdValidate(d, c))
<1>1. \A n \in {"prd_hitl", "architect", "fail", "escalation_hitl"} :
         Downhill("route_after_prd_validate", Advance(n))
  BY DEF Downhill, Advance, Distance, Price
<1>2. \A gone : Downhill("route_after_prd_validate", Retry("pm", "prd", gone))
  BY DEF Downhill, Retry, Distance, Price
<1> QED BY <1>1, <1>2, LimitRouteType
        DEF DecideAfterPrdValidate, RetryUnlessAtLimit

LEMMA DesignDownhill ==
    ASSUME NEW d, NEW c
    PROVE  Downhill("route_after_design_validate", DecideAfterDesignValidate(d, c))
<1>1. \A n \in {"design_hitl", "developer", "fail", "escalation_hitl"} :
         Downhill("route_after_design_validate", Advance(n))
  BY DEF Downhill, Advance, Distance, Price
<1>2. \A gone : Downhill("route_after_design_validate",
                         Retry("architect", "design", gone))
  BY DEF Downhill, Retry, Distance, Price
<1> QED BY <1>1, <1>2, LimitRouteType
        DEF DecideAfterDesignValidate, RetryUnlessAtLimit

LEMMA TestDownhill ==
    ASSUME NEW d, NEW c
    PROVE  Downhill("route_after_qa", DecideAfterTest(d, c))
<1>1. \A n \in {"reviewer", "fail", "escalation_hitl"} :
         Downhill("route_after_qa", Advance(n))
  BY DEF Downhill, Advance, Distance, Price
<1>2. \A gone : Downhill("route_after_qa", Retry("developer", "impl", gone))
  BY DEF Downhill, Retry, Distance, Price
<1> QED BY <1>1, <1>2, LimitRouteType DEF DecideAfterTest, RetryUnlessAtLimit

LEMMA ReviewDownhill ==
    ASSUME NEW d \in Docs, NEW c, d["review"] # NoArtifact
    PROVE  Downhill("route_after_reviewer", DecideAfterReview(d, c))
<1>1. \A n \in {"deploy_hitl", "fail", "escalation_hitl"} :
         Downhill("route_after_reviewer", Advance(n))
  BY DEF Downhill, Advance, Distance, Price
<1>2. \A gone : /\ Downhill("route_after_reviewer", Retry("developer", "impl", gone))
                /\ Downhill("route_after_reviewer", Retry("architect", "design", gone))
                /\ Downhill("route_after_reviewer", Retry("pm", "prd", gone))
  BY DEF Downhill, Retry, Distance, Price
<1>3. d["review"] \in ReviewVerdicts
  <2>1. d["review"] \in Verdicts("review")
    BY DocsElim DEF Contents, Artifacts
  <2> QED BY <2>1 DEF Verdicts
<1> QED BY <1>1, <1>2, <1>3, LimitRouteType
        DEF DecideAfterReview, RetryUnlessAtLimit, ReviewVerdicts

\* A counter within its limit leaves a natural budget, which a retry lowers.
Bounded(c) == c \in Counts /\ \A l \in Loops : c[l] <= Limits[l]

LEMMA BudgetType ==
    ASSUME NEW c, Bounded(c)
    PROVE  /\ RetryBudget(c) \in Nat
           /\ RetryBudget(c) <= RetryBudget(NoCounts)
<1>1. \A l \in Loops : /\ c[l] \in Nat /\ Limits[l] \in Nat
                      /\ c[l] <= Limits[l] /\ NoCounts[l] = 0
  BY LimitsAssumption DEF Bounded, Counts, NoCounts
<1>2. {"prd", "design", "impl"} \subseteq Loops
  BY DEF Loops
<1> QED BY <1>1, <1>2 DEF RetryBudget

LEMMA SpentBudget ==
    ASSUME NEW c, Bounded(c), NEW decision \in Decisions, WithinLimits(decision, c)
    PROVE  LET e == [l \in Loops |-> IF l = decision.loop THEN c[l] + 1 ELSE c[l]]
           IN  /\ Bounded(e)
               /\ RetryBudget(e) + Price(decision.loop) = RetryBudget(c)
<1> DEFINE e == [l \in Loops |-> IF l = decision.loop THEN c[l] + 1 ELSE c[l]]
<1>1. \A l \in Loops : /\ c[l] \in Nat /\ Limits[l] \in Nat /\ c[l] <= Limits[l]
                      /\ e[l] = IF l = decision.loop THEN c[l] + 1 ELSE c[l]
  BY LimitsAssumption DEF Bounded, Counts
<1>2. decision.loop \in {"prd", "design", "impl", "none"}
  BY DEF Decisions, Loops
<1>3. Bounded(e)
  <2>1. e \in Counts
    BY <1>1 DEF Counts
  <2>2. \A l \in Loops : e[l] <= Limits[l]
    BY <1>1 DEF WithinLimits
  <2> QED BY <2>1, <2>2 DEF Bounded
<1>4. {"prd", "design", "impl"} \subseteq Loops
  BY DEF Loops
<1> HIDE DEF e
<1>5. RetryBudget(e) + Price(decision.loop) = RetryBudget(c)
  <2>1. \A l \in {"prd", "design", "impl"} :
            /\ c[l] \in Nat /\ Limits[l] \in Nat
            /\ e[l] = IF l = decision.loop THEN c[l] + 1 ELSE c[l]
    BY <1>1, <1>4
  <2>6. /\ c["prd"] \in Nat /\ c["design"] \in Nat /\ c["impl"] \in Nat
        /\ Limits["prd"] \in Nat /\ Limits["design"] \in Nat /\ Limits["impl"] \in Nat
    BY <2>1
  <2>2. CASE decision.loop = "prd"
    <3>1. e["prd"] = c["prd"] + 1 /\ e["design"] = c["design"] /\ e["impl"] = c["impl"]
      BY <2>1, <2>2
    <3>2. Price(decision.loop) = 13
      BY <2>2 DEF Price
    <3>3. 13 * (Limits["prd"] - e["prd"]) + 13 = 13 * (Limits["prd"] - c["prd"])
      BY <2>6, <3>1
    <3>4. e["prd"] \in Nat /\ e["design"] \in Nat /\ e["impl"] \in Nat
      BY <2>6, <3>1
    <3> QED BY <2>6, <3>1, <3>2, <3>3, <3>4 DEF RetryBudget
  <2>3. CASE decision.loop = "design"
    <3>1. e["prd"] = c["prd"] /\ e["design"] = c["design"] + 1 /\ e["impl"] = c["impl"]
      BY <2>1, <2>3
    <3>2. Price(decision.loop) = 9
      BY <2>3 DEF Price
    <3>3. 9 * (Limits["design"] - e["design"]) + 9 = 9 * (Limits["design"] - c["design"])
      BY <2>6, <3>1
    <3>4. e["prd"] \in Nat /\ e["design"] \in Nat /\ e["impl"] \in Nat
      BY <2>6, <3>1
    <3> QED BY <2>6, <3>1, <3>2, <3>3, <3>4 DEF RetryBudget
  <2>4. CASE decision.loop = "impl"
    <3>1. e["prd"] = c["prd"] /\ e["design"] = c["design"] /\ e["impl"] = c["impl"] + 1
      BY <2>1, <2>4
    <3>2. Price(decision.loop) = 5
      BY <2>4 DEF Price
    <3>3. 5 * (Limits["impl"] - e["impl"]) + 5 = 5 * (Limits["impl"] - c["impl"])
      BY <2>6, <3>1
    <3>4. e["prd"] \in Nat /\ e["design"] \in Nat /\ e["impl"] \in Nat
      BY <2>6, <3>1
    <3> QED BY <2>6, <3>1, <3>2, <3>3, <3>4 DEF RetryBudget
  <2>5. CASE decision.loop = "none"
    <3>1. e["prd"] = c["prd"] /\ e["design"] = c["design"] /\ e["impl"] = c["impl"]
      BY <2>1, <2>5
    <3>2. Price(decision.loop) = 0
      BY <2>5 DEF Price
    <3> QED BY <2>6, <3>1, <3>2 DEF RetryBudget
  <2> QED BY <1>2, <2>2, <2>3, <2>4, <2>5
<1> QED BY <1>3, <1>5 DEF e

-----------------------------------------------------------------------------
(***************************************************************************)
(* The inductive invariant.  A session that has not hydrated yet holds no  *)
(* counters: without this conjunct the rank could rise when it does.       *)
(***************************************************************************)
IdleIsEmpty == pc \in {"idle", "hydrate"} => count = NoCounts

IInv == TypeOK /\ LoopsBounded /\ IdleIsEmpty

LEMMA NoCountsBounded == Bounded(NoCounts)
BY LimitsAssumption DEF Bounded, Counts, NoCounts

LEMMA IInvBounds ==
    ASSUME IInv
    PROVE  Bounded(count) /\ Bounded(meta.count)
BY DEF IInv, TypeOK, LoopsBounded, Bounded, Counts

LEMMA InitIInv == Init => IInv
<1> SUFFICES ASSUME Init PROVE IInv
  OBVIOUS
<1>1. TypeOK
  <2>1. NoMeta \in [status : RunStatuses, deploy : DeployStatuses,
                    count : [Loops -> Nat], stale : SUBSET Artifacts]
    BY DEF NoMeta, RunStatuses, DeployStatuses, NoCounts
  <2>2. NoCounts \in [Loops -> Nat]
    BY DEF NoCounts
  <2> QED BY <2>1, <2>2, NoDocIsDoc, SessionsAssumption
          DEF Init, TypeOK, ChainLength
<1>2. LoopsBounded
  BY NoCountsBounded DEF Init, LoopsBounded, Bounded, NoMeta
<1>3. IdleIsEmpty
  BY DEF Init, IdleIsEmpty
<1> QED BY <1>1, <1>2, <1>3 DEF IInv

(***************************************************************************)
(* The rank is a natural number that only an ended session brings to 0.    *)
(***************************************************************************)
LEMMA RankType ==
    ASSUME IInv
    PROVE  Rank \in Nat /\ (pc # "idle" => Rank > 0)
<1>1. CASE pc = "idle"
  BY <1>1 DEF Rank
<1>2. CASE pc # "idle"
  <2>1. Distance(pc) \in 1..19
    BY <1>2, DistanceType DEF IInv, TypeOK
  <2>2. RetryBudget(count) \in Nat
    BY IInvBounds, BudgetType
  <2> QED BY <1>2, <2>1, <2>2 DEF Rank
<1> QED BY <1>1, <1>2

\* A step that keeps the counters and goes to a node nearer to the end.
LEMMA NearerNode ==
    ASSUME IInv, pc \in SessionNodes, pc' \in SessionNodes, count' = count,
           Distance(pc') < Distance(pc)
    PROVE  Rank' < Rank
<1>1. Distance(pc) \in 1..19 /\ Distance(pc') \in 1..19
  BY DistanceType
<1>2. RetryBudget(count) \in Nat
  BY IInvBounds, BudgetType
<1>3. pc # "idle" /\ pc' # "idle"
  BY DEF SessionNodes, Nodes
<1>4. Rank = RetryBudget(count) + Distance(pc)
  BY <1>3 DEF Rank
<1>5. Rank' = RetryBudget(count) + Distance(pc')
  BY <1>3 DEF Rank, RetryBudget
<1> QED BY <1>1, <1>2, <1>4, <1>5

(***************************************************************************)
(* One lemma for each form a step of the graph takes.                      *)
(***************************************************************************)
\* What the steps of this section establish.
StepOK == IInv' /\ Rank' < Rank

LEMMA WriteType ==
    ASSUME IInv, NEW a \in Artifacts, NEW v \in Verdicts(a), Write(a, v)
    PROVE  doc' \in Docs /\ disk' \in Docs
BY WrittenDocIsDoc DEF Write, IInv, TypeOK

LEMMA ExtendType ==
    ASSUME IInv, NEW a \in Artifacts \ {"hitl"}, Extend(a)
    PROVE  chain' \in 0..ChainLength
<1>1. Position(a) \in 1..7
  BY DEF Artifacts, Position
<1> QED BY <1>1 DEF IInv, TypeOK, ChainLength, Extend

LEMMA ProduceStep ==
    ASSUME IInv, NEW node \in Nodes, NEW a \in Artifacts \ {"hitl"},
           NEW successor \in Nodes, Produce(node, a, successor),
           Distance(successor) < Distance(node)
    PROVE  StepOK
<1>1. PICK v \in Verdicts(a) : Write(a, v)
  BY DEF Produce
<1>2. doc' \in Docs /\ disk' \in Docs
  BY <1>1, WriteType
<1>3. chain' \in 0..ChainLength
  BY ExtendType DEF Produce
<1>4. /\ pc = node /\ pc' = successor
      /\ UNCHANGED <<count, meta, reentry, sessions>>
  BY DEF Produce
<1>5. {"idle", "hydrate", "gate"} \cap Nodes = {}
  BY DEF Nodes
<1>6. TypeOK'
  BY <1>2, <1>3, <1>4, <1>5 DEF IInv, TypeOK, SessionNodes
<1>7. LoopsBounded' /\ IdleIsEmpty'
  BY <1>4, <1>5 DEF IInv, LoopsBounded, IdleIsEmpty
<1>8. Rank' < Rank
  BY <1>4, NearerNode DEF SessionNodes
<1> QED BY <1>6, <1>7, <1>8 DEF StepOK, IInv

LEMMA DecideStep ==
    ASSUME IInv, NEW node \in Nodes, NEW stage \in HitlStages,
           NEW successor \in Nodes, Decide(node, stage, successor),
           Distance(successor) < Distance(node)
    PROVE  StepOK
<1>1. doc' \in Docs /\ disk' \in Docs
  <2>1. "hitl" \in Artifacts /\ stage \in Verdicts("hitl")
    BY DEF Artifacts, Verdicts
  <2> QED BY <2>1, WriteType DEF Decide
<1>2. /\ pc = node /\ pc' = successor
      /\ UNCHANGED <<count, meta, reentry, sessions, chain>>
  BY DEF Decide
<1>3. {"idle", "hydrate", "gate"} \cap Nodes = {}
  BY DEF Nodes
<1>4. TypeOK'
  BY <1>1, <1>2, <1>3 DEF IInv, TypeOK, SessionNodes
<1>5. LoopsBounded' /\ IdleIsEmpty'
  BY <1>2, <1>3 DEF IInv, LoopsBounded, IdleIsEmpty
<1>6. Rank' < Rank
  BY <1>2, NearerNode DEF SessionNodes
<1> QED BY <1>4, <1>5, <1>6 DEF StepOK, IInv

LEMMA RouteStep ==
    ASSUME IInv, NEW node \in Nodes, NEW decision \in Decisions,
           WithinLimits(decision, count), Route(node, decision),
           Downhill(node, decision)
    PROVE  StepOK
<1>1. /\ pc = node /\ pc' = decision.next /\ pc' \in Nodes
      /\ meta' = MarkStale(meta, decision.stale)
      /\ doc' = [a \in Artifacts |->
                   IF a \in decision.clear THEN NoArtifact ELSE doc[a]]
      /\ count' = [l \in Loops |->
                     IF l = decision.loop THEN count[l] + 1 ELSE count[l]]
      /\ UNCHANGED <<disk, reentry, sessions, chain>>
  BY DEF Route, Decisions
<1>2. doc' \in Docs
  BY <1>1, ClearedDocIsDoc DEF IInv, TypeOK
<1>3. /\ Bounded(count')
      /\ RetryBudget(count') + Price(decision.loop) = RetryBudget(count)
  BY <1>1, IInvBounds, SpentBudget
<1>4. /\ meta' \in [status : RunStatuses, deploy : DeployStatuses,
                    count : [Loops -> Nat], stale : SUBSET Artifacts]
      /\ meta'.count = meta.count
  BY <1>1 DEF IInv, TypeOK, MarkStale, Decisions
<1>5. {"idle", "hydrate", "gate"} \cap Nodes = {}
  BY DEF Nodes
<1>6. TypeOK'
  BY <1>1, <1>2, <1>3, <1>4, <1>5
     DEF IInv, TypeOK, SessionNodes, Bounded, Counts
<1>7. LoopsBounded' /\ IdleIsEmpty'
  BY <1>1, <1>3, <1>4, <1>5 DEF IInv, LoopsBounded, IdleIsEmpty, Bounded
<1>8. Rank' < Rank
  <2>1. Rank = RetryBudget(count) + Distance(pc)
    BY <1>1, <1>5 DEF Rank
  <2>2. Rank' = RetryBudget(count') + Distance(pc')
    BY <1>1, <1>5 DEF Rank, RetryBudget
  <2>3. Distance(pc') < Distance(pc) + Price(decision.loop)
    BY <1>1 DEF Downhill
  <2>4. Distance(pc) \in Nat /\ Distance(pc') \in Nat
    BY <1>1, DistanceType DEF SessionNodes
  <2>5. RetryBudget(count) \in Nat /\ RetryBudget(count') \in Nat
    BY <1>3, IInvBounds, BudgetType
  <2>6. Price(decision.loop) \in Nat
    BY DEF Price, Decisions, Loops
  <2> QED BY <1>3, <2>1, <2>2, <2>3, <2>4, <2>5, <2>6
<1> QED BY <1>6, <1>7, <1>8 DEF StepOK, IInv

\* The end of a session, whatever it leaves in a well-formed run_meta.json.
LEMMA EndStep ==
    ASSUME IInv, pc # "idle", EndSession,
           meta' \in [status : RunStatuses, deploy : DeployStatuses,
                      count : [Loops -> Nat], stale : SUBSET Artifacts],
           Bounded(meta'.count)
    PROVE  StepOK
<1>1. /\ pc' = "idle" /\ doc' = NoDoc /\ count' = NoCounts
      /\ UNCHANGED <<disk, reentry, sessions, chain>>
  BY DEF EndSession
<1>2. TypeOK'
  BY <1>1, NoDocIsDoc, NoCountsBounded DEF IInv, TypeOK, Bounded, Counts
<1>3. LoopsBounded' /\ IdleIsEmpty'
  BY <1>1, NoCountsBounded DEF LoopsBounded, IdleIsEmpty, Bounded
<1>4. Rank' < Rank
  <2>1. Rank' = 0
    BY <1>1 DEF Rank
  <2>2. Rank \in Nat /\ Rank > 0
    BY RankType
  <2> QED BY <2>1, <2>2
<1> QED BY <1>2, <1>3, <1>4 DEF StepOK, IInv

LEMMA SettleStep ==
    ASSUME IInv, pc # "idle", EndSession,
           NEW status \in RunStatuses, NEW deploy \in DeployStatuses,
           meta' = Settle(meta, status, deploy, count)
    PROVE  StepOK
<1>1. meta' \in [status : RunStatuses, deploy : DeployStatuses,
                 count : [Loops -> Nat], stale : SUBSET Artifacts]
  BY DEF IInv, TypeOK, Settle
<1>2. meta'.count = count
  BY DEF IInv, TypeOK, Settle
<1> QED BY <1>1, <1>2, IInvBounds, EndStep

(***************************************************************************)
(* The steps of the graph.                                                 *)
(***************************************************************************)
LEMMA GraphStepOK ==
    ASSUME IInv, GraphStep
    PROVE  StepOK
<1>1. CASE Pm
  BY <1>1, ProduceStep DEF Pm, Nodes, Artifacts, Distance
<1>2. CASE PrdValidate
  BY <1>2, ProduceStep DEF PrdValidate, Nodes, Artifacts, Distance
<1>3. CASE RouteAfterPrdValidate
  <2>1. /\ DecideAfterPrdValidate(doc, count) \in Decisions
        /\ WithinLimits(DecideAfterPrdValidate(doc, count), count)
    BY GateDecisionsType DEF IInv, TypeOK, Counts
  <2> QED BY <1>3, <2>1, PrdDownhill, RouteStep
          DEF RouteAfterPrdValidate, Nodes
<1>4. CASE PrdHitl
  BY <1>4, DecideStep DEF PrdHitl, Nodes, HitlStages, Distance
<1>5. CASE Architect
  BY <1>5, ProduceStep DEF Architect, Nodes, Artifacts, Distance
<1>6. CASE DesignValidate
  BY <1>6, ProduceStep DEF DesignValidate, Nodes, Artifacts, Distance
<1>7. CASE RouteAfterDesignValidate
  <2>1. /\ DecideAfterDesignValidate(doc, count) \in Decisions
        /\ WithinLimits(DecideAfterDesignValidate(doc, count), count)
    BY GateDecisionsType DEF IInv, TypeOK, Counts
  <2> QED BY <1>7, <2>1, DesignDownhill, RouteStep
          DEF RouteAfterDesignValidate, Nodes
<1>8. CASE DesignHitl
  BY <1>8, DecideStep DEF DesignHitl, Nodes, HitlStages, Distance
<1>9. CASE Developer
  BY <1>9, ProduceStep DEF Developer, Nodes, Artifacts, Distance
<1>10. CASE Qa
  BY <1>10, ProduceStep DEF Qa, Nodes, Artifacts, Distance
<1>11. CASE RouteAfterQa
  <2>1. /\ DecideAfterTest(doc, count) \in Decisions
        /\ WithinLimits(DecideAfterTest(doc, count), count)
    BY GateDecisionsType DEF IInv, TypeOK, Counts
  <2> QED BY <1>11, <2>1, TestDownhill, RouteStep DEF RouteAfterQa, Nodes
<1>12. CASE Reviewer
  BY <1>12, ProduceStep DEF Reviewer, Nodes, Artifacts, Distance
<1>13. CASE RouteAfterReviewer
  <2>1. /\ DecideAfterReview(doc, count) \in Decisions
        /\ WithinLimits(DecideAfterReview(doc, count), count)
        /\ Downhill("route_after_reviewer", DecideAfterReview(doc, count))
    BY <1>13, ReviewDecisionType, ReviewDownhill
       DEF RouteAfterReviewer, IInv, TypeOK, Counts
  <2> QED BY <1>13, <2>1, RouteStep DEF RouteAfterReviewer, Nodes
<1>14. CASE DeployHitl
  <2>1. CASE Decide("deploy_hitl", "deploy", "deploy")
    BY <2>1, DecideStep DEF Nodes, HitlStages, Distance
  <2>2. CASE /\ pc = "deploy_hitl" /\ pc' = "deploy"
             /\ UNCHANGED <<doc, count, meta, disk, reentry, sessions, chain>>
    <3>1. IInv'
      BY <2>2 DEF IInv, TypeOK, LoopsBounded, IdleIsEmpty, SessionNodes, Nodes
    <3>2. Rank' < Rank
      BY <2>2, NearerNode DEF SessionNodes, Nodes, Distance
    <3> QED BY <3>1, <3>2 DEF StepOK
  <2> QED BY <1>14, <2>1, <2>2 DEF DeployHitl
<1>15. CASE Deploy
  BY <1>15, SettleStep DEF Deploy, RunStatuses, DeployStatuses
<1>16. CASE EscalationHitl
  BY <1>16, DecideStep DEF EscalationHitl, Nodes, HitlStages, Distance
<1>17. CASE Fail
  BY <1>17, SettleStep DEF Fail, RunStatuses, IInv, TypeOK
<1> QED BY <1>1, <1>2, <1>3, <1>4, <1>5, <1>6, <1>7, <1>8, <1>9, <1>10, <1>11,
           <1>12, <1>13, <1>14, <1>15, <1>16, <1>17 DEF GraphStep

(***************************************************************************)
(* The steps of `continue` behind its beginning.                           *)
(***************************************************************************)
\* hydrate_state takes the counters from run_meta.json: they cost no rank.
LEMMA HydrateStep ==
    ASSUME IInv, pc = "hydrate", doc' = Hydrate(disk, meta), count' = meta.count,
           pc' \in Nodes \cup {"gate"}, pc' = "gate" => reentry \in GateNodes,
           UNCHANGED <<meta, disk, reentry, sessions, chain>>
    PROVE  StepOK
<1>1. {"idle", "hydrate", "gate"} \cap Nodes = {}
  BY DEF Nodes
<1>2. doc' \in Docs
  BY HydratedDocIsDoc DEF IInv, TypeOK
<1>3. Bounded(count')
  BY IInvBounds
<1>4. TypeOK'
  BY <1>1, <1>2, <1>3 DEF IInv, TypeOK, SessionNodes, Bounded, Counts
<1>5. LoopsBounded' /\ IdleIsEmpty'
  BY <1>1, <1>3 DEF IInv, LoopsBounded, IdleIsEmpty, Bounded
<1>6. Rank' < Rank
  <2>1. Rank = RetryBudget(NoCounts) + 19
    BY DEF Rank, IInv, IdleIsEmpty, Distance
  <2>2. Rank' = RetryBudget(count') + Distance(pc')
    BY <1>1 DEF Rank, RetryBudget
  <2>3. Distance(pc') \in 1..18
    BY DEF Nodes, Distance
  <2>4. /\ RetryBudget(count') \in Nat /\ RetryBudget(NoCounts) \in Nat
        /\ RetryBudget(count') <= RetryBudget(NoCounts)
    BY <1>3, BudgetType, NoCountsBounded
  <2> QED BY <2>1, <2>2, <2>3, <2>4
<1> QED BY <1>4, <1>5, <1>6 DEF StepOK, IInv

LEMMA GateStep ==
    ASSUME IInv, ExecuteGate
    PROVE  StepOK
<1>1. pc = "gate" /\ reentry \in GateNodes
  BY DEF ExecuteGate, IInv, TypeOK
<1>2. GateReport(reentry) \in Artifacts \ {"hitl"}
  BY <1>1 DEF GateNodes, GateReport, Artifacts
<1>3. doc' \in Docs /\ disk' \in Docs
  <2>1. PICK v \in Verdicts(GateReport(reentry)) : Write(GateReport(reentry), v)
    BY DEF ExecuteGate
  <2> QED BY <1>2, <2>1, WriteType
<1>4. chain' \in 0..ChainLength
  BY <1>2, ExtendType DEF ExecuteGate
<1>5. /\ pc' \in {"pm", "route_after_prd_validate",
                  "route_after_design_validate", "route_after_qa"}
      /\ UNCHANGED <<count, meta, reentry, sessions>>
  BY <1>1, OperatorAssumption DEF ExecuteGate, EntryPoint, RouteAfter, GateNodes
<1>6. pc' \in Nodes /\ pc' \notin {"idle", "hydrate", "gate"}
  BY <1>5 DEF Nodes
<1>7. TypeOK'
  BY <1>3, <1>4, <1>5, <1>6 DEF IInv, TypeOK, SessionNodes
<1>8. LoopsBounded' /\ IdleIsEmpty'
  BY <1>5, <1>6 DEF IInv, LoopsBounded, IdleIsEmpty
<1>9. Rank' < Rank
  <2>1. Distance(pc') < Distance(pc)
    BY <1>1, <1>5 DEF Distance
  <2> QED BY <1>1, <1>5, <1>6, <2>1, NearerNode DEF SessionNodes
<1> QED BY <1>7, <1>8, <1>9 DEF StepOK, IInv

LEMMA KeepMetaEnds ==
    ASSUME IInv, pc # "idle", EndSession, UNCHANGED meta
    PROVE  StepOK
BY IInvBounds, EndStep DEF IInv, TypeOK

LEMMA ContinueStepOK ==
    ASSUME IInv, ContinueStep
    PROVE  StepOK
<1>1. CASE ContinueAtGate
  BY <1>1, HydrateStep DEF ContinueAtGate
<1>2. CASE ContinueAtArchitect
  <2>1. pc' \in Nodes
    BY <1>2, OperatorAssumption DEF ContinueAtArchitect, EntryPoint, Nodes
  <2>2. pc' # "gate"
    BY <2>1 DEF Nodes
  <2> QED BY <1>2, <2>1, <2>2, HydrateStep DEF ContinueAtArchitect
<1>3. CASE ContinueRejected
  BY <1>3, KeepMetaEnds DEF ContinueRejected
<1>4. CASE ExecuteGate
  BY <1>4, GateStep
<1> QED BY <1>1, <1>2, <1>3, <1>4 DEF ContinueStep

(***************************************************************************)
(* The steps that begin a session, and the one that kills it.              *)
(***************************************************************************)
LEMMA StartRunInv ==
    ASSUME IInv, StartRun
    PROVE  IInv'
<1>1. InitRunMeta \in [status : RunStatuses, deploy : DeployStatuses,
                      count : [Loops -> Nat], stale : SUBSET Artifacts]
  BY NoCountsBounded DEF InitRunMeta, RunStatuses, DeployStatuses, Bounded, Counts
<1>2. sessions' \in 0..MaxSessions
  BY SessionsAssumption DEF StartRun, IInv, TypeOK
<1>3. TypeOK'
  BY <1>1, <1>2, NoDocIsDoc, NoCountsBounded
     DEF StartRun, IInv, TypeOK, SessionNodes, Nodes, Bounded, Counts, ChainLength
<1>4. LoopsBounded' /\ IdleIsEmpty'
  BY NoCountsBounded
     DEF StartRun, LoopsBounded, IdleIsEmpty, InitRunMeta, Bounded
<1> QED BY <1>3, <1>4 DEF IInv

LEMMA PreparedMeta ==
    ASSUME IInv, NEW reset \in BOOLEAN
    PROVE  /\ PrepareContinue(meta, reset) \in
                 [status : RunStatuses, deploy : DeployStatuses,
                  count : [Loops -> Nat], stale : SUBSET Artifacts]
           /\ Bounded(PrepareContinue(meta, reset).count)
<1>1. \A l \in Loops : /\ meta.count[l] \in Nat /\ meta.count[l] <= Limits[l]
                      /\ 0 <= Limits[l]
  BY IInvBounds, LimitsAssumption DEF Bounded, Counts
<1> DEFINE c == [l \in Loops |->
                   IF reset /\ meta.status = "failed" /\ meta.count[l] >= Limits[l]
                   THEN 0 ELSE meta.count[l]]
<1>2. Bounded(c)
  BY <1>1 DEF Bounded, Counts
<1>3. PrepareContinue(meta, reset) =
        [meta EXCEPT !.status = "running", !.count = c]
  BY DEF PrepareContinue
<1> HIDE DEF c
<1> QED BY <1>2, <1>3 DEF IInv, TypeOK, Bounded, Counts, RunStatuses

LEMMA ContinueBeginInv ==
    ASSUME IInv, ContinueBegin
    PROVE  IInv'
<1>1. PICK reenter \in ReenterValues, reset \in BOOLEAN :
         LET node == IF reenter = "auto" THEN InferReentryNode(disk, meta)
                                         ELSE reenter
         IN /\ node # "error" /\ reentry' = node
            /\ meta' = PrepareContinue(meta, reset)
  BY DEF ContinueBegin
<1>2. reentry' \in Nodes
  BY <1>1, InferReentryNodeType, OperatorAssumption
<1>3. sessions' \in 0..MaxSessions
  BY SessionsAssumption DEF ContinueBegin, IInv, TypeOK
<1>4. TypeOK'
  BY <1>1, <1>2, <1>3, PreparedMeta DEF ContinueBegin, IInv, TypeOK, SessionNodes
<1>5. LoopsBounded' /\ IdleIsEmpty'
  BY <1>1, PreparedMeta
     DEF ContinueBegin, IInv, LoopsBounded, IdleIsEmpty, Bounded
<1> QED BY <1>4, <1>5 DEF IInv

LEMMA NextIInv == IInv /\ [Next]_vars => IInv'
<1> SUFFICES ASSUME IInv, [Next]_vars PROVE IInv'
  OBVIOUS
<1>1. CASE StartRun
  BY <1>1, StartRunInv
<1>2. CASE ContinueBegin
  BY <1>2, ContinueBeginInv
<1>3. CASE GraphStep
  BY <1>3, GraphStepOK DEF StepOK
<1>4. CASE ContinueStep
  BY <1>4, ContinueStepOK DEF StepOK
<1>5. CASE Abort
  BY <1>5, KeepMetaEnds DEF Abort, StepOK
<1>6. CASE UNCHANGED vars
  BY <1>6 DEF vars, IInv, TypeOK, LoopsBounded, IdleIsEmpty
<1> QED BY <1>1, <1>2, <1>3, <1>4, <1>5, <1>6 DEF Next, SessionStep

-----------------------------------------------------------------------------
\* Every behaviour of the pipeline keeps the inductive invariant.
THEOREM InductiveInvariant == Spec => []IInv
<1>1. Init => IInv
  BY InitIInv
<1>2. IInv /\ [Next]_vars => IInv'
  BY NextIInv
<1> QED BY <1>1, <1>2, PTL DEF Spec

\* Every variable keeps to its type: in particular no routing decision leads
\* out of the graph and no rule of `continue` names an unknown node.
THEOREM TypeCorrect == Spec => []TypeOK
<1>1. IInv => TypeOK
  BY DEF IInv
<1> QED BY <1>1, InductiveInvariant, PTL

\* For all limits, the loop counters stay within them, in memory and in
\* run_meta.json, through escalations, crashes and continues.
THEOREM CountersBounded == Spec => []LoopsBounded
<1>1. IInv => LoopsBounded
  BY DEF IInv
<1> QED BY <1>1, InductiveInvariant, PTL

\* For all limits, each step of a session lowers its rank, which is a natural
\* number: a session of any run ends after a number of steps known beforehand.
THEOREM SessionsShrink == Spec => EveryStepNearerTheEnd
<1>1. IInv => Rank \in Nat
  BY RankType
<1>2. (IInv => Rank \in Nat)'
  BY <1>1, PTL
<1>3. IInv /\ SessionStep => Rank' \in Nat /\ Rank' < Rank
  <2> SUFFICES ASSUME IInv, SessionStep PROVE Rank' \in Nat /\ Rank' < Rank
    OBVIOUS
  <2>1. StepOK
    BY GraphStepOK, ContinueStepOK DEF SessionStep
  <2> QED BY <1>2, <2>1 DEF StepOK
<1>4. IInv /\ [Next]_vars => [SessionStep => Rank' \in Nat /\ Rank' < Rank]_vars
  BY <1>3
<1> QED BY <1>4, InductiveInvariant, PTL DEF Spec, EveryStepNearerTheEnd
=============================================================================
