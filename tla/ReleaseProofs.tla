---------------------------- MODULE ReleaseProofs ----------------------------
(***************************************************************************)
(* Theorems about what a task may end in: a failure only with a loop used  *)
(* up, a release only behind all the gates.                                *)
(***************************************************************************)
EXTENDS PipelineProofs

-----------------------------------------------------------------------------
(***************************************************************************)
(* Failure.                                                                *)
(***************************************************************************)
LimitReached(c) == \E l \in Loops : c[l] >= Limits[l]

LimitNodes == {"fail", "escalation_hitl"}

\* The limit routes are taken with a counter at its limit, and it stays there.
FailInv ==
    /\ pc \in LimitNodes => LimitReached(count)
    /\ FailedMeansLimitReached

\* A decision for a limit route was forced by a counter, and spends none.
Forced(decision, c) ==
    decision.next \in LimitNodes => LimitReached(c) /\ decision.loop = "none"

LEMMA RetryForced ==
    ASSUME NEW c, NEW l \in Loops, NEW n \in Nodes \ LimitNodes, NEW gone
    PROVE  Forced(RetryUnlessAtLimit(c, l, n, gone), c)
BY DEF Forced, RetryUnlessAtLimit, Advance, Retry, LimitReached

LEMMA AdvanceForced ==
    ASSUME NEW c, NEW n \in Nodes \ LimitNodes
    PROVE  Forced(Advance(n), c)
BY DEF Forced, Advance

LEMMA DecisionsForced ==
    ASSUME NEW d \in Docs, NEW c
    PROVE  /\ Forced(DecideAfterPrdValidate(d, c), c)
           /\ Forced(DecideAfterDesignValidate(d, c), c)
           /\ Forced(DecideAfterTest(d, c), c)
           /\ d["review"] # NoArtifact => Forced(DecideAfterReview(d, c), c)
<1>1. /\ {"pm", "architect", "developer", "prd_hitl", "design_hitl",
          "reviewer", "deploy_hitl"} \subseteq Nodes \ LimitNodes
      /\ {"prd", "design", "impl"} \subseteq Loops
  BY DEF Nodes, LimitNodes, Loops
<1>2. Forced(DecideAfterPrdValidate(d, c), c)
  BY <1>1, RetryForced, AdvanceForced DEF DecideAfterPrdValidate
<1>3. Forced(DecideAfterDesignValidate(d, c), c)
  BY <1>1, RetryForced, AdvanceForced DEF DecideAfterDesignValidate
<1>4. Forced(DecideAfterTest(d, c), c)
  BY <1>1, RetryForced, AdvanceForced DEF DecideAfterTest
<1>5. ASSUME d["review"] # NoArtifact
      PROVE  Forced(DecideAfterReview(d, c), c)
  <2>1. d["review"] \in Verdicts("review")
    BY <1>5, DocsElim DEF Contents, Artifacts
  <2>2. d["review"] \in ReviewVerdicts
    BY <2>1 DEF Verdicts
  <2> QED BY <1>1, <2>2, RetryForced, AdvanceForced
          DEF DecideAfterReview, ReviewVerdicts
<1> QED BY <1>2, <1>3, <1>4, <1>5

LEMMA RouteFailInv ==
    ASSUME IInv, FailInv, NEW node, NEW decision, Route(node, decision),
           Forced(decision, count)
    PROVE  FailInv'
<1>1. /\ pc' = decision.next
      /\ meta' = MarkStale(meta, decision.stale)
      /\ count' = [l \in Loops |->
                     IF l = decision.loop THEN count[l] + 1 ELSE count[l]]
  BY DEF Route
<1>2. meta'.status = meta.status /\ meta'.count = meta.count
  BY <1>1 DEF MarkStale, IInv, TypeOK
<1>3. ASSUME pc' \in LimitNodes PROVE LimitReached(count')
  <2>1. LimitReached(count) /\ decision.loop = "none"
    BY <1>1, <1>3 DEF Forced
  <2>2. \A l \in Loops : count'[l] = count[l]
    BY <1>1, <2>1 DEF Loops
  <2> QED BY <2>1, <2>2 DEF LimitReached
<1> QED BY <1>2, <1>3 DEF FailInv, FailedMeansLimitReached

LEMMA NextFailInv == IInv /\ FailInv /\ [Next]_vars => FailInv'
<1> SUFFICES ASSUME IInv, FailInv, [Next]_vars PROVE FailInv'
  OBVIOUS
<1> USE DEF LimitNodes
<1>1. CASE StartRun
  BY <1>1 DEF StartRun, FailInv, FailedMeansLimitReached, InitRunMeta
<1>2. CASE ContinueBegin
  <2>1. meta'.status = "running"
    BY <1>2 DEF ContinueBegin, PrepareContinue, IInv, TypeOK
  <2> QED BY <1>2, <2>1 DEF ContinueBegin, FailInv, FailedMeansLimitReached
<1>3. CASE GraphStep
  <2>1. CASE Pm \/ PrdValidate \/ Architect \/ DesignValidate \/ Developer
               \/ Qa \/ Reviewer
    BY <2>1 DEF Pm, PrdValidate, Architect, DesignValidate, Developer, Qa,
                Reviewer, Produce, FailInv, FailedMeansLimitReached
  <2>2. CASE PrdHitl \/ DesignHitl \/ DeployHitl \/ EscalationHitl
    BY <2>2 DEF PrdHitl, DesignHitl, DeployHitl, EscalationHitl, Decide,
                FailInv, FailedMeansLimitReached, LimitReached
  <2>3. CASE RouteAfterPrdValidate \/ RouteAfterDesignValidate
               \/ RouteAfterQa \/ RouteAfterReviewer
    BY <2>3, DecisionsForced, RouteFailInv
       DEF RouteAfterPrdValidate, RouteAfterDesignValidate, RouteAfterQa,
           RouteAfterReviewer, IInv, TypeOK
  <2>4. CASE Deploy
    <3>1. meta'.status = "completed"
      BY <2>4 DEF Deploy, Settle, IInv, TypeOK
    <3> QED BY <2>4, <3>1 DEF Deploy, EndSession, FailInv, FailedMeansLimitReached
  <2>5. CASE Fail
    <3>1. meta'.count = count
      BY <2>5 DEF Fail, Settle, IInv, TypeOK
    <3> QED BY <2>5, <3>1
            DEF Fail, EndSession, FailInv, FailedMeansLimitReached, LimitReached
  <2> QED BY <1>3, <2>1, <2>2, <2>3, <2>4, <2>5 DEF GraphStep
<1>4. CASE ContinueStep
  BY <1>4, OperatorAssumption
     DEF ContinueStep, ContinueAtGate, ContinueAtArchitect, ContinueRejected,
         ExecuteGate, EndSession, EntryPoint, RouteAfter, GateNodes,
         IInv, TypeOK, FailInv, FailedMeansLimitReached
<1>5. CASE Abort
  BY <1>5 DEF Abort, EndSession, FailInv, FailedMeansLimitReached
<1>6. CASE UNCHANGED vars
  BY <1>6 DEF vars, FailInv, FailedMeansLimitReached, LimitReached
<1> QED BY <1>1, <1>2, <1>3, <1>4, <1>5, <1>6 DEF Next, SessionStep

\* A run ends as failed only with a loop at its limit, and run_meta.json keeps
\* the counter that shows it.
THEOREM FailureExplained == Spec => []FailedMeansLimitReached
<1>1. Init => FailInv
  BY DEF Init, NoMeta, FailInv, FailedMeansLimitReached, LimitNodes
<1>2. FailInv => FailedMeansLimitReached
  BY DEF FailInv
<1> QED BY <1>1, <1>2, NextFailInv, InductiveInvariant, PTL DEF Spec

-----------------------------------------------------------------------------
(***************************************************************************)
(* Release, where `continue` sends the graph back to START (InvokeRestarts *)
(* = TRUE, what the code's invoke does).  Then whatever a reentry loaded,  *)
(* the products are made anew, in their order, before anything is released.*)
(***************************************************************************)
\* How much of the chain is current when a node runs.
Made(node) ==
    CASE node = "prd_validate"                                  -> 1
      [] node \in {"route_after_prd_validate", "prd_hitl",
                   "architect"}                                 -> 2
      [] node = "design_validate"                               -> 3
      [] node \in {"route_after_design_validate", "design_hitl",
                   "developer"}                                 -> 4
      [] node = "qa"                                            -> 5
      [] node \in {"route_after_qa", "reviewer"}                -> 6
      [] node \in {"route_after_reviewer", "deploy_hitl",
                   "deploy"}                                    -> 7
      [] OTHER                                                  -> 0

BehindReview == {"deploy_hitl", "deploy"}
BehindTest   == BehindReview \cup {"reviewer", "route_after_reviewer"}
BehindDesign == BehindTest \cup {"design_hitl", "developer", "qa", "route_after_qa"}
BehindPrd    == BehindDesign \cup {"prd_hitl", "architect", "design_validate",
                                  "route_after_design_validate"}

ReleaseInv ==
    /\ chain >= Made(pc)
    /\ pc \in BehindPrd /\ BlockPrd => Passed(doc["prd_validation"])
    /\ pc \in BehindDesign /\ BlockDesign => Passed(doc["design_validation"])
    /\ pc \in BehindTest => Passed(doc["test_report"])
    /\ pc \in BehindReview => doc["review"] = "deploy"

LEMMA VerdictOf ==
    ASSUME NEW d \in Docs
    PROVE  /\ \A a \in {"prd_validation", "design_validation"} :
                 d[a] # NoArtifact => Passed(d[a]) \/ Failed(d[a])
           /\ d["review"] # NoArtifact => d["review"] \in ReviewVerdicts
<1>1. \A a \in {"prd_validation", "design_validation", "review"} :
         d[a] \in Verdicts(a) \cup {NoArtifact}
  BY DocsElim DEF Contents, Artifacts
<1> QED BY <1>1 DEF Verdicts, ValidationVerdicts, DesignVerdicts, Passed, Failed

\* The last report a validator wrote is there when its route node reads it.
ReportThere ==
    /\ pc = "route_after_prd_validate" => doc["prd_validation"] # NoArtifact
    /\ pc = "route_after_design_validate" => doc["design_validation"] # NoArtifact

LEMMA WrittenIsThere ==
    ASSUME IInv, NEW a \in Artifacts, NEW v \in Verdicts(a), Write(a, v)
    PROVE  /\ doc'[a] = v /\ v # NoArtifact
           /\ \A b \in Artifacts \ {a} : doc'[b] = doc[b]
<1>1. v # NoArtifact
  BY DEF Artifacts, Verdicts, NoArtifact, ValidationVerdicts, DesignVerdicts,
         ReviewVerdicts, HitlStages
<1>2. doc = [b \in Artifacts |-> doc[b]]
  BY DocsElim DEF IInv, TypeOK
<1> QED BY <1>1, <1>2 DEF Write

GateInv == ReleaseInv /\ ReportThere

LEMMA ProduceGateInv ==
    ASSUME IInv, GateInv,
           Pm \/ PrdValidate \/ Architect \/ DesignValidate \/ Developer
              \/ Qa \/ Reviewer
    PROVE  GateInv'
<1>1. PICK node \in Nodes, a \in Artifacts, successor \in Nodes :
         /\ Produce(node, a, successor)
         /\ <<node, a, successor>> \in
              { <<"pm", "prd", "prd_validate">>,
                <<"prd_validate", "prd_validation", "route_after_prd_validate">>,
                <<"architect", "design", "design_validate">>,
                <<"design_validate", "design_validation",
                  "route_after_design_validate">>,
                <<"developer", "dev_manifest", "qa">>,
                <<"qa", "test_report", "route_after_qa">>,
                <<"reviewer", "review", "route_after_reviewer">> }
  BY DEF Pm, PrdValidate, Architect, DesignValidate, Developer, Qa, Reviewer,
         Nodes, Artifacts
<1>2. PICK v \in Verdicts(a) : Write(a, v)
  BY <1>1 DEF Produce
<1>3. /\ doc'[a] # NoArtifact
      /\ \A b \in Artifacts \ {a} : doc'[b] = doc[b]
  BY <1>2, WrittenIsThere
<1>4. pc = node /\ pc' = successor /\ Extend(a)
  BY <1>1 DEF Produce
<1>5. chain \in 0..7
  BY DEF IInv, TypeOK, ChainLength
<1>6. chain' >= Made(pc')
  <2>1. chain + 1 >= Position(a) /\ Position(a) = Made(successor)
    BY <1>1, <1>4, <1>5 DEF GateInv, ReleaseInv, Made, Position
  <2>2. chain' = Position(a) /\ Position(a) \in 1..7
    BY <1>1, <1>4, <2>1 DEF Extend, Position
  <2> QED BY <1>4, <2>1, <2>2
<1>7. {"prd_validation", "design_validation", "test_report", "review"} \subseteq Artifacts
  BY DEF Artifacts
<1> QED BY <1>1, <1>3, <1>4, <1>6, <1>7
        DEF GateInv, ReleaseInv, ReportThere, BehindReview, BehindTest,
            BehindDesign, BehindPrd

\* Where the decision of a route node may lead, and under which condition.
LEMMA PrdLeads ==
    ASSUME NEW d \in Docs, NEW c, d["prd_validation"] # NoArtifact
    PROVE  LET next == DecideAfterPrdValidate(d, c).next
           IN  \/ next \in LimitNodes \cup {"pm"}
               \/ /\ next \in {"prd_hitl", "architect"}
                  /\ BlockPrd => Passed(d["prd_validation"])
                  /\ DecideAfterPrdValidate(d, c).clear = {}
BY LimitRouteType, VerdictOf, ProfileAssumption
   DEF DecideAfterPrdValidate, RetryUnlessAtLimit, Advance, Retry, LimitNodes

LEMMA DesignLeads ==
    ASSUME NEW d \in Docs, NEW c, d["design_validation"] # NoArtifact
    PROVE  LET decision == DecideAfterDesignValidate(d, c)
           IN  \/ decision.next \in LimitNodes
               \/ decision.next = "architect" /\ "prd_validation" \notin decision.clear
               \/ /\ decision.next \in {"design_hitl", "developer"}
                  /\ BlockDesign => Passed(d["design_validation"])
                  /\ decision.clear = {}
BY LimitRouteType, VerdictOf, ProfileAssumption
   DEF DecideAfterDesignValidate, RetryUnlessAtLimit, Advance, Retry, LimitNodes,
       DesignEscalationStale

LEMMA TestLeads ==
    ASSUME NEW d, NEW c
    PROVE  LET decision == DecideAfterTest(d, c)
           IN  \/ decision.next \in LimitNodes
               \/ decision.next = "developer" /\ decision.clear = {}
               \/ /\ decision.next = "reviewer" /\ decision.clear = {}
                  /\ Passed(d["test_report"])
BY LimitRouteType
   DEF DecideAfterTest, RetryUnlessAtLimit, Advance, Retry, LimitNodes

LEMMA ReviewLeads ==
    ASSUME NEW d \in Docs, NEW c, d["review"] # NoArtifact
    PROVE  LET decision == DecideAfterReview(d, c)
           IN  \/ decision.next \in LimitNodes \cup {"pm"}
               \/ decision.next = "architect" /\ "prd_validation" \notin decision.clear
               \/ decision.next = "developer" /\ decision.clear = {}
               \/ /\ decision.next = "deploy_hitl" /\ decision.clear = {}
                  /\ d["review"] = "deploy"
<1>1. d["review"] \in ReviewVerdicts
  BY VerdictOf
<1> QED BY <1>1, LimitRouteType
        DEF DecideAfterReview, RetryUnlessAtLimit, Advance, Retry, LimitNodes,
            DesignEscalationStale, ReviewVerdicts

LEMMA RouteKeeps ==
    ASSUME NEW node, NEW decision, Route(node, decision)
    PROVE  /\ pc = node /\ pc' = decision.next /\ chain' = chain
           /\ \A a \in Artifacts \ decision.clear : doc'[a] = doc[a]
BY DEF Route

LEMMA RouteGateInv ==
    ASSUME IInv, GateInv,
           RouteAfterPrdValidate \/ RouteAfterDesignValidate
             \/ RouteAfterQa \/ RouteAfterReviewer
    PROVE  GateInv'
<1>1. /\ {"prd_validation", "design_validation", "test_report", "review"}
            \subseteq Artifacts
      /\ doc \in Docs /\ chain \in Nat
  BY DEF Artifacts, IInv, TypeOK, ChainLength
<1> USE DEF GateInv, ReleaseInv, ReportThere, Made,
            BehindReview, BehindTest, BehindDesign, BehindPrd
<1>2. CASE RouteAfterPrdValidate
  <2> DEFINE decision == DecideAfterPrdValidate(doc, count)
  <2>1. Route("route_after_prd_validate", decision)
    BY <1>2 DEF RouteAfterPrdValidate
  <2> HIDE DEF decision
  <2>2. /\ pc = "route_after_prd_validate" /\ pc' = decision.next /\ chain' = chain
        /\ \A a \in Artifacts \ decision.clear : doc'[a] = doc[a]
    BY <2>1, RouteKeeps
  <2>3. \/ decision.next \in LimitNodes \cup {"pm"}
        \/ /\ decision.next \in {"prd_hitl", "architect"}
           /\ BlockPrd => Passed(doc["prd_validation"])
           /\ decision.clear = {}
    BY <1>1, <2>2, PrdLeads DEF decision
  <2> QED BY <1>1, <2>2, <2>3 DEF LimitNodes
<1>3. CASE RouteAfterDesignValidate
  <2> DEFINE decision == DecideAfterDesignValidate(doc, count)
  <2>1. Route("route_after_design_validate", decision)
    BY <1>3 DEF RouteAfterDesignValidate
  <2> HIDE DEF decision
  <2>2. /\ pc = "route_after_design_validate" /\ pc' = decision.next /\ chain' = chain
        /\ \A a \in Artifacts \ decision.clear : doc'[a] = doc[a]
    BY <2>1, RouteKeeps
  <2>3. \/ decision.next \in LimitNodes
        \/ decision.next = "architect" /\ "prd_validation" \notin decision.clear
        \/ /\ decision.next \in {"design_hitl", "developer"}
           /\ BlockDesign => Passed(doc["design_validation"])
           /\ decision.clear = {}
    BY <1>1, <2>2, DesignLeads DEF decision
  <2> QED BY <1>1, <2>2, <2>3 DEF LimitNodes
<1>4. CASE RouteAfterQa
  <2> DEFINE decision == DecideAfterTest(doc, count)
  <2>1. Route("route_after_qa", decision)
    BY <1>4 DEF RouteAfterQa
  <2> HIDE DEF decision
  <2>2. /\ pc = "route_after_qa" /\ pc' = decision.next /\ chain' = chain
        /\ \A a \in Artifacts \ decision.clear : doc'[a] = doc[a]
    BY <2>1, RouteKeeps
  <2>3. \/ decision.next \in LimitNodes
        \/ decision.next = "developer" /\ decision.clear = {}
        \/ /\ decision.next = "reviewer" /\ decision.clear = {}
           /\ Passed(doc["test_report"])
    BY TestLeads DEF decision
  <2> QED BY <1>1, <2>2, <2>3 DEF LimitNodes
<1>5. CASE RouteAfterReviewer
  <2> DEFINE decision == DecideAfterReview(doc, count)
  <2>1. Route("route_after_reviewer", decision) /\ doc["review"] # NoArtifact
    BY <1>5 DEF RouteAfterReviewer
  <2> HIDE DEF decision
  <2>2. /\ pc = "route_after_reviewer" /\ pc' = decision.next /\ chain' = chain
        /\ \A a \in Artifacts \ decision.clear : doc'[a] = doc[a]
    BY <2>1, RouteKeeps
  <2>3. \/ decision.next \in LimitNodes \cup {"pm"}
        \/ decision.next = "architect" /\ "prd_validation" \notin decision.clear
        \/ decision.next = "developer" /\ decision.clear = {}
        \/ /\ decision.next = "deploy_hitl" /\ decision.clear = {}
           /\ doc["review"] = "deploy"
    BY <1>1, <2>1, ReviewLeads DEF decision
  <2> QED BY <1>1, <2>2, <2>3 DEF LimitNodes
<1> QED BY <1>2, <1>3, <1>4, <1>5

LEMMA DecideGateInv ==
    ASSUME IInv, GateInv, PrdHitl \/ DesignHitl \/ DeployHitl \/ EscalationHitl
    PROVE  GateInv'
<1>1. /\ UNCHANGED chain
      /\ <<pc, pc'>> \in { <<"prd_hitl", "architect">>,
                           <<"design_hitl", "developer">>,
                           <<"deploy_hitl", "deploy">>,
                           <<"escalation_hitl", "fail">> }
  BY DEF PrdHitl, DesignHitl, DeployHitl, EscalationHitl, Decide
<1>2. \A a \in {"prd_validation", "design_validation", "test_report", "review"} :
         doc'[a] = doc[a]
  <2>1. ASSUME NEW node, NEW stage \in HitlStages, NEW successor,
               Decide(node, stage, successor)
        PROVE  \A a \in Artifacts \ {"hitl"} : doc'[a] = doc[a]
    <3>1. "hitl" \in Artifacts /\ stage \in Verdicts("hitl")
      BY DEF Artifacts, Verdicts
    <3> QED BY <2>1, <3>1, WrittenIsThere DEF Decide
  <2>2. \/ UNCHANGED doc
        \/ \E node, successor : \E stage \in HitlStages : Decide(node, stage, successor)
    BY DEF PrdHitl, DesignHitl, DeployHitl, EscalationHitl, HitlStages
  <2> QED BY <2>1, <2>2 DEF Artifacts
<1> QED BY <1>1, <1>2 DEF GateInv, ReleaseInv, ReportThere, Made, BehindReview,
                          BehindTest, BehindDesign, BehindPrd

\* At these places of a session nothing is promised yet.
LEMMA NothingPromised ==
    ASSUME IInv', pc' \in {"idle", "hydrate", "gate", "pm"}
    PROVE  GateInv'
<1>1. chain' \in Nat
  BY DEF IInv, TypeOK, ChainLength
<1> QED BY <1>1 DEF GateInv, ReleaseInv, ReportThere, Made, BehindReview,
                    BehindTest, BehindDesign, BehindPrd

\* Whatever LangGraph does with the input of a continued session, only the two
\* steps that enter the graph depend on it.
LEMMA OtherGateInv ==
    ASSUME IInv, GateInv, [Next]_vars, ~ ContinueAtArchitect, ~ ExecuteGate
    PROVE  GateInv'
<1>1. IInv'
  BY NextIInv
<1>2. CASE StartRun \/ ContinueBegin \/ ContinueStep \/ Deploy \/ Fail \/ Abort
  <2>1. pc' \in {"idle", "hydrate", "gate", "pm"}
    BY <1>2 DEF StartRun, ContinueBegin, ContinueStep, ContinueAtGate,
                ContinueRejected, Deploy, Fail, Abort, EndSession
  <2> QED BY <1>1, <2>1, NothingPromised
<1>3. CASE GraphStep /\ ~ (Deploy \/ Fail)
  BY <1>3, ProduceGateInv, DecideGateInv, RouteGateInv DEF GraphStep
<1>4. CASE UNCHANGED vars
  BY <1>4 DEF vars, GateInv, ReleaseInv, ReportThere
<1> QED BY <1>2, <1>3, <1>4 DEF Next, SessionStep

LEMMA NextGateInv ==
    ASSUME InvokeRestarts
    PROVE  IInv /\ GateInv /\ [Next]_vars => GateInv'
<1> SUFFICES ASSUME IInv, GateInv, [Next]_vars PROVE GateInv'
  OBVIOUS
<1>1. CASE ContinueAtArchitect \/ ExecuteGate
  <2>1. IInv' /\ pc' = "pm"
    BY <1>1, NextIInv DEF ContinueAtArchitect, ExecuteGate, EntryPoint
  <2> QED BY <2>1, NothingPromised
<1> QED BY <1>1, OtherGateInv

LEMMA InitGateInv == Init => GateInv
BY DEF Init, GateInv, ReleaseInv, ReportThere, Made, BehindReview, BehindTest,
       BehindDesign, BehindPrd

LEMMA GateInvImpliesReleaseGate == IInv /\ GateInv => ReleaseGate
BY DEF IInv, TypeOK, ChainLength, GateInv, ReleaseInv, ReleaseGate, Made,
       BehindReview, BehindTest, BehindDesign, BehindPrd

\* Nothing is deployed behind a gate's back, with any --reenter and any
\* --force-new, as long as each session of the graph starts at the PM.
THEOREM ReleaseGuarded ==
    ASSUME InvokeRestarts
    PROVE  Spec => []ReleaseGate
<1>1. IInv /\ GateInv /\ [Next]_vars => GateInv'
  BY NextGateInv
<1> QED BY <1>1, InitGateInv, GateInvImpliesReleaseGate, InductiveInvariant, PTL
        DEF Spec

-----------------------------------------------------------------------------
(***************************************************************************)
(* Refinement of ReleaseProtocol.                                          *)
(***************************************************************************)
LEMMA InitImplements == Init => Promise!Init
BY DEF Init, NoMeta, Outcome, Promise!Init

\* Within a session, a step that keeps the status makes at most one product.
LEMMA WorkImplements ==
    ASSUME IInv, pc # "idle", pc' # "idle", meta'.status = meta.status,
           chain' = chain \/ \E a \in Artifacts \ {"hitl"} : Extend(a)
    PROVE  [Promise!Next]_Promise!vars
<1>1. Outcome' = Outcome
  BY DEF Outcome
<1>2. CASE chain' = chain
  BY <1>1, <1>2 DEF Promise!vars
<1>3. CASE \E a \in Artifacts \ {"hitl"} : Extend(a)
  <2>1. PICK a \in Artifacts \ {"hitl"} : Extend(a)
    BY <1>3
  <2>2. Position(a) \in 1..ChainLength
    BY DEF Artifacts, Position, ChainLength
  <2>3. CASE chain + 1 >= Position(a)
    <3>1. Promise!Make(Position(a))
      BY <1>1, <2>1, <2>2, <2>3 DEF Extend, Promise!Make, IInv, TypeOK, ChainLength
    <3> QED BY <2>2, <3>1 DEF Promise!Next
  <2>4. CASE ~ (chain + 1 >= Position(a))
    BY <1>1, <2>1, <2>4 DEF Extend, Promise!vars
  <2> QED BY <2>3, <2>4
<1> QED BY <1>2, <1>3

LEMMA StepImplements ==
    ASSUME ~ AllowForceNew, ReenterValues = {"auto"}
    PROVE  IInv /\ ReleaseGate /\ [Next]_vars => [Promise!Next]_Promise!vars
<1> SUFFICES ASSUME IInv, ReleaseGate, [Next]_vars
             PROVE  [Promise!Next]_Promise!vars
  OBVIOUS
<1>1. CASE StartRun
  <2>1. Promise!Begin
    BY <1>1 DEF StartRun, Outcome, InitRunMeta, Promise!Begin
  <2> QED BY <2>1 DEF Promise!Next
<1>2. CASE ContinueBegin
  <2>1. /\ meta.status \notin {"absent", "completed"}
        /\ meta'.status = "running"
    BY <1>2 DEF ContinueBegin, InferReentryNode, PrepareContinue, IInv, TypeOK
  <2>2. Promise!TakeUp
    BY <1>2, <2>1
       DEF ContinueBegin, Outcome, Promise!TakeUp, IInv, TypeOK, RunStatuses
  <2> QED BY <2>2 DEF Promise!Next
<1>3. CASE Deploy
  <2>1. chain = ChainLength
    BY <1>3 DEF Deploy, ReleaseGate
  <2>2. meta'.status = "completed"
    BY <1>3 DEF Deploy, Settle, IInv, TypeOK
  <2>3. Promise!Release
    BY <1>3, <2>1, <2>2 DEF Deploy, EndSession, Outcome, Promise!Release
  <2> QED BY <2>3 DEF Promise!Next
<1>4. CASE Fail
  <2>1. meta'.status = "failed"
    BY <1>4 DEF Fail, Settle, IInv, TypeOK
  <2>2. Promise!Abandon
    BY <1>4, <2>1 DEF Fail, EndSession, Outcome, Promise!Abandon
  <2> QED BY <2>2 DEF Promise!Next
<1>5. CASE Abort \/ ContinueRejected
  <2>1. Promise!Stop
    BY <1>5 DEF Abort, ContinueRejected, EndSession, Outcome, Promise!Stop
  <2> QED BY <2>1 DEF Promise!Next
<1>6. CASE Pm \/ PrdValidate \/ Architect \/ DesignValidate \/ Developer
             \/ Qa \/ Reviewer
  BY <1>6, WorkImplements
     DEF Pm, PrdValidate, Architect, DesignValidate, Developer, Qa, Reviewer,
         Produce, Artifacts
<1>7. CASE PrdHitl \/ DesignHitl \/ DeployHitl \/ EscalationHitl
  BY <1>7, WorkImplements
     DEF PrdHitl, DesignHitl, DeployHitl, EscalationHitl, Decide
<1>8. CASE RouteAfterPrdValidate \/ RouteAfterDesignValidate
             \/ RouteAfterQa \/ RouteAfterReviewer
  <2>1. \E node \in Nodes : \E decision : Route(node, decision)
    BY <1>8 DEF RouteAfterPrdValidate, RouteAfterDesignValidate, RouteAfterQa,
                RouteAfterReviewer, Nodes
  <2>2. pc' # "idle"
    <3>1. pc' \in Nodes
      BY <1>8, GateDecisionsType, ReviewDecisionType
         DEF RouteAfterPrdValidate, RouteAfterDesignValidate, RouteAfterQa,
             RouteAfterReviewer, Route, Decisions, IInv, TypeOK, Counts
    <3> QED BY <3>1 DEF Nodes
  <2>3. pc # "idle" /\ chain' = chain /\ meta'.status = meta.status
    BY <2>1 DEF Route, MarkStale, IInv, TypeOK, Nodes
  <2> QED BY <2>2, <2>3, WorkImplements
<1>9. CASE ContinueAtGate \/ ContinueAtArchitect
  BY <1>9, WorkImplements, OperatorAssumption
     DEF ContinueAtGate, ContinueAtArchitect, EntryPoint
<1>10. CASE ExecuteGate
  <2>1. GateReport(reentry) \in Artifacts \ {"hitl"}
    BY <1>10 DEF ExecuteGate, IInv, TypeOK, GateNodes, GateReport, Artifacts
  <2>2. pc' # "idle"
    BY <1>10, OperatorAssumption
       DEF ExecuteGate, EntryPoint, RouteAfter, GateNodes, IInv, TypeOK
  <2> QED BY <1>10, <2>1, <2>2, WorkImplements DEF ExecuteGate
<1>11. CASE UNCHANGED vars
  BY <1>11 DEF vars, Outcome, Promise!vars
<1> QED BY <1>1, <1>2, <1>3, <1>4, <1>5, <1>6, <1>7, <1>8, <1>9, <1>10, <1>11
        DEF Next, SessionStep, GraphStep, ContinueStep

\* A task that is aborted and continued any number of times keeps the promise
\* of ReleaseProtocol: nothing is made from outdated products or released
\* before all are current, and a released task is not taken up again.
THEOREM PipelineImplementsReleaseProtocol ==
    ASSUME InvokeRestarts, ~ AllowForceNew, ReenterValues = {"auto"}
    PROVE  Spec => ImplementsReleaseProtocol
<1>1. IInv /\ ReleaseGate /\ [Next]_vars => [Promise!Next]_Promise!vars
  BY StepImplements
<1>2. Spec => []ReleaseGate
  BY ReleaseGuarded
<1> QED BY <1>1, <1>2, InitImplements, InductiveInvariant, PTL
        DEF Spec, ImplementsReleaseProtocol, Promise!Spec
=============================================================================
