------------------------------- MODULE Routing -------------------------------
(***************************************************************************)
(* The routing decisions of the factory's pipeline (graph_routing.py):     *)
(* after each gate, which node runs next, which loop counter is spent,     *)
(* which artifacts leave the in-memory state and which file names are put  *)
(* on run_meta.stale_artifacts.                                            *)
(*                                                                         *)
(* An artifact is abstracted to the verdict the routing reads from it:     *)
(* prd, design and dev_manifest are only "written"; a validation report    *)
(* passed or failed, with or without require_hitl; a review is its         *)
(* next_stage, "rejected" standing for next_stage = deploy with approved = *)
(* FALSE.                                                                  *)
(***************************************************************************)
EXTENDS Naturals, FiniteSets

CONSTANTS
    Limits,            \* LoopLimits: [prd, design, impl] -> most retries
    OnLimitExceeded,   \* LoopLimits.on_limit_exceeded
    BlockPrd,          \* profile.validation.prd.block_on = ERROR
    BlockDesign,       \* profile.validation.design.block_on = ERROR
    PrdHitlRequired,   \* profile.validation.prd.require_hitl
    DesignHitlRequired \* profile.validation.design.require_hitl

Loops == {"prd", "design", "impl"}

\* LoopLimits declares the three maxima with ge=0.
ASSUME LimitsAssumption == Limits \in [Loops -> Nat]
ASSUME OnLimitAssumption == OnLimitExceeded \in {"fail", "escalation_hitl"}
ASSUME ProfileAssumption ==
    /\ BlockPrd \in BOOLEAN
    /\ BlockDesign \in BOOLEAN
    /\ PrdHitlRequired \in BOOLEAN
    /\ DesignHitlRequired \in BOOLEAN

(***************************************************************************)
(* The nodes of the graph and the artifacts that pass between them.        *)
(***************************************************************************)
Nodes == {"pm", "prd_validate", "route_after_prd_validate", "prd_hitl",
          "architect", "design_validate", "route_after_design_validate",
          "design_hitl", "developer", "qa", "route_after_qa", "reviewer",
          "route_after_reviewer", "deploy_hitl", "deploy", "fail",
          "escalation_hitl"}

Artifacts == {"prd", "prd_validation", "design", "design_validation",
              "dev_manifest", "test_report", "review", "hitl"}

NoArtifact == "none"

ValidationVerdicts == {"passed", "failed"}
DesignVerdicts     == ValidationVerdicts \cup {"passed_hitl", "failed_hitl"}
ReviewVerdicts     == {"deploy", "rejected", "developer", "architect", "pm"}
HitlStages         == {"prd", "design", "deploy", "escalation"}

\* What the file of an artifact can hold, once it is written.
Verdicts(a) ==
    CASE a \in {"prd", "design", "dev_manifest"}   -> {"written"}
      [] a \in {"prd_validation", "test_report"}   -> ValidationVerdicts
      [] a = "design_validation"                   -> DesignVerdicts
      [] a = "review"                              -> ReviewVerdicts
      [] a = "hitl"                                -> HitlStages

\* report.passed and report.require_hitl of a report that is there.
Passed(verdict)      == verdict \in {"passed", "passed_hitl"}
Failed(verdict)      == verdict \in {"failed", "failed_hitl"}
RequiresHitl(verdict) == verdict \in {"passed_hitl", "failed_hitl"}

(***************************************************************************)
(* RouteDecision: the next node, the loop whose counter is incremented     *)
(* ("none": no counter), the artifacts set to None in the state and the    *)
(* ones whose files are marked stale.                                      *)
(***************************************************************************)
DesignEscalationStale == {"test_report", "review", "dev_manifest"}
PrdEscalationStale    == DesignEscalationStale \cup {"design", "design_validation"}

Advance(node) ==
    [next |-> node, loop |-> "none", clear |-> {}, stale |-> {}]

\* Faulty variant: what leaves the state is not marked stale on disk.
RetryKeepingFiles(node, loop, superseded) ==
    [next |-> node, loop |-> loop, clear |-> superseded, stale |-> {}]

Retry(node, loop, superseded) ==
    [next |-> node, loop |-> loop, clear |-> superseded, stale |-> superseded]

\* Faulty variant: the limit value names no node of the graph.
LimitRouteUnknown == "escalation"

LimitRoute == OnLimitExceeded

\* Faulty variant: one retry too many.
RetryUnlessAtLimitOffByOne(count, loop, node, superseded) ==
    IF count[loop] > Limits[loop]
    THEN Advance(LimitRoute)
    ELSE Retry(node, loop, superseded)

\* Faulty variant: the retry does not spend the loop's counter.
RetryUnlessAtLimitUncounted(count, loop, node, superseded) ==
    IF count[loop] >= Limits[loop]
    THEN Advance(LimitRoute)
    ELSE Retry(node, "none", superseded)

\* The common shape of every backward edge: count < max, or the limit route.
RetryUnlessAtLimit(count, loop, node, superseded) ==
    IF count[loop] >= Limits[loop]
    THEN Advance(LimitRoute)
    ELSE Retry(node, loop, superseded)

DecideAfterPrdValidate(doc, count) ==
    IF Failed(doc["prd_validation"]) /\ BlockPrd
    THEN RetryUnlessAtLimit(count, "prd", "pm", PrdEscalationStale)
    ELSE Advance(IF PrdHitlRequired THEN "prd_hitl" ELSE "architect")

\* Faulty variant: a design that failed its gate goes on when HITL is asked for.
DecideAfterDesignValidateHitlFirst(doc, count) ==
    IF DesignHitlRequired \/ RequiresHitl(doc["design_validation"])
    THEN Advance("design_hitl")
    ELSE IF Failed(doc["design_validation"]) /\ BlockDesign
    THEN RetryUnlessAtLimit(count, "design", "architect", DesignEscalationStale)
    ELSE Advance("developer")

DecideAfterDesignValidate(doc, count) ==
    IF Failed(doc["design_validation"]) /\ BlockDesign
    THEN RetryUnlessAtLimit(count, "design", "architect", DesignEscalationStale)
    ELSE IF DesignHitlRequired \/ RequiresHitl(doc["design_validation"])
    THEN Advance("design_hitl")
    ELSE Advance("developer")

DecideAfterTest(doc, count) ==
    IF Passed(doc["test_report"])
    THEN Advance("reviewer")
    ELSE RetryUnlessAtLimit(count, "impl", "developer", {})

\* Faulty variant: next_stage = deploy is followed without looking at approved.
DecideAfterReviewUnapproved(doc, count) ==
    CASE doc["review"] \in {"deploy", "rejected"} -> Advance("deploy_hitl")
      [] doc["review"] = "developer" ->
            RetryUnlessAtLimit(count, "impl", "developer", {})
      [] doc["review"] = "architect" ->
            RetryUnlessAtLimit(count, "design", "architect", DesignEscalationStale)
      [] doc["review"] = "pm" ->
            RetryUnlessAtLimit(count, "prd", "pm", PrdEscalationStale)

DecideAfterReview(doc, count) ==
    CASE doc["review"] = "deploy" -> Advance("deploy_hitl")
      [] doc["review"] \in {"rejected", "developer"} ->
            RetryUnlessAtLimit(count, "impl", "developer", {})
      [] doc["review"] = "architect" ->
            RetryUnlessAtLimit(count, "design", "architect", DesignEscalationStale)
      [] doc["review"] = "pm" ->
            RetryUnlessAtLimit(count, "prd", "pm", PrdEscalationStale)
=============================================================================
