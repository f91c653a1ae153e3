---------------------------- MODULE PipelineClaims ----------------------------
(***************************************************************************)
(* What the repository's documents and messages say of a task, where the   *)
(* code of Pipeline does otherwise.  Each of these has a run in which TLC  *)
(* finds the behaviour that contradicts it; README.md tells the stories.   *)
(***************************************************************************)
EXTENDS Pipeline

\* artifact-continue-design.md:67 and :191: while the report on the present
\* design says it failed, `continue` enters at design_validate.
DesignFailureReenters ==
    /\ pc = "idle" /\ meta.status = "failed"
    /\ chain = Position("design_validation")
    /\ Failed(disk["design_validation"])
    => InferReentryNode(disk, meta) = "design_validate"

\* artifact-continue-design.md:109: `continue` refuses a completed task, so
\* only a forced new run may take a task out of "completed".
CompletedIsFinal ==
    [][meta.status = "completed" /\ ~ AllowForceNew
         => meta'.status = "completed"]_vars

\* artifact-continue-design.md:155: after update_state(as_node = X) the graph
\* goes on behind X.  Then the PM works only where there is no design yet, or
\* none any more because a decision sent the run back to the PM.
PmWorksBeforeDesign == pc = "pm" => doc["design"] = NoArtifact

\* multi-agent-pipeline-design.md:282: an agent rerun on the reviewer's
\* escalation reads the review that sent the run back.
EscalationReachesAgent ==
    [][pc = "route_after_reviewer" /\ pc' \in {"architect", "pm"}
         => doc'["review"] # NoArtifact]_vars
=============================================================================
