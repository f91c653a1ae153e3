----------------------------- MODULE RunArtifacts -----------------------------
(***************************************************************************)
(* The run directory docs/runs/<task_id>/: run_meta.json and the artifact  *)
(* files, and what `continue` computes from them (tools/run_artifacts/     *)
(* meta.py, artifact_loader.py, checkpoint.py).                            *)
(*                                                                         *)
(* `disk` maps an artifact to the verdict in its file (NoArtifact: there   *)
(* is no file), whether or not the file is marked stale.  `meta` is        *)
(* run_meta.json: its status, deploy_status, loop counters and             *)
(* stale_artifacts.  Time stamps, profile snapshot and user_request are    *)
(* left out; loop_limits is the constant Limits, which nothing rewrites;   *)
(* the file flow.mmd, stale-marked but never loaded, is left out too.      *)
(***************************************************************************)
EXTENDS Routing, Sequences, FiniteSetsExt

NoCounts == [l \in Loops |-> 0]
NoDoc    == [a \in Artifacts |-> NoArtifact]

Contents(a) == Verdicts(a) \cup {NoArtifact}

Docs == {d \in [Artifacts -> UNION {Contents(a) : a \in Artifacts}] :
            \A a \in Artifacts : d[a] \in Contents(a)}

RunStatuses    == {"absent", "running", "failed", "completed"}
DeployStatuses == {"skipped", "success"}

\* status = "absent": there is no run_meta.json yet.
NoMeta == [status |-> "absent", deploy |-> "skipped",
           count |-> NoCounts, stale |-> {}]

(***************************************************************************)
(* RunMetaStore.                                                           *)
(***************************************************************************)
InitRunMeta == [status |-> "running", deploy |-> "skipped",
                count |-> NoCounts, stale |-> {}]

\* mark_stale only appends: nothing in the code takes a name off the list.
MarkStale(meta, names) == [meta EXCEPT !.stale = @ \cup names]

\* Faulty variant: the run fails without recording the counters it spent.
SettleForgettingCounts(meta, status, deploy, count) ==
    [meta EXCEPT !.status = status, !.deploy = deploy]

\* update(status = ..., counters) as the two terminal nodes call it.
Settle(meta, status, deploy, count) ==
    [meta EXCEPT !.status = status, !.deploy = deploy, !.count = count]

\* Counters are reset only on a failed run, and only those at their limit.
PrepareContinue(meta, resetLoops) ==
    [meta EXCEPT
        !.status = "running",
        !.count  = [l \in Loops |->
                      IF resetLoops /\ meta.status = "failed"
                           /\ meta.count[l] >= Limits[l]
                      THEN 0 ELSE meta.count[l]]]

(***************************************************************************)
(* artifact_available and hydrate_state: a file counts when it exists and  *)
(* its name is not on stale_artifacts.                                     *)
(***************************************************************************)
Available(disk, meta, a) == disk[a] # NoArtifact /\ a \notin meta.stale

Hydrate(disk, meta) ==
    [a \in Artifacts |-> IF a \in meta.stale THEN NoArtifact ELSE disk[a]]

(***************************************************************************)
(* infer_reentry_node without --reenter: the first rule that applies, or   *)
(* "error" for a ContinueError.                                            *)
(***************************************************************************)
\* Faulty variant: a loop counts as exhausted one retry too late.
ImplRetryBeyondLimit(meta) == meta.count["impl"] > Limits["impl"]

ImplRetryAtLimit(meta) == meta.count["impl"] >= Limits["impl"]

ReentryRules(disk, meta) ==
    LET doc      == Hydrate(disk, meta)
        there(a) == doc[a] # NoArtifact
    IN << [when |-> doc["review"] = "pm",              node |-> "prd_validate"],
          [when |-> doc["review"] = "architect",       node |-> "design_validate"],
          [when |-> doc["review"] = "developer",       node |-> "qa"],
          [when |-> Failed(doc["prd_validation"]),     node |-> "prd_validate"],
          [when |-> Failed(doc["design_validation"]),  node |-> "design_validate"],
          [when |-> Failed(doc["test_report"]),        node |-> "qa"],
          [when |-> /\ meta.status = "failed"
                    /\ ImplRetryAtLimit(meta)
                    /\ there("dev_manifest"),          node |-> "qa"],
          [when |-> there("design") /\ ~ there("dev_manifest"),
                                                       node |-> "design_validate"],
          [when |-> /\ there("prd")
                    /\ Passed(doc["prd_validation"])
                    /\ disk["design"] = NoArtifact,    node |-> "architect"] >>

\* Faulty variant: a completed run is not refused.
InferReentryNodeAnyStatus(disk, meta) ==
    LET rules   == ReentryRules(disk, meta)
        applies == {i \in DOMAIN rules : rules[i].when}
    IN IF applies = {} THEN "error" ELSE rules[Min(applies)].node

InferReentryNode(disk, meta) ==
    LET rules   == ReentryRules(disk, meta)
        applies == {i \in DOMAIN rules : rules[i].when}
    IN IF meta.status = "completed" \/ applies = {}
       THEN "error"
       ELSE rules[Min(applies)].node

GateNodes == {"prd_validate", "design_validate", "qa"}

\* The artifact each gate writes.
GateReport(gate) ==
    CASE gate = "prd_validate"    -> "prd_validation"
      [] gate = "design_validate" -> "design_validation"
      [] gate = "qa"              -> "test_report"

(***************************************************************************)
(* validate_reentry_preconditions on the hydrated state, and the check of  *)
(* continue_pipeline that the node is a gate or the architect.             *)
(***************************************************************************)
ReentryAllowed(doc, node) ==
    CASE node = "prd_validate"    -> doc["prd"] # NoArtifact
      [] node = "design_validate" -> doc["design"] # NoArtifact
      [] node = "qa"              -> /\ doc["design"] # NoArtifact
                                     /\ doc["dev_manifest"] # NoArtifact
      [] node = "architect"       -> /\ doc["prd"] # NoArtifact
                                     /\ ~ Failed(doc["prd_validation"])
      [] OTHER                    -> FALSE
=============================================================================
