------------------------------- MODULE Pipeline -------------------------------
(***************************************************************************)
(* One task of the factory: the LangGraph pipeline (graph/, nodes/,        *)
(* agents/) together with the run directory it leaves behind, across any   *)
(* number of processes that run it, die in it and continue it.             *)
(*                                                                         *)
(* A session is one call of run_pipeline or continue_pipeline.  During a   *)
(* session `pc` is the graph node that runs next; the session's            *)
(* PipelineState is `doc` (the artifact fields) and `count` (the three     *)
(* loop counters).  Every node writes its file before it returns its       *)
(* patch, so one action stands for a whole node, and a process that dies   *)
(* after the write and before the patch is the action followed by Abort.   *)
(* What an agent, a validator or a test run answers is a free choice.      *)
(***************************************************************************)
EXTENDS RunArtifacts

CONSTANTS
    MaxSessions,   \* bound: processes started for the task
    AllowForceNew, \* the operator may `run --force-new` over an old run
    ReenterValues, \* what the operator passes to --reenter ("auto": nothing)
    InvokeRestarts \* external: invoke with an input starts the graph over

\* --reenter takes any PipelineNode value (checkpoint.py:72).
ASSUME SessionsAssumption == MaxSessions \in Nat
ASSUME OperatorAssumption ==
    /\ AllowForceNew \in BOOLEAN
    /\ ReenterValues \subseteq Nodes \cup {"auto"}
    /\ InvokeRestarts \in BOOLEAN

VARIABLES
    pc,       \* "idle", "hydrate", "gate" or the graph node to run
    doc,      \* artifact fields of the session's PipelineState
    count,    \* loop counters of the session's PipelineState
    meta,     \* run_meta.json
    disk,     \* the artifact files of the run directory
    reentry,  \* the reentry node of a session of `continue`
    sessions, \* processes started so far (bounded by MaxSessions)
    chain     \* history: how much of the artifact chain is current

vars == <<pc, doc, count, meta, disk, reentry, sessions, chain>>

(***************************************************************************)
(* The artifact chain.  chain = n says that the first n artifacts of it    *)
(* were each produced, for the current request, from the present version   *)
(* of the ones before them.  It is a history variable: no code reads it.   *)
(***************************************************************************)
Position(a) ==
    CASE a = "prd"               -> 1
      [] a = "prd_validation"    -> 2
      [] a = "design"            -> 3
      [] a = "design_validation" -> 4
      [] a = "dev_manifest"      -> 5
      [] a = "test_report"       -> 6
      [] a = "review"            -> 7

ChainLength == 7

\* A node writes the file of `a` and returns the same object for the state.
Write(a, verdict) ==
    /\ disk' = [disk EXCEPT ![a] = verdict]
    /\ doc'  = [doc  EXCEPT ![a] = verdict]

\* Writing `a` outdates what comes after it, and is itself current only if
\* everything before it is.
Extend(a) ==
    chain' = IF chain + 1 >= Position(a) THEN Position(a) ELSE chain

\* The process ends: what it held in memory is gone.
EndSession ==
    /\ pc' = "idle"
    /\ doc' = NoDoc
    /\ count' = NoCounts
    /\ UNCHANGED <<disk, reentry, sessions, chain>>

-----------------------------------------------------------------------------
(***************************************************************************)
(* The nodes of the graph.                                                 *)
(***************************************************************************)
\* A node that writes one artifact and has one successor.
Produce(node, a, successor) ==
    /\ pc = node
    /\ \E verdict \in Verdicts(a) : Write(a, verdict)
    /\ Extend(a)
    /\ pc' = successor
    /\ UNCHANGED <<count, meta, reentry, sessions>>

\* A route node: stale marks go to run_meta.json, the rest to the state.
Route(node, decision) ==
    /\ pc = node
    /\ meta' = MarkStale(meta, decision.stale)
    /\ doc' = [a \in Artifacts |->
                 IF a \in decision.clear THEN NoArtifact ELSE doc[a]]
    /\ count' = [l \in Loops |->
                   IF l = decision.loop THEN count[l] + 1 ELSE count[l]]
    /\ pc' = decision.next
    /\ UNCHANGED <<disk, reentry, sessions, chain>>

\* A HITL node: it always approves, escalation_hitl always refuses.
Decide(node, stage, successor) ==
    /\ pc = node
    /\ Write("hitl", stage)
    /\ pc' = successor
    /\ UNCHANGED <<count, meta, reentry, sessions, chain>>

Pm == Produce("pm", "prd", "prd_validate")

PrdValidate ==
    /\ doc["prd"] # NoArtifact
    /\ Produce("prd_validate", "prd_validation", "route_after_prd_validate")

RouteAfterPrdValidate ==
    Route("route_after_prd_validate", DecideAfterPrdValidate(doc, count))

PrdHitl == Decide("prd_hitl", "prd", "architect")

Architect ==
    /\ doc["prd"] # NoArtifact
    /\ Produce("architect", "design", "design_validate")

DesignValidate ==
    /\ doc["design"] # NoArtifact
    /\ Produce("design_validate", "design_validation",
               "route_after_design_validate")

RouteAfterDesignValidate ==
    Route("route_after_design_validate", DecideAfterDesignValidate(doc, count))

DesignHitl == Decide("design_hitl", "design", "developer")

Developer ==
    /\ doc["prd"] # NoArtifact
    /\ doc["design"] # NoArtifact
    /\ Produce("developer", "dev_manifest", "qa")

Qa == Produce("qa", "test_report", "route_after_qa")

RouteAfterQa == Route("route_after_qa", DecideAfterTest(doc, count))

Reviewer == Produce("reviewer", "review", "route_after_reviewer")

RouteAfterReviewer ==
    /\ doc["review"] # NoArtifact
    /\ Route("route_after_reviewer", DecideAfterReview(doc, count))

\* Whether hitl flags or sensitive paths match is the design's and manifest's.
DeployHitl ==
    \/ Decide("deploy_hitl", "deploy", "deploy")
    \/ /\ pc = "deploy_hitl"
       /\ pc' = "deploy"
       /\ UNCHANGED <<doc, count, meta, disk, reentry, sessions, chain>>

Deploy ==
    /\ pc = "deploy"
    /\ meta' = Settle(meta, "completed",
                      IF doc["hitl"] = "deploy" THEN "success" ELSE "skipped",
                      count)
    /\ EndSession

EscalationHitl == Decide("escalation_hitl", "escalation", "fail")

Fail ==
    /\ pc = "fail"
    /\ meta' = Settle(meta, "failed", meta.deploy, count)
    /\ EndSession

GraphStep ==
    \/ Pm \/ PrdValidate \/ RouteAfterPrdValidate \/ PrdHitl
    \/ Architect \/ DesignValidate \/ RouteAfterDesignValidate \/ DesignHitl
    \/ Developer \/ Qa \/ RouteAfterQa
    \/ Reviewer \/ RouteAfterReviewer
    \/ DeployHitl \/ Deploy \/ EscalationHitl \/ Fail

-----------------------------------------------------------------------------
(***************************************************************************)
(* Sessions: cmd_run / run_pipeline and cmd_continue / continue_pipeline.  *)
(***************************************************************************)
\* run: refused over an existing run_meta.json unless --force-new.  The old
\* artifact files stay where they are; the request they served is gone.
StartRun ==
    /\ pc = "idle"
    /\ sessions < MaxSessions
    /\ meta.status = "absent" \/ AllowForceNew
    /\ meta' = InitRunMeta
    /\ pc' = "pm"
    /\ doc' = NoDoc
    /\ count' = NoCounts
    /\ sessions' = sessions + 1
    /\ chain' = 0
    /\ UNCHANGED <<disk, reentry>>

\* continue, up to prepare_continue.  When no node can be inferred it raises
\* ContinueError and nothing has changed: that is no step.
ContinueBegin ==
    /\ pc = "idle"
    /\ sessions < MaxSessions
    /\ meta.status # "absent"
    /\ \E reenter \in ReenterValues, resetLoops \in BOOLEAN :
         LET node == IF reenter = "auto" THEN InferReentryNode(disk, meta)
                                         ELSE reenter
         IN /\ node # "error"
            /\ reentry' = node
            /\ meta' = PrepareContinue(meta, resetLoops)
    /\ pc' = "hydrate"
    /\ sessions' = sessions + 1
    /\ UNCHANGED <<doc, count, disk, chain>>

\* Where the graph starts when update_state said `node` comes next.  The design
\* notes resume there with invoke(None); the code invokes with an input, which
\* LangGraph takes as a new pass from START over the checkpointed state.
EntryPoint(node) == IF InvokeRestarts THEN "pm" ELSE node

\* hydrate_state, then the preconditions of a gate.
ContinueAtGate ==
    /\ pc = "hydrate"
    /\ reentry \in GateNodes
    /\ ReentryAllowed(Hydrate(disk, meta), reentry)
    /\ doc' = Hydrate(disk, meta)
    /\ count' = meta.count
    /\ pc' = "gate"
    /\ UNCHANGED <<meta, disk, reentry, sessions, chain>>

\* The architect has no gate: update_state(as_node = the PRD route node).
ContinueAtArchitect ==
    /\ pc = "hydrate"
    /\ reentry = "architect"
    /\ ReentryAllowed(Hydrate(disk, meta), reentry)
    /\ doc' = Hydrate(disk, meta)
    /\ count' = meta.count
    /\ pc' = EntryPoint("architect")
    /\ UNCHANGED <<meta, disk, reentry, sessions, chain>>

\* ContinueError after prepare_continue: its update of run_meta.json stays.
ContinueRejected ==
    /\ pc = "hydrate"
    /\ ~ ReentryAllowed(Hydrate(disk, meta), reentry)
    /\ UNCHANGED meta
    /\ EndSession

RouteAfter(gate) ==
    CASE gate = "prd_validate"    -> "route_after_prd_validate"
      [] gate = "design_validate" -> "route_after_design_validate"
      [] gate = "qa"              -> "route_after_qa"

\* _execute_gate, then update_state(as_node = the gate) and invoke.
ExecuteGate ==
    /\ pc = "gate"
    /\ \E verdict \in Verdicts(GateReport(reentry)) :
          Write(GateReport(reentry), verdict)
    /\ Extend(GateReport(reentry))
    /\ pc' = EntryPoint(RouteAfter(reentry))
    /\ UNCHANGED <<count, meta, reentry, sessions>>

\* The process is killed, or an exception leaves a node (an LLM call that
\* fails for good, a budget, an output that no retry repairs): run_meta.json
\* keeps the status "running".
Abort ==
    /\ pc # "idle"
    /\ UNCHANGED meta
    /\ EndSession

ContinueStep ==
    ContinueAtGate \/ ContinueAtArchitect \/ ContinueRejected \/ ExecuteGate

SessionStep == GraphStep \/ ContinueStep

Init ==
    /\ pc = "idle"
    /\ doc = NoDoc
    /\ count = NoCounts
    /\ meta = NoMeta
    /\ disk = NoDoc
    /\ reentry = "none"
    /\ sessions = 0
    /\ chain = 0

Next == StartRun \/ ContinueBegin \/ SessionStep \/ Abort

\* A session runs until it ends: the code waits for nobody.  Nothing obliges
\* an operator to start one, and nothing obliges a process to die.
Spec == Init /\ [][Next]_vars /\ WF_vars(SessionStep)

-----------------------------------------------------------------------------
(***************************************************************************)
(* Properties.                                                             *)
(***************************************************************************)
SessionNodes == Nodes \cup {"hydrate", "gate"}

\* Every variable holds a value of its kind; at "gate" the reentry node is one
\* of the three gates.
TypeOK ==
    /\ pc \in SessionNodes \cup {"idle"}
    /\ doc \in Docs
    /\ count \in [Loops -> Nat]
    /\ meta \in [status : RunStatuses, deploy : DeployStatuses,
                 count : [Loops -> Nat], stale : SUBSET Artifacts]
    /\ disk \in Docs
    /\ reentry \in Nodes \cup {"none"}
    /\ pc = "gate" => reentry \in GateNodes
    /\ sessions \in 0..MaxSessions
    /\ chain \in 0..ChainLength

\* No loop counter, in memory or in run_meta.json, ever passes its limit: not
\* through a chain of escalations, nor through crashes and continues.
LoopsBounded ==
    \A l \in Loops : count[l] <= Limits[l] /\ meta.count[l] <= Limits[l]

\* How far a node is from the end of the pipeline if no loop is taken.
Distance(node) ==
    CASE node = "fail"                        -> 1
      [] node = "escalation_hitl"             -> 2
      [] node = "deploy"                      -> 3
      [] node = "deploy_hitl"                 -> 4
      [] node = "route_after_reviewer"        -> 5
      [] node = "reviewer"                    -> 6
      [] node = "route_after_qa"              -> 7
      [] node = "qa"                          -> 8
      [] node = "developer"                   -> 9
      [] node = "design_hitl"                 -> 10
      [] node = "route_after_design_validate" -> 11
      [] node = "design_validate"             -> 12
      [] node = "architect"                   -> 13
      [] node = "prd_hitl"                    -> 14
      [] node = "route_after_prd_validate"    -> 15
      [] node = "prd_validate"                -> 16
      [] node = "pm"                          -> 17
      [] node = "gate"                        -> 18
      [] node = "hydrate"                     -> 19

\* The steps a session has left at most: a PRD retry costs at most 13 nodes,
\* a design retry 9, an implementation retry 5.
RetryBudget(c) ==
    13 * (Limits["prd"] - c["prd"]) + 9 * (Limits["design"] - c["design"])
        + 5 * (Limits["impl"] - c["impl"])

Rank == IF pc = "idle" THEN 0 ELSE RetryBudget(count) + Distance(pc)

\* Whatever the agents, gates and reviewer answer, each step of a session
\* brings it nearer to its end, so a session takes at most
\* 19 + 13 * prd + 9 * design + 5 * impl steps.  The loops nest (a review may
\* throw a run back to pm after any number of other retries), so no single
\* counter bounds them.
EveryStepNearerTheEnd ==
    [][SessionStep => Rank' \in Nat /\ Rank' < Rank]_vars

\* Every session ends by itself, completed, failed or rejected, or is aborted.
SessionEnds == (pc # "idle") ~> (pc = "idle")

\* A run is marked failed only after one of its loops used up all its retries,
\* and run_meta.json shows which.
FailedMeansLimitReached ==
    meta.status = "failed" => \E l \in Loops : meta.count[l] >= Limits[l]

\* Nothing reaches deployment unless it is approved, tested and validated, and
\* each of these verdicts is about the present version of what it judges.
ReleaseGate ==
    pc \in {"deploy_hitl", "deploy"} =>
        /\ chain = ChainLength
        /\ BlockPrd => Passed(doc["prd_validation"])
        /\ BlockDesign => Passed(doc["design_validation"])
        /\ Passed(doc["test_report"])
        /\ doc["review"] = "deploy"

\* A process may die anywhere: what `continue` would load from the directory is
\* then exactly what the session held, except for files marked stale.
CrashLosesNothing ==
    pc \in Nodes \cup {"gate"} =>
        \A a \in Artifacts : Available(disk, meta, a) => doc[a] = disk[a]

\* A failed run that never escalated can be continued without --reenter, and
\* passes the preconditions of the node inferred for it.
FailedRunContinues ==
    meta.status = "failed" /\ meta.stale = {} =>
        LET node == InferReentryNode(disk, meta)
        IN node # "error" /\ ReentryAllowed(Hydrate(disk, meta), node)

\* The pipeline implements the promise: no product is ever made from outdated
\* ones, however often the task was aborted and continued.
Outcome ==
    CASE meta.status = "absent"    -> "none"
      [] meta.status = "running"   -> "open"
      [] meta.status = "failed"    -> "abandoned"
      [] meta.status = "completed" -> "released"

Promise == INSTANCE ReleaseProtocol WITH
    Stages  <- ChainLength,
    current <- chain,
    working <- pc # "idle",
    outcome <- Outcome

ImplementsReleaseProtocol == Promise!Spec
=============================================================================
