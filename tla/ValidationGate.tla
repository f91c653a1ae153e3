---------------------------- MODULE ValidationGate ----------------------------
(***************************************************************************)
(* From the PM to the developer: the PM and the architect write their      *)
(* artifacts, JSON first and Markdown after it, the two gates judge what   *)
(* is in the run directory, and a refused artifact goes back to its agent. *)
(* A process may die between two files; continue then re-enters at a gate. *)
(*                                                                         *)
(* Developer stands for the first thing that agent does: it sorts the      *)
(* tasks of the design, and raises if it cannot.                           *)
(***************************************************************************)
EXTENDS DesignEnrichment

CONSTANTS
    TaskIds,       \* ids, paths and refs a design's tasks may name
    TaskPaths,
    Refs,
    RawPrds(_),    \* what the PM's model may answer, told a report or not
    Answers(_, _), \* what the architect's model may answer to a PRD, told a
                   \* report or not: a raw design and diagram files with it
    Policies,      \* the gates of the profiles, [prd |-> .., design |-> ..]
    MaxRevisions,  \* max_prd_revisions and max_design_revisions
    MaxCrashes     \* bound of the model

ASSUME PoliciesAssumption == Policies \subseteq [prd : Gates, design : Gates]
ASSUME TasksAssumption == TaskIds # {} /\ \E p \in TaskPaths : p \notin EscapingPaths
ASSUME BoundsAssumption == MaxRevisions \in Nat /\ MaxCrashes \in Nat

\* An artifact has these fields, since schemas/prd.py and schemas/design.py give
\* an answer its defaults or refuse it: the agent's node then raises before it
\* writes anything, and the answer is none of those here.  A task is described
\* if its description, of that length, is not blank.
Tasks ==
    [id : TaskIds, path : TaskPaths, deps : {D \in SUBSET TaskIds : IsFiniteSet(D)},
     covers : SUBSET Refs, described : BOOLEAN, length : Nat]

PrdFields ==
    {"profile", "language", "title", "summary", "features", "criteria", "semantics"}

IsList(items) == items \in Seq(ToSet(items))

IsPrd(spec) ==
    /\ PrdFields \subseteq DOMAIN spec
    /\ {spec.title, spec.summary} \subseteq Texts
    /\ IsList(spec.features) /\ IsList(spec.criteria) /\ IsList(spec.semantics)
    /\ "none" \notin IdSet(spec.features)

DesignFields ==
    {"tasks", "modules", "nonGoals", "contextView", "crossCutting", "nonFunctional",
     "summary", "strategy", "delta", "goals", "trace", "mentions", "filePlan",
     "entities", "diagrams"}

IsDesign(d) ==
    /\ DesignFields \subseteq DOMAIN d
    /\ d.tasks \in Seq(Tasks)
    /\ {d.summary, d.delta} \subseteq Texts
    /\ \A row \in d.trace : {"ref", "kind", "feature"} \subseteq DOMAIN row

ASSUME AnswersAssumption ==
    \A told, again \in BOOLEAN : \A raw \in RawPrds(told) :
        /\ IsPrd(raw)
        /\ \A answer \in Answers(NormalizePrd(raw), again) :
               /\ IsDesign(answer.design)
               /\ answer.design.topDelta \in Texts
               /\ answer.design.strategy \in Texts \cup {"absent"}

VARIABLES
    pc,            \* the node to run, or the file an agent has yet to write
    gates,         \* profile.validation
    prd,           \* prd.json
    prdMd,         \* prd.md
    prdReport,     \* prd_validation.json
    output,        \* the raw design an architect is about to write
    design,        \* design.json
    designMd,      \* design.md
    mmd,           \* the *.mmd files of the run directory
    designReport,  \* design_validation.json
    hitl,          \* stage of the last hitl.json
    plan,          \* the developer's order of the tasks
    revisions,     \* prd_revision_count and design_revision_count
    crashes        \* how often the process died

prdVars    == <<prd, prdMd, prdReport>>
designVars == <<output, design, designMd, mmd, designReport>>
rest       == <<gates, crashes>>
vars == <<pc, prdVars, designVars, hitl, plan, revisions, rest>>

Nothing == [written |-> FALSE]

Init ==
    /\ gates \in Policies
    /\ pc = "pm"
    /\ prd = Nothing /\ prdMd = NoPrdMd /\ prdReport = Nothing
    /\ output = Nothing /\ design = Nothing /\ designMd = NoDesignMd
    /\ mmd = <<>> /\ designReport = Nothing
    /\ hitl = "none" /\ plan = <<>>
    /\ revisions = [prd |-> 0, design |-> 0]
    /\ crashes = 0

-----------------------------------------------------------------------------
(***************************************************************************)
(* agents/pm.py and nodes/prd_validate.py with their routing.              *)
(***************************************************************************)
Pm ==
    /\ pc = "pm"
    /\ \E raw \in RawPrds(prdReport # Nothing) : prd' = NormalizePrd(raw)
    /\ pc' = "prd.md"
    /\ UNCHANGED <<prdMd, prdReport, designVars, hitl, plan, revisions, rest>>

PmMarkdown ==
    /\ pc = "prd.md"
    /\ prdMd' = RenderPrd(prd)
    /\ pc' = "prd_validate"
    /\ UNCHANGED <<prd, prdReport, designVars, hitl, plan, revisions, rest>>

\* A refused PRD takes the design with it: cleared and marked stale.
PrdValidate ==
    /\ pc = "prd_validate"
    /\ prdReport' = PrdReport(prd, prdMd, gates.prd)
    /\ IF ~SentBack(prdReport', gates.prd)
       THEN /\ pc' = IF gates.prd.require_hitl THEN "prd_hitl" ELSE "architect"
            /\ UNCHANGED <<revisions, design, designReport>>
       ELSE IF revisions.prd >= MaxRevisions
       THEN pc' = "limit" /\ UNCHANGED <<revisions, design, designReport>>
       ELSE /\ pc' = "pm"
            /\ revisions' = [revisions EXCEPT !.prd = @ + 1]
            /\ design' = Nothing
            /\ designReport' = Nothing
    /\ UNCHANGED <<prd, prdMd, output, designMd, mmd, hitl, plan, rest>>

\* run_prd_hitl approves by itself.
PrdHitl ==
    /\ pc = "prd_hitl"
    /\ hitl' = "prd"
    /\ pc' = "architect"
    /\ UNCHANGED <<prdVars, designVars, plan, revisions, rest>>

-----------------------------------------------------------------------------
(***************************************************************************)
(* agents/architect.py: the diagrams, then design.json, then design.md.    *)
(***************************************************************************)
\* _write_mermaid_artifacts: without mmd_files, flow.mmd is written, empty if
\* there is no text for it.  Other files of the run directory stay.
DiagramFiles(answer) ==
    IF DOMAIN answer.mmd_files # {} THEN answer.mmd_files
    ELSE [f \in {"flow.mmd"} |-> answer.flow_mmd]

\* Faulty variant: a file that is there already is not written again.
MergedKeepingOld(old, new) == old @@ new

Merged(old, new) ==
    [f \in DOMAIN old \cup DOMAIN new |-> IF f \in DOMAIN new THEN new[f] ELSE old[f]]

\* A registered path that is no *.mmd file raises before anything is written.
Architect ==
    /\ pc = "architect"
    /\ \E answer \in Answers(prd, designReport # Nothing) :
          /\ output' = answer.design
          /\ IF \E d \in answer.design.diagrams : d.file = "other"
             THEN pc' = "aborted" /\ UNCHANGED mmd
             ELSE pc' = "design.json" /\ mmd' = Merged(mmd, DiagramFiles(answer))
    /\ UNCHANGED <<prdVars, design, designMd, designReport, hitl, plan, revisions, rest>>

ArchitectJson ==
    /\ pc = "design.json"
    /\ design' = Enrich(CoerceDesign(output), prd)
    /\ output' = Nothing
    /\ pc' = "design.md"
    /\ UNCHANGED <<prdVars, designMd, mmd, designReport, hitl, plan,
                   revisions, rest>>

ArchitectMarkdown ==
    /\ pc = "design.md"
    /\ designMd' = RenderDesign(design)
    /\ pc' = "design_validate"
    /\ UNCHANGED <<prdVars, output, design, mmd, designReport, hitl, plan,
                   revisions, rest>>

-----------------------------------------------------------------------------
(***************************************************************************)
(* nodes/design_validate.py, its routing and nodes/design_hitl.py.         *)
(***************************************************************************)
\* Faulty variant: only the profile can ask for a person.
NeedsPersonByProfile(report, gate) == gate.require_hitl

NeedsPerson(report, gate) == gate.require_hitl \/ report.require_hitl

DesignValidate ==
    /\ pc = "design_validate"
    /\ IF gates.design.enabled /\ RaisesOnCaseId(design)
       THEN pc' = "gate_raised" /\ UNCHANGED <<designReport, revisions>>
       ELSE /\ designReport' = DesignReport(design, prd, designMd, mmd, gates.design)
            /\ IF ~SentBack(designReport', gates.design)
               THEN /\ pc' = IF NeedsPerson(designReport', gates.design)
                             THEN "design_hitl" ELSE "developer"
                    /\ UNCHANGED revisions
               ELSE IF revisions.design >= MaxRevisions
               THEN pc' = "limit" /\ UNCHANGED revisions
               ELSE /\ pc' = "architect"
                    /\ revisions' = [revisions EXCEPT !.design = @ + 1]
    /\ UNCHANGED <<prdVars, output, design, designMd, mmd, hitl, plan, rest>>

DesignHitl ==
    /\ pc = "design_hitl"
    /\ hitl' = "design"
    /\ pc' = "developer"
    /\ UNCHANGED <<prdVars, designVars, plan, revisions, rest>>

-----------------------------------------------------------------------------
(***************************************************************************)
(* kahn_sort_tasks on the list as it is: ids may repeat (the last task of  *)
(* an id stands for all of them), depends_on may name what is not there.   *)
(* sorted() on ids is the order of the list here.                          *)
(***************************************************************************)
TaskById(tasks, id) == Last(Kept(tasks, {t \in ToSet(tasks) : t.id = id}))

Dependents(tasks, node) == Ids(Kept(tasks, {t \in ToSet(tasks) : node \in t.deps}))

Release(state, child) ==
    LET degree == [state.degree EXCEPT ![child] = @ - 1]
    IN [degree  |-> degree,
        queue   |-> IF degree[child] = 0 THEN Append(state.queue, child)
                    ELSE state.queue,
        ordered |-> state.ordered]

ReleaseEach(state, children) ==
    FoldLeft(LAMBDA s, child : Release(s, child), state, children)

VisitNext(tasks, state) ==
    IF state.queue = <<>> THEN state
    ELSE LET node == Head(state.queue)
         IN ReleaseEach([degree  |-> state.degree,
                         queue   |-> Tail(state.queue),
                         ordered |-> Append(state.ordered, TaskById(tasks, node))],
                        Dependents(tasks, node))

StartState(tasks) ==
    LET degree == [id \in IdSet(tasks) |-> Cardinality(TaskById(tasks, id).deps)]
    IN [degree |-> degree, ordered |-> <<>>,
        queue |-> Kept(Ids(tasks), {id \in IdSet(tasks) : degree[id] = 0})]

\* As many rounds as could be needed; one with an empty queue changes nothing.
Visits(tasks) ==
    FoldLeft(LAMBDA state, i : VisitNext(tasks, state), StartState(tasks),
             [i \in 1..(2 * Len(tasks)) |-> i])

KahnSort(tasks) == Visits(tasks).ordered

Developer ==
    /\ pc = "developer"
    /\ plan' = KahnSort(design.tasks)
    /\ pc' = IF Len(plan') = Len(design.tasks) THEN "done" ELSE "unschedulable"
    /\ UNCHANGED <<prdVars, designVars, hitl, revisions, rest>>

-----------------------------------------------------------------------------
(***************************************************************************)
(* The process dies while an agent's files are incomplete; continue enters *)
(* at a gate whose artifact is there, or at the architect when the PRD was *)
(* not refused.  The counters are those on disk, which the dead session    *)
(* never wrote.                                                            *)
(***************************************************************************)
Crash ==
    /\ pc \in {"prd.md", "design.json", "design.md"}
    /\ crashes < MaxCrashes
    /\ crashes' = crashes + 1
    /\ pc' = "crashed"
    /\ output' = Nothing
    /\ revisions' = [prd |-> 0, design |-> 0]
    /\ UNCHANGED <<gates, prdVars, design, designMd, mmd, designReport, hitl, plan>>

Refused(report) == report # Nothing /\ ~report.passed

\* Faulty variant: validate_reentry_preconditions is not asked.
ContinueUnchecked ==
    /\ pc = "crashed"
    /\ pc' \in {"prd_validate", "design_validate", "architect"}
    /\ UNCHANGED <<prdVars, designVars, hitl, plan, revisions, rest>>

Continue ==
    /\ pc = "crashed"
    /\ \/ prd # Nothing /\ pc' = "prd_validate"
       \/ design # Nothing /\ pc' = "design_validate"
       \/ prd # Nothing /\ ~Refused(prdReport) /\ pc' = "architect"
    /\ UNCHANGED <<prdVars, designVars, hitl, plan, revisions, rest>>

Next ==
    \/ Pm \/ PmMarkdown \/ PrdValidate \/ PrdHitl
    \/ Architect \/ ArchitectJson \/ ArchitectMarkdown
    \/ DesignValidate \/ DesignHitl \/ Developer
    \/ Crash \/ Continue

Spec == Init /\ [][Next]_vars
-----------------------------------------------------------------------------
(***************************************************************************)
(* Properties.                                                             *)
(***************************************************************************)
Nodes == {"pm", "prd.md", "prd_validate", "prd_hitl", "architect", "design.json",
          "design.md", "design_validate", "design_hitl", "developer", "done",
          "limit", "aborted", "gate_raised", "unschedulable", "crashed"}

\* The node is known, reports are reports, the run keeps to its bounds, and
\* what a node reads from the state is there (graph/nodes/validate_nodes.py
\* raises otherwise).
TypeOK ==
    /\ pc \in Nodes
    /\ gates \in [prd : Gates, design : Gates]
    /\ \A report \in {prdReport, designReport} \ {Nothing} :
           DOMAIN report = {"passed", "violations", "require_hitl"}
    /\ revisions \in [{"prd", "design"} -> 0..MaxRevisions]
    /\ hitl \in {"none", "prd", "design"}
    /\ pc \in {"prd.md", "prd_validate", "prd_hitl", "architect", "design.json"} => prd # Nothing
    /\ pc \in {"design.md", "design_validate", "design_hitl", "developer"} => design # Nothing
    /\ (pc = "design.json") = (output # Nothing) \/ pc = "aborted"

Blocking(gate) == gate.enabled /\ gate.block_on = "error"

\* A design that a blocking gate let through can be scheduled
\* (dev_task_scheduler.py raises on a cycle), and the order holds every task
\* once, after the tasks it depends on, and every file once.
PassedDesignIsPlanned ==
    Blocking(gates.design) =>
        /\ pc # "unschedulable"
        /\ pc = "done" =>
              /\ ToSet(plan) = ToSet(design.tasks)
              /\ IsInjective(Ids(plan)) /\ IsInjective(Fields(plan, "path"))
              /\ \A i \in DOMAIN plan :
                     plan[i].deps \subseteq {plan[j].id : j \in 1..(i - 1)}

\* An agent that is asked again is told of an error: no retry is spent on
\* warnings or on nothing (validation_feedback.py, graph_routing.py).
RejectionsAreExplained ==
    /\ pc = "pm" /\ prdReport # Nothing => Errors(FailureFeedback(prdReport)) # {}
    /\ /\ pc = "architect" /\ designReport # Nothing /\ crashes = 0
       => Errors(FailureFeedback(designReport)) # {}

\* A profile that blocks less never sends back what one that blocks more lets
\* through: error, warn, never, for the rules on form and for those on meaning
\* (_report.py, _semantic_report.py, graph_routing.py).
Strictness == [never |-> 0, warn |-> 1, error |-> 2]
NoStricter(gate, other) ==
    /\ Strictness[gate.block_on] <= Strictness[other.block_on]
    /\ Strictness[EffectiveSemantic(gate)] <= Strictness[EffectiveSemantic(other)]

Judged(report, gate) == Report(report.violations, report.require_hitl, gate)

LenientNeverStricter ==
    \A report \in {prdReport, designReport} \ {Nothing} :
        \A p, q \in {policy[g] : policy \in Policies, g \in {"prd", "design"}} :
            NoStricter(p, q) /\ SentBack(Judged(report, p), p)
                => SentBack(Judged(report, q), q)

\* The Markdown files never decide: a gate that reads one an earlier attempt
\* left, or none, gives the verdict it would give on a fresh one.
MarkdownNeverDecides == [][
    /\ pc = "prd_validate" =>
           prdReport'.passed = PrdReport(prd, RenderPrd(prd), gates.prd).passed
    /\ pc = "design_validate" /\ pc' # "gate_raised" =>
           designReport'.passed =
               DesignReport(design, prd, RenderDesign(design), mmd, gates.design).passed
    ]_vars

\* On a fresh design.md the rules about sections add nothing of their own: one
\* is reported missing only if the design lacks what it would show, which an
\* error says as well.
RenderedDesignAgrees ==
    pc = "design_validate" /\ designMd = RenderDesign(design) =>
        LET rules   == RulesOf(DesignMdRules(design, prd, designMd))
            missing == RulesOf(TraceRules(design, prd) \cup CompletenessRules(design, prd))
        IN /\ rules \cap {"DES-201", "DES-212", "DES-219", "DES-220",
                          "DES-221", "DES-223"} = {}
           /\ "DES-213" \in rules => "DES-013" \in missing
           /\ "DES-216" \in rules <=> "DES-014" \in missing
           /\ "DES-224" \in rules <=> "DES-011" \in missing

\* The design that a PRD itself asks for: one task, one module, a row of the
\* trace for each criterion and P0 feature, and tests that cover all it names.
PlainPath == CHOOSE p \in TaskPaths : p \notin EscapingPaths

PlainTask ==
    [id |-> CHOOSE id \in TaskIds : TRUE, path |-> PlainPath, deps |-> {},
     covers |-> {}, described |-> TRUE, length |-> 1]

PlainRow(id, kind) == [ref |-> id, kind |-> kind, feature |-> "none"]

PlainTrace(spec) ==
    {PlainRow(id, "AC") : id \in IdSet(spec.criteria)}
        \cup {PlainRow(id, "FEAT") : id \in IdSet(Priority0(spec))}

PlainCase(spec, segment, kind, class, error) ==
    [segment |-> segment, kind |-> kind, class |-> class, error |-> error,
     domain |-> "APP", evidence |-> "SEM", steps |-> TRUE, input |-> TRUE,
     covers |-> IdSet(spec.criteria) \cup IdSet(spec.semantics),
     proves |-> NamedBy(spec.semantics, "dimensions"),
     values |-> NamedBy(spec.semantics, "oneOf")]

PlainCases(spec) ==
    <<PlainCase(spec, "HAP", "happy", "c1", "none"),
      PlainCase(spec, "HAP", "happy", "c2", "none"),
      PlainCase(spec, "NEG", "negative", "none", "E1"),
      PlainCase(spec, "BND", "boundary", "none", "none")>>

PlainDesign(spec) ==
    [tasks |-> <<PlainTask>>,
     modules |-> <<[name |-> "app", path |-> PlainPath, domain |-> "APP", described |-> TRUE]>>,
     nonGoals |-> TRUE, contextView |-> TRUE, crossCutting |-> TRUE,
     nonFunctional |-> TRUE, transactions |-> TRUE,
     summary |-> "text", strategy |-> "text", delta |-> "text",
     topDelta |-> "none", topTestStrategy |-> FALSE, goals |-> {"sentence"},
     trace |-> PlainTrace(spec), mentions |-> {}, filePlan |-> {}, flags |-> {},
     tables |-> {}, entities |-> "columns",
     deps |-> <<[kind |-> "none", domain |-> "none"]>>,
     errors |-> {[code |-> "E1", domain |-> "APP", wellFormed |-> TRUE, anchored |-> FALSE]},
     cases |-> PlainCases(spec),
     diagrams |-> {[kind |-> kind, file |-> "flow.mmd"] : kind \in {"sequence", "flowchart"}},
     interfaces |-> <<[module |-> "app", operations |-> "complete", errors |-> {"E1"}]>>]

\* With every diagram file written anew.
PlainAnswer(spec, old) ==
    [design |-> PlainDesign(spec), flow_mmd |-> {"empty"},
     mmd_files |-> [f \in DOMAIN old \cup {"flow.mmd"} |-> {"sequence", "flowchart"}]]

\* The two gates agree: for every PRD that passed, and whatever diagrams earlier
\* answers left behind, the architect has an answer that the design gate lets
\* through; no retry is hopeless (the rules of design_rules*.py, mermaid.py).
PassedPrdIsDesignable ==
    pc = "architect" /\ PrdReport(prd, prdMd, [gates.prd EXCEPT !.block_on = "error",
                                                              !.enabled = TRUE]).passed
    => LET answer  == PlainAnswer(prd, mmd)
           written == Enrich(CoerceDesign(answer.design), prd)
       IN /\ IsDesign(answer.design) /\ ~RaisesOnCaseId(written)
          /\ DesignReport(written, prd, RenderDesign(written),
                          Merged(mmd, DiagramFiles(answer)), gates.design).passed

\* What the enrichment promises to fill in is there afterwards: the delta and
\* the cross-cutting part always, the strategy unless it is copied from a blank
\* text, the goals if the PRD has a text for one (design_enrichment.py).
EnrichmentRepairs ==
    pc = "design.md" =>
        LET broken == RulesOf(OverviewRules(design))
        IN /\ broken \cap {"DES-010", "DES-036"} = {}
           /\ "blank" \notin {prd.title, prd.summary, design.summary}
                => "DES-008" \notin broken
           /\ Priority0(prd) # <<>> \/ Filled(prd.title) \/ Filled(prd.summary)
                => "DES-035" \notin broken

\* The enrichment breaks nothing but the order of the tasks, and that only
\* when it joined two tasks of one path.
EnrichmentBreaksOnlyOrder ==
    pc = "design.json" =>
        LET before == CoerceDesign(output)
            after  == Enrich(before, prd)
            errors(d) == RulesOf(Errors(TaskRules(d) \cup OverviewRules(d)
                                          \cup TraceRules(d, prd) \cup PathRules(d)))
        IN errors(after) \ errors(before) \subseteq
               IF IsInjective(Fields(before.tasks, "path")) THEN {}
               ELSE {"DES-004", "DES-005"}

\* A design that names a flag of the profile is not implemented before a
\* person stage, if the gate is on at all.
FlaggedDesignIsReviewed ==
    /\ pc \in {"developer", "done"} /\ gates.design.enabled /\ HitlRequired(design)
    => hitl = "design"
=============================================================================
