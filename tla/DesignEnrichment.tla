--------------------------- MODULE DesignEnrichment ---------------------------
(***************************************************************************)
(* From the model's JSON to the design that is validated: the aliases      *)
(* schemas/design.py folds in while it parses, and what                    *)
(* agents/normalizers/design_enrichment.py fills in afterwards.            *)
(*                                                                         *)
(* A raw design is a design with two fields more: topDelta and             *)
(* topTestStrategy, for code_delta and test_strategy at the top level.     *)
(* Its strategy is "absent" when architecture lacks the key, "none" when   *)
(* there is no architecture at all.                                        *)
(***************************************************************************)
EXTENDS DesignRules

\* _normalize_diagram_kind.
DiagramAlias(kind) ==
    CASE kind = "sequenceDiagram" -> "sequence"
      [] kind = "flowchart LR"    -> "flowchart"
      [] OTHER                    -> kind

\* _merge_top_level_aliases: an absent strategy gets a default as soon as there
\* is an architecture to hold it; one that is written but empty keeps its text.
MergedStrategy(raw) ==
    IF raw.strategy = "absent" \/ (raw.strategy = "none" /\ raw.topDelta # "none")
    THEN "default" ELSE raw.strategy

\* _coerce_traceability: feature_id stands in for a missing spec_ref_id.
CoerceRow(row) == IF row.ref = "none" THEN [row EXCEPT !.ref = row.feature] ELSE row

CoerceDesign(raw) ==
    [raw EXCEPT
        !.strategy = MergedStrategy(raw),
        !.delta = IF raw.delta = "none" THEN raw.topDelta ELSE raw.delta,
        !.crossCutting = raw.crossCutting \/ raw.topTestStrategy,
        !.trace = {CoerceRow(row) : row \in raw.trace},
        !.entities = IF raw.entities = "aliased" THEN "columns" ELSE raw.entities,
        !.diagrams = {[d EXCEPT !.kind = DiagramAlias(d.kind)] : d \in raw.diagrams}]

-----------------------------------------------------------------------------
\* Faulty variant: the second task of a path is dropped with what it covers.
MergeTasksDropping(first, second) == first

\* The first task of a path keeps its id; the rest is joined.  Of two
\* descriptions the longer one stays, even if it is blank.
MergeTasks(first, second) ==
    LET longer == IF second.length > first.length THEN second ELSE first
    IN [id |-> first.id, path |-> first.path,
        deps |-> first.deps \cup second.deps,
        covers |-> first.covers \cup second.covers,
        described |-> longer.described, length |-> longer.length]

JoinTask(kept, task) ==
    IF task.path \in FieldSet(kept, "path")
    THEN [i \in DOMAIN kept |-> IF kept[i].path = task.path
                                THEN MergeTasks(kept[i], task) ELSE kept[i]]
    ELSE Append(kept, task)

\* _dedupe_dev_tasks_by_path.
DedupeByPath(tasks) ==
    FoldLeft(LAMBDA kept, task : JoinTask(kept, task), <<>>, tasks)

\* _expand_design_goals: a bare id becomes a sentence if the PRD has the id.
ExpandGoals(goals) ==
    {IF g = "bare_known" THEN "sentence" ELSE g : g \in goals}

\* _default_design_goals.
DefaultGoals(prd) ==
    IF Priority0(prd) # <<>> \/ Filled(prd.summary) \/ Filled(prd.title)
    THEN {"sentence"} ELSE {"blank"}

\* _default_architecture: the first text that is not empty, blank or not.
DefaultStrategy(design, prd) ==
    CASE design.summary # "none" -> design.summary
      [] prd.summary # "none"    -> prd.summary
      [] prd.title # "none"      -> prd.title
      [] OTHER                   -> "default"

\* Faulty variant: the delta is only looked at with the strategy.
ArchitectureAloneOnly(design, prd) ==
    IF Filled(design.strategy)
    THEN [strategy |-> design.strategy, delta |-> design.delta]
    ELSE [strategy |-> DefaultStrategy(design, prd), delta |-> "default"]

\* A missing strategy replaces the whole architecture, code_delta included.
Architecture(design, prd) ==
    IF Filled(design.strategy)
    THEN [strategy |-> design.strategy,
          delta |-> IF Filled(design.delta) THEN design.delta ELSE "default"]
    ELSE [strategy |-> DefaultStrategy(design, prd), delta |-> "default"]

\* enrich_design_for_validation.
Enrich(design, prd) ==
    LET architecture == Architecture(design, prd)
    IN [design EXCEPT
        !.tasks = DedupeByPath(design.tasks),
        !.trace = {CoerceRow(row) : row \in design.trace},
        !.nonGoals = TRUE,
        !.goals = IF @ \subseteq {"blank"} THEN DefaultGoals(prd) ELSE ExpandGoals(@),
        !.contextView = TRUE,
        !.strategy = architecture.strategy,
        !.delta = architecture.delta,
        !.crossCutting = TRUE]
=============================================================================
