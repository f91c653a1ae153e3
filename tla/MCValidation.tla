----------------------------- MODULE MCValidation -----------------------------
(***************************************************************************)
(* Inputs for ValidationGate: one PRD and one design that satisfy every    *)
(* rule, and edits of them, each aimed at a rule or at a pair of rules     *)
(* that have to agree.                                                     *)
(***************************************************************************)
EXTENDS ValidationGate

MCWithin == {<<"US-1", "US-10">>}
MCCriterionIds == {"AC-1", "AC-2"}
MCScopeKeywords == {"login"}
MCEscapingPaths == {"../up"}
MCManifestPaths == {"pyproject"}
MCBadDomains == {"bad domain"}
MCHitlFlags == {"payment"}
MCTaskIds == {"T1", "T2", "T3", "T9"}
MCTaskPaths == {"pyproject", "app.py", "lib.py", "../up"}
MCRefs == {"F-1", "AC-1", "AC-2"}

-----------------------------------------------------------------------------
Criterion(id, text) == [id |-> id, text |-> text, automated |-> TRUE]
Feature(id, stories) ==
    [id |-> id, p0 |-> TRUE, stories |-> stories, freeform |-> FALSE, wide |-> FALSE]
Story(id) == [id |-> id, freeform |-> FALSE, narrow |-> FALSE, nonlinear |-> FALSE]
Constraint(kind, excludes) ==
    [id |-> "SEM-1", wellFormed |-> TRUE, source |-> "US-1", kind |-> kind,
     dimensions |-> {"d1", "d2"}, oneOf |-> {"v1", "v2"}, validRules |-> TRUE,
     excludes |-> excludes]

BasePrd ==
    [profile |-> "own", language |-> "own", contextFits |-> TRUE,
     title |-> "text", summary |-> "text", storage |-> "stateless",
     interface |-> "cli", background |-> TRUE, glossary |-> "good",
     criteria |-> <<Criterion("AC-1", {"US-1", "SEM-1"})>>,
     features |-> <<Feature("F-1", {"US-1"})>>,
     stories |-> <<Story("US-1")>>,
     metrics |-> <<[id |-> "M-1", target |-> "text", manual |-> TRUE, text |-> {"US-1"}]>>,
     requirements |-> <<[id |-> "REQ-1", feature |-> "F-1", echo |-> FALSE,
                         text |-> {"input"}]>>,
     scopeIn |-> {"calc"}, scopeOut |-> {}, blankConstraint |-> FALSE,
     scale |-> "personal", highConcurrency |-> FALSE, tier |-> "best_effort",
     tierNotes |-> FALSE, numbers |-> "none", model |-> "local_only",
     delivery |-> "none", multiWriter |-> FALSE, idempotent |-> FALSE,
     conflict |-> "not_applicable", modelNotes |-> FALSE,
     semantics |-> <<Constraint("input_shape", {})>>]

Excluded == {[text |-> {"v3"}, validRule |-> TRUE]}

\* PRDs the gate passes, or passes with warnings.
GoodPrds ==
    LET base == BasePrd
    IN {base,
        [base EXCEPT !.profile = "other", !.language = "none", !.semantics = <<>>],
        [base EXCEPT !.semantics = <<Constraint("invariant", Excluded)>>],
        [base EXCEPT !.semantics = <<Constraint("state_transition", {})>>,
                     !.criteria[1].text = {"US-10", "SEM-1"}],
        [base EXCEPT !.storage = "persistent", !.multiWriter = TRUE, !.tier = "custom",
                     !.model = "eventual", !.idempotent = TRUE,
                     !.delivery = "at_least_once"],
        [base EXCEPT !.scale = "team", !.highConcurrency = TRUE, !.numbers = "performance",
                     !.criteria = <<Criterion("AC-1", {"US-1"}), Criterion("AC-2", {"nonlinear"})>>],
        [base EXCEPT !.scopeOut = {"login", "calc"}, !.blankConstraint = TRUE,
                     !.glossary = "poor", !.background = FALSE,
                     !.requirements[1].echo = TRUE]}

\* PRDs it refuses.
BadPrds ==
    LET base == BasePrd
    IN {[base EXCEPT !.criteria = <<>>, !.glossary = "input"],
        [base EXCEPT !.semantics = <<Constraint("output_shape", {})>>, !.summary = "blank"],
        [base EXCEPT !.title = "blank"],
        [base EXCEPT !.title = "none", !.summary = "none", !.features[1].p0 = FALSE],
        [base EXCEPT !.features = <<Feature("F-1", {"US-1"}), Feature("F-1", {})>>],
        [base EXCEPT !.metrics[1].target = "none", !.criteria[1].text = {}],
        [base EXCEPT !.interface = "api", !.semantics = <<>>],
        [base EXCEPT !.semantics[1].source = "US-9", !.semantics[1].validRules = FALSE,
                     !.features[1].wide = TRUE, !.stories[1].narrow = TRUE],
        [base EXCEPT !.storage = "none", !.requirements[1].feature = "F-9",
                     !.model = "custom"]}

\* A PM that was refused answers with one of few.
MCRawPrds(told) ==
    IF ~told THEN GoodPrds \cup BadPrds
    ELSE {BasePrd, [BasePrd EXCEPT !.title = "blank"],
          [BasePrd EXCEPT !.criteria = <<Criterion("AC-2", {})>>]}

-----------------------------------------------------------------------------
Task(id, path, deps, covers) ==
    [id |-> id, path |-> path, deps |-> deps, covers |-> covers,
     described |-> TRUE, length |-> 1]
Blank(task, length) == [task EXCEPT !.described = FALSE, !.length = length]
Module(name, path, domain) ==
    [name |-> name, path |-> path, domain |-> domain, described |-> TRUE]
Dep(kind, domain) == [kind |-> kind, domain |-> domain]
Case(segment, kind, error, class, value) ==
    [segment |-> segment, domain |-> "APP", kind |-> kind, covers |-> {"AC-1", "AC-2", "SEM-1"},
     error |-> error, steps |-> TRUE, class |-> class, proves |-> {"d1", "d2"},
     input |-> TRUE, values |-> {value}, evidence |-> "SEM-1"]
Diagram(kind, file) == [kind |-> kind, file |-> file]
Row(ref, kind, feature) == [ref |-> ref, kind |-> kind, feature |-> feature]

Table ==
    [relational |-> TRUE, columns |-> {"id", "created_at", "updated_at", "version"},
     described |-> TRUE, versioned |-> TRUE, indexes |-> "explained", notes |-> TRUE]

Covered == {"F-1", "AC-1", "AC-2"}

BaseDesign ==
    [tasks |-> <<Task("T1", "pyproject", {}, {}),
                 Task("T2", "app.py", {"T1"}, Covered)>>,
     modules |-> <<Module("app", "app.py", "APP")>>,
     nonGoals |-> TRUE, contextView |-> TRUE, crossCutting |-> TRUE,
     nonFunctional |-> TRUE, transactions |-> TRUE,
     summary |-> "text", strategy |-> "text", delta |-> "text",
     topDelta |-> "none", topTestStrategy |-> FALSE,
     goals |-> {"sentence"}, trace |-> {Row("F-1", "FEAT", "none")},
     mentions |-> {}, filePlan |-> {"app.py"}, flags |-> {},
     deps |-> <<Dep("db", "DB")>>, tables |-> {Table}, entities |-> "columns",
     errors |-> {[code |-> "E1", domain |-> "APP", wellFormed |-> TRUE, anchored |-> FALSE]},
     cases |-> <<Case("HAP", "happy", "none", "c1", "v1"),
                 Case("HAP", "happy", "none", "c2", "v2"),
                 Case("NEG", "negative", "E1", "none", "v3"),
                 Case("BND", "boundary", "none", "none", "v1")>>,
     diagrams |-> {Diagram("sequence", "flow.mmd"), Diagram("flowchart", "flow.mmd")},
     interfaces |-> <<[module |-> "app", operations |-> "complete", errors |-> {"E1"}]>>]

\* The architect puts nothing into the parts a small design can do without.
SmallDesign ==
    [BaseDesign EXCEPT !.nonFunctional = FALSE, !.transactions = FALSE,
        !.deps = <<Dep("none", "none")>>, !.tables = {}, !.entities = "none",
        !.diagrams = {}]

TaskEdits ==
    LET base == BaseDesign
    IN {[base EXCEPT !.tasks = tasks] : tasks \in
          {<<>>,
           <<Task("T1", "app.py", {}, Covered)>>,
           <<Task("T1", "pyproject", {"T2"}, {}), Task("T2", "app.py", {"T1"}, Covered)>>,
           <<Task("T1", "pyproject", {"T1"}, {}), Task("T2", "app.py", {}, Covered)>>,
           <<Task("T1", "pyproject", {}, {}), Task("T2", "app.py", {"T9"}, Covered)>>,
           <<Task("T1", "pyproject", {}, {}), Task("T1", "app.py", {}, Covered)>>,
           <<Task("T1", "pyproject", {}, {}), Task("T2", "app.py", {}, {"F-1"}),
             Task("T3", "../up", {"T2"}, {"AC-1", "AC-2"})>>,
           <<Task("T1", "pyproject", {}, {}), Task("T2", "app.py", {"T1"}, {}),
             Task("T3", "app.py", {"T1"}, Covered)>>,
           <<Task("T1", "pyproject", {}, {}), Task("T2", "app.py", {"T1"}, Covered),
             Blank(Task("T3", "app.py", {"T1"}, {}), 2)>>,
           <<Blank(Task("T1", "pyproject", {}, {}), 0), Task("T2", "app.py", {}, Covered),
             Task("T3", "pyproject", {}, {})>>,
           <<Task("T1", "pyproject", {}, {}), Task("T2", "app.py", {"T1"}, {}),
             Task("T3", "app.py", {"T2"}, Covered)>>,
           <<Task("T1", "pyproject", {}, {}), Task("T2", "lib.py", {"T1"}, {"AC-1", "AC-2"}),
             Task("T3", "app.py", {"T1", "T2"}, {"F-1"})>>,
           <<Task("T3", "app.py", {"T2"}, {"F-1"}), Task("T2", "lib.py", {"T1"}, {"AC-1", "AC-2"}),
             Task("T1", "pyproject", {}, {})>>}}
       \cup {[base EXCEPT !.tasks[2].described = FALSE, !.filePlan = {"more.py"}]}

OverviewEdits ==
    LET base == BaseDesign
    IN {[base EXCEPT !.strategy = s, !.delta = d, !.topDelta = t] :
            s \in {"none", "absent", "blank"}, d \in {"none", "text"},
            t \in {"none", "text"}}
       \cup {[base EXCEPT !.strategy = "none", !.summary = summary] :
                summary \in {"none", "blank"}}
       \cup {[base EXCEPT !.goals = goals, !.nonGoals = FALSE, !.contextView = FALSE,
                          !.crossCutting = FALSE] :
                goals \in {{}, {"blank"}, {"bare_known"}, {"bare_unknown", "sentence"}}}
       \cup {[base EXCEPT !.crossCutting = FALSE, !.topTestStrategy = TRUE, !.delta = "blank"],
             [base EXCEPT !.trace = {}, !.tasks[2].covers = {}],
             [base EXCEPT !.trace = {Row("none", "FEAT", "F-1"), Row("AC-1", "AC", "none")},
                          !.tasks[2].covers = {}],
             [base EXCEPT !.mentions = {"login", "calc"}],
             [base EXCEPT !.flags = {"payment"}],
             [base EXCEPT !.flags = {"payment", "other"}, !.errors = {}]}

StorageEdits ==
    LET base == BaseDesign
    IN {[base EXCEPT !.tables = tables, !.entities = entities, !.deps = deps] :
            tables \in {{}, {[Table EXCEPT !.columns = {}]}},
            entities \in {"none", "bare", "aliased"},
            deps \in {<<>>, <<Dep("none", "none")>>, <<Dep("filesystem", "none")>>}}
       \cup {[base EXCEPT !.tables = {table}] : table \in
                {[Table EXCEPT !.columns = {"id"}], [Table EXCEPT !.described = FALSE],
                 [Table EXCEPT !.indexes = "none", !.notes = FALSE],
                 [Table EXCEPT !.indexes = "unexplained"]}}
       \cup {[base EXCEPT !.transactions = FALSE], [base EXCEPT !.nonFunctional = FALSE],
             SmallDesign}

TestEdits ==
    LET base == BaseDesign
    IN {[base EXCEPT !.cases = <<>>], [base EXCEPT !.cases[1].segment = "no_hyphen"],
        [base EXCEPT !.cases[1].segment = "XXX"], [base EXCEPT !.cases[1].kind = "boundary"],
        [base EXCEPT !.cases[3].error = "E9"], [base EXCEPT !.cases[3].error = "none"],
        [base EXCEPT !.cases[2].class = "c1"], [base EXCEPT !.cases[1].input = FALSE],
        [base EXCEPT !.cases[2].values = {"v1"}], [base EXCEPT !.cases[1].domain = "NET"],
        [base EXCEPT !.cases = [i \in DOMAIN @ |-> [@[i] EXCEPT !.covers = {},
                                                                 !.evidence = "none"]]],
        [base EXCEPT !.cases = [i \in DOMAIN @ |-> [@[i] EXCEPT !.steps = FALSE]]],
        [base EXCEPT !.errors = {[code |-> "E1", domain |-> "DB", wellFormed |-> TRUE,
                                  anchored |-> TRUE]}],
        [base EXCEPT !.errors = {[code |-> "E1", domain |-> "NET", wellFormed |-> FALSE,
                                  anchored |-> FALSE]}]}

StructureEdits ==
    LET base == BaseDesign
    IN {[base EXCEPT !.modules = modules] : modules \in
          {<<>>, <<Module("app", "app.py", "bad domain")>>,
           <<Module("app", "app.py", "APP"), Module("lib", "lib.py", "APP")>>,
           <<Module("app", "app.py", "APP"), Module("app", "lib.py", "APP")>>,
           <<Module("app", "app.py", "APP"), Module("sys", "sys.py", "SYS")>>}}
       \cup {[base EXCEPT !.deps = <<Dep("db", "APP")>>], [base EXCEPT !.deps = <<Dep("db", "none")>>],
             [base EXCEPT !.interfaces = <<>>],
             [base EXCEPT !.interfaces[1].operations = "poor"],
             [base EXCEPT !.interfaces[1].errors = {"E9"}],
             [base EXCEPT !.modules[1].described = FALSE]}

DiagramEdits ==
    LET base == BaseDesign
    IN {[base EXCEPT !.diagrams = diagrams] : diagrams \in
          {{}, {Diagram("sequence", "flow.mmd")},
           {Diagram("sequenceDiagram", "flow.mmd"), Diagram("flowchart LR", "flow.mmd")},
           {Diagram("sequence", "flow.mmd"), Diagram("flowchart", "more.mmd")},
           {Diagram("context", "flow.mmd")},
           {Diagram("sequence", "other"), Diagram("flowchart", "other")}}}

RawDesigns ==
    {BaseDesign} \cup TaskEdits \cup OverviewEdits \cup StorageEdits
        \cup TestEdits \cup StructureEdits \cup DiagramEdits

\* Files the architect may send along.
Both    == [flow_mmd |-> {"empty"}, mmd_files |-> [f \in {"flow.mmd"} |-> {"sequence", "flowchart"}]]
Legacy  == [flow_mmd |-> {"sequence"}, mmd_files |-> <<>>]
Missing == [flow_mmd |-> {"empty"}, mmd_files |-> <<>>]
More    == [flow_mmd |-> {"empty"}, mmd_files |-> [f \in {"more.mmd"} |-> {"flowchart"}]]

Answer(raw, files) ==
    [design |-> raw, flow_mmd |-> files.flow_mmd, mmd_files |-> files.mmd_files]

\* Every design for the plain PRD; for the others those that differ in what a
\* PRD can ask for; and few from an architect that was refused.
MCAnswers(spec, told) ==
    {Answer(BaseDesign, files) : files \in {Both, Legacy, Missing, More}}
    \cup {Answer(raw, Both) : raw \in
            IF told THEN {SmallDesign} \cup DiagramEdits
            ELSE IF spec = BasePrd THEN RawDesigns
            ELSE IF spec.semantics = <<>> THEN StorageEdits \cup DiagramEdits
            ELSE IF spec.summary # "text" THEN OverviewEdits
            ELSE TestEdits \cup {SmallDesign}}

-----------------------------------------------------------------------------
Gate(block_on, semantic) ==
    [enabled |-> TRUE, block_on |-> block_on, require_hitl |-> FALSE,
     semantic_block_on |-> semantic, strict |-> TRUE]

Policy(prdGate, designGate) == [prd |-> prdGate, design |-> designGate]

MCPolicies ==
    {Policy(Gate("error", "unset"), Gate("error", "unset")),
     Policy([Gate("error", "warn") EXCEPT !.require_hitl = TRUE],
            [Gate("error", "warn") EXCEPT !.strict = FALSE]),
     Policy(Gate("warn", "error"), [Gate("warn", "error") EXCEPT !.require_hitl = TRUE]),
     Policy([Gate("error", "unset") EXCEPT !.enabled = FALSE],
            [Gate("error", "unset") EXCEPT !.enabled = FALSE]),
     Policy(Gate("never", "unset"), Gate("error", "never")),
     Policy(Gate("warn", "unset"), Gate("error", "error"))}
=============================================================================
