----------------------------- MODULE DesignRules -----------------------------
(***************************************************************************)
(* The rules of the design gate (validators/design_*.py, mermaid.py) over  *)
(* an abstract design, and design.md as renderers/design_md.py writes it.  *)
(***************************************************************************)
EXTENDS PrdRules

CONSTANTS
    EscapingPaths,  \* paths that leave code_root
    ManifestPaths,  \* the profile's build manifests (_PROFILE_MANIFEST_PATHS)
    BadDomains,     \* code_domain values _CODE_DOMAIN_RE refuses
    HitlFlags       \* profile.hitl.flags and require_hitl_if_flags

ASSUME DomainsAssumption == "APP" \notin BadDomains

Middleware == {"db", "cache", "mq", "rpc", "api", "blockchain"}

Fields(items, field) == [i \in DOMAIN items |-> items[i][field]]
FieldSet(items, field) == ToSet(Fields(items, field))
NamedBy(items, field) == UNION FieldSet(items, field)

Cases(design, kind) == Kept(design.cases, {c \in ToSet(design.cases) : c.kind = kind})

-----------------------------------------------------------------------------
(***************************************************************************)
(* design_triggers.py: which rules a design and its PRD call for.          *)
(***************************************************************************)
ImpliesPersistence(prd) ==
    prd.storage = "persistent" \/ prd.multiWriter \/ prd.model # "local_only"

HasMiddleware(design) == FieldSet(design.deps, "kind") \cap Middleware # {}
HasFilesystem(design) == "filesystem" \in FieldSet(design.deps, "kind")
HasColumns(design)    == \E table \in design.tables : table.columns # {}

RequiresTables(design, prd) ==
    \/ HasColumns(design) \/ HasMiddleware(design) \/ HasFilesystem(design)
    \/ ImpliesPersistence(prd)

RequiresTransactions(prd) == prd.multiWriter

RequiresDiagrams(design, prd) == design.diagrams # {} \/ ImpliesPersistence(prd)

RequiresNonFunctional(prd) ==
    \/ prd.numbers = "performance" \/ prd.scale # "personal"
    \/ prd.highConcurrency \/ prd.tier # "best_effort"

Stateless(design, prd) == ~RequiresTables(design, prd)

Nonlinear(prd) ==
    \/ prd.multiWriter
    \/ prd.idempotent /\ prd.delivery = "at_least_once"
    \/ Some(prd.stories, LAMBDA s : s.nonlinear)
    \/ Some(prd.criteria, LAMBDA c : "nonlinear" \in c.text)

RequiresFlow(design, prd) ==
    \/ Nonlinear(prd)
    \/ /\ Len(design.modules) >= 2 /\ ~Stateless(design, prd)
       /\ Cardinality(FieldSet(design.interfaces, "module")) >= 2

-----------------------------------------------------------------------------
(***************************************************************************)
(* design_rules.py: tasks, modules, goals, traceability, paths.            *)
(***************************************************************************)
\* Faulty variant: only direct self-dependencies are cycles.
HasCycleSelfOnly(tasks) == Some(tasks, LAMBDA t : t.id \in t.deps)

\* _dev_task_cycle: a task reached again while it is being visited, that is,
\* tasks each of which depends on one of them.
HasCycle(tasks) ==
    \E S \in (SUBSET IdSet(tasks)) \ {{}} :
        \A id \in S : \E i \in DOMAIN tasks :
            /\ tasks[i].id = id /\ tasks[i].deps \cap S # {}
            /\ \A j \in DOMAIN tasks : tasks[j].id = id => j <= i  \* dict: last wins

TaskRules(design) ==
    When(design.tasks = <<>>, Error("DES-001"))
    \cup When(Repeated(Ids(design.tasks)) # {}, Error("DES-002"))
    \cup When(\/ Repeated(Fields(design.tasks, "path")) # {}
              \/ Some(design.tasks, LAMBDA t : ~t.described), Error("DES-003"))
    \cup When(NamedBy(design.tasks, "deps") \ IdSet(design.tasks) # {}, Error("DES-004"))
    \cup When(HasCycle(design.tasks), Error("DES-005"))

ModuleRules(design) ==
    When(design.modules = <<>>, Error("DES-006"))
    \cup When(Some(design.modules, LAMBDA m : ~m.described), Error("DES-007"))

OverviewRules(design) ==
    When(\/ ~design.nonGoals \/ ~design.contextView
         \/ ~Filled(design.strategy), Error("DES-008"))
    \cup When(design.goals \subseteq {"blank"}, Error("DES-035"))
    \cup When(design.goals \cap {"bare_known", "bare_unknown"} # {}, Warn("DES-037"))
    \cup When(~Filled(design.delta), Error("DES-036"))
    \cup When(~design.crossCutting, Error("DES-010"))

TracedRefs(design) ==
    ({IF r.ref # "none" THEN r.ref ELSE r.feature : r \in design.trace} \ {"none"})
        \cup NamedBy(design.tasks, "covers")

CoveredCriteria(design) ==
    NamedBy(design.tasks, "covers")
        \cup {r.ref : r \in {row \in design.trace : row.kind = "AC"}}

TraceRules(design, prd) ==
    When(\/ design.trace = {}
         \/ ~(IdSet(Priority0(prd)) \subseteq TracedRefs(design)), Error("DES-009"))
    \cup When(RequiresNonFunctional(prd) /\ ~design.nonFunctional, Error("DES-011"))
    \cup When(~(IdSet(prd.criteria) \subseteq CoveredCriteria(design)), Error("DES-101"))
    \cup When(prd.scopeOut \cap design.mentions # {}, Error("DES-102"))

PathRules(design) ==
    LET paths == FieldSet(design.tasks, "path")
    IN When((paths \cup FieldSet(design.modules, "path")) \cap EscapingPaths # {},
            Error("DES-103"))
       \cup When(~(design.filePlan \subseteq paths), Error("DES-104"))

HitlRequired(design) == design.flags \cap HitlFlags # {}

-----------------------------------------------------------------------------
(***************************************************************************)
(* design_execution_plan_rules.py: one root, the framework step, below it  *)
(* everything else.                                                        *)
(***************************************************************************)
Roots(tasks) == {t.id : t \in {u \in ToSet(tasks) : u.deps = {}}}

\* Tasks from which a root is reached: the complement of the largest set whose
\* members depend only on each other or on ids no task has.
BelowRoot(tasks) ==
    IdSet(tasks) \ UNION {S \in SUBSET (IdSet(tasks) \ Roots(tasks)) :
        \A t \in ToSet(tasks) : t.id \in S =>
            t.deps \cap (IdSet(tasks) \ S) = {}}

ExecutionPlanRules(design) ==
    IF design.tasks = <<>> THEN {}
    ELSE When(\/ Cardinality(Roots(design.tasks)) # 1
              \/ BelowRoot(design.tasks) # IdSet(design.tasks), Warn("DES-105"))
         \cup When(/\ design.modules # <<>>
                   /\ ~(FieldSet(design.tasks, "path")
                         \subseteq ManifestPaths \cup FieldSet(design.modules, "path")),
                   Warn("DES-106"))
         \cup When(/\ ManifestPaths # {}
                   /\ Some(design.tasks, LAMBDA t :
                            t.deps = {} /\ t.path \notin ManifestPaths), Warn("DES-107"))

-----------------------------------------------------------------------------
(***************************************************************************)
(* design_rules_extended.py: dependencies, storage, diagrams.              *)
(***************************************************************************)
CompletenessRules(design, prd) ==
    When(design.deps = <<>>, Error("DES-012"))
    \cup When(/\ RequiresTables(design, prd)
              /\ design.tables = {} /\ design.entities # "columns", Error("DES-013"))
    \cup When(RequiresTransactions(prd) /\ ~design.transactions, Error("DES-014"))
    \cup When(design.errors = {}, Error("DES-015"))
    \cup When(design.cases = <<>>, Error("DES-016"))
    \cup When(/\ design.cases # <<>>
              /\ ~(IdSet(prd.criteria) \subseteq NamedBy(design.cases, "covers")),
              Warn("DES-016"))
    \cup When(/\ RequiresDiagrams(design, prd)
              /\ ~({"sequence", "flowchart"} \subseteq {d.kind : d \in design.diagrams}),
              Error("DES-017"))

TableRules(design) ==
    LET relational == {t \in design.tables : t.relational}
    IN When(\E t \in design.tables : t.columns # {} /\ ~t.described, Error("DES-018"))
       \cup When(\E t \in relational :
                    \/ ~({"created_at", "updated_at"} \subseteq t.columns)
                    \/ t.versioned /\ "version" \notin t.columns
                    \/ t.indexes = "none" /\ ~t.notes, Error("DES-019"))
       \cup When(\E t \in design.tables : t.indexes = "unexplained", Warn("DES-020"))

-----------------------------------------------------------------------------
(***************************************************************************)
(* design_rules_extended.py: the error catalogue, the test cases and the   *)
(* domains that both must come from.                                       *)
(***************************************************************************)
Codes(design) == {e.code : e \in design.errors}

\* The kind that the second part of a test id stands for.
KindOfSegment == [HAP |-> "happy", NEG |-> "negative", BND |-> "boundary"]

\* tc_id.split("-")[1] raises IndexError on an id without a hyphen.
RaisesOnCaseId(design) == Some(design.cases, LAMBDA c : c.segment = "no_hyphen")

ErrorRules(design) ==
    LET negatives == FieldSet(Cases(design, "negative"), "error")
    IN When(\E e \in design.errors : ~e.wellFormed, Error("DES-023"))
       \cup When(Codes(design) \ negatives # {}, Error("DES-021"))
       \cup When(~(FieldSet(design.cases, "error") \subseteq Codes(design) \cup {"none"}),
                 Error("DES-025"))

CaseRules(design) ==
    When(Some(design.cases, LAMBDA c : c.segment \notin DOMAIN KindOfSegment),
         Error("DES-024"))
    \cup When(Some(design.cases, LAMBDA c : /\ c.segment \in DOMAIN KindOfSegment
                                            /\ c.kind # KindOfSegment[c.segment]),
              Warn("DES-026"))
    \cup When(/\ design.cases # <<>>
              /\ ~({"happy", "negative", "boundary"} \subseteq FieldSet(design.cases, "kind")),
              Warn("DES-022"))

\* module_domains is keyed by module name: a later module of the same name
\* forgets the domain of the earlier one.
DuplicateDomain(modules) ==
    \E j \in DOMAIN modules : \E i \in 1..(j - 1) :
        /\ modules[i].domain = modules[j].domain
        /\ \A k \in (i + 1)..(j - 1) : modules[k].name # modules[i].name

ModuleDomains(design) == FieldSet(design.modules, "domain")
RealDeps(design) == Kept(design.deps, {d \in ToSet(design.deps) : d.kind # "none"})
RegisteredDomains(design) ==
    (ModuleDomains(design) \cup FieldSet(RealDeps(design), "domain")) \ {"none"}

DomainRules(design) ==
    When(ModuleDomains(design) \cap BadDomains # {} \/ DuplicateDomain(design.modules),
         Error("DES-027"))
    \cup When(Some(RealDeps(design), LAMBDA d :
                \/ d.kind # "filesystem" /\ d.domain \in BadDomains \cup {"none"}
                \/ d.kind \in Middleware /\ d.domain \in ModuleDomains(design)
                \/ /\ d.kind = "filesystem"
                   /\ d.domain \notin {"none"} \cup ModuleDomains(design)),
              Error("DES-028"))
    \cup When({e.domain : e \in design.errors}
                \ (RegisteredDomains(design) \cup {"none"}) # {}, Error("DES-029"))
    \cup When(FieldSet(design.cases, "domain")
                \ (RegisteredDomains(design) \cup {"none"}) # {}, Error("DES-030"))
    \cup When(Some(Cases(design, "negative"), LAMBDA c :
                \E e \in design.errors : /\ e.code = c.error
                                         /\ "none" \notin {c.domain, e.domain}
                                         /\ e.domain # c.domain), Warn("DES-031"))

InterfaceRules(design) ==
    LET public == Kept(design.modules, {m \in ToSet(design.modules) : m.domain # "SYS"})
        used(m) == Kept(design.interfaces, {f \in ToSet(design.interfaces) : f.module = m})
    IN When(Some(public, LAMBDA m : used(m.name) = <<>>), Error("DES-032"))
       \cup When(Some(public, LAMBDA m :
                    Some(used(m.name), LAMBDA f : f.operations # "complete")),
                 Error("DES-033"))
       \cup When(Some(public, LAMBDA m : Some(used(m.name), LAMBDA f :
                    ~(f.errors \subseteq Codes(design)))), Warn("DES-034"))

-----------------------------------------------------------------------------
(***************************************************************************)
(* design_semantic_rules.py: the test cases that prove the semantic        *)
(* constraints of the PRD.                                                 *)
(***************************************************************************)
CasesFor(design, sem) ==
    Kept(design.cases, {c \in ToSet(design.cases) :
                            sem.id \in c.covers \/ c.evidence = sem.id})

EnoughClasses(cases) == Cardinality(FieldSet(cases, "class") \ {"none"}) >= 2

InputShapeRules(design, sem) ==
    LET related == CasesFor(design, sem)
        happy == Kept(related, {c \in ToSet(related) : c.kind = "happy"})
        shown == Kept(happy, {c \in ToSet(happy) : c.evidence # "none"})
    IN When(\/ ~EnoughClasses(shown)
            \/ ~(sem.dimensions \subseteq NamedBy(shown, "proves")), SemError("DES-S01"))
       \cup When(~(sem.oneOf \subseteq NamedBy(happy, "values")), SemError("DES-S01b"))
       \cup When(Some(happy, LAMBDA c : ~c.input), SemError("DES-S05"))

KindRules(design, sem) ==
    LET related == CasesFor(design, sem)
        kinds   == FieldSet(related, "kind")
    IN CASE sem.kind = "input_shape" -> InputShapeRules(design, sem)
         [] sem.kind = "invariant" ->
              When(kinds \cap {"happy", "boundary"} = {} \/ "negative" \notin kinds,
                   SemError("DES-S01"))
         [] sem.kind = "state_transition" ->
              When(~Some(related, LAMBDA c : c.steps), SemError("DES-S01"))
         [] sem.kind = "output_shape" ->
              When(related = <<>>, SemWarn("DES-S01"))
         [] OTHER -> {}

ExcludeRules(design, sem) ==
    When(\E x \in sem.excludes :
            ~Some(Cases(design, "negative"), LAMBDA c :
                \/ sem.id \in c.covers \/ c.evidence = sem.id
                \/ x.text \subseteq c.values), SemError("DES-S03"))

CheckedSemantics(prd) == Kept(prd.semantics, {s \in ToSet(prd.semantics) : s.wellFormed})

DesignSemanticRules(design, prd) ==
    LET checked == CheckedSemantics(prd)
    IN IF checked = <<>> THEN {}
       ELSE (UNION {KindRules(design, s) \cup ExcludeRules(design, s) : s \in ToSet(checked)})
            \cup When(~(IdSet(checked) \subseteq NamedBy(design.cases, "covers")),
                      SemError("DES-S04"))
            \cup When(\E e \in design.errors : e.anchored, SemWarn("DES-S02"))

-----------------------------------------------------------------------------
(***************************************************************************)
(* design.md, by the sections that depend on the design, and the rules     *)
(* that ask for them (design_md_rules.py).                                 *)
(***************************************************************************)
NoDesignMd == [written |-> FALSE, sections |-> {}]

AlwaysRendered == {"1", "2", "3", "4", "6", "A", "B", "C", "D"}

ShowsContext(design) ==
    \/ Len(design.modules) >= 2 \/ RealDeps(design) # <<>>
    \/ \E d \in design.diagrams : d.kind = "context"

FlowDiagrams(design) == {d \in design.diagrams : d.kind \in {"sequence", "flowchart"}}

\* Faulty variant: the storage section waits for a table.
RenderDesignTablesOnly(design) ==
    [written |-> TRUE,
     sections |-> AlwaysRendered \cup When(design.tables # {}, "4.6")]

\* Chapter 4, the parts that depend on what the design has.
SolutionSections(design) ==
    When(ShowsContext(design), "4.2")
    \cup When(design.modules # <<>>, "4.3")
    \cup When(RealDeps(design) # <<>>, "4.4")
    \cup When(design.interfaces # <<>> \/ design.errors # {}, "4.5")
    \cup When(\/ design.entities # "none" \/ design.tables # {}
              \/ design.transactions, "4.6")
    \cup When(\/ \E t \in design.tables : t.columns # {}
              \/ design.entities = "columns", "columns")
    \cup When(design.transactions, "transactions")
    \cup When(FlowDiagrams(design) # {}, "4.7")
    \cup When(\E d \in FlowDiagrams(design) : d.file # "other", "mmd")

\* render_design_md.
RenderDesign(design) ==
    [written |-> TRUE,
     sections |-> AlwaysRendered \cup SolutionSections(design)
                    \cup When(design.nonFunctional, "5")
                    \cup When(design.cases # <<>>, "kinds")]

SectionRule(md, section, needed, rule) ==
    When(needed /\ section \notin md.sections, Warn(rule))

DesignMdRules(design, prd, md) ==
    IF ~md.written THEN {Warn("DES-201")}
    ELSE When(~(AlwaysRendered \subseteq md.sections), Warn("DES-201"))
         \cup SectionRule(md, "4.3", design.modules # <<>>, "DES-220")
         \cup SectionRule(md, "4.4", RealDeps(design) # <<>>, "DES-212")
         \cup SectionRule(md, "4.5", design.interfaces # <<>>, "DES-221")
         \cup SectionRule(md, "4.6", RequiresTables(design, prd), "DES-213")
         \cup SectionRule(md, "transactions", RequiresTransactions(prd), "DES-216")
         \cup SectionRule(md, "4.7", RequiresFlow(design, prd), "DES-206")
         \cup SectionRule(md, "mmd", RequiresFlow(design, prd) /\ "4.7" \in md.sections,
                          "DES-217")
         \cup SectionRule(md, "columns", design.tables # {}, "DES-218")
         \cup SectionRule(md, "kinds", design.cases # <<>>, "DES-219")
         \cup SectionRule(md, "4.2",
                          /\ Len(design.modules) >= 2 \/ RealDeps(design) # <<>>
                          /\ ~\E d \in design.diagrams : d.kind = "context", "DES-223")
         \cup SectionRule(md, "5", design.nonFunctional \/ RequiresNonFunctional(prd),
                          "DES-224")

-----------------------------------------------------------------------------
(***************************************************************************)
(* mermaid.py: the *.mmd files of the run directory, each with the kinds   *)
(* of diagram found in it ({"empty"}: no text), against the diagrams the   *)
(* design registers.  DES-204, on participants, only ever warns.           *)
(***************************************************************************)
Graded(condition, strict, rule) ==
    When(condition, IF strict THEN Error(rule) ELSE Warn(rule))

MermaidRules(design, prd, files, strict) ==
    LET found == UNION {files[f] : f \in DOMAIN files}
        named == {d \in design.diagrams : d.file # "other"}
        wanted == {"sequence", "flowchart"}
    IN IF ~RequiresDiagrams(design, prd) THEN {}
       ELSE IF DOMAIN files = {} THEN Graded(TRUE, strict, "DES-203")
       ELSE Graded(~(wanted \subseteq found) \/ \E f \in DOMAIN files : files[f] = {"empty"},
                   strict, "DES-203")
            \cup Graded(\/ ~(wanted \subseteq {d.kind : d \in design.diagrams})
                        \/ \E d \in named : /\ d.file \in DOMAIN files
                                            /\ d.kind \notin files[d.file],
                        strict, "DES-214")
            \cup When(\E d \in named : d.file \notin DOMAIN files, Warn("DES-214"))

-----------------------------------------------------------------------------
\* validate_design_rules and the other groups, as run_design_validate joins them.
DesignViolations(design, prd, md, files, strict) ==
    TaskRules(design) \cup ModuleRules(design) \cup OverviewRules(design)
    \cup TraceRules(design, prd) \cup PathRules(design) \cup ExecutionPlanRules(design)
    \cup CompletenessRules(design, prd) \cup TableRules(design) \cup ErrorRules(design)
    \cup CaseRules(design) \cup DomainRules(design) \cup InterfaceRules(design)
    \cup DesignMdRules(design, prd, md) \cup MermaidRules(design, prd, files, strict)
    \cup DesignSemanticRules(design, prd)

DesignReport(design, prd, md, files, gate) ==
    IF gate.enabled
    THEN Report(DesignViolations(design, prd, md, files, gate.strict),
                HitlRequired(design), gate)
    ELSE Report({}, FALSE, gate)
=============================================================================
